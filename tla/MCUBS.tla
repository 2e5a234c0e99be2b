-------------------------------- MODULE MCUBS --------------------------------
(* Four blocks of two units, one of them the name: texts of up to three        *)
(* blocks.                                                                     *)
EXTENDS UBS, TLC

MCSymmetry == Permutations(Names) \union Permutations(Texts)
=============================================================================
