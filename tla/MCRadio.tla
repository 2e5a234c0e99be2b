------------------------------ MODULE MCRadio ------------------------------
(* One sender beside the radio thread, two nodes, calls that overlap.       *)
EXTENDS Radio
=============================================================================
