----------------------------- MODULE MCScripts ------------------------------
(* The trigger thread and the page; two scripts, one of them the trigger's.  *)
EXTENDS Scripts

CONSTANTS trigger, n1, n2

MCWaiters == {trigger}
MCNames   == {n1, n2}
MCUses    == trigger :> n1
MCPlaces  == 1 .. 2

MCSymmetry == Permutations(Events)
=============================================================================
