---------------------------- MODULE MCAlarmPanel ----------------------------
(* One group, two zones, two key readers, and the panel it implements.        *)
EXTENDS Alarm, TLC

OneGroup(x) == [g \in {0} |-> x]
MCZoneGroup == [z \in {0, 1} |-> 0]
MCAuthTime  == [z \in {0, 1} |-> IF z = 0 THEN 1 ELSE 0]
MCReadings  == [z \in {0, 1} |-> {"O", "P"}]
MCPrio      == [c \in Callers |-> 128]
MCChain     == OneGroup(15)
MCPir       == OneGroup({"relay1"})
MCTamper    == OneGroup({"relay2"})

MCSymmetry == Permutations(Events) \union Permutations(AEThreads)
=============================================================================
