---------------------------- MODULE MCAlarmLive ----------------------------
(* What must happen in the end: one group, a zone with an authentication   *)
(* time and a tamper contact, one alarm event thread, one key reader.      *)
EXTENDS Alarm

MCZoneGroup == [z \in {0} |-> 0]
MCAuthTime  == [z \in {0} |-> 1]
MCReadings  == [z \in {0} |-> {"O", "P", "T"}]
MCPrio      == [c \in Callers |-> 128]
MCChain     == [g \in {0} |-> DUMMY_GROUP]
MCPir       == [g \in {0} |-> {"relay1"}]
MCTamper    == [g \in {0} |-> {"relay2"}]
=============================================================================
