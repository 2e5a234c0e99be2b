------------------------------ MODULE MCAlarm ------------------------------
(* Two groups that arm and disarm each other, a balanced remote zone in the *)
(* first, a key reader and the automatic arming, and resets.                *)
EXTENDS Alarm, TLC

MCZoneGroup == [z \in {0} |-> 0]
MCAuthTime  == [z \in {0} |-> 1]
MCReadings  == [z \in {0} |-> {}]
MCPrio      == [c \in Callers |-> 128]
MCChain     == [g \in {0, 1} |-> 1 - g]
MCPir       == [g \in {0, 1} |-> {"relay1"}]
MCTamper    == [g \in {0, 1} |-> {"relay2"}]
=============================================================================
