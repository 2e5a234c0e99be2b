------------------------------ MODULE MCAlarmNet ------------------------------
(* Commands from the network, by threads of low priority: MQTT messages and *)
(* the group page.                                                         *)
EXTENDS Alarm, TLC

MCZoneGroup == [z \in {0} |-> 0]
MCAuthTime  == [z \in {0} |-> 1]
MCReadings  == [z \in {0} |-> {"O", "P"}]
MCPrio      == [c \in Callers |-> IF c \in MqttSubs THEN 122 ELSE 11]
MCChain     == [g \in {0} |-> DUMMY_GROUP]
MCPir       == [g \in {0} |-> {"relay1"}]
MCTamper    == [g \in {0} |-> {"relay2"}]
=============================================================================
