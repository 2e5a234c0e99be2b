-------------------------------- MODULE MCMqtt --------------------------------
(* The MQTT client with one group, one zone, and a pool smaller than what   *)
(* a switch of the discovery sends.                                         *)
EXTENDS Mqtt
===============================================================================
