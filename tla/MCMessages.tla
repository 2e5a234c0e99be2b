------------------------------ MODULE MCMessages ------------------------------
(* A contact of the second group and one for everything; an entry of the    *)
(* first group and one of a zone; one SMS, a command.  Few events of few    *)
(* kinds come together; the kinds a load does not name do not come.         *)
EXTENDS Messages

MCContacts == <<[group |-> 1, global |-> FALSE], [group |-> 9, global |-> TRUE]>>

MCEntries == {[kind |-> "group", number |-> 0], [kind |-> "zone", number |-> 3]}

MCCommandIn == <<<<"get", "group", "status", "1">>>>

Scenario(group, zone, system, load) ==
  [conf |-> [group |-> group, zone |-> zone, system |-> system],
   events |-> [k \in {"log", "sms", "fault", "race", "mail", "sub", "battery"} |->
                 IF k \in DOMAIN load THEN load[k] ELSE 0]]

MCScenarios ==
  {Scenario({"SMS"}, {}, {}, [log |-> 1, sms |-> 1]),
   Scenario({"SMS", "Page", "Email", "MQTT"}, {"SMS"}, {}, [log |-> 2]),
   Scenario({}, {}, {"SMS", "Email"}, [battery |-> 1, mail |-> 1]),
   Scenario({}, {}, {}, [sms |-> 1, fault |-> 1]),
   Scenario({}, {}, {}, [sms |-> 1, race |-> 1]),
   Scenario({}, {"SMS", "Email"}, {}, [sub |-> 1, log |-> 1])}
===============================================================================
