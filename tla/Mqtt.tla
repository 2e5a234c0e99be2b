--------------------------------- MODULE Mqtt ---------------------------------
(***************************************************************************)
(* The MQTT client: the publisher (ohs_th_mqtt_pub.h), the subscriber      *)
(* (ohs_th_mqtt_sub.h), the callbacks that run in the tcpip thread         *)
(* (ohs_mqtt_functions.h), the alert thread, which publishes too, and the  *)
(* changes of groups, zones and settings that are to be told to the        *)
(* broker.  lwIP's client, the network and the broker are external: `link' *)
(* and `flight' stand for them.                                            *)
(*                                                                         *)
(* A message names what to publish and not its content, which is read when *)
(* it is published; only the discovery messages carry theirs.              *)
(***************************************************************************)
EXTENDS Naturals, FiniteSets, Sequences

CONSTANTS Groups, Zones,
          HadGroups, HadZones, \* those with discovery enabled
          PoolSize,      \* MQTT_PUB_FIFO_SIZE: objects and mailbox slots
          SubPoolSize,   \* MQTT_SUB_FIFO_SIZE
          RetryEvery,    \* the values of counterMQTT, 256
          FirstCount,    \* its first value, 225
          MaxEvents      \* bound: refusals, losses, failed look-ups and errors,
                         \* changes to tell, alerts and commands, together

ASSUME MqttAssumption ==
  /\ IsFiniteSet(Groups) /\ IsFiniteSet(Zones)
  /\ HadGroups \subseteq Groups /\ HadZones \subseteq Zones
  /\ PoolSize \in Nat \ {0} /\ SubPoolSize \in Nat \ {0}
  /\ RetryEvery \in Nat \ {0} /\ FirstCount \in 0..(RetryEvery - 1)
  /\ MaxEvents \in Nat

VARIABLES link,        \* the connection: "down", "opening", "up"
          flight,      \* published and not yet called back
          setting,     \* the bits of conf.mqtt.setting that the code changes
          counterMQTT,
          mqttSem,     \* TRUE: available
          pool, mb,    \* mqtt_pub_pool and mqtt_pub_mb
          pub,         \* the publisher: its place and the message it holds
          alert,       \* the alert thread's place
          subPool, subMb, sub,
          group, zone, \* group[].setting and armDelay, zone[].lastEvent
          boot,        \* what the zone thread has still to publish at start
          broker,      \* what each topic said last
          lost,        \* topics whose last news was dropped
          unsaid,      \* groups that changed without a message
          events

core == <<group, zone, unsaid, boot>>
subs == <<subPool, subMb, sub>>
vars == <<link, flight, setting, counterMQTT, mqttSem, pool, mb, pub, alert,
          subs, core, broker, lost, events>>

------------------------------------------------------------------------------
(* Topics and contents: handleMqttPubSystem, ...Group and ...Zone.         *)

Topic(type, number, function) == [type |-> type, number |-> number, function |-> function]

SystemState == Topic("system", "on", "state")
GroupState == {Topic("group", g, "state") : g \in Groups}
ZoneState == {Topic("zone", z, "state") : z \in Zones}
Discovery == {Topic("system", "on", "HAD")} \union {Topic("group", g, "HAD") : g \in HadGroups}
               \union {Topic("zone", z, "HAD") : z \in HadZones}
Topics == {SystemState} \union GroupState \union ZoneState \union Discovery
AlertTopic == Topic("alert", "any", "text")

GroupText(s) ==
  IF s.alarm THEN "triggered"
  ELSE IF s.waitAuth THEN "disarming"
  ELSE IF s.armed THEN IF s.home THEN "armed_home" ELSE "armed_away"
  ELSE IF s.armDelay THEN "arming" ELSE "disarmed"

ZoneText(e) == CASE e = "O" -> "OK" [] e = "P" -> "alarm" [] e = "N" -> "unknown" [] OTHER -> "tamper"

(* What a topic should say now.                                            *)
News(t) ==
  IF t.function = "HAD" THEN IF setting.had THEN "config" ELSE "removed"
  ELSE CASE t.type = "alert" -> "text"
         [] t.type = "system" -> "On"
         [] t.type = "group" -> GroupText(group[t.number])
         [] t.type = "zone" -> ZoneText(zone[t.number])

Message(t) == [topic |-> t, extra |-> setting.had]

Content(m) ==
  IF m.topic.function = "HAD" THEN IF m.extra THEN "config" ELSE "removed"
  ELSE News(m.topic)

(* pushToMqtt and pushToMqttHAD, once for each topic of a sequence; those  *)
(* that find no object in the pool are lost ("FM").                        *)
Push(messages) ==
  LET sent == IF Len(messages) < pool THEN Len(messages) ELSE pool IN
    /\ mb' = mb \o SubSeq(messages, 1, sent)
    /\ pool' = pool - sent
Dropped(messages) == {messages[i].topic : i \in {j \in DOMAIN messages : j > pool}}

PushTopic(t) == Push(<<Message(t)>>) /\ lost' = lost \union Dropped(<<Message(t)>>)

NoPush == UNCHANGED <<mb, pool, lost>>

InOrder(S) == CHOOSE q \in [1..Cardinality(S) -> S] : \A i, j \in DOMAIN q : q[i] = q[j] => i = j

\* Mutant: the zones are not published again.
RefreshNothing == <<>>

RefreshZones == InOrder(ZoneState)
RefreshGroups == InOrder(GroupState)

Messages(topics) == [i \in DOMAIN topics |-> Message(topics[i])]

------------------------------------------------------------------------------
(* The callbacks of the client, in the tcpip thread.                       *)

Idle == [pc |-> "idle", msg |-> Message(AlertTopic)]

\* Mutant: the semaphore is left as it is.
ResetNot == UNCHANGED mqttSem

(* chBSemReset(&mqttSem, false): available.                                *)
ResetSem == mqttSem' = TRUE

(* mqttConnectionCB, accepted: the callbacks of the old connection never   *)
(* come, so the semaphore is reset.                                        *)
Accepted ==
  LET topics == <<SystemState>>
                \o (IF setting.had THEN <<Topic("system", "on", "HAD")>> ELSE <<>>)
                \o RefreshZones
      messages == Messages(topics)
      retold == {SystemState} \union ZoneState IN
    /\ link = "opening"
    /\ link' = "up"
    /\ setting' = [setting EXCEPT !.connectError = FALSE]
    /\ ResetSem
    /\ Push(messages)
    /\ lost' = (lost \ retold) \union Dropped(messages)
    /\ UNCHANGED <<flight, counterMQTT, pub, alert, subs, core, broker, events>>

(* mqttConnectionCB, any other status: refused, timed out or closed.  The  *)
(* requests under way are dropped without a callback, and the broker       *)
(* publishes the will.                                                     *)
Closed ==
  /\ link # "down" /\ events < MaxEvents
  /\ events' = events + 1
  /\ link' = "down"
  /\ setting' = [setting EXCEPT !.connectError = TRUE]
  /\ lost' = lost \union ({flight[i].topic : i \in DOMAIN flight} \ {AlertTopic})
  /\ flight' = <<>>
  /\ broker' = IF link = "up" THEN [broker EXCEPT ![SystemState] = "Off"] ELSE broker
  /\ UNCHANGED <<counterMQTT, mqttSem, pool, mb, pub, alert, subs, core>>

(* mqttPubRequestCB signals whatever the result.                           *)
mqttPubRequestCB(ok) == mqttSem' = TRUE

Delivered ==
  /\ flight # <<>>
  /\ mqttPubRequestCB(TRUE)
  /\ broker' = IF Head(flight).topic = AlertTopic THEN broker
               ELSE [broker EXCEPT ![Head(flight).topic] = Head(flight).content]
  /\ flight' = Tail(flight)
  /\ UNCHANGED <<link, setting, counterMQTT, pool, mb, pub, alert, subs, core, lost, events>>

RequestFailed ==
  /\ flight # <<>> /\ events < MaxEvents
  /\ events' = events + 1
  /\ mqttPubRequestCB(FALSE)
  /\ lost' = lost \union ({Head(flight).topic} \ {AlertTopic})
  /\ flight' = Tail(flight)
  /\ UNCHANGED <<link, setting, counterMQTT, pool, mb, pub, alert, subs, core, broker>>

------------------------------------------------------------------------------
(* The publisher.                                                          *)

(* The 1 s of chMBFetchTimeout pass without a message, and the client is   *)
(* not connected.                                                          *)
\* Mutant: the counter stops at its end.
CountToEnd(c) == IF c = RetryEvery - 1 THEN c ELSE c + 1

Count(c) == (c + 1) % RetryEvery

Check ==
  LET forced == counterMQTT = 0
      failed == setting.connectError /\ ~forced IN
    /\ pub.pc = "idle" /\ mb = <<>> /\ link # "up"
    /\ setting' = [setting EXCEPT !.connectError = failed]
    /\ IF failed \/ setting.addressError
       THEN counterMQTT' = Count(counterMQTT) /\ UNCHANGED pub
       ELSE pub' = [pub EXCEPT !.pc = "resolve"] /\ UNCHANGED counterMQTT
    /\ UNCHANGED <<link, flight, mqttSem, pool, mb, alert, subs, core, broker, lost, events>>

(* mqttDoConnect.  A failed look-up ends it; lwIP refuses to open what is  *)
(* open or opening.                                                        *)
Unresolved ==
  /\ pub.pc = "resolve" /\ events < MaxEvents
  /\ events' = events + 1
  /\ setting' = [setting EXCEPT !.addressError = TRUE]
  /\ counterMQTT' = Count(counterMQTT)
  /\ pub' = Idle
  /\ UNCHANGED <<link, flight, mqttSem, pool, mb, alert, subs, core, broker, lost>>

Connect ==
  /\ pub.pc = "resolve"
  /\ IF link = "down"
     THEN /\ link' = "opening"
          /\ setting' = [setting EXCEPT !.addressError = FALSE]
     ELSE /\ setting' = [setting EXCEPT !.addressError = FALSE, !.connectError = TRUE]
          /\ UNCHANGED link
  /\ counterMQTT' = Count(counterMQTT)
  /\ pub' = Idle
  /\ UNCHANGED <<flight, mqttSem, pool, mb, alert, subs, core, broker, lost, events>>

(* A message; with no connection it is dropped.                            *)
Fetch ==
  /\ pub.pc = "idle" /\ mb # <<>>
  /\ mb' = Tail(mb)
  /\ IF link = "up"
     THEN pub' = [pc |-> "wait", msg |-> Head(mb)] /\ UNCHANGED <<pool, lost>>
     ELSE pool' = pool + 1 /\ lost' = lost \union {Head(mb).topic} /\ UNCHANGED pub
  /\ UNCHANGED <<link, flight, setting, counterMQTT, mqttSem, alert, subs, core, broker, events>>

PubTakes ==
  /\ pub.pc = "wait" /\ mqttSem
  /\ mqttSem' = FALSE
  /\ pub' = [pub EXCEPT !.pc = "publish"]
  /\ UNCHANGED <<link, flight, setting, counterMQTT, pool, mb, alert, subs, core, broker, lost, events>>

\* Mutant: the object is not given back after a time-out.
GivesUpKeeping ==
  /\ pub.pc = "wait" /\ ~mqttSem
  /\ lost' = lost \union {pub.msg.topic}
  /\ pub' = Idle
  /\ UNCHANGED <<link, flight, setting, counterMQTT, mqttSem, pool, mb, alert, subs, core, broker, events>>

(* 100 ms without the semaphore: the message is dropped.                   *)
PubGivesUp ==
  /\ pub.pc = "wait" /\ ~mqttSem
  /\ lost' = lost \union {pub.msg.topic}
  /\ pool' = pool + 1
  /\ pub' = Idle
  /\ UNCHANGED <<link, flight, setting, counterMQTT, mqttSem, mb, alert, subs, core, broker, events>>

Publish ==
  LET t == pub.msg.topic
      content == Content(pub.msg) IN
    /\ pub.pc = "publish" /\ link = "up"
    /\ flight' = Append(flight, [topic |-> t, content |-> content])
    /\ lost' = IF content = News(t) /\ t \notin {mb[i].topic : i \in DOMAIN mb} THEN lost \ {t} ELSE lost
    /\ unsaid' = IF t \in GroupState THEN unsaid \ {t.number} ELSE unsaid
    /\ pool' = pool + 1
    /\ pub' = Idle
    /\ UNCHANGED <<link, setting, counterMQTT, mqttSem, mb, alert, subs, group, zone, boot, broker, events>>

(* mqtt_publish fails: no connection, or no room for the message.          *)
PublishFails ==
  /\ pub.pc = "publish"
  /\ IF link = "up" THEN events < MaxEvents /\ events' = events + 1 ELSE UNCHANGED events
  /\ mqttSem' = TRUE
  /\ lost' = lost \union {pub.msg.topic}
  /\ pool' = pool + 1
  /\ pub' = Idle
  /\ UNCHANGED <<link, flight, setting, counterMQTT, mb, alert, subs, core, broker>>

------------------------------------------------------------------------------
(* The alert thread's publication.                                         *)

Alert ==
  /\ alert = "idle" /\ events < MaxEvents
  /\ events' = events + 1
  /\ alert' = IF link = "up" THEN "wait" ELSE "idle"
  /\ UNCHANGED <<link, flight, setting, counterMQTT, mqttSem, pool, mb, pub, subs, core, broker, lost>>

AlertTakes ==
  /\ alert = "wait" /\ mqttSem
  /\ mqttSem' = FALSE /\ alert' = "publish"
  /\ UNCHANGED <<link, flight, setting, counterMQTT, pool, mb, pub, subs, core, broker, lost, events>>

AlertGivesUp ==
  /\ alert = "wait" /\ ~mqttSem
  /\ alert' = "idle"
  /\ UNCHANGED <<link, flight, setting, counterMQTT, mqttSem, pool, mb, pub, subs, core, broker, lost, events>>

AlertPublishes ==
  /\ alert = "publish"
  /\ alert' = "idle"
  /\ \/ /\ link = "up"
        /\ flight' = Append(flight, [topic |-> AlertTopic, content |-> "text"])
        /\ UNCHANGED <<mqttSem, events>>
     \/ /\ IF link = "up" THEN events < MaxEvents /\ events' = events + 1 ELSE UNCHANGED events
        /\ mqttSem' = TRUE
        /\ UNCHANGED flight
  /\ UNCHANGED <<link, setting, counterMQTT, pool, mb, pub, subs, core, broker, lost>>

------------------------------------------------------------------------------
(* What there is to tell.  The alarm core's changes and its messages.      *)

Change(g, s) == events < MaxEvents /\ events' = events + 1 /\ group' = [group EXCEPT ![g] = s]

Quietly == UNCHANGED <<link, flight, setting, counterMQTT, mqttSem, pub, alert, subs, boot, zone, broker>>

Disarmed == [alarm |-> FALSE, waitAuth |-> FALSE, armed |-> FALSE, home |-> FALSE, armDelay |-> FALSE]

(* armGroup.                                                               *)
Arming(g, home) == [group[g] EXCEPT !.home = @ \/ home, !.armDelay = TRUE]

armGroup(g, home) ==
  /\ ~group[g].armed
  /\ Change(g, Arming(g, home))
  /\ PushTopic(Topic("group", g, "state"))
  /\ UNCHANGED unsaid
  /\ Quietly

(* The zone thread at the end of the delay.                                *)
Armed(g) ==
  /\ group[g].armDelay
  /\ Change(g, [group[g] EXCEPT !.armed = TRUE, !.armDelay = FALSE])
  /\ PushTopic(Topic("group", g, "state"))
  /\ UNCHANGED unsaid
  /\ Quietly

(* An alarm event thread waits for authentication, and tells nobody.       *)
WaitAuth(g) ==
  /\ group[g].armed /\ ~group[g].alarm /\ ~group[g].waitAuth
  /\ Change(g, [group[g] EXCEPT !.waitAuth = TRUE])
  /\ unsaid' = unsaid \union {g}
  /\ NoPush
  /\ Quietly

Triggered(g) ==
  /\ group[g].waitAuth /\ ~group[g].alarm
  /\ Change(g, [group[g] EXCEPT !.alarm = TRUE])
  /\ PushTopic(Topic("group", g, "state"))
  /\ UNCHANGED unsaid
  /\ Quietly

disarmGroup(g) ==
  /\ Change(g, Disarmed)
  /\ PushTopic(Topic("group", g, "state"))
  /\ UNCHANGED unsaid
  /\ Quietly

(* A zone whose event differs from the one sent.                           *)
ZoneEvent(z, e) ==
  /\ events < MaxEvents /\ zone[z] # e
  /\ events' = events + 1
  /\ zone' = [zone EXCEPT ![z] = e]
  /\ PushTopic(Topic("zone", z, "state"))
  /\ UNCHANGED <<link, flight, setting, counterMQTT, mqttSem, pub, alert, subs, group, unsaid, boot, broker>>

(* mqttGlobalHAD: all topics of discovery, in the order of the code.       *)
mqttGlobalHAD(had) ==
  LET topics == <<Topic("system", "on", "HAD")>>
                \o InOrder({t \in Discovery : t.type = "group"})
                \o InOrder({t \in Discovery : t.type = "zone"})
  IN  [i \in DOMAIN topics |-> [topic |-> topics[i], extra |-> had]]

(* The settings page.                                                      *)
SwitchHAD ==
  LET messages == mqttGlobalHAD(~setting.had) IN
    /\ events < MaxEvents
    /\ events' = events + 1
    /\ setting' = [setting EXCEPT !.had = ~@]
    /\ Push(messages)
    /\ lost' = lost \union Dropped(messages)
    /\ UNCHANGED <<link, flight, counterMQTT, mqttSem, pub, alert, subs, core, broker>>

NewAddress ==
  /\ setting.addressError /\ events < MaxEvents
  /\ events' = events + 1
  /\ setting' = [setting EXCEPT !.addressError = FALSE]
  /\ UNCHANGED <<link, flight, counterMQTT, mqttSem, pool, mb, pub, alert, subs, core, broker, lost>>

(* The start of the zone thread: discovery, and a second later the groups, *)
(* connected or not.                                                       *)
Boot ==
  /\ boot # "done"
  /\ boot' = IF boot = "HAD" THEN "groups" ELSE "done"
  /\ LET messages == IF boot = "groups" THEN Messages(RefreshGroups)
                     ELSE IF setting.had THEN mqttGlobalHAD(TRUE) ELSE <<>> IN
       Push(messages) /\ lost' = lost \union Dropped(messages)
  /\ UNCHANGED <<link, flight, setting, counterMQTT, mqttSem, pub, alert, subs, group, zone, unsaid, broker, events>>

------------------------------------------------------------------------------
(* The subscriber.                                                         *)

Commands == [name : {"refreshZones", "refreshGroups"}, arg : {"any"}]
              \union [name : {"arm_home", "arm_away", "disarm"}, arg : Groups]

(* mqttSubDataCB.                                                          *)
mqttSubDataCB(c) ==
  /\ link = "up" /\ events < MaxEvents
  /\ events' = events + 1
  /\ IF subPool > 0 THEN subPool' = subPool - 1 /\ subMb' = Append(subMb, c)
     ELSE UNCHANGED <<subPool, subMb>>
  /\ UNCHANGED <<link, flight, setting, counterMQTT, mqttSem, pool, mb, pub, alert, sub, core, broker, lost>>

SubFetch ==
  /\ sub.pc = "idle" /\ subMb # <<>>
  /\ subMb' = Tail(subMb)
  /\ sub' = LET c == Head(subMb) IN
              [pc |-> IF c.name \in {"refreshZones", "refreshGroups"} THEN "refresh" ELSE "command",
               cmd |-> c,
               todo |-> CASE c.name = "refreshZones" -> RefreshZones
                          [] c.name = "refreshGroups" -> RefreshGroups
                          [] OTHER -> <<>>]
  /\ UNCHANGED <<link, flight, setting, counterMQTT, mqttSem, pool, mb, pub, alert, subPool, core, broker, lost, events>>

(* mqttRefreshZonesState and mqttRefreshGroupsState, one topic at a time:  *)
(* the publisher has the higher priority and runs in between.              *)
SubRefresh ==
  /\ sub.pc = "refresh"
  /\ IF sub.todo = <<>>
     THEN /\ sub' = [sub EXCEPT !.pc = "idle"]
          /\ subPool' = subPool + 1
          /\ NoPush
     ELSE /\ PushTopic(Head(sub.todo))
          /\ sub' = [sub EXCEPT !.todo = Tail(@)]
          /\ UNCHANGED subPool
  /\ UNCHANGED <<link, flight, setting, counterMQTT, mqttSem, pub, alert, subMb, core, broker, events>>

(* handleMqttSubGroup: armGroup or disarmGroup for an enabled group.       *)
SubCommand ==
  /\ sub.pc = "command"
  /\ LET g == sub.cmd.arg
         ignored == sub.cmd.name # "disarm" /\ group[g].armed IN
       IF ignored THEN NoPush /\ UNCHANGED group
       ELSE /\ group' = [group EXCEPT ![g] = IF sub.cmd.name = "disarm" THEN Disarmed
                                             ELSE Arming(g, sub.cmd.name = "arm_home")]
            /\ PushTopic(Topic("group", g, "state"))
  /\ sub' = [sub EXCEPT !.pc = "idle"]
  /\ subPool' = subPool + 1
  /\ UNCHANGED <<link, flight, setting, counterMQTT, mqttSem, pub, alert, subMb, zone, unsaid, boot, broker, events>>

------------------------------------------------------------------------------
NoErrors == [connectError |-> FALSE, addressError |-> FALSE, had |-> FALSE]

(* At start the address error is cleared; the connect error is restored    *)
(* with conf as it was.                                                    *)
Init ==
  /\ link = "down" /\ flight = <<>>
  /\ \E error \in BOOLEAN : setting = [NoErrors EXCEPT !.connectError = error]
  /\ counterMQTT = FirstCount /\ mqttSem = TRUE
  /\ pool = PoolSize /\ mb = <<>> /\ pub = Idle /\ alert = "idle"
  /\ subPool = SubPoolSize /\ subMb = <<>>
  /\ sub = [pc |-> "idle", cmd |-> [name |-> "refreshZones", arg |-> "any"], todo |-> <<>>]
  /\ group \in [Groups -> {[Disarmed EXCEPT !.armDelay = TRUE],
                           [Disarmed EXCEPT !.armed = TRUE, !.waitAuth = TRUE]}]
  /\ zone = [z \in Zones |-> "N"]
  /\ boot = "HAD"
  /\ broker = [t \in Topics |-> "nothing"]
  /\ lost = Topics /\ unsaid = {}
  /\ events = 0

tcpip == Accepted \/ Closed \/ Delivered \/ RequestFailed
MqttPubThread ==
  Check \/ Unresolved \/ Connect \/ Fetch \/ PubTakes \/ PubGivesUp \/ Publish \/ PublishFails
AlertThread == Alert \/ AlertTakes \/ AlertGivesUp \/ AlertPublishes
MqttSubThread == SubFetch \/ SubRefresh \/ SubCommand
Core ==
  \/ \E g \in Groups : \/ \E home \in BOOLEAN : armGroup(g, home)
                       \/ Armed(g) \/ WaitAuth(g) \/ Triggered(g) \/ disarmGroup(g)
  \/ \E z \in Zones, e \in {"O", "P", "T"} : ZoneEvent(z, e)
  \/ Boot

Next ==
  \/ tcpip \/ MqttPubThread \/ AlertThread \/ MqttSubThread \/ Core
  \/ SwitchHAD \/ NewAddress
  \/ \E c \in Commands : mqttSubDataCB(c)

Spec == Init /\ [][Next]_vars

(* The threads run and lwIP answers: it opens a connection or fails, and   *)
(* calls back every request of an open connection.                         *)
RunningSpec ==
  /\ Spec
  /\ WF_vars(MqttPubThread) /\ WF_vars(AlertTakes \/ AlertGivesUp \/ AlertPublishes)
  /\ WF_vars(MqttSubThread) /\ WF_vars(Boot)
  /\ WF_vars(Accepted) /\ WF_vars(Delivered)

------------------------------------------------------------------------------
(* Every object of the two pools is in its pool, in its mailbox or with    *)
(* its thread, whatever way the message ends.                              *)
Conserved ==
  /\ pool + Len(mb) + (IF pub.pc \in {"wait", "publish"} THEN 1 ELSE 0) = PoolSize
  /\ subPool + Len(subMb) + (IF sub.pc # "idle" THEN 1 ELSE 0) = SubPoolSize

(* While the client is connected the semaphore is never taken for good:    *)
(* somebody is about to publish, or a callback is due.  This is what lost  *)
(* callbacks and the reset at a new connection put at risk.                *)
SemComesBack ==
  link = "up" /\ ~mqttSem => flight # <<>> \/ pub.pc = "publish" \/ alert = "publish"

Pending(t) ==
  \/ \E i \in DOMAIN mb : mb[i].topic = t
  \/ pub.pc \in {"wait", "publish"} /\ pub.msg.topic = t
  \/ \E i \in DOMAIN flight : flight[i].topic = t

(* While the client is connected, a topic says what is true, or a message  *)
(* for it is under way, or the news was dropped, or nobody sent a message  *)
(* for it.  `lost' forgets, at a new connection, what the code publishes   *)
(* again: the system's and the zones' state.                               *)
BrokerIsTold ==
  link = "up" => \A t \in Topics :
    \/ broker[t] = News(t) \/ Pending(t) \/ t \in lost
    \/ t \in GroupState /\ t.number \in unsaid

(* When failures end the client is connected for good, unless a look-up    *)
(* failed since the address was set: only the settings page and a restart  *)
(* clear that error.                                                       *)
Reconnects == <>[](link = "up" \/ setting.addressError)
===============================================================================
