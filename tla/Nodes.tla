--------------------------------- MODULE Nodes ---------------------------------
(***************************************************************************)
(* The node table of the gateway and everybody who looks a node up, writes *)
(* its slot, or holds its index across a blocking send: the radio and the  *)
(* RS485 thread, the registration and the sensor thread, the removal of    *)
(* zombies by the service thread, and the node page.                       *)
(*                                                                         *)
(* The nodes and the two buses are external: `dev' is what a node has in   *)
(* its memory, and the outcome of a send says whether the message was      *)
(* delivered and whether its acknowledgement came back.  A block of code   *)
(* between two blocking calls is one step.                                 *)
(***************************************************************************)
EXTENDS Naturals, FiniteSets, Sequences, SequencesExt

CONSTANTS Sensors, Outputs, Keys,  \* node functions of type S, I and K
          Radio, Wired,            \* addresses on the two buses
          NodeSize,                \* NODE_SIZE
          RegSize, SensorSize, TriggerSize, \* sizes of the pools and mailboxes
          Hour,                    \* SECONDS_PER_HOUR, in ticks
          Readings                 \* what a sensor may report

Ids == Sensors \union Outputs \union Keys
Slots == 1..NodeSize
None == "none"
Dummy == 255

ASSUME NodesAssumption ==
  /\ NodeSize \in 1..254        \* an index fits a byte, and 255 is none
  /\ SensorSize \in Nat /\ Hour \in Nat
  /\ Outputs \intersect (Sensors \union Keys) = {} /\ None \notin Ids

VARIABLES conf,      \* the settings of this run: who exists where, triggers,
                     \* timers, and the bounds on time and on external events
          now, events,
          node,      \* node[]
          dev,       \* the nodes themselves
          called,    \* addresses that were asked to register
          pool,      \* free objects of the three pools
          registration_mb, sensor_mb, trigger_mb,
          radio, rs485, sensor, web, \* the threads
          webNode,
          last       \* history: what was last done to an output

tables == <<pool, registration_mb, sensor_mb, trigger_mb>>
nodeVars == <<conf, now, events, node, dev, called, tables, radio, rs485, sensor, web, webNode, last>>

By(who) == <<who, 0>>
Alive == DOMAIN conf.addr
At(a) == {x \in Alive : conf.addr[x] = a}
Event == events < conf.maxEvents /\ events' = events + 1

------------------------------------------------------------------------------
(* The table.                                                              *)

Free == [id |-> None, value |-> 0, lastOK |-> 0, setting |-> FALSE, queue |-> <<>>]

(* The first slot of those that satisfy a test, or no slot.                *)
FirstSlot(hits) == IF hits = {} THEN Dummy ELSE Min(hits)

getNodeIndex(x) == FirstSlot({s \in Slots : node[s].id = x})
getNodeFreeIndex == FirstSlot({s \in Slots : node[s].id = None})
Address(s) == conf.addr[node[s].id]
Held(a) == {s \in Slots : node[s].id # None /\ Address(s) = a}

(* A thread writes the value it sent into the slot it looked up before.    *)
WrittenTime(s, v) == [node EXCEPT ![s].lastOK = now]
Written(s, v) == [node EXCEPT ![s].value = v, ![s].lastOK = now]

(* What sendData() may come to, with all its repetitions.                  *)
Outcomes == {[got |-> TRUE, acked |-> TRUE], [got |-> TRUE, acked |-> FALSE],
             [got |-> FALSE, acked |-> FALSE]}

------------------------------------------------------------------------------
(* Frames of the nodes, put into the pools and mailboxes of the threads    *)
(* that handle them; what does not fit is dropped.                         *)

Room(free, msgs) == SubSeq(msgs, 1, Min({free, Len(msgs)}))

PostRegistrations(a) ==
  LET msgs == Room(pool.registration,
                   [i \in 1..Cardinality(At(a)) |->
                      LET x == SetToSeq(At(a))[i] IN [id |-> x, setting |-> dev[x].setting]])
  IN /\ registration_mb' = registration_mb \o msgs
     /\ pool' = [pool EXCEPT !.registration = @ - Len(msgs)]

PostReading(x, v) ==
  LET msgs == Room(pool.sensor, <<[id |-> x, value |-> v]>>)
  IN /\ sensor_mb' = sensor_mb \o msgs
     /\ pool' = [pool EXCEPT !.sensor = @ - Len(msgs)]

(* A node registers when it starts, with its outputs off, and when called. *)
Registers(a) ==
  /\ At(a) # {}
  /\ \/ /\ Event
        /\ dev' = [x \in Alive |-> IF x \in At(a) THEN [dev[x] EXCEPT !.out = 0] ELSE dev[x]]
        /\ last' = [x \in Outputs |-> IF x \in At(a) THEN By("none") ELSE last[x]]
     \/ a \in called /\ UNCHANGED <<events, dev, last>>
  /\ called' = called \ {a}
  /\ PostRegistrations(a)
  /\ UNCHANGED <<conf, now, node, sensor_mb, trigger_mb, rs485, sensor, web, webNode>>

Reports(x, v) ==
  /\ Event
  /\ PostReading(x, v)
  /\ UNCHANGED <<conf, now, node, dev, called, registration_mb, trigger_mb, sensor, web, webNode, last>>

(* A ping keeps every node of its address alive.                           *)
Kept(a) == [s \in Slots |-> IF s \in Held(a) THEN [node[s] EXCEPT !.lastOK = now] ELSE node[s]]

(* sendCmd(address, NODE_CMD_REGISTRATION)                                 *)
Calls(a) == \E heard \in BOOLEAN : called' = IF heard THEN called \union {a} ELSE called

------------------------------------------------------------------------------
(* The radio thread: a frame, and then what is queued for its sender.      *)

Idle == [pc |-> "idle"]

NextQueued(t, a, after) ==
  LET s == FirstSlot({q \in Slots : q > after /\ t[q].id # None /\ t[q].queue # <<>>
                                       /\ conf.addr[t[q].id] = a})
  IN IF s = Dummy THEN Idle ELSE [pc |-> "send", from |-> a, slot |-> s, copy |-> Head(t[s].queue)]

RadioRegistration(a) ==
  radio = Idle /\ a \in Radio /\ Registers(a) /\ radio' = NextQueued(node, a, 0)

RadioReading(x, v) ==
  /\ radio = Idle /\ conf.addr[x] \in Radio
  /\ Reports(x, v)
  /\ radio' = NextQueued(node, conf.addr[x], 0)
  /\ UNCHANGED rs485

RadioPing(a) ==
  /\ radio = Idle /\ a \in Radio /\ At(a) # {} /\ Event
  /\ node' = Kept(a)
  /\ radio' = IF Held(a) = {} THEN [pc |-> "call", from |-> a] ELSE NextQueued(node, a, 0)
  /\ UNCHANGED <<conf, now, dev, called, tables, rs485, sensor, web, webNode, last>>

(* A key was touched: checkKey() sends to the nodes of its group before    *)
(* its result is written.                                                  *)
RadioKey(x) ==
  /\ radio = Idle /\ conf.addr[x] \in Radio /\ Event
  /\ LET s == getNodeIndex(x)
     IN IF s = Dummy THEN radio' = [pc |-> "call", from |-> conf.addr[x]] /\ UNCHANGED node
        ELSE /\ node' = [node EXCEPT ![s].lastOK = now]
             /\ radio' = IF node[s].setting THEN [pc |-> "checkKey", from |-> conf.addr[x], slot |-> s]
                         ELSE NextQueued(node, conf.addr[x], 0)
  /\ UNCHANGED <<conf, now, dev, called, tables, rs485, sensor, web, webNode, last>>

RadioKeyDone ==
  /\ radio.pc = "checkKey"
  /\ node' = [node EXCEPT ![radio.slot].value = 1]
  /\ radio' = NextQueued(node, radio.from, 0)
  /\ UNCHANGED <<conf, now, events, dev, called, tables, rs485, sensor, web, webNode, last>>

RadioCall ==
  /\ radio.pc = "call"
  /\ Calls(radio.from)
  /\ radio' = NextQueued(node, radio.from, 0)
  /\ UNCHANGED <<conf, now, events, node, dev, tables, rs485, sensor, web, webNode, last>>

(* A queued message was sent; it leaves the queue of the slot it came from *)
(* when it was acknowledged, whatever the queue holds now.                 *)
RadioQueueSent ==
  /\ radio.pc = "send"
  /\ \E o \in Outcomes :
       LET t == IF o.acked THEN [node EXCEPT ![radio.slot].queue = <<>>] ELSE node
           x == radio.copy.id
       IN /\ node' = t
          /\ dev' = IF o.got /\ x \in Alive THEN [dev EXCEPT ![x].setting = radio.copy.setting] ELSE dev
          /\ radio' = NextQueued(t, radio.from, radio.slot)
  /\ UNCHANGED <<conf, now, events, called, tables, rs485, sensor, web, webNode, last>>

(* The RS485 thread: the same frames, and nothing is queued.               *)
WiredRegistration(a) == rs485 = Idle /\ a \in Wired /\ Registers(a) /\ UNCHANGED <<radio, rs485>>

WiredReading(x, v) ==
  rs485 = Idle /\ conf.addr[x] \in Wired /\ Reports(x, v) /\ UNCHANGED <<radio, rs485>>

WiredPing(a) ==
  /\ rs485 = Idle /\ a \in Wired /\ At(a) # {} /\ Event
  /\ node' = Kept(a)
  /\ rs485' = IF Held(a) = {} /\ a \notin conf.zoneAddress THEN [pc |-> "call", from |-> a] ELSE Idle
  /\ UNCHANGED <<conf, now, dev, called, tables, radio, sensor, web, webNode, last>>

(* A key on this bus; the thread waits in checkKey() like the other.       *)
WiredKey(x) ==
  /\ rs485 = Idle /\ conf.addr[x] \in Wired /\ Event
  /\ LET s == getNodeIndex(x)
     IN IF s = Dummy THEN rs485' = [pc |-> "call", from |-> conf.addr[x]] /\ UNCHANGED node
        ELSE /\ node' = [node EXCEPT ![s].lastOK = now]
             /\ rs485' = IF node[s].setting THEN [pc |-> "checkKey", slot |-> s] ELSE Idle
  /\ UNCHANGED <<conf, now, dev, called, tables, radio, sensor, web, webNode, last>>

WiredKeyDone ==
  /\ rs485.pc = "checkKey"
  /\ node' = [node EXCEPT ![rs485.slot].value = 1]
  /\ rs485' = Idle
  /\ UNCHANGED <<conf, now, events, dev, called, tables, radio, sensor, web, webNode, last>>

WiredCall ==
  /\ rs485.pc = "call"
  /\ Calls(rs485.from)
  /\ rs485' = Idle
  /\ UNCHANGED <<conf, now, events, node, dev, tables, radio, sensor, web, webNode, last>>

------------------------------------------------------------------------------
(* The registration thread.                                                *)

SlotForNew(m) == getNodeFreeIndex
SlotFor(m) == IF getNodeIndex(m.id) # Dummy THEN getNodeIndex(m.id) ELSE getNodeFreeIndex

Renewed(s, m) ==
  [node EXCEPT ![s].id = m.id, ![s].setting = m.setting, ![s].lastOK = now,
               ![s].value = IF m.id \in Keys THEN Dummy ELSE 0]

RegistrationThread ==
  /\ registration_mb # <<>>
  /\ LET m == Head(registration_mb)
         s == SlotFor(m)
     IN IF s = Dummy THEN UNCHANGED <<node, last>>
        ELSE /\ node' = Renewed(s, m)
             /\ last' = IF m.id \in Outputs THEN [last EXCEPT ![m.id] = By("none")] ELSE last
  /\ registration_mb' = Tail(registration_mb)
  /\ pool' = [pool EXCEPT !.registration = @ + 1]
  /\ UNCHANGED <<conf, now, events, dev, called, sensor_mb, trigger_mb, radio, rs485, sensor, web, webNode>>

------------------------------------------------------------------------------
(* The sensor thread: known and enabled, or called unless it was called    *)
(* just now.                                                               *)

SensorReading ==
  /\ sensor.pc = "idle" /\ sensor_mb # <<>>
  /\ LET m == Head(sensor_mb)
         s == getNodeIndex(m.id)
         known == s # Dummy /\ node[s].setting
         posted == IF known THEN Room(pool.trigger, <<m>>) ELSE <<>>
         calls == s = Dummy /\ (sensor.lastNode # conf.addr[m.id] \/ now > sensor.lastNodeTime)
     IN /\ node' = IF known THEN Written(s, m.value) ELSE node
        /\ trigger_mb' = trigger_mb \o posted
        /\ pool' = [pool EXCEPT !.trigger = @ - Len(posted), !.sensor = IF calls THEN @ ELSE @ + 1]
        /\ sensor' = IF calls THEN [sensor EXCEPT !.pc = "call", !.lastNode = conf.addr[m.id]] ELSE sensor
  /\ sensor_mb' = Tail(sensor_mb)
  /\ UNCHANGED <<conf, now, events, dev, called, registration_mb, radio, rs485, web, webNode, last>>

SensorCall ==
  /\ sensor.pc = "call"
  /\ Calls(sensor.lastNode)
  /\ sensor' = [sensor EXCEPT !.pc = "idle", !.lastNodeTime = now + 1]
  /\ pool' = [pool EXCEPT !.sensor = @ + 1]
  /\ UNCHANGED <<conf, now, events, node, dev, registration_mb, sensor_mb, trigger_mb, radio, rs485, web,
                 webNode, last>>

------------------------------------------------------------------------------
(* The service thread removes what was not heard of for an hour.  It frees *)
(* the queue of the node shown on the node page in place of that of the    *)
(* removed one: the page's node keeps a pointer to freed memory.           *)

Junk == [id |-> "junk", setting |-> FALSE]
Zombies == {s \in Slots : node[s].id # None /\ node[s].lastOK + Hour < now}

WithoutZombies ==
  [s \in Slots |->
     IF s \in Zombies THEN Free
     ELSE IF s = webNode /\ node[s].queue # <<>> /\ \E z \in Zombies : node[z].queue # <<>>
          THEN [node[s] EXCEPT !.queue = <<Junk>>]
     ELSE node[s]]

------------------------------------------------------------------------------
(* The node page: another node is chosen; or a setting is changed, sent,   *)
(* and queued when it is not acknowledged.                                 *)

PageSelect(s) ==
  /\ web = Idle /\ conf.page /\ s # webNode /\ node[s].id # None /\ Event
  /\ webNode' = s
  /\ UNCHANGED <<conf, now, node, dev, called, tables, radio, rs485, sensor, web, last>>

PageApply(v) ==
  /\ web = Idle /\ conf.page /\ node[webNode].id # None /\ Event
  /\ node' = [node EXCEPT ![webNode].setting = v]
  /\ web' = [pc |-> "apply", message |-> [id |-> node[webNode].id, setting |-> v]]
  /\ UNCHANGED <<conf, now, dev, called, tables, radio, rs485, sensor, webNode, last>>

PageApplied ==
  /\ web.pc = "apply"
  /\ \E o \in Outcomes :
       /\ dev' = IF o.got THEN [dev EXCEPT ![web.message.id].setting = web.message.setting] ELSE dev
       /\ node' = IF o.acked THEN node ELSE [node EXCEPT ![webNode].queue = <<web.message>>]
  /\ web' = Idle
  /\ UNCHANGED <<conf, now, events, called, tables, radio, rs485, sensor, webNode, last>>

------------------------------------------------------------------------------
NodesInit ==
  /\ now = 0 /\ events = 0
  /\ node = [s \in Slots |-> Free]
  /\ dev = [x \in Alive |-> [setting |-> TRUE, out |-> 0]]
  /\ called = {}
  /\ pool = [registration |-> RegSize, sensor |-> SensorSize, trigger |-> TriggerSize]
  /\ registration_mb = <<>> /\ sensor_mb = <<>> /\ trigger_mb = <<>>
  /\ radio = Idle /\ rs485 = Idle /\ web = Idle
  /\ sensor = [pc |-> "idle", lastNode |-> None, lastNodeTime |-> 0]
  /\ webNode = 1
  /\ last = [x \in Outputs |-> By("none")]

RadioThread ==
  \/ \E a \in Radio : RadioRegistration(a) \/ RadioPing(a)
  \/ \E x \in Sensors \intersect Alive, v \in Readings : RadioReading(x, v)
  \/ \E x \in Keys \intersect Alive : RadioKey(x)
  \/ RadioKeyDone \/ RadioCall \/ RadioQueueSent
RS485Thread ==
  \/ \E a \in Wired : WiredRegistration(a) \/ WiredPing(a)
  \/ \E x \in Sensors \intersect Alive, v \in Readings : WiredReading(x, v)
  \/ \E x \in Keys \intersect Alive : WiredKey(x)
  \/ WiredKeyDone \/ WiredCall
SensorThread == SensorReading \/ SensorCall
Page == (\E s \in Slots : PageSelect(s)) \/ (\E v \in BOOLEAN : PageApply(v)) \/ PageApplied

NodesNext == RadioThread \/ RS485Thread \/ RegistrationThread \/ SensorThread \/ Page

------------------------------------------------------------------------------
(* A node has one slot, although it registers again and again and its slot *)
(* is taken away and given to others in between: every look-up would find  *)
(* only the first of two.                                                  *)
OneSlotPerNode == \A s, t \in Slots : node[s].id = node[t].id /\ node[s].id # None => s = t
===============================================================================
