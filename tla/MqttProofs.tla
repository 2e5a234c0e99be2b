----------------------------- MODULE MqttProofs -----------------------------
(***************************************************************************)
(* Proofs about the MQTT client, for any finite sets of groups and zones   *)
(* and any sizes of the two pools: first the objects and the semaphore,    *)
(* then that the broker is told.                                           *)
(***************************************************************************)
EXTENDS Mqtt, SequenceTheorems, FiniteSetTheorems, TLAPS

AllTopics == Topics \union {AlertTopic}
Msg == [topic : AllTopics, extra : BOOLEAN]

(* What the variables are.                                                 *)
MailType ==
  /\ pool \in Nat /\ mb \in Seq(Msg)
  /\ pub \in [pc : {"idle", "resolve", "wait", "publish"}, msg : Msg]
  /\ setting \in [connectError : BOOLEAN, addressError : BOOLEAN, had : BOOLEAN]
SubType ==
  /\ subPool \in Nat /\ subMb \in Seq(Commands)
  /\ sub \in [pc : {"idle", "refresh", "command"}, cmd : Commands, todo : Seq(Topics)]
TypeInv == MailType /\ SubType

------------------------------------------------------------------------------
(* Sequences of topics and messages.                                       *)

LEMMA TopicsFinite ==
  /\ IsFiniteSet(GroupState) /\ IsFiniteSet(ZoneState)
  /\ IsFiniteSet({t \in Discovery : t.type = "group"})
  /\ IsFiniteSet({t \in Discovery : t.type = "zone"})
<1> USE MqttAssumption
<1>1. IsFiniteSet(HadGroups) /\ IsFiniteSet(HadZones)
  BY FS_Subset
<1>2. /\ IsFiniteSet(GroupState) /\ IsFiniteSet(ZoneState)
      /\ IsFiniteSet({Topic("group", g, "HAD") : g \in HadGroups})
      /\ IsFiniteSet({Topic("zone", z, "HAD") : z \in HadZones})
  <2>1. ASSUME NEW S, IsFiniteSet(S), NEW type, NEW function
        PROVE  IsFiniteSet({Topic(type, x, function) : x \in S})
    <3> DEFINE f == [x \in S |-> Topic(type, x, function)]
    <3>1. f \in Surjection(S, {Topic(type, x, function) : x \in S})
      BY DEF Surjection
    <3> QED
      BY <2>1, <3>1, FS_Surjection
  <2> QED
    BY <1>1, <2>1 DEF GroupState, ZoneState
<1>3. IsFiniteSet(Discovery)
  BY <1>2, FS_Union, FS_Singleton DEF Discovery
<1> QED
  BY <1>2, <1>3, FS_Subset

LEMMA InOrderLists ==
  ASSUME NEW S, IsFiniteSet(S)
  PROVE  /\ InOrder(S) \in Seq(S)
         /\ \A x \in S : \E i \in DOMAIN InOrder(S) : InOrder(S)[i] = x
<1> DEFINE n == Cardinality(S)
           P(q) == \A i, j \in DOMAIN q : q[i] = q[j] => i = j
<1>1. n \in Nat /\ \E q \in [1..n -> S] : P(q)
  <2>1. n \in Nat /\ ExistsBijection(1..n, S)
    BY FS_CardinalityType
  <2>2. PICK q \in [1..n -> S] : \A i, j \in 1..n : q[i] = q[j] => i = j
    BY <2>1 DEF ExistsBijection, Bijection, Injection, IsInjective
  <2> QED
    BY <2>1, <2>2
<1>2. InOrder(S) \in [1..n -> S] /\ P(InOrder(S))
  BY <1>1 DEF InOrder
<1> HIDE DEF P
<1> DEFINE q == InOrder(S)
<1>3. q \in Injection(1..n, S)
  BY <1>2 DEF Injection, IsInjective, P
<1>4. IsFiniteSet(1..n) /\ Cardinality(1..n) = n
  BY <1>1, FS_Interval
<1>5. q \in Surjection(1..n, S)
  BY <1>1, <1>3, <1>4, FS_Injection
<1> QED
  BY <1>1, <1>2, <1>5, SeqDef DEF Surjection

LEMMA TopicsTyped ==
  /\ SystemState \in AllTopics /\ Topic("system", "on", "HAD") \in AllTopics
  /\ \A g \in Groups : Topic("group", g, "state") \in AllTopics
  /\ \A z \in Zones : Topic("zone", z, "state") \in AllTopics
  /\ AlertTopic \in AllTopics /\ Topics \subseteq AllTopics
BY DEF AllTopics, Topics, SystemState, GroupState, ZoneState, Discovery

LEMMA RefreshTyped ==
  /\ RefreshZones \in Seq(Topics) /\ RefreshGroups \in Seq(Topics)
  /\ \A t \in ZoneState : \E i \in DOMAIN RefreshZones : RefreshZones[i] = t
<1>1. /\ RefreshZones \in Seq(ZoneState) /\ RefreshGroups \in Seq(GroupState)
      /\ \A t \in ZoneState : \E i \in DOMAIN RefreshZones : RefreshZones[i] = t
  BY TopicsFinite, InOrderLists DEF RefreshZones, RefreshGroups
<1>2. ZoneState \subseteq Topics /\ GroupState \subseteq Topics
  BY DEF Topics
<1> QED
  BY <1>1, <1>2, SeqMonotonic

(* A list of topics, and the messages that name them.                      *)
LEMMA MessagesTyped ==
  ASSUME MailType, NEW q \in Seq(AllTopics)
  PROVE  /\ Messages(q) \in Seq(Msg) /\ DOMAIN Messages(q) = DOMAIN q
         /\ \A i \in DOMAIN q : Messages(q)[i] = [topic |-> q[i], extra |-> setting.had]
<1>1. Len(q) \in Nat /\ DOMAIN q = 1..Len(q) /\ \A i \in 1..Len(q) : q[i] \in AllTopics
  BY LenProperties, ElementOfSeq
<1>2. Messages(q) = [i \in 1..Len(q) |-> [topic |-> q[i], extra |-> setting.had]]
  BY <1>1 DEF Messages, Message
<1>3. setting.had \in BOOLEAN
  BY DEF MailType
<1>4. Messages(q) \in [1..Len(q) -> Msg]
  BY <1>1, <1>2, <1>3 DEF Msg
<1> QED
  BY <1>1, <1>2, <1>4, SeqDef

LEMMA DiscoveryMessages ==
  ASSUME NEW had \in BOOLEAN
  PROVE  /\ mqttGlobalHAD(had) \in Seq(Msg)
         /\ \A i \in DOMAIN mqttGlobalHAD(had) : mqttGlobalHAD(had)[i].extra = had
         /\ \A i \in DOMAIN mqttGlobalHAD(had) : mqttGlobalHAD(had)[i].topic \in Discovery
         /\ \A t \in Discovery : \E i \in DOMAIN mqttGlobalHAD(had) : mqttGlobalHAD(had)[i].topic = t
<1> DEFINE a == <<Topic("system", "on", "HAD")>>
           b == InOrder({t \in Discovery : t.type = "group"})
           c == InOrder({t \in Discovery : t.type = "zone"})
           q == a \o b \o c
<1>1. a \in Seq(Discovery) /\ Len(a) = 1 /\ a[1] = Topic("system", "on", "HAD")
  BY DEF Discovery
<1>2. /\ b \in Seq(Discovery) /\ c \in Seq(Discovery)
      /\ \A t \in {t \in Discovery : t.type = "group"} : \E i \in DOMAIN b : b[i] = t
      /\ \A t \in {t \in Discovery : t.type = "zone"} : \E i \in DOMAIN c : c[i] = t
  BY TopicsFinite, InOrderLists, SeqMonotonic
<1> HIDE DEF a, b, c
<1>3. /\ a \o b \in Seq(Discovery) /\ Len(a \o b) = Len(a) + Len(b)
      /\ \A i \in 1..Len(a) + Len(b) : (a \o b)[i] = IF i <= Len(a) THEN a[i] ELSE b[i - Len(a)]
  BY <1>1, <1>2, ConcatProperties
<1>4. /\ q \in Seq(Discovery) /\ Len(q) = Len(a) + Len(b) + Len(c)
      /\ \A i \in 1..Len(a) + Len(b) + Len(c) :
            q[i] = IF i <= Len(a) + Len(b) THEN (a \o b)[i] ELSE c[i - Len(a) - Len(b)]
  BY <1>2, <1>3, ConcatProperties
<1>5. /\ Len(a) \in Nat /\ Len(b) \in Nat /\ Len(c) \in Nat /\ Len(q) \in Nat
      /\ DOMAIN q = 1..Len(q) /\ DOMAIN b = 1..Len(b) /\ DOMAIN c = 1..Len(c)
  BY <1>1, <1>2, <1>4, LenProperties
<1>6. ASSUME NEW t \in Discovery PROVE \E i \in 1..Len(q) : q[i] = t
  <2>1. CASE t = Topic("system", "on", "HAD")
    <3>1. 1 \in 1..Len(a) + Len(b) /\ 1 \in 1..Len(q)
      BY <1>1, <1>4, <1>5
    <3>2. q[1] = t
      BY <1>1, <1>3, <1>4, <1>5, <2>1, <3>1
    <3> QED
      BY <3>1, <3>2
  <2>2. CASE t.type = "group"
    <3>1. PICK i \in 1..Len(b) : b[i] = t
      BY <1>2, <1>5, <2>2
    <3>2. i + 1 \in 1..Len(a) + Len(b) /\ i + 1 \in 1..Len(q) /\ ~(i + 1 <= Len(a)) /\ i + 1 - Len(a) = i
      BY <1>1, <1>4, <1>5
    <3>3. q[i + 1] = t
      BY <1>1, <1>3, <1>4, <1>5, <3>1, <3>2
    <3> QED
      BY <3>2, <3>3
  <2>3. CASE t.type = "zone"
    <3>1. PICK i \in 1..Len(c) : c[i] = t
      BY <1>2, <1>5, <2>3
    <3> DEFINE k == i + Len(b) + 1
    <3>2. k \in 1..Len(q) /\ ~(k <= Len(a) + Len(b)) /\ k - Len(a) - Len(b) = i
      BY <1>1, <1>4, <1>5
    <3>3. q[k] = t
      BY <1>4, <1>5, <3>1, <3>2
    <3> QED
      BY <3>2, <3>3
  <2>4. t = Topic("system", "on", "HAD") \/ t.type = "group" \/ t.type = "zone"
    BY DEF Discovery, Topic
  <2> QED
    BY <2>1, <2>2, <2>3, <2>4
<1> HIDE DEF q
<1>7. mqttGlobalHAD(had) = [i \in 1..Len(q) |-> [topic |-> q[i], extra |-> had]]
  BY <1>5 DEF mqttGlobalHAD, q, a, b, c
<1>8. \A i \in 1..Len(q) : q[i] \in Discovery /\ q[i] \in AllTopics
  BY <1>4, <1>5, ElementOfSeq DEF AllTopics, Topics
<1>9. mqttGlobalHAD(had) \in [1..Len(q) -> Msg]
  BY <1>7, <1>8 DEF Msg
<1>10. mqttGlobalHAD(had) \in Seq(Msg)
  BY <1>5, <1>9, SeqDef
<1> DEFINE m == mqttGlobalHAD(had)
<1>11. /\ DOMAIN m = 1..Len(q)
       /\ \A i \in 1..Len(q) : m[i].topic = q[i] /\ m[i].extra = had
  BY <1>7
<1> HIDE DEF m
<1>12. /\ \A i \in DOMAIN m : m[i].extra = had /\ m[i].topic \in Discovery
       /\ \A t \in Discovery : \E i \in DOMAIN m : m[i].topic = t
  BY <1>6, <1>8, <1>11
<1> QED
  BY <1>10, <1>12 DEF m

------------------------------------------------------------------------------
(* Messages put into the mailbox.                                          *)

LEMMA PushTyped ==
  ASSUME MailType, NEW ms \in Seq(Msg), Push(ms)
  PROVE  mb' \in Seq(Msg) /\ pool' \in Nat /\ pool' + Len(mb') = pool + Len(mb)
<1> DEFINE sent == IF Len(ms) < pool THEN Len(ms) ELSE pool
           s == SubSeq(ms, 1, sent)
<1>1. /\ pool \in Nat /\ mb \in Seq(Msg) /\ Len(mb) \in Nat /\ Len(ms) \in Nat
      /\ \A i \in 1..Len(ms) : ms[i] \in Msg
  BY ElementOfSeq, LenProperties DEF MailType
<1>2. sent \in Nat /\ sent <= pool /\ \A i \in 1..sent : ms[i] \in Msg
  BY <1>1
<1>3. mb' = mb \o s /\ pool' = pool - sent
  BY DEF Push
<1> HIDE DEF sent
<1>4. s \in Seq(Msg) /\ Len(s) = sent
  BY <1>2, SubSeqProperties
<1> HIDE DEF s
<1>5. mb \o s \in Seq(Msg) /\ Len(mb \o s) = Len(mb) + Len(s)
  BY <1>1, <1>4, ConcatProperties
<1> QED
  BY <1>1, <1>2, <1>3, <1>4, <1>5

LEMMA OneMessage ==
  ASSUME MailType, NEW t \in AllTopics
  PROVE  <<Message(t)>> \in Seq(Msg) /\ Len(<<Message(t)>>) = 1
<1>1. Message(t) \in Msg
  BY DEF Message, Msg, MailType
<1> QED
  BY <1>1

LEMMA PushTopicTyped ==
  ASSUME MailType, NEW t \in AllTopics, PushTopic(t)
  PROVE  mb' \in Seq(Msg) /\ pool' \in Nat /\ pool' + Len(mb') = pool + Len(mb)
BY OneMessage, PushTyped DEF PushTopic

(* A step that only pushes keeps what is said of the mailbox.              *)
Pushed == mb' \in Seq(Msg) /\ pool' \in Nat /\ pool' + Len(mb') = pool + Len(mb)

MailKept ==
  pool' + Len(mb') + (IF pub'.pc \in {"wait", "publish"} THEN 1 ELSE 0)
    = pool + Len(mb) + (IF pub.pc \in {"wait", "publish"} THEN 1 ELSE 0)
SubKept ==
  subPool' + Len(subMb') + (IF sub'.pc # "idle" THEN 1 ELSE 0)
    = subPool + Len(subMb) + (IF sub.pc # "idle" THEN 1 ELSE 0)

LEMMA PushedKeeps ==
  ASSUME MailType, Pushed, UNCHANGED pub,
         setting' \in [connectError : BOOLEAN, addressError : BOOLEAN, had : BOOLEAN]
  PROVE  MailType' /\ MailKept
<1>1. /\ pool \in Nat /\ Len(mb) \in Nat /\ pub' = pub /\ pool' \in Nat /\ Len(mb') \in Nat
      /\ pool' + Len(mb') = pool + Len(mb)
  BY LenProperties DEF MailType, Pushed
<1>2. MailKept
  BY <1>1 DEF MailKept
<1>3. MailType'
  BY DEF MailType, Pushed
<1> QED
  BY <1>2, <1>3

LEMMA SubUnchanged == ASSUME SubType, UNCHANGED subs PROVE SubType' /\ SubKept
BY DEF subs, SubType, SubKept

LEMMA MailUnchanged ==
  ASSUME MailType, UNCHANGED <<pool, mb, pub>>,
         setting' \in [connectError : BOOLEAN, addressError : BOOLEAN, had : BOOLEAN]
  PROVE  MailType' /\ MailKept
BY DEF MailType, MailKept

LEMMA SettingKept == ASSUME MailType, UNCHANGED setting
  PROVE setting' \in [connectError : BOOLEAN, addressError : BOOLEAN, had : BOOLEAN]
BY DEF MailType

------------------------------------------------------------------------------
(* The callbacks and the threads, one lemma for each.                      *)

LEMMA TcpipKeeps == ASSUME TypeInv, tcpip PROVE TypeInv' /\ MailKept /\ SubKept
<1> USE DEF TypeInv
<1>1. CASE Accepted
  <2> DEFINE topics == <<SystemState>>
                \o (IF setting.had THEN <<Topic("system", "on", "HAD")>> ELSE <<>>)
                \o RefreshZones
  <2>1. topics \in Seq(AllTopics)
    <3>1. <<SystemState>> \in Seq(AllTopics)
      BY TopicsTyped
    <3>2. (IF setting.had THEN <<Topic("system", "on", "HAD")>> ELSE <<>>) \in Seq(AllTopics)
      BY TopicsTyped
    <3>3. RefreshZones \in Seq(AllTopics)
      BY RefreshTyped, TopicsTyped, SeqMonotonic
    <3> QED
      BY <3>1, <3>2, <3>3, ConcatProperties
  <2> HIDE DEF topics
  <2>2. Push(Messages(topics)) /\ UNCHANGED <<pub, subs>>
        /\ setting' = [setting EXCEPT !.connectError = FALSE]
    BY <1>1 DEF Accepted, topics
  <2>3. Pushed
    BY <2>1, <2>2, MessagesTyped, PushTyped DEF Pushed
  <2>4. setting' \in [connectError : BOOLEAN, addressError : BOOLEAN, had : BOOLEAN]
    BY <2>2 DEF MailType
  <2> QED
    BY <2>2, <2>3, <2>4, PushedKeeps, SubUnchanged
<1>2. CASE Closed
  <2>1. UNCHANGED <<pool, mb, pub, subs>> /\ setting' = [setting EXCEPT !.connectError = TRUE]
    BY <1>2 DEF Closed
  <2>2. setting' \in [connectError : BOOLEAN, addressError : BOOLEAN, had : BOOLEAN]
    BY <2>1 DEF MailType
  <2> QED
    BY <2>1, <2>2, MailUnchanged, SubUnchanged
<1>3. CASE Delivered \/ RequestFailed
  <2>1. UNCHANGED <<pool, mb, pub, subs, setting>>
    BY <1>3 DEF Delivered, RequestFailed
  <2> QED
    BY <2>1, SettingKept, MailUnchanged, SubUnchanged
<1> QED
  BY <1>1, <1>2, <1>3 DEF tcpip

LEMMA PublisherKeeps == ASSUME TypeInv, MqttPubThread PROVE TypeInv' /\ MailKept /\ SubKept
<1> USE DEF TypeInv
<1> DEFINE Settings == [connectError : BOOLEAN, addressError : BOOLEAN, had : BOOLEAN]
<1>1. UNCHANGED subs
  BY DEF MqttPubThread, Check, Unresolved, Connect, Fetch, PubTakes, PubGivesUp, Publish, PublishFails
<1>2. SubType' /\ SubKept
  BY <1>1, SubUnchanged
<1>3. /\ pub.pc \in {"idle", "resolve", "wait", "publish"} /\ pub.msg \in Msg /\ setting \in Settings
      /\ pub = [pc |-> pub.pc, msg |-> pub.msg]
      /\ pool \in Nat /\ mb \in Seq(Msg) /\ Len(mb) \in Nat
  BY LenProperties DEF MailType
<1>4. Idle.pc = "idle" /\ Idle \in [pc : {"idle", "resolve", "wait", "publish"}, msg : Msg]
  BY <1>3, TopicsTyped DEF Idle, Message, Msg
<1>5. ASSUME NEW p \in {"resolve", "publish"}, pub' = [pub EXCEPT !.pc = p]
      PROVE  pub'.pc = p /\ pub' \in [pc : {"idle", "resolve", "wait", "publish"}, msg : Msg]
  BY <1>3, <1>5
<1>6. CASE Check \/ Unresolved \/ Connect \/ PubTakes
  <2>1. UNCHANGED <<pool, mb>>
    BY <1>6 DEF Check, Unresolved, Connect, PubTakes
  <2>2. setting' \in Settings
    <3>1. CASE Check
      <4>1. setting' = [setting EXCEPT !.connectError = setting.connectError /\ counterMQTT # 0]
        BY <3>1 DEF Check
      <4> QED
        BY <1>3, <4>1
    <3>2. CASE Unresolved
      BY <1>3, <3>2 DEF Unresolved
    <3>3. CASE Connect
      BY <1>3, <3>3 DEF Connect
    <3>4. CASE PubTakes
      BY <1>3, <3>4 DEF PubTakes
    <3> QED
      BY <1>6, <3>1, <3>2, <3>3, <3>4
  <2>3. /\ pub' \in [pc : {"idle", "resolve", "wait", "publish"}, msg : Msg]
        /\ (pub'.pc \in {"wait", "publish"}) = (pub.pc \in {"wait", "publish"})
    <3>1. CASE Check
      BY <1>3, <1>5, <3>1 DEF Check
    <3>2. CASE Unresolved \/ Connect
      BY <1>4, <3>2 DEF Unresolved, Connect
    <3>3. CASE PubTakes
      BY <1>3, <1>5, <3>3 DEF PubTakes
    <3> QED
      BY <1>6, <3>1, <3>2, <3>3
  <2>4. MailType'
    BY <1>3, <2>1, <2>2, <2>3 DEF MailType
  <2>5. MailKept
    BY <2>1, <2>3 DEF MailKept
  <2> QED
    BY <1>2, <2>4, <2>5
<1>7. CASE Fetch
  <2>1. /\ Head(mb) \in Msg /\ Tail(mb) \in Seq(Msg) /\ Len(Tail(mb)) = Len(mb) - 1 /\ Len(mb) >= 1
        /\ mb' = Tail(mb) /\ pub.pc = "idle" /\ setting' = setting
    BY <1>3, <1>7, HeadTailProperties, EmptySeq DEF Fetch
  <2>2. CASE link = "up"
    <3>1. pub' = [pc |-> "wait", msg |-> Head(mb)] /\ pool' = pool
      BY <1>7, <2>2 DEF Fetch
    <3> QED
      BY <1>2, <1>3, <2>1, <3>1 DEF MailType, MailKept
  <2>3. CASE link # "up"
    <3>1. pub' = pub /\ pool' = pool + 1
      BY <1>7, <2>3 DEF Fetch
    <3> QED
      BY <1>2, <1>3, <2>1, <3>1 DEF MailType, MailKept
  <2> QED
    BY <2>2, <2>3
<1>8. CASE PubGivesUp \/ Publish \/ PublishFails
  <2>1. pool' = pool + 1 /\ pub' = Idle /\ pub.pc \in {"wait", "publish"} /\ UNCHANGED <<mb, setting>>
    BY <1>8 DEF PubGivesUp, Publish, PublishFails
  <2> QED
    BY <1>2, <1>3, <1>4, <2>1 DEF MailType, MailKept
<1> QED
  BY <1>6, <1>7, <1>8 DEF MqttPubThread

LEMMA AlertKeeps == ASSUME TypeInv, AlertThread PROVE TypeInv' /\ MailKept /\ SubKept
<1> USE DEF TypeInv
<1>1. UNCHANGED <<pool, mb, pub, subs, setting>>
  BY DEF AlertThread, Alert, AlertTakes, AlertGivesUp, AlertPublishes
<1> QED
  BY <1>1, SettingKept, MailUnchanged, SubUnchanged

LEMMA CommandsTyped ==
  ASSUME NEW c \in Commands
  PROVE  /\ c.name \in {"refreshZones", "refreshGroups", "arm_home", "arm_away", "disarm"}
         /\ c.name \notin {"refreshZones", "refreshGroups"} => c.arg \in Groups
BY DEF Commands

LEMMA SubscriberKeeps ==
  ASSUME TypeInv, MqttSubThread, sub.pc = "command" => sub.cmd.arg \in Groups
  PROVE  TypeInv' /\ MailKept /\ SubKept
<1> USE DEF TypeInv
<1> DEFINE Subs == [pc : {"idle", "refresh", "command"}, cmd : Commands, todo : Seq(Topics)]
<1>1. /\ subPool \in Nat /\ subMb \in Seq(Commands) /\ Len(subMb) \in Nat
      /\ sub.pc \in {"idle", "refresh", "command"} /\ sub.cmd \in Commands /\ sub.todo \in Seq(Topics)
      /\ sub \in Subs
  BY LenProperties DEF SubType
<1>2. UNCHANGED <<setting, pub>>
  BY DEF MqttSubThread, SubFetch, SubRefresh, SubCommand
<1>3. CASE SubFetch
  <2>1. /\ Head(subMb) \in Commands /\ Tail(subMb) \in Seq(Commands)
        /\ Len(Tail(subMb)) = Len(subMb) - 1 /\ subMb' = Tail(subMb)
        /\ sub.pc = "idle" /\ subPool' = subPool /\ UNCHANGED <<pool, mb>>
    BY <1>1, <1>3, HeadTailProperties, EmptySeq DEF SubFetch
  <2>2. <<>> \in Seq(Topics)
    OBVIOUS
  <2>3. sub' \in Subs /\ sub'.pc # "idle"
    <3> DEFINE c == Head(subMb)
               p == IF c.name \in {"refreshZones", "refreshGroups"} THEN "refresh" ELSE "command"
               todo == CASE c.name = "refreshZones" -> RefreshZones
                         [] c.name = "refreshGroups" -> RefreshGroups
                         [] OTHER -> <<>>
    <3>1. todo \in Seq(Topics)
      BY <2>2, RefreshTyped
    <3>2. sub' = [pc |-> p, cmd |-> c, todo |-> todo]
      BY <1>3 DEF SubFetch
    <3> HIDE DEF todo
    <3> QED
      BY <2>1, <3>1, <3>2
  <2>4. SubType' /\ SubKept
    BY <1>1, <2>1, <2>3 DEF SubType, SubKept
  <2> QED
    BY <1>2, <2>1, <2>4, SettingKept, MailUnchanged
<1>4. CASE SubRefresh
  <2>1. CASE sub.todo = <<>>
    <3>1. /\ sub' = [sub EXCEPT !.pc = "idle"] /\ subPool' = subPool + 1
          /\ UNCHANGED <<mb, pool, subMb>> /\ sub.pc = "refresh"
      BY <1>4, <2>1 DEF SubRefresh, NoPush
    <3>2. SubType' /\ SubKept
      BY <1>1, <3>1 DEF SubType, SubKept
    <3> QED
      BY <1>2, <3>1, <3>2, SettingKept, MailUnchanged
  <2>2. CASE sub.todo # <<>>
    <3>1. /\ PushTopic(Head(sub.todo)) /\ sub' = [sub EXCEPT !.todo = Tail(sub.todo)]
          /\ UNCHANGED <<subPool, subMb>>
      BY <1>4, <2>2 DEF SubRefresh
    <3>2. Head(sub.todo) \in AllTopics /\ Tail(sub.todo) \in Seq(Topics)
      BY <1>1, <2>2, HeadTailProperties, EmptySeq DEF AllTopics
    <3>3. SubType' /\ SubKept
      BY <1>1, <3>1, <3>2 DEF SubType, SubKept
    <3> QED
      BY <1>2, <3>1, <3>2, <3>3, PushTopicTyped, PushedKeeps, SettingKept DEF Pushed
  <2> QED
    BY <2>1, <2>2
<1>5. CASE SubCommand
  <2>1. /\ sub' = [sub EXCEPT !.pc = "idle"] /\ subPool' = subPool + 1 /\ sub.pc = "command"
        /\ UNCHANGED subMb
        /\ UNCHANGED <<mb, pool>> \/ PushTopic(Topic("group", sub.cmd.arg, "state"))
    BY <1>5 DEF SubCommand, NoPush
  <2>2. SubType' /\ SubKept
    BY <1>1, <2>1 DEF SubType, SubKept
  <2>3. Topic("group", sub.cmd.arg, "state") \in AllTopics
    BY <2>1, TopicsTyped
  <2> QED
    BY <1>2, <2>1, <2>2, <2>3, PushTopicTyped, PushedKeeps, MailUnchanged, SettingKept DEF Pushed
<1> QED
  BY <1>3, <1>4, <1>5 DEF MqttSubThread

LEMMA CoreKeeps == ASSUME TypeInv, Core PROVE TypeInv' /\ MailKept /\ SubKept
<1> USE DEF TypeInv
<1>1. UNCHANGED <<pub, subs, setting>>
  BY DEF Core, armGroup, Armed, WaitAuth, Triggered, disarmGroup, ZoneEvent, Boot, Quietly
<1>2. \/ UNCHANGED <<mb, pool>>
      \/ \E t \in AllTopics : PushTopic(t)
      \/ \E ms \in Seq(Msg) : Push(ms)
  <2>1. CASE \E g \in Groups : \/ \E home \in BOOLEAN : armGroup(g, home)
                              \/ Armed(g) \/ WaitAuth(g) \/ Triggered(g) \/ disarmGroup(g)
    BY <2>1, TopicsTyped DEF armGroup, Armed, WaitAuth, Triggered, disarmGroup, NoPush
  <2>2. CASE \E z \in Zones, e \in {"O", "P", "T"} : ZoneEvent(z, e)
    BY <2>2, TopicsTyped DEF ZoneEvent
  <2>3. CASE Boot
    <3>1. Messages(RefreshGroups) \in Seq(Msg)
      BY RefreshTyped, TopicsTyped, SeqMonotonic, MessagesTyped
    <3>2. mqttGlobalHAD(TRUE) \in Seq(Msg) /\ <<>> \in Seq(Msg)
      <4>1. \A had \in BOOLEAN : mqttGlobalHAD(had) \in Seq(Msg)
        BY DiscoveryMessages
      <4>2. TRUE \in BOOLEAN /\ <<>> \in Seq(Msg)
        OBVIOUS
      <4> QED
        BY <4>1, <4>2, Zenon
    <3> DEFINE ms == IF boot = "groups" THEN Messages(RefreshGroups)
                     ELSE IF setting.had THEN mqttGlobalHAD(TRUE) ELSE <<>>
    <3>3. Push(ms)
      BY <2>3 DEF Boot
    <3>4. ms \in Seq(Msg)
      BY <3>1, <3>2
    <3> QED
      BY <3>3, <3>4
  <2> QED
    BY <2>1, <2>2, <2>3 DEF Core
<1> QED
  BY <1>1, <1>2, PushTyped, PushTopicTyped, PushedKeeps, MailUnchanged, SettingKept, SubUnchanged DEF Pushed

LEMMA SettingsKeep ==
  ASSUME TypeInv, SwitchHAD \/ NewAddress PROVE TypeInv' /\ MailKept /\ SubKept
<1> USE DEF TypeInv
<1>1. UNCHANGED <<pub, subs>>
  BY DEF SwitchHAD, NewAddress
<1>2. setting' \in [connectError : BOOLEAN, addressError : BOOLEAN, had : BOOLEAN]
  <2>1. setting \in [connectError : BOOLEAN, addressError : BOOLEAN, had : BOOLEAN]
    BY DEF MailType
  <2>2. CASE SwitchHAD
    <3>1. setting' = [setting EXCEPT !.had = ~setting.had]
      BY <2>2 DEF SwitchHAD
    <3>2. /\ [setting EXCEPT !.had = TRUE] \in [connectError : BOOLEAN, addressError : BOOLEAN, had : BOOLEAN]
          /\ [setting EXCEPT !.had = FALSE] \in [connectError : BOOLEAN, addressError : BOOLEAN, had : BOOLEAN]
      BY <2>1
    <3>3. \/ setting' = [setting EXCEPT !.had = TRUE]
          \/ setting' = [setting EXCEPT !.had = FALSE]
      <4>1. CASE setting.had
        <5>1. (~setting.had) = FALSE
          BY <4>1
        <5> QED
          BY <3>1, <5>1
      <4>2. CASE ~setting.had
        <5>1. (~setting.had) = TRUE
          BY <4>2
        <5> QED
          BY <3>1, <5>1
      <4> QED
        BY <4>1, <4>2
    <3> QED
      BY <3>2, <3>3
  <2>3. CASE NewAddress
    BY <2>1, <2>3 DEF NewAddress
  <2> QED
    BY <2>2, <2>3
<1>3. CASE SwitchHAD
  <2>1. \A had \in BOOLEAN : mqttGlobalHAD(had) \in Seq(Msg)
    BY DiscoveryMessages
  <2>2. Push(mqttGlobalHAD(~setting.had))
    BY <1>3 DEF SwitchHAD
  <2>3. mqttGlobalHAD(~setting.had) \in Seq(Msg)
    BY <2>1, Zenon
  <2> QED
    BY <1>1, <1>2, <2>2, <2>3, PushTyped, PushedKeeps, SubUnchanged DEF Pushed
<1>4. CASE NewAddress
  <2>1. UNCHANGED <<pool, mb>>
    BY <1>4 DEF NewAddress
  <2> QED
    BY <1>1, <1>2, <2>1, MailUnchanged, SubUnchanged
<1> QED
  BY <1>3, <1>4

LEMMA CallbackKeeps ==
  ASSUME TypeInv, NEW c \in Commands, mqttSubDataCB(c) PROVE TypeInv' /\ MailKept /\ SubKept
<1> USE DEF TypeInv
<1>1. UNCHANGED <<pool, mb, pub, setting, sub>>
  BY DEF mqttSubDataCB
<1>2. subPool \in Nat /\ subMb \in Seq(Commands) /\ Len(subMb) \in Nat
  BY LenProperties DEF SubType
<1>3. SubType' /\ SubKept
  <2>1. CASE subPool > 0
    <3>1. subPool' = subPool - 1 /\ subMb' = Append(subMb, c)
      BY <2>1 DEF mqttSubDataCB
    <3>2. Append(subMb, c) \in Seq(Commands) /\ Len(Append(subMb, c)) = Len(subMb) + 1
      BY <1>2, AppendProperties
    <3> QED
      BY <1>1, <1>2, <2>1, <3>1, <3>2 DEF SubType, SubKept
  <2>2. CASE ~(subPool > 0)
    <3>1. UNCHANGED <<subPool, subMb>>
      BY <2>2 DEF mqttSubDataCB
    <3> QED
      BY <1>1, <3>1 DEF SubType, SubKept
  <2> QED
    BY <2>1, <2>2
<1> QED
  BY <1>1, <1>3, SettingKept, MailUnchanged

------------------------------------------------------------------------------
GroupNamed == sub.pc = "command" => sub.cmd.arg \in Groups

LEMMA NamedKept == ASSUME TypeInv, GroupNamed, [Next]_vars PROVE GroupNamed'
<1>1. CASE SubFetch
  <2> DEFINE c == Head(subMb)
  <2>1. c \in Commands
    BY <1>1, HeadTailProperties, EmptySeq DEF SubFetch, TypeInv, SubType
  <2>2. sub'.pc = (IF c.name \in {"refreshZones", "refreshGroups"} THEN "refresh" ELSE "command")
        /\ sub'.cmd = c
    BY <1>1 DEF SubFetch
  <2> QED
    BY <2>1, <2>2, CommandsTyped DEF GroupNamed
<1>2. CASE SubRefresh \/ SubCommand
  <2>1. sub \in [pc : {"idle", "refresh", "command"}, cmd : Commands, todo : Seq(Topics)]
    BY DEF TypeInv, SubType
  <2>2. sub'.pc # "command"
    BY <1>2, <2>1 DEF SubRefresh, SubCommand
  <2> QED
    BY <2>2 DEF GroupNamed
<1>3. CASE UNCHANGED sub
  BY <1>3 DEF GroupNamed
<1>4. UNCHANGED sub \/ MqttSubThread
  BY DEF Next, vars, subs, tcpip, Accepted, Closed, Delivered, RequestFailed,
     MqttPubThread, Check, Unresolved, Connect, Fetch, PubTakes, PubGivesUp, Publish, PublishFails,
     AlertThread, Alert, AlertTakes, AlertGivesUp, AlertPublishes,
     Core, armGroup, Armed, WaitAuth, Triggered, disarmGroup, ZoneEvent, Boot, Quietly,
     SwitchHAD, NewAddress, mqttSubDataCB
<1> QED
  BY <1>1, <1>2, <1>3, <1>4 DEF MqttSubThread

LEMMA Keeps ==
  ASSUME TypeInv, GroupNamed, [Next]_vars PROVE TypeInv' /\ MailKept /\ SubKept
<1>1. CASE UNCHANGED vars
  BY <1>1, SettingKept, MailUnchanged, SubUnchanged DEF vars, TypeInv
<1> QED
  BY <1>1, TcpipKeeps, PublisherKeeps, AlertKeeps, SubscriberKeeps, CoreKeeps, SettingsKeep, CallbackKeeps
     DEF Next, GroupNamed

LEMMA Starts == Init => TypeInv /\ GroupNamed /\ Conserved
<1> SUFFICES ASSUME Init PROVE TypeInv /\ GroupNamed /\ Conserved
  OBVIOUS
<1>1. \E error \in BOOLEAN : setting = [connectError |-> error, addressError |-> FALSE, had |-> FALSE]
  BY DEF Init, NoErrors
<1>2. Idle.pc = "idle" /\ Idle \in [pc : {"idle", "resolve", "wait", "publish"}, msg : Msg]
  BY <1>1, TopicsTyped DEF Idle, Message, Msg
<1>3. /\ sub.pc = "idle" /\ sub \in [pc : {"idle", "refresh", "command"}, cmd : Commands, todo : Seq(Topics)]
  BY DEF Init, Commands
<1>4. /\ pool = PoolSize /\ mb = <<>> /\ pub = Idle
      /\ subPool = SubPoolSize /\ subMb = <<>>
      /\ PoolSize \in Nat /\ SubPoolSize \in Nat
      /\ <<>> \in Seq(Msg) /\ <<>> \in Seq(Commands) /\ Len(mb) = 0 /\ Len(subMb) = 0
  BY MqttAssumption DEF Init
<1>5. TypeInv
  BY <1>1, <1>2, <1>3, <1>4 DEF TypeInv, MailType, SubType
<1>6. GroupNamed
  BY <1>3 DEF GroupNamed
<1>7. Conserved
  BY <1>2, <1>3, <1>4 DEF Conserved
<1> QED
  BY <1>5, <1>6, <1>7

(***************************************************************************)
(* Each object of mqtt_pub_pool and mqtt_sub_pool is in its pool, in its   *)
(* mailbox or with its thread, in every behaviour: whatever way a message  *)
(* ends in MqttPubThread and MqttSubThread, its object is given back once. *)
(***************************************************************************)
THEOREM ObjectsConserved == Spec => []Conserved
<1>1. TypeInv /\ GroupNamed /\ Conserved /\ [Next]_vars => (TypeInv /\ GroupNamed /\ Conserved)'
  <2> SUFFICES ASSUME TypeInv, GroupNamed, Conserved, [Next]_vars
               PROVE  TypeInv' /\ GroupNamed' /\ Conserved'
    OBVIOUS
  <2>1. TypeInv' /\ GroupNamed' /\ MailKept /\ SubKept
    BY Keeps, NamedKept
  <2> QED
    BY <2>1 DEF Conserved, MailKept, SubKept
<1> QED
  BY Starts, <1>1, PTL DEF Spec

LEMMA TypeAlways == Spec => [](TypeInv /\ GroupNamed)
<1>1. TypeInv /\ GroupNamed /\ [Next]_vars => (TypeInv /\ GroupNamed)'
  BY Keeps, NamedKept
<1> QED
  BY Starts, <1>1, PTL DEF Spec

LEMMA AppendNotEmpty == ASSUME NEW s, NEW x PROVE Append(s, x) # <<>>
BY Z3

(***************************************************************************)
(* While the client is connected, mqttSem is taken only as long as a       *)
(* publication is under way: every callback, failed publication and        *)
(* accepted connection gives it back, and a closed connection, whose       *)
(* callbacks never come, leaves nothing for the time after the next one.   *)
(***************************************************************************)
THEOREM SemaphoreComesBack == Spec => []SemComesBack
<1>1. Init => SemComesBack
  BY DEF Init, SemComesBack
<1>2. TypeInv /\ SemComesBack /\ [Next]_vars => SemComesBack'
  <2> SUFFICES ASSUME TypeInv, SemComesBack, [Next]_vars, link' = "up", ~mqttSem'
               PROVE  flight' # <<>> \/ pub'.pc = "publish" \/ alert' = "publish"
    BY DEF SemComesBack
  <2> DEFINE Due == flight # <<>> \/ pub.pc = "publish" \/ alert = "publish"
  <2>1. link = "up" /\ ~mqttSem => Due
    BY DEF SemComesBack
  <2>2. CASE Accepted \/ Delivered \/ RequestFailed \/ PublishFails
    BY <2>2 DEF Accepted, ResetSem, Delivered, RequestFailed, mqttPubRequestCB, PublishFails
  <2>3. CASE Closed
    BY <2>3 DEF Closed
  <2>4. CASE PubTakes
    <3>1. pub \in [pc : {"idle", "resolve", "wait", "publish"}, msg : Msg]
      BY DEF TypeInv, MailType
    <3> QED
      BY <2>4, <3>1 DEF PubTakes
  <2>5. CASE AlertTakes
    BY <2>5 DEF AlertTakes
  <2>6. CASE Publish
    BY <2>6, AppendNotEmpty DEF Publish
  <2>7. CASE AlertPublishes
    <3>1. mqttSem' = TRUE \/ flight' = Append(flight, [topic |-> AlertTopic, content |-> "text"])
      BY <2>7 DEF AlertPublishes
    <3> QED
      BY <3>1, AppendNotEmpty
  <2>8. CASE Check \/ Unresolved \/ Connect \/ Fetch \/ PubGivesUp
    <3>1. pub.pc # "publish" /\ UNCHANGED <<flight, mqttSem, alert>> /\ link = "up"
      BY <2>8 DEF Check, Unresolved, Connect, Fetch, PubGivesUp
    <3> QED
      BY <2>1, <3>1
  <2>9. CASE Alert \/ AlertGivesUp
    <3>1. alert # "publish" /\ UNCHANGED <<flight, mqttSem, pub, link>>
      BY <2>9 DEF Alert, AlertGivesUp
    <3> QED
      BY <2>1, <3>1
  <2>10. CASE MqttSubThread \/ Core \/ SwitchHAD \/ NewAddress \/ (\E c \in Commands : mqttSubDataCB(c))
              \/ UNCHANGED vars
    <3>1. UNCHANGED <<flight, mqttSem, pub, link, alert>>
      BY <2>10 DEF MqttSubThread, SubFetch, SubRefresh, SubCommand, Core, armGroup, Armed, WaitAuth,
         Triggered, disarmGroup, ZoneEvent, Boot, Quietly, SwitchHAD, NewAddress, mqttSubDataCB, vars
    <3> QED
      BY <2>1, <3>1
  <2> QED
    BY <2>2, <2>3, <2>4, <2>5, <2>6, <2>7, <2>8, <2>9, <2>10
       DEF Next, tcpip, MqttPubThread, AlertThread
<1> QED
  BY <1>1, <1>2, TypeAlways, PTL DEF Spec
------------------------------------------------------------------------------
(* The broker is told.  The argument follows, for each topic, the newest   *)
(* message on its way: the last in the mailbox, or else the publisher's,   *)
(* or else the last request, or else what the broker has.                  *)

Contents == {"config", "removed", "text", "On", "triggered", "disarming", "armed_home", "armed_away",
             "arming", "disarmed", "OK", "alarm", "unknown", "tamper"}
Posts == [topic : AllTopics, content : Contents]

(* The elements of a sequence that are about a topic, and the last.        *)
About(s, t) == \E i \in DOMAIN s : s[i].topic = t
IsLast(s, t, i) == i \in DOMAIN s /\ s[i].topic = t /\ \A j \in DOMAIN s : j > i => s[j].topic # t

(* A message of discovery says what the setting is; the others carry       *)
(* nothing that could be old.                                              *)
Fresh(m, had) == m.topic.function = "HAD" => m.extra = had
Holds(p, t) == p.pc \in {"wait", "publish"} /\ p.msg.topic = t

(* The newest message for topic t says what is true: mailbox m, publisher  *)
(* p, requests f, what the broker has, the setting and the news.           *)
Newest(m, p, f, b, had, news, t) ==
  IF About(m, t) THEN \A i \in DOMAIN m : IsLast(m, t, i) => Fresh(m[i], had)
  ELSE IF Holds(p, t) THEN Fresh(p.msg, had)
  ELSE IF About(f, t) THEN \A i \in DOMAIN f : IsLast(f, t, i) => f[i].content = news
  ELSE b[t] = news

Excused(t) ==
  \/ t \in lost
  \/ t \in GroupState /\ t.number \in unsaid
  \/ t = SystemState /\ link # "up"

Told(t) == Excused(t) \/ Newest(mb, pub, flight, broker, setting.had, News(t), t)

NewsType ==
  /\ flight \in Seq(Posts)
  /\ DOMAIN broker = Topics /\ DOMAIN group = Groups /\ DOMAIN zone = Zones
ToldInv == NewsType /\ \A t \in Topics : Told(t)

------------------------------------------------------------------------------
(* Topics and contents.                                                    *)

LEMMA TopicKinds ==
  ASSUME NEW t \in Topics
  PROVE  /\ t # AlertTopic /\ t \in AllTopics
         /\ \/ t = SystemState /\ t.function = "state" /\ t.type = "system" /\ t \notin GroupState
            \/ t \in GroupState /\ t.function = "state" /\ t.type = "group" /\ t.number \in Groups
               /\ t = Topic("group", t.number, "state")
            \/ t \in ZoneState /\ t.function = "state" /\ t.type = "zone" /\ t.number \in Zones
               /\ t = Topic("zone", t.number, "state") /\ t \notin GroupState
            \/ t.function = "HAD" /\ t \in Discovery /\ t \notin GroupState
<1>1. t \in AllTopics
  BY DEF AllTopics
<1>2. CASE t = SystemState
  BY <1>1, <1>2 DEF SystemState, GroupState, Topic, AlertTopic
<1>3. CASE t \in GroupState
  BY <1>1, <1>3 DEF GroupState, Topic, AlertTopic
<1>4. CASE t \in ZoneState
  BY <1>1, <1>4 DEF GroupState, ZoneState, Topic, AlertTopic
<1>5. CASE t \in Discovery
  <2>1. t.function = "HAD"
    BY <1>5 DEF Discovery, Topic
  <2>2. t \notin GroupState /\ t # AlertTopic
    BY <2>1 DEF GroupState, Topic, AlertTopic
  <2> QED
    BY <1>1, <1>5, <2>1, <2>2
<1> QED
  BY <1>2, <1>3, <1>4, <1>5 DEF Topics

LEMMA NewsKept ==
  ASSUME NEW CONSTANT t \in Topics,
         t.function = "HAD" => setting'.had = setting.had,
         t \in GroupState => group'[t.number] = group[t.number],
         t \in ZoneState => zone'[t.number] = zone[t.number]
  PROVE  News(t)' = News(t)
<1>1. CASE t = SystemState /\ t.function = "state" /\ t.type = "system"
  BY <1>1 DEF News
<1>2. CASE t \in GroupState /\ t.function = "state" /\ t.type = "group"
  <2>1. News(t) = GroupText(group[t.number])
    BY <1>2 DEF News
  <2>2. News(t)' = GroupText(group'[t.number])
    BY <1>2 DEF News
  <2> QED
    BY <1>2, <2>1, <2>2
<1>3. CASE t \in ZoneState /\ t.function = "state" /\ t.type = "zone"
  <2>1. News(t) = ZoneText(zone[t.number])
    BY <1>3 DEF News
  <2>2. News(t)' = ZoneText(zone'[t.number])
    BY <1>3 DEF News
  <2> QED
    BY <1>3, <2>1, <2>2
<1>4. CASE t.function = "HAD"
  <2>1. News(t) = IF setting.had THEN "config" ELSE "removed"
    BY <1>4 DEF News
  <2>2. News(t)' = IF setting'.had THEN "config" ELSE "removed"
    BY <1>4 DEF News
  <2> QED
    BY <1>4, <2>1, <2>2
<1> QED
  BY <1>1, <1>2, <1>3, <1>4, TopicKinds

LEMMA ContentTyped == ASSUME NEW m, m.topic \in AllTopics PROVE Content(m) \in Contents
<1> DEFINE t == m.topic
<1>1. \A s : GroupText(s) \in Contents
  BY DEF GroupText, Contents
<1>2. \A e : ZoneText(e) \in Contents
  BY DEF ZoneText, Contents
<1>3. CASE t.function = "HAD"
  BY <1>3 DEF Content, Contents
<1>4. CASE t = AlertTopic
  <2>1. t.function = "text" /\ t.type = "alert"
    BY <1>4 DEF AlertTopic, Topic
  <2>2. Content(m) = News(t) /\ News(t) = "text"
    BY <2>1 DEF Content, News
  <2> QED
    BY <2>2 DEF Contents
<1>5. CASE t \in Topics /\ t.function # "HAD"
  <2>1. t.type \in {"system", "group", "zone"}
    BY <1>5, TopicKinds
  <2>2. Content(m) = News(t)
    BY <1>5 DEF Content
  <2>3. t.type = "system" => News(t) = "On"
    BY <1>5 DEF News
  <2>4. t.type = "group" => News(t) = GroupText(group[t.number])
    BY <1>5 DEF News
  <2>5. t.type = "zone" => News(t) = ZoneText(zone[t.number])
    BY <1>5 DEF News
  <2>6. "On" \in Contents
    BY DEF Contents
  <2> QED
    BY <1>1, <1>2, <2>1, <2>2, <2>3, <2>4, <2>5, <2>6
<1> QED
  BY <1>3, <1>4, <1>5 DEF AllTopics

LEMMA FreshContent ==
  ASSUME NEW m, Fresh(m, setting.had)
  PROVE  Content(m) = News(m.topic)
<1>1. CASE m.topic.function = "HAD"
  BY <1>1 DEF Fresh, Content, News
<1>2. CASE m.topic.function # "HAD"
  BY <1>2 DEF Content
<1> QED
  BY <1>1, <1>2

------------------------------------------------------------------------------
(* What is the last about a topic when a sequence changes.                 *)

LEMMA LastOfTail ==
  ASSUME NEW S, NEW s \in Seq(S), s # <<>>, NEW t
  PROVE  /\ About(Tail(s), t) => About(s, t)
         /\ About(s, t) /\ ~About(Tail(s), t) => Head(s).topic = t /\ 1 \in DOMAIN s /\ IsLast(s, t, 1)
         /\ Head(s) = s[1]
         /\ Head(s).topic # t => (About(s, t) <=> About(Tail(s), t))
         /\ \A i \in DOMAIN Tail(s) : IsLast(Tail(s), t, i) =>
               IsLast(s, t, i + 1) /\ i + 1 \in DOMAIN s /\ Tail(s)[i] = s[i + 1]
<1>1. /\ Len(s) \in Nat /\ Len(s) >= 1 /\ DOMAIN s = 1..Len(s) /\ Head(s) = s[1]
      /\ DOMAIN Tail(s) = 1..Len(s) - 1
      /\ \A i \in 1..Len(s) - 1 : Tail(s)[i] = s[i + 1]
  BY HeadTailProperties, LenProperties, EmptySeq
<1> DEFINE u == Tail(s)
<1> HIDE DEF u
<1>2. DOMAIN u = 1..Len(s) - 1 /\ \A i \in 1..Len(s) - 1 : u[i] = s[i + 1]
  BY <1>1 DEF u
<1>3. About(u, t) => About(s, t)
  BY <1>1, <1>2 DEF About
<1>4. \A i \in 1..Len(s) : i = 1 \/ (i - 1 \in 1..Len(s) - 1 /\ u[i - 1] = s[i])
  BY <1>1, <1>2
<1>5. ~About(u, t) => \A i \in 1..Len(s) : s[i].topic = t => i = 1
  BY <1>1, <1>2, <1>4 DEF About
<1>6. About(s, t) /\ ~About(u, t) => s[1].topic = t /\ IsLast(s, t, 1)
  BY <1>1, <1>5 DEF About, IsLast
<1>7. s[1].topic # t => (About(s, t) <=> About(u, t))
  BY <1>1, <1>3, <1>5 DEF About
<1>8. ASSUME NEW i \in 1..Len(s) - 1, IsLast(u, t, i)
      PROVE  IsLast(s, t, i + 1) /\ i + 1 \in 1..Len(s) /\ u[i] = s[i + 1]
  <2>1. i + 1 \in 1..Len(s) /\ s[i + 1].topic = t
    BY <1>1, <1>2, <1>8 DEF IsLast
  <2>2. ASSUME NEW j \in 1..Len(s), j > i + 1 PROVE s[j].topic # t
    <3>1. j - 1 \in 1..Len(s) - 1 /\ j - 1 > i /\ u[j - 1] = s[j]
      BY <1>1, <1>4, <2>2
    <3> QED
      BY <1>2, <1>8, <3>1 DEF IsLast
  <2> QED
    BY <1>1, <1>2, <2>1, <2>2 DEF IsLast
<1> QED
  BY <1>1, <1>2, <1>3, <1>6, <1>7, <1>8 DEF u

(* u is s with e behind it, as topic t sees it.                            *)
Ends(u, s, e, t) ==
  /\ e.topic = t => About(u, t)
        /\ \A i \in DOMAIN u : IsLast(u, t, i) => u[i] = e
  /\ e.topic # t => (About(u, t) <=> About(s, t))
        /\ \A i \in DOMAIN u : IsLast(u, t, i) =>
              i \in DOMAIN s /\ IsLast(s, t, i) /\ u[i] = s[i]

LEMMA LastOfAppend ==
  ASSUME NEW S, NEW s \in Seq(S), NEW e \in S, NEW t
  PROVE  Ends(Append(s, e), s, e, t)
<1> DEFINE u == Append(s, e)
<1>1. /\ Len(s) \in Nat /\ DOMAIN s = 1..Len(s) /\ DOMAIN u = 1..Len(s) + 1
      /\ \A i \in 1..Len(s) : u[i] = s[i]
      /\ u[Len(s) + 1] = e
  BY AppendProperties, LenProperties
<1> HIDE DEF u
<1>2. \A i \in 1..Len(s) + 1 : i \in 1..Len(s) \/ i = Len(s) + 1
  BY <1>1
<1>3. ASSUME e.topic = t
      PROVE  About(u, t) /\ \A i \in DOMAIN u : IsLast(u, t, i) => u[i] = e
  <2>1. Len(s) + 1 \in DOMAIN u /\ \A i \in 1..Len(s) : Len(s) + 1 > i
    BY <1>1
  <2> QED
    BY <1>1, <1>2, <1>3, <2>1 DEF About, IsLast
<1>4. ASSUME e.topic # t
      PROVE  /\ About(u, t) <=> About(s, t)
             /\ \A i \in DOMAIN u : IsLast(u, t, i) => i \in DOMAIN s /\ IsLast(s, t, i) /\ u[i] = s[i]
  <2>1. \A i \in 1..Len(s) : i \in DOMAIN u
    BY <1>1
  <2> QED
    BY <1>1, <1>2, <1>4, <2>1 DEF About, IsLast
<1> QED
  BY <1>3, <1>4 DEF Ends, u

(* u is s with the first k elements of q behind it, as topic t sees it.    *)
Extends(u, s, q, k, t) ==
  /\ (\E i \in 1..k : q[i].topic = t) =>
        /\ About(u, t)
        /\ \A i \in DOMAIN u : IsLast(u, t, i) => \E j \in 1..k : u[i] = q[j]
  /\ (\A i \in 1..k : q[i].topic # t) =>
        /\ About(u, t) <=> About(s, t)
        /\ \A i \in DOMAIN u : IsLast(u, t, i) => i \in DOMAIN s /\ IsLast(s, t, i) /\ u[i] = s[i]

LEMMA LastOfPush ==
  ASSUME NEW s \in Seq(Msg), NEW q \in Seq(Msg), NEW k \in 0..Len(q), NEW t
  PROVE  Extends(s \o SubSeq(q, 1, k), s, q, k, t)
<1> DEFINE u == s \o SubSeq(q, 1, k)
<1> DEFINE r == SubSeq(q, 1, k)
<1>1. Len(q) \in Nat /\ k \in Nat /\ k <= Len(q) /\ Len(s) \in Nat /\ DOMAIN s = 1..Len(s)
      /\ \A i \in 1..Len(q) : q[i] \in Msg
  BY LenProperties, ElementOfSeq
<1>2. r \in Seq(Msg) /\ Len(r) = k /\ \A i \in 1..k : r[i] = q[i]
  BY <1>1, SubSeqProperties
<1> HIDE DEF r
<1>3. /\ s \o r \in Seq(Msg) /\ Len(s \o r) = Len(s) + Len(r)
      /\ \A i \in 1..Len(s) + Len(r) : (s \o r)[i] = IF i <= Len(s) THEN s[i] ELSE r[i - Len(s)]
  BY <1>2, ConcatProperties
<1>4. u = s \o r
  BY DEF r
<1> HIDE DEF u
<1>5. DOMAIN u = 1..Len(s) + k
  BY <1>1, <1>2, <1>3, <1>4, LenProperties
<1>6. \A i \in 1..Len(s) : i \in DOMAIN u /\ u[i] = s[i]
  BY <1>1, <1>2, <1>3, <1>4, <1>5
<1>7. \A i \in 1..k : Len(s) + i \in DOMAIN u /\ u[Len(s) + i] = q[i]
  <2> TAKE i \in 1..k
  <2>1. Len(s) + i \in 1..Len(s) + k /\ ~(Len(s) + i <= Len(s)) /\ Len(s) + i - Len(s) = i
    BY <1>1
  <2> QED
    BY <1>2, <1>3, <1>4, <1>5, <2>1
<1>8. \A i \in DOMAIN u : i \in 1..Len(s) \/ \E j \in 1..k : i = Len(s) + j
  <2> TAKE i \in DOMAIN u
  <2>1. i \in 1..Len(s) \/ (i - Len(s) \in 1..k /\ i = Len(s) + (i - Len(s)))
    BY <1>1, <1>5
  <2> QED
    BY <2>1
<1>9. \A i \in 1..Len(s) : \A j \in 1..k : Len(s) + j > i
  BY <1>1
<1>10. ASSUME NEW n \in 1..k, q[n].topic = t
       PROVE  About(u, t) /\ \A i \in DOMAIN u : IsLast(u, t, i) => \E j \in 1..k : u[i] = q[j]
  <2>1. About(u, t)
    BY <1>7, <1>10 DEF About
  <2>2. ASSUME NEW i \in DOMAIN u, IsLast(u, t, i) PROVE i \notin 1..Len(s)
    BY <1>7, <1>9, <1>10, <2>2 DEF IsLast
  <2> QED
    BY <1>7, <1>8, <2>1, <2>2
<1>11. ASSUME \A i \in 1..k : q[i].topic # t
       PROVE  /\ About(u, t) <=> About(s, t)
              /\ \A i \in DOMAIN u : IsLast(u, t, i) => i \in DOMAIN s /\ IsLast(s, t, i) /\ u[i] = s[i]
  <2>1. \A i \in DOMAIN u : u[i].topic = t => i \in 1..Len(s) /\ u[i] = s[i]
    <3> TAKE i \in DOMAIN u
    <3>1. ASSUME NEW j \in 1..k, i = Len(s) + j PROVE u[i].topic # t
      BY <1>7, <1>11, <3>1
    <3> QED
      BY <1>6, <1>8, <3>1
  <2>2. About(u, t) <=> About(s, t)
    BY <1>1, <1>6, <2>1 DEF About
  <2>3. ASSUME NEW i \in DOMAIN u, IsLast(u, t, i) PROVE i \in DOMAIN s /\ IsLast(s, t, i) /\ u[i] = s[i]
    BY <1>1, <1>6, <2>1, <2>3 DEF IsLast
  <2> QED
    BY <2>2, <2>3
<1> QED
  BY <1>10, <1>11 DEF Extends, u

------------------------------------------------------------------------------
(* What a step does to one topic.                                          *)

(* The mailbox stays.  What the publisher holds of the topic stays, and if *)
(* neither has anything of it, the last request, or else the broker, says  *)
(* the news.                                                               *)
LEMMA ToldStep ==
  ASSUME NEW CONSTANT t \in Topics, Told(t), UNCHANGED mb,
         Holds(pub', t) <=> Holds(pub, t), Holds(pub, t) => pub'.msg = pub.msg,
         t.function = "HAD" => setting'.had = setting.had,
         Excused(t) => Excused(t)',
         ~About(mb, t) /\ ~Holds(pub, t)
           /\ (IF About(flight, t)
               THEN \A i \in DOMAIN flight : IsLast(flight, t, i) => flight[i].content = News(t)
               ELSE broker[t] = News(t)) =>
           IF About(flight', t)
           THEN \A i \in DOMAIN flight' : IsLast(flight', t, i) => flight'[i].content = News(t)'
           ELSE broker'[t] = News(t)'
  PROVE  Told(t)'
<1>1. CASE Excused(t)
  BY <1>1 DEF Told
<1>2. CASE Newest(mb, pub, flight, broker, setting.had, News(t), t)
  <2>1. \A m : m.topic = t => (Fresh(m, setting.had) => Fresh(m, setting'.had))
    BY DEF Fresh
  <2>2. /\ About(mb', t) <=> About(mb, t)
        /\ Holds(pub, t) => pub.msg.topic = t
    BY DEF About, Holds
  <2>3. Newest(mb', pub', flight', broker', setting'.had, News(t)', t)
    <3>1. CASE About(mb, t)
      <4>1. \A i \in DOMAIN mb : IsLast(mb, t, i) => Fresh(mb[i], setting.had) /\ mb[i].topic = t
        BY <1>2, <3>1 DEF Newest, IsLast
      <4>2. \A i \in DOMAIN mb' : IsLast(mb', t, i) => Fresh(mb'[i], setting'.had)
        BY <2>1, <4>1
      <4> QED
        BY <2>2, <3>1, <4>2 DEF Newest
    <3>2. CASE ~About(mb, t) /\ Holds(pub, t)
      <4>1. Fresh(pub.msg, setting.had)
        BY <1>2, <3>2 DEF Newest
      <4>2. Fresh(pub'.msg, setting'.had)
        BY <2>1, <2>2, <3>2, <4>1
      <4> QED
        BY <2>2, <3>2, <4>2 DEF Newest
    <3>3. CASE ~About(mb, t) /\ ~Holds(pub, t)
      <4>1. IF About(flight, t)
            THEN \A i \in DOMAIN flight : IsLast(flight, t, i) => flight[i].content = News(t)
            ELSE broker[t] = News(t)
        BY <1>2, <3>3 DEF Newest
      <4>2. IF About(flight', t)
            THEN \A i \in DOMAIN flight' : IsLast(flight', t, i) => flight'[i].content = News(t)'
            ELSE broker'[t] = News(t)'
        BY <3>3, <4>1
      <4> QED
        BY <2>2, <3>3, <4>2 DEF Newest
    <3> QED
      BY <3>1, <3>2, <3>3
  <2> QED
    BY <2>3 DEF Told
<1> QED
  BY <1>1, <1>2 DEF Told

(* Nothing that concerns the topic changes.                                *)
LEMMA ToldFrame ==
  ASSUME NEW CONSTANT t \in Topics, Told(t), UNCHANGED <<mb, flight>>, broker'[t] = broker[t],
         Holds(pub', t) <=> Holds(pub, t), Holds(pub, t) => pub'.msg = pub.msg,
         t.function = "HAD" => setting'.had = setting.had, News(t)' = News(t),
         Excused(t) => Excused(t)'
  PROVE  Told(t)'
<1>1. About(flight', t) = About(flight, t)
  BY DEF About
<1>2. \A i : IsLast(flight', t, i) <=> IsLast(flight, t, i)
  BY DEF IsLast
<1> QED
  BY <1>1, <1>2, ToldStep

(* Messages are pushed: those about the topic are fresh, or none is about  *)
(* it and nothing else that concerns it changes.                           *)
LEMMA PushTold ==
  ASSUME NEW CONSTANT t \in Topics, MailType, MailType', NEW ms \in Seq(Msg), Push(ms),
         UNCHANGED <<pub, flight>>, broker'[t] = broker[t],
         \A i \in DOMAIN ms : Fresh(ms[i], setting'.had),
         t \in Dropped(ms) => t \in lost',
         \/ \E i \in DOMAIN ms : ms[i].topic = t
         \/ /\ Told(t) /\ (Excused(t) => Excused(t)') /\ News(t)' = News(t)
            /\ t.function = "HAD" => setting'.had = setting.had
  PROVE  Told(t)'
<1> DEFINE k == IF Len(ms) < pool THEN Len(ms) ELSE pool
<1>1. /\ Len(ms) \in Nat /\ DOMAIN ms = 1..Len(ms) /\ pool \in Nat
      /\ mb \in Seq(Msg) /\ mb' \in Seq(Msg)
  BY LenProperties DEF MailType
<1>2. k \in 0..Len(ms) /\ \A i \in 1..Len(ms) : i \in 1..k \/ i > pool
  BY <1>1
<1>3. mb' = mb \o SubSeq(ms, 1, k)
  BY DEF Push
<1> HIDE DEF k
<1>4. Extends(mb', mb, ms, k, t)
  <2>1. Extends(mb \o SubSeq(ms, 1, k), mb, ms, k, t)
    BY <1>1, <1>2, LastOfPush
  <2> QED
    BY <1>3, <2>1, Zenon
<1>5. CASE \E i \in 1..k : ms[i].topic = t
  <2>1. About(mb', t) /\ \A i \in DOMAIN mb' : IsLast(mb', t, i) => Fresh(mb'[i], setting'.had)
    <3>1. \A j \in 1..k : j \in DOMAIN ms
      BY <1>1, <1>2
    <3>2. \A j \in 1..k : Fresh(ms[j], setting'.had)
      BY <3>1
    <3>3. \A i \in DOMAIN mb' : IsLast(mb', t, i) => \E j \in 1..k : mb'[i] = ms[j]
      BY <1>4, <1>5 DEF Extends
    <3>4. About(mb', t)
      BY <1>4, <1>5 DEF Extends
    <3> QED
      BY <3>2, <3>3, <3>4
  <2> QED
    BY <2>1 DEF Told, Newest
<1>6. CASE /\ \A i \in 1..k : ms[i].topic # t
           /\ \E i \in DOMAIN ms : ms[i].topic = t
  <2>1. t \in Dropped(ms)
    BY <1>1, <1>2, <1>6 DEF Dropped
  <2> QED
    BY <2>1 DEF Told, Excused
<1>7. CASE /\ \A i \in 1..k : ms[i].topic # t
           /\ Told(t) /\ (Excused(t) => Excused(t)') /\ News(t)' = News(t)
           /\ t.function = "HAD" => setting'.had = setting.had
  <2>1. CASE Excused(t)
    BY <1>7, <2>1 DEF Told
  <2>2. CASE Newest(mb, pub, flight, broker, setting.had, News(t), t)
    <3>1. \A m : m.topic = t => (Fresh(m, setting.had) => Fresh(m, setting'.had))
      BY <1>7 DEF Fresh
    <3>2. CASE About(mb, t)
      <4>1. \A i \in DOMAIN mb : IsLast(mb, t, i) => Fresh(mb[i], setting.had) /\ mb[i].topic = t
        BY <2>2, <3>2 DEF Newest, IsLast
      <4>2. About(mb', t) /\ \A i \in DOMAIN mb' : IsLast(mb', t, i) => Fresh(mb'[i], setting'.had)
        BY <1>4, <1>7, <3>1, <3>2, <4>1 DEF Extends
      <4> QED
        BY <4>2 DEF Told, Newest
    <3>3. CASE ~About(mb, t)
      <4>1. ~About(mb', t)
        BY <1>4, <1>7, <3>3 DEF Extends
      <4>2. /\ Holds(pub', t) = Holds(pub, t) /\ About(flight', t) = About(flight, t)
            /\ Holds(pub, t) => pub.msg.topic = t
        BY DEF Holds, About
      <4>3. /\ Holds(pub, t) => Fresh(pub.msg, setting.had)
            /\ ~Holds(pub, t) /\ About(flight, t) =>
                  \A i \in DOMAIN flight : IsLast(flight, t, i) => flight[i].content = News(t)
            /\ ~Holds(pub, t) /\ ~About(flight, t) => broker[t] = News(t)
        BY <2>2, <3>3 DEF Newest
      <4>4. /\ Holds(pub', t) => Fresh(pub'.msg, setting'.had)
            /\ ~Holds(pub', t) /\ About(flight', t) =>
                  \A i \in DOMAIN flight' : IsLast(flight', t, i) => flight'[i].content = News(t)'
            /\ ~Holds(pub', t) /\ ~About(flight', t) => broker'[t] = News(t)'
        BY <1>7, <3>1, <4>2, <4>3 DEF IsLast
      <4>5. Newest(mb', pub', flight', broker', setting'.had, News(t)', t)
        BY <4>1, <4>4 DEF Newest
      <4> QED
        BY <4>5 DEF Told
    <3> QED
      BY <3>2, <3>3
  <2> QED
    BY <1>7, <2>1, <2>2 DEF Told
<1>8. \/ \E i \in 1..k : ms[i].topic = t
      \/ (\A i \in 1..k : ms[i].topic # t) /\ \E i \in DOMAIN ms : ms[i].topic = t
      \/ /\ \A i \in 1..k : ms[i].topic # t
         /\ Told(t) /\ (Excused(t) => Excused(t)') /\ News(t)' = News(t)
         /\ t.function = "HAD" => setting'.had = setting.had
  OBVIOUS
<1> QED
  BY <1>5, <1>6, <1>7, <1>8

------------------------------------------------------------------------------
(* The steps of each thread, as one topic sees them.                       *)

LEMMA NothingNew ==
  ASSUME NEW CONSTANT t \in Topics, UNCHANGED <<setting, group, zone>>
  PROVE  News(t)' = News(t) /\ setting'.had = setting.had
BY NewsKept

LEMMA ExcusedStays ==
  ASSUME NEW CONSTANT t \in Topics, Excused(t), t \in lost => t \in lost',
         t \in GroupState /\ t.number \in unsaid => t.number \in unsaid',
         t = SystemState /\ link # "up" => link' # "up"
  PROVE  Excused(t)'
BY DEF Excused

LEMMA ClosedTold ==
  ASSUME NEW CONSTANT t \in Topics, NewsType, Told(t), MailType, Closed PROVE Told(t)'
<1>1. /\ link' = "down" /\ flight' = <<>> /\ UNCHANGED <<mb, pub, group, zone, unsaid>>
      /\ setting' = [setting EXCEPT !.connectError = TRUE]
      /\ lost' = lost \union ({flight[i].topic : i \in DOMAIN flight} \ {AlertTopic})
      /\ broker' = IF link = "up" THEN [broker EXCEPT ![SystemState] = "Off"] ELSE broker
  BY DEF Closed, core
<1>2. setting'.had = setting.had
  BY <1>1 DEF MailType
<1>3. News(t)' = News(t)
  BY <1>1, <1>2, NewsKept
<1>4. Excused(t) => Excused(t)'
  BY <1>1, ExcusedStays
<1>5. CASE t = SystemState
  BY <1>1, <1>5 DEF Told, Excused
<1>6. CASE About(flight, t)
  <2>1. t \in lost'
    BY <1>1, <1>6, TopicKinds DEF About
  <2> QED
    BY <2>1 DEF Told, Excused
<1>7. CASE t # SystemState /\ ~About(flight, t)
  <2>1. broker'[t] = broker[t]
    BY <1>1, <1>7 DEF NewsType
  <2>2. ~About(flight', t)
    BY <1>1 DEF About
  <2>3. (Holds(pub', t) <=> Holds(pub, t)) /\ (Holds(pub, t) => pub'.msg = pub.msg)
    BY <1>1
  <2> QED
    BY <1>1, <1>2, <1>3, <1>4, <1>7, <2>1, <2>2, <2>3, ToldStep
<1> QED
  BY <1>5, <1>6, <1>7

LEMMA AnsweredTold ==
  ASSUME NEW CONSTANT t \in Topics, NewsType, Told(t), Delivered \/ RequestFailed PROVE Told(t)'
<1>1. /\ flight # <<>> /\ flight' = Tail(flight)
      /\ UNCHANGED <<mb, pub, group, zone, unsaid, link, setting>>
  BY DEF Delivered, RequestFailed, core
<1>2. /\ Head(flight) = flight[1]
      /\ About(Tail(flight), t) => About(flight, t)
      /\ About(flight, t) /\ ~About(Tail(flight), t) =>
            flight[1].topic = t /\ 1 \in DOMAIN flight /\ IsLast(flight, t, 1)
      /\ flight[1].topic # t => (About(flight, t) <=> About(Tail(flight), t))
      /\ \A i \in DOMAIN Tail(flight) : IsLast(Tail(flight), t, i) =>
            IsLast(flight, t, i + 1) /\ i + 1 \in DOMAIN flight /\ Tail(flight)[i] = flight[i + 1]
  BY <1>1, LastOfTail DEF NewsType
<1>3. News(t)' = News(t) /\ setting'.had = setting.had
  BY <1>1, NothingNew
<1>4. lost \subseteq lost'
  BY DEF Delivered, RequestFailed
<1>5. Excused(t) => Excused(t)'
  BY <1>1, <1>4, ExcusedStays
<1>6. (Holds(pub', t) <=> Holds(pub, t)) /\ (Holds(pub, t) => pub'.msg = pub.msg)
  BY <1>1
<1>7. CASE flight[1].topic # t
  <2>1. broker'[t] = broker[t]
    BY <1>2, <1>7 DEF Delivered, RequestFailed, NewsType
  <2> QED
    BY <1>1, <1>2, <1>3, <1>5, <1>6, <1>7, <2>1, ToldStep
<1>8. CASE flight[1].topic = t /\ Delivered
  <2>1. broker'[t] = flight[1].content
    BY <1>2, <1>8, TopicKinds DEF Delivered, NewsType
  <2>2. ASSUME IF About(flight, t)
               THEN \A i \in DOMAIN flight : IsLast(flight, t, i) => flight[i].content = News(t)
               ELSE broker[t] = News(t)
        PROVE  IF About(flight', t)
               THEN \A i \in DOMAIN flight' : IsLast(flight', t, i) => flight'[i].content = News(t)'
               ELSE broker'[t] = News(t)'
    <3>1. About(flight, t)
      <4>1. 1 \in DOMAIN flight
        BY <1>1, LenProperties, EmptySeq DEF NewsType
      <4> QED
        BY <1>8, <4>1 DEF About
    <3>2. \A i \in DOMAIN flight : IsLast(flight, t, i) => flight[i].content = News(t)
      BY <2>2, <3>1
    <3>3. CASE About(flight', t)
      BY <1>1, <1>2, <1>3, <3>2, <3>3
    <3>4. CASE ~About(flight', t)
      <4>1. 1 \in DOMAIN flight /\ IsLast(flight, t, 1)
        BY <1>1, <1>2, <3>1, <3>4
      <4> QED
        BY <1>3, <2>1, <3>2, <3>4, <4>1
    <3> QED
      BY <3>3, <3>4
  <2> QED
    BY <1>1, <1>3, <1>5, <1>6, <2>2, ToldStep
<1>9. CASE flight[1].topic = t /\ RequestFailed
  <2>1. t \in lost'
    BY <1>2, <1>9, TopicKinds DEF RequestFailed
  <2> QED
    BY <2>1 DEF Told, Excused
<1> QED
  BY <1>7, <1>8, <1>9

(* The publisher's steps that do not touch the mailbox or the requests.    *)
LEMMA WaitingTold ==
  ASSUME NEW CONSTANT t \in Topics, MailType, Told(t),
         Check \/ Unresolved \/ Connect \/ PubTakes \/ PubGivesUp \/ PublishFails
  PROVE  Told(t)'
<1>1. /\ UNCHANGED <<mb, flight, broker, group, zone, unsaid>>
      /\ lost \subseteq lost' /\ (link # "up" => link' # "up")
  BY DEF Check, Unresolved, Connect, PubTakes, PubGivesUp, PublishFails, core
<1>2. setting'.had = setting.had
  BY DEF Check, Unresolved, Connect, PubTakes, PubGivesUp, PublishFails, MailType
<1>3. News(t)' = News(t)
  BY <1>1, <1>2, NewsKept
<1>4. Excused(t) => Excused(t)'
  BY <1>1, ExcusedStays
<1>5. CASE Check \/ Unresolved \/ Connect
  <2>1. pub.pc \notin {"wait", "publish"} /\ pub'.pc \notin {"wait", "publish"}
    BY <1>5 DEF Check, Unresolved, Connect, Idle, MailType
  <2>2. ~Holds(pub, t) /\ ~Holds(pub', t)
    BY <2>1 DEF Holds
  <2> QED
    BY <1>1, <1>2, <1>3, <1>4, <2>2, ToldFrame
<1>6. CASE PubTakes
  <2>1. pub'.pc = "publish" /\ pub.pc = "wait" /\ pub'.msg = pub.msg
    BY <1>6 DEF PubTakes, MailType
  <2>2. Holds(pub', t) <=> Holds(pub, t)
    BY <2>1 DEF Holds
  <2> QED
    BY <1>1, <1>2, <1>3, <1>4, <2>1, <2>2, ToldFrame
<1>7. CASE PubGivesUp \/ PublishFails
  <2>1. pub' = Idle /\ lost' = lost \union {pub.msg.topic}
    BY <1>7 DEF PubGivesUp, PublishFails
  <2>2. CASE pub.msg.topic = t
    BY <2>1, <2>2 DEF Told, Excused
  <2>3. CASE pub.msg.topic # t
    <3>1. ~Holds(pub, t) /\ ~Holds(pub', t)
      BY <2>1, <2>3 DEF Holds, Idle
    <3> QED
      BY <1>1, <1>2, <1>3, <1>4, <3>1, ToldFrame
  <2> QED
    BY <2>2, <2>3
<1> QED
  BY <1>5, <1>6, <1>7

(* A message leaves the mailbox: its topic is held, or it is lost.         *)
LEMMA FetchTold ==
  ASSUME NEW CONSTANT t \in Topics, MailType, Told(t), Fetch PROVE Told(t)'
<1>1. /\ mb # <<>> /\ mb' = Tail(mb) /\ pub.pc = "idle"
      /\ UNCHANGED <<flight, broker, group, zone, unsaid, setting, link>>
      /\ lost \subseteq lost'
  BY DEF Fetch, core
<1>2. /\ Head(mb) = mb[1]
      /\ About(Tail(mb), t) => About(mb, t)
      /\ About(mb, t) /\ ~About(Tail(mb), t) =>
            mb[1].topic = t /\ 1 \in DOMAIN mb /\ IsLast(mb, t, 1)
      /\ mb[1].topic # t => (About(mb, t) <=> About(Tail(mb), t))
      /\ \A i \in DOMAIN Tail(mb) : IsLast(Tail(mb), t, i) =>
            IsLast(mb, t, i + 1) /\ i + 1 \in DOMAIN mb /\ Tail(mb)[i] = mb[i + 1]
  BY <1>1, LastOfTail DEF MailType
<1>3. News(t)' = News(t) /\ setting'.had = setting.had
  BY <1>1, NothingNew
<1>4. Excused(t) => Excused(t)'
  BY <1>1, ExcusedStays
<1>5. ~Holds(pub, t)
  BY <1>1 DEF Holds
<1>6. CASE Excused(t)
  BY <1>4, <1>6 DEF Told
<1>7. CASE link # "up" /\ mb[1].topic = t
  <2>1. t \in lost'
    BY <1>2, <1>7 DEF Fetch
  <2> QED
    BY <2>1 DEF Told, Excused
<1>8. CASE ~(link # "up" /\ mb[1].topic = t) /\ Newest(mb, pub, flight, broker, setting.had, News(t), t)
  <2>1. CASE About(mb', t)
    <3>1. About(mb, t)
      BY <1>1, <1>2, <2>1
    <3>2. \A i \in DOMAIN mb : IsLast(mb, t, i) => Fresh(mb[i], setting.had)
      BY <1>8, <3>1 DEF Newest
    <3>3. \A i \in DOMAIN mb' : IsLast(mb', t, i) => Fresh(mb'[i], setting'.had)
      BY <1>1, <1>2, <1>3, <3>2
    <3> QED
      BY <2>1, <3>3 DEF Told, Newest
  <2>2. CASE ~About(mb', t) /\ About(mb, t)
    <3>1. mb[1].topic = t /\ 1 \in DOMAIN mb /\ IsLast(mb, t, 1) /\ link = "up"
      BY <1>1, <1>2, <1>8, <2>2
    <3>2. Fresh(mb[1], setting.had)
      BY <1>8, <2>2, <3>1 DEF Newest
    <3>3. pub' = [pc |-> "wait", msg |-> mb[1]]
      BY <1>2, <3>1 DEF Fetch
    <3>4. Holds(pub', t) /\ Fresh(pub'.msg, setting'.had)
      BY <1>3, <3>1, <3>2, <3>3 DEF Holds
    <3> QED
      BY <2>2, <3>4 DEF Told, Newest
  <2>3. CASE ~About(mb', t) /\ ~About(mb, t)
    <3>1. mb[1].topic # t
      <4>1. 1 \in DOMAIN mb
        BY <1>1, LenProperties, EmptySeq DEF MailType
      <4> QED
        BY <2>3, <4>1 DEF About
    <3>2. ~Holds(pub', t)
      <4>1. CASE link = "up"
        BY <1>2, <3>1, <4>1 DEF Fetch, Holds
      <4>2. CASE link # "up"
        BY <1>5, <4>2 DEF Fetch
      <4> QED
        BY <4>1, <4>2
    <3>3. IF About(flight, t)
          THEN \A i \in DOMAIN flight : IsLast(flight, t, i) => flight[i].content = News(t)
          ELSE broker[t] = News(t)
      BY <1>5, <1>8, <2>3 DEF Newest
    <3>4. IF About(flight', t)
          THEN \A i \in DOMAIN flight' : IsLast(flight', t, i) => flight'[i].content = News(t)'
          ELSE broker'[t] = News(t)'
      BY <1>1, <1>3, <3>3 DEF About, IsLast
    <3> QED
      BY <2>3, <3>2, <3>4 DEF Told, Newest
  <2> QED
    BY <2>1, <2>2, <2>3
<1> QED
  BY <1>6, <1>7, <1>8 DEF Told

(* A request that is about the topic says the news, unless a newer message *)
(* waits or the topic was lost; it ends the excuse only where it does.     *)
LEMMA PublishTold ==
  ASSUME NEW CONSTANT t \in Topics, NewsType, MailType, Told(t), Publish PROVE Told(t)'
<1> DEFINE e == [topic |-> pub.msg.topic, content |-> Content(pub.msg)]
<1>1. /\ flight' = Append(flight, e) /\ pub' = Idle /\ link = "up" /\ pub.pc = "publish"
      /\ UNCHANGED <<mb, broker, group, zone, setting, link>>
      /\ pub.msg.topic # t => (t \in lost => t \in lost')
  BY DEF Publish
<1>2. e \in Posts
  <2>1. pub.msg.topic \in AllTopics
    BY DEF MailType, Msg
  <2> QED
    BY <2>1, ContentTyped DEF Posts
<1>3. e.topic = pub.msg.topic /\ e.content = Content(pub.msg)
  OBVIOUS
<1> HIDE DEF e
<1>4. /\ e.topic = t => About(flight', t)
               /\ \A i \in DOMAIN flight' : IsLast(flight', t, i) => flight'[i] = e
      /\ e.topic # t => (About(flight', t) <=> About(flight, t))
               /\ \A i \in DOMAIN flight' : IsLast(flight', t, i) =>
                     i \in DOMAIN flight /\ IsLast(flight, t, i) /\ flight'[i] = flight[i]
  <2>1. flight \in Seq(Posts)
    BY DEF NewsType
  <2>2. Ends(Append(flight, e), flight, e, t)
    BY <1>2, <2>1, LastOfAppend
  <2>3. Ends(flight', flight, e, t)
    BY <1>1, <2>2, Zenon
  <2> QED
    BY <2>3 DEF Ends
<1>5. News(t)' = News(t) /\ setting'.had = setting.had
  BY <1>1, NothingNew
<1>6. ~Holds(pub', t)
  BY <1>1 DEF Holds, Idle
<1>7. CASE pub.msg.topic # t
  <2>1. t \in GroupState /\ t.number \in unsaid => t.number \in unsaid'
    <3>1. ASSUME t \in GroupState, pub.msg.topic \in GroupState PROVE pub.msg.topic.number # t.number
      BY <1>7, <3>1 DEF GroupState, Topic
    <3> QED
      BY <3>1 DEF Publish
  <2>2. Excused(t) => Excused(t)'
    BY <1>1, <1>7, <2>1, ExcusedStays
  <2>3. ~Holds(pub, t)
    BY <1>7 DEF Holds
  <2>4. ASSUME IF About(flight, t)
               THEN \A i \in DOMAIN flight : IsLast(flight, t, i) => flight[i].content = News(t)
               ELSE broker[t] = News(t)
        PROVE  IF About(flight', t)
               THEN \A i \in DOMAIN flight' : IsLast(flight', t, i) => flight'[i].content = News(t)'
               ELSE broker'[t] = News(t)'
    <3>1. CASE About(flight, t)
      BY <1>3, <1>4, <1>5, <1>7, <2>4, <3>1
    <3>2. CASE ~About(flight, t)
      BY <1>1, <1>3, <1>4, <1>5, <1>7, <2>4, <3>2
    <3> QED
      BY <3>1, <3>2
  <2> QED
    BY <1>1, <1>5, <1>6, <2>2, <2>3, <2>4, ToldStep
<1>8. CASE pub.msg.topic = t
  <2>1. CASE About(mb, t)
    <3>1. CASE \A i \in DOMAIN mb : IsLast(mb, t, i) => Fresh(mb[i], setting.had)
      <4>1. About(mb', t) /\ \A i \in DOMAIN mb' : IsLast(mb', t, i) => Fresh(mb'[i], setting'.had)
        BY <1>1, <1>5, <2>1, <3>1 DEF About, IsLast
      <4> QED
        BY <4>1 DEF Told, Newest
    <3>2. CASE ~\A i \in DOMAIN mb : IsLast(mb, t, i) => Fresh(mb[i], setting.had)
      <4>1. t.function = "HAD"
        BY <3>2 DEF Fresh, IsLast
      <4>2. t \in lost
        <5>1. ~Newest(mb, pub, flight, broker, setting.had, News(t), t)
          BY <2>1, <3>2 DEF Newest
        <5>2. t # SystemState /\ t \notin GroupState
          BY <4>1 DEF SystemState, GroupState, Topic
        <5> QED
          BY <5>1, <5>2 DEF Told, Excused
      <4>3. t \in {mb[i].topic : i \in DOMAIN mb}
        BY <2>1 DEF About
      <4>4. t \in lost'
        BY <1>8, <4>2, <4>3 DEF Publish
      <4> QED
        BY <4>4 DEF Told, Excused
    <3> QED
      BY <3>1, <3>2
  <2>2. CASE ~About(mb, t)
    <3>1. CASE Content(pub.msg) = News(t)
      <4>1. \A i \in DOMAIN flight' : IsLast(flight', t, i) => flight'[i].content = News(t)'
        BY <1>3, <1>4, <1>5, <1>8, <3>1
      <4>2. ~About(mb', t) /\ About(flight', t)
        BY <1>1, <1>3, <1>4, <1>8, <2>2
      <4> QED
        BY <1>6, <4>1, <4>2 DEF Told, Newest
    <3>2. CASE Content(pub.msg) # News(t)
      <4>1. ~Fresh(pub.msg, setting.had)
        BY <1>8, <3>2, FreshContent
      <4>2. t.function = "HAD"
        BY <1>8, <4>1 DEF Fresh
      <4>3. t \in lost
        <5>1. ~Newest(mb, pub, flight, broker, setting.had, News(t), t)
          BY <1>1, <1>8, <2>2, <4>1 DEF Newest, Holds
        <5>2. t # SystemState /\ t \notin GroupState
          BY <4>2 DEF SystemState, GroupState, Topic
        <5> QED
          BY <5>1, <5>2 DEF Told, Excused
      <4>4. t \in lost'
        BY <1>8, <3>2, <4>3 DEF Publish
      <4> QED
        BY <4>4 DEF Told, Excused
    <3> QED
      BY <3>1, <3>2
  <2> QED
    BY <2>1, <2>2
<1> QED
  BY <1>7, <1>8

LEMMA AlertTold ==
  ASSUME NEW CONSTANT t \in Topics, NewsType, Told(t), AlertThread PROVE Told(t)'
<1>1. UNCHANGED <<mb, pub, broker, group, zone, unsaid, setting, lost, link>>
  BY DEF AlertThread, Alert, AlertTakes, AlertGivesUp, AlertPublishes, core
<1>2. News(t)' = News(t) /\ setting'.had = setting.had
  BY <1>1, NothingNew
<1>3. Excused(t) => Excused(t)'
  BY <1>1, ExcusedStays
<1>4. (Holds(pub', t) <=> Holds(pub, t)) /\ (Holds(pub, t) => pub'.msg = pub.msg)
  BY <1>1
<1> DEFINE e == [topic |-> AlertTopic, content |-> "text"]
<1>5. flight' = flight \/ flight' = Append(flight, e)
  BY DEF AlertThread, Alert, AlertTakes, AlertGivesUp, AlertPublishes
<1>6. CASE flight' = flight
  BY <1>1, <1>2, <1>3, <1>4, <1>6, ToldFrame
<1>7. CASE flight' = Append(flight, e)
  <2>1. e \in Posts /\ e.topic # t
    BY TopicKinds DEF Posts, AllTopics, Contents
  <2> HIDE DEF e
  <2>2. /\ About(flight', t) <=> About(flight, t)
        /\ \A i \in DOMAIN flight' : IsLast(flight', t, i) =>
              i \in DOMAIN flight /\ IsLast(flight, t, i) /\ flight'[i] = flight[i]
    <3>1. flight \in Seq(Posts)
      BY DEF NewsType
    <3>2. Ends(Append(flight, e), flight, e, t)
      BY <2>1, <3>1, LastOfAppend
    <3>3. Ends(flight', flight, e, t)
      BY <1>7, <3>2, Zenon
    <3> QED
      BY <2>1, <3>3 DEF Ends
  <2>3. ASSUME IF About(flight, t)
               THEN \A i \in DOMAIN flight : IsLast(flight, t, i) => flight[i].content = News(t)
               ELSE broker[t] = News(t)
        PROVE  IF About(flight', t)
               THEN \A i \in DOMAIN flight' : IsLast(flight', t, i) => flight'[i].content = News(t)'
               ELSE broker'[t] = News(t)'
    <3>1. CASE About(flight, t)
      BY <1>2, <2>2, <2>3, <3>1
    <3>2. CASE ~About(flight, t)
      BY <1>1, <1>2, <2>2, <2>3, <3>2
    <3> QED
      BY <3>1, <3>2
  <2> QED
    BY <1>1, <1>2, <1>3, <1>4, <2>3, ToldStep
<1> QED
  BY <1>5, <1>6, <1>7

(* One topic is pushed, and no news but its own changes.                   *)
LEMMA TopicPushTold ==
  ASSUME NEW CONSTANT t \in Topics, MailType, MailType', Told(t),
         NEW CONSTANT u \in Topics, PushTopic(u),
         UNCHANGED <<link, flight, pub, broker, setting, unsaid>>,
         u = t \/ News(t)' = News(t)
  PROVE  Told(t)'
<1> DEFINE ms == <<Message(u)>>
<1>1. u \in AllTopics
  BY TopicKinds
<1>2. /\ ms \in Seq(Msg) /\ DOMAIN ms = {1}
      /\ ms[1].topic = u /\ ms[1].extra = setting.had /\ setting' = setting
  BY <1>1, OneMessage DEF Message
<1>3. Push(ms) /\ lost' = lost \union Dropped(ms)
  BY DEF PushTopic
<1> HIDE DEF ms
<1>4. \A i \in DOMAIN ms : Fresh(ms[i], setting'.had)
  BY <1>2 DEF Fresh
<1>5. Excused(t) => Excused(t)'
  BY <1>3, ExcusedStays
<1>6. \/ \E i \in DOMAIN ms : ms[i].topic = t
      \/ Told(t) /\ (Excused(t) => Excused(t)') /\ News(t)' = News(t) /\ (t.function = "HAD" => setting'.had = setting.had)
  BY <1>2, <1>5
<1> QED
  BY <1>2, <1>3, <1>4, <1>6, PushTold

LEMMA GroupTopics ==
  ASSUME NEW g \in Groups
  PROVE  /\ Topic("group", g, "state") \in Topics /\ Topic("group", g, "state") \in GroupState
         /\ Topic("group", g, "state").function # "HAD" /\ Topic("group", g, "state").number = g
BY DEF Topics, GroupState, Topic

LEMMA GroupPushTold ==
  ASSUME NEW CONSTANT t \in Topics, NewsType, MailType, MailType', Told(t),
         NEW CONSTANT g \in Groups, NEW CONSTANT s, group' = [group EXCEPT ![g] = s],
         PushTopic(Topic("group", g, "state")),
         UNCHANGED <<link, flight, pub, broker, setting, unsaid, zone>>
  PROVE  Told(t)'
<1> DEFINE u == Topic("group", g, "state")
<1>1. u \in Topics /\ u.function # "HAD"
  BY GroupTopics
<1>2. CASE t = u
  BY <1>1, <1>2, TopicPushTold
<1>3. CASE t # u
  <2>1. t \in GroupState => t.number # g
    BY <1>3, TopicKinds
  <2>2. t \in GroupState => group'[t.number] = group[t.number]
    BY <2>1, TopicKinds DEF NewsType
  <2>3. News(t)' = News(t)
    BY <2>2, NewsKept
  <2> QED
    BY <1>1, <2>3, TopicPushTold
<1> QED
  BY <1>2, <1>3

LEMMA ZoneTold ==
  ASSUME NEW CONSTANT t \in Topics, NewsType, MailType, MailType', Told(t),
         NEW CONSTANT z \in Zones, NEW CONSTANT e, ZoneEvent(z, e)
  PROVE  Told(t)'
<1> DEFINE u == Topic("zone", z, "state")
<1>1. u \in Topics /\ u.function # "HAD"
  BY DEF Topics, ZoneState, Topic
<1>2. /\ zone' = [zone EXCEPT ![z] = e] /\ PushTopic(u)
      /\ UNCHANGED <<link, flight, pub, broker, setting, unsaid, group>>
  BY DEF ZoneEvent
<1>3. CASE t = u
  BY <1>1, <1>2, <1>3, TopicPushTold
<1>4. CASE t # u
  <2>1. t \in ZoneState => t.number # z /\ t.number \in Zones
    BY <1>4 DEF ZoneState, Topic
  <2>2. t \in ZoneState => zone'[t.number] = zone[t.number]
    BY <1>2, <2>1 DEF NewsType
  <2>3. News(t)' = News(t)
    BY <1>2, <2>2, NewsKept
  <2> QED
    BY <1>1, <1>2, <2>3, TopicPushTold
<1> QED
  BY <1>3, <1>4

LEMMA WaitAuthTold ==
  ASSUME NEW CONSTANT t \in Topics, NewsType, Told(t), NEW CONSTANT g \in Groups, WaitAuth(g)
  PROVE  Told(t)'
<1>1. /\ \E s : group' = [group EXCEPT ![g] = s]
      /\ unsaid' = unsaid \union {g}
      /\ UNCHANGED <<link, flight, pub, broker, setting, zone, mb, lost>>
  BY DEF WaitAuth, Change, NoPush, Quietly
<1>2. CASE t \in GroupState /\ t.number = g
  BY <1>1, <1>2 DEF Told, Excused
<1>3. CASE ~(t \in GroupState /\ t.number = g)
  <2>1. t \in GroupState => group'[t.number] = group[t.number]
    BY <1>1, <1>3, TopicKinds DEF NewsType
  <2>2. News(t)' = News(t)
    BY <1>1, <2>1, NewsKept
  <2>3. Excused(t) => Excused(t)'
    BY <1>1, ExcusedStays
  <2> QED
    BY <1>1, <2>2, <2>3, ToldFrame
<1> QED
  BY <1>2, <1>3

LEMMA GroupsTold ==
  ASSUME NEW CONSTANT t \in Topics, NewsType, MailType, MailType', Told(t),
         NEW CONSTANT g \in Groups,
         (\E home \in BOOLEAN : armGroup(g, home)) \/ Armed(g) \/ Triggered(g) \/ disarmGroup(g)
  PROVE  Told(t)'
<1>1. /\ \E s : group' = [group EXCEPT ![g] = s]
      /\ PushTopic(Topic("group", g, "state"))
      /\ UNCHANGED <<link, flight, pub, broker, setting, unsaid, zone>>
  BY DEF armGroup, Armed, Triggered, disarmGroup, Change, Quietly
<1> QED
  BY <1>1, GroupPushTold

(* The start: discovery as the setting has it, then the groups.            *)
LEMMA BootTold ==
  ASSUME NEW CONSTANT t \in Topics, MailType, MailType', Told(t), Boot PROVE Told(t)'
<1> DEFINE ms == IF boot = "groups" THEN Messages(RefreshGroups)
                 ELSE IF setting.had THEN mqttGlobalHAD(TRUE) ELSE <<>>
<1>1. /\ Push(ms) /\ lost' = lost \union Dropped(ms)
      /\ UNCHANGED <<link, flight, setting, pub, group, zone, unsaid, broker>>
  BY DEF Boot
<1>2. ms \in Seq(Msg) /\ \A i \in DOMAIN ms : Fresh(ms[i], setting.had)
  <2>1. CASE boot = "groups"
    <3>1. RefreshGroups \in Seq(AllTopics)
      BY RefreshTyped, TopicsTyped, SeqMonotonic
    <3>2. /\ Messages(RefreshGroups) \in Seq(Msg) /\ DOMAIN Messages(RefreshGroups) = DOMAIN RefreshGroups
          /\ \A i \in DOMAIN RefreshGroups :
                Messages(RefreshGroups)[i] = [topic |-> RefreshGroups[i], extra |-> setting.had]
      BY <3>1, MessagesTyped
    <3>3. \A i \in DOMAIN RefreshGroups : Fresh(Messages(RefreshGroups)[i], setting.had)
      BY <3>2 DEF Fresh
    <3>4. ms = Messages(RefreshGroups)
      BY <2>1
    <3> HIDE DEF ms
    <3> QED
      BY <3>2, <3>3, <3>4
  <2>2. CASE boot # "groups" /\ setting.had
    <3>1. \A had \in BOOLEAN : /\ mqttGlobalHAD(had) \in Seq(Msg)
                               /\ \A i \in DOMAIN mqttGlobalHAD(had) : mqttGlobalHAD(had)[i].extra = had
      BY DiscoveryMessages
    <3>2. TRUE \in BOOLEAN /\ setting.had = TRUE
      BY <2>2 DEF MailType
    <3>3. mqttGlobalHAD(TRUE) \in Seq(Msg) /\ \A i \in DOMAIN mqttGlobalHAD(TRUE) : mqttGlobalHAD(TRUE)[i].extra = TRUE
      BY <3>1, <3>2, Zenon
    <3>4. \A i \in DOMAIN mqttGlobalHAD(TRUE) : Fresh(mqttGlobalHAD(TRUE)[i], setting.had)
      BY <3>2, <3>3 DEF Fresh
    <3>5. ms = mqttGlobalHAD(TRUE)
      BY <2>2
    <3> HIDE DEF ms
    <3> QED
      BY <3>3, <3>4, <3>5
  <2>3. CASE boot # "groups" /\ ~setting.had
    BY <2>3
  <2> QED
    BY <2>1, <2>2, <2>3
<1> HIDE DEF ms
<1>3. News(t)' = News(t) /\ setting'.had = setting.had
  BY <1>1, NothingNew
<1>4. Excused(t) => Excused(t)'
  BY <1>1, ExcusedStays
<1> QED
  BY <1>1, <1>2, <1>3, <1>4, PushTold

(* The settings page: every topic of discovery is pushed as it shall be.   *)
LEMMA SwitchTold ==
  ASSUME NEW CONSTANT t \in Topics, MailType, MailType', Told(t), SwitchHAD PROVE Told(t)'
<1> DEFINE ms == mqttGlobalHAD(~setting.had)
<1>1. /\ Push(ms) /\ lost' = lost \union Dropped(ms)
      /\ setting' = [setting EXCEPT !.had = ~setting.had]
      /\ UNCHANGED <<link, flight, pub, group, zone, unsaid, broker>>
  BY DEF SwitchHAD, core
<1>2. setting'.had = ~setting.had
  BY <1>1 DEF MailType
<1>3. \A had \in BOOLEAN :
        /\ mqttGlobalHAD(had) \in Seq(Msg)
        /\ \A i \in DOMAIN mqttGlobalHAD(had) : mqttGlobalHAD(had)[i].extra = had
        /\ \A d \in Discovery : \E i \in DOMAIN mqttGlobalHAD(had) : mqttGlobalHAD(had)[i].topic = d
  BY DiscoveryMessages
<1>4. (~setting.had) \in BOOLEAN
  OBVIOUS
<1>5. /\ ms \in Seq(Msg) /\ \A i \in DOMAIN ms : ms[i].extra = ~setting.had
      /\ \A d \in Discovery : \E i \in DOMAIN ms : ms[i].topic = d
  BY <1>3, <1>4, Zenon
<1> HIDE DEF ms
<1>6. \A i \in DOMAIN ms : Fresh(ms[i], setting'.had)
  BY <1>2, <1>5 DEF Fresh
<1>7. CASE t.function = "HAD"
  <2>1. t \in Discovery
    BY <1>7, TopicKinds
  <2> QED
    BY <1>1, <1>5, <1>6, <2>1, PushTold
<1>8. CASE t.function # "HAD"
  <2>1. News(t)' = News(t)
    BY <1>1, <1>8, NewsKept
  <2>2. Excused(t) => Excused(t)'
    BY <1>1, ExcusedStays
  <2> QED
    BY <1>1, <1>5, <1>6, <1>8, <2>1, <2>2, PushTold
<1> QED
  BY <1>7, <1>8

(* A new connection: the system's and the zones' state are pushed again.   *)
LEMMA AcceptedTold ==
  ASSUME NEW CONSTANT t \in Topics, MailType, MailType', Told(t), Accepted PROVE Told(t)'
<1> DEFINE hads == IF setting.had THEN <<Topic("system", "on", "HAD")>> ELSE <<>>
           topics == <<SystemState>> \o hads \o RefreshZones
           ms == Messages(topics)
<1>1. /\ Push(ms) /\ lost' = (lost \ ({SystemState} \union ZoneState)) \union Dropped(ms)
      /\ setting' = [setting EXCEPT !.connectError = FALSE] /\ link' = "up"
      /\ UNCHANGED <<flight, pub, group, zone, unsaid, broker>>
  BY DEF Accepted, core
<1>2. setting'.had = setting.had
  BY <1>1 DEF MailType
<1>3. /\ topics \in Seq(AllTopics)
      /\ \A x \in {SystemState} \union ZoneState : \E i \in DOMAIN topics : topics[i] = x
  <2>1. hads \in Seq(AllTopics) /\ Len(hads) \in Nat
    BY TopicsTyped, LenProperties
  <2>2. RefreshZones \in Seq(AllTopics) /\ Len(RefreshZones) \in Nat /\ DOMAIN RefreshZones = 1..Len(RefreshZones)
    BY RefreshTyped, TopicsTyped, SeqMonotonic, LenProperties
  <2> DEFINE one == <<SystemState>>
  <2>3. one \in Seq(AllTopics) /\ Len(one) = 1 /\ one[1] = SystemState
    BY TopicsTyped
  <2> HIDE DEF hads, one
  <2>4. /\ one \o hads \in Seq(AllTopics) /\ Len(one \o hads) = 1 + Len(hads)
        /\ (one \o hads)[1] = SystemState
    <3>1. /\ one \o hads \in Seq(AllTopics) /\ Len(one \o hads) = Len(one) + Len(hads)
          /\ \A i \in 1..Len(one) + Len(hads) :
                (one \o hads)[i] = IF i <= Len(one) THEN one[i] ELSE hads[i - Len(one)]
      BY <2>1, <2>3, ConcatProperties
    <3>2. 1 \in 1..Len(one) + Len(hads) /\ 1 <= Len(one)
      BY <2>1, <2>3
    <3> QED
      BY <2>3, <3>1, <3>2
  <2>5. topics = (one \o hads) \o RefreshZones
    BY DEF one, hads
  <2> DEFINE n == 1 + Len(hads)
  <2> HIDE DEF topics
  <2>6. /\ topics \in Seq(AllTopics) /\ Len(topics) = n + Len(RefreshZones)
        /\ \A i \in 1..n + Len(RefreshZones) :
              topics[i] = IF i <= n THEN (one \o hads)[i] ELSE RefreshZones[i - n]
    <3> DEFINE q == one \o hads
    <3>1. q \in Seq(AllTopics) /\ Len(q) = n
      BY <2>4
    <3>2. topics = q \o RefreshZones
      BY <2>5
    <3> HIDE DEF q, n
    <3>3. /\ q \o RefreshZones \in Seq(AllTopics) /\ Len(q \o RefreshZones) = Len(q) + Len(RefreshZones)
          /\ \A i \in 1..Len(q) + Len(RefreshZones) :
                (q \o RefreshZones)[i] = IF i <= Len(q) THEN q[i] ELSE RefreshZones[i - Len(q)]
      BY <2>2, <3>1, ConcatProperties
    <3>4. /\ topics \in Seq(AllTopics) /\ Len(topics) = n + Len(RefreshZones)
          /\ \A i \in 1..n + Len(RefreshZones) : topics[i] = IF i <= n THEN q[i] ELSE RefreshZones[i - n]
      BY <3>1, <3>2, <3>3
    <3> QED
      BY <3>4 DEF q
  <2>7. DOMAIN topics = 1..n + Len(RefreshZones)
    BY <2>6, LenProperties
  <2>8. 1 \in DOMAIN topics /\ topics[1] = SystemState
    <3>1. 1 \in 1..n /\ 1 \in 1..n + Len(RefreshZones)
      BY <2>1, <2>2
    <3> QED
      BY <2>4, <2>6, <2>7, <3>1
  <2>9. ASSUME NEW x \in ZoneState PROVE \E i \in DOMAIN topics : topics[i] = x
    <3>1. PICK i \in DOMAIN RefreshZones : RefreshZones[i] = x
      BY RefreshTyped
    <3>2. n + i \in 1..n + Len(RefreshZones) /\ ~(n + i <= n) /\ n + i - n = i
      BY <2>1, <2>2
    <3>3. topics[n + i] = x
      BY <2>6, <3>1, <3>2
    <3> QED
      BY <2>7, <3>2, <3>3
  <2> QED
    BY <2>6, <2>8, <2>9
<1> HIDE DEF topics
<1>4. /\ ms \in Seq(Msg) /\ DOMAIN ms = DOMAIN topics
      /\ \A i \in DOMAIN topics : ms[i] = [topic |-> topics[i], extra |-> setting.had]
  BY <1>3, MessagesTyped
<1> HIDE DEF ms
<1>5. \A i \in DOMAIN ms : Fresh(ms[i], setting'.had)
  BY <1>2, <1>4 DEF Fresh
<1>6. CASE t \in {SystemState} \union ZoneState
  <2>1. PICK i \in DOMAIN topics : topics[i] = t
    BY <1>3, <1>6
  <2>2. i \in DOMAIN ms /\ ms[i].topic = t
    BY <1>4, <2>1
  <2> QED
    BY <1>1, <1>4, <1>5, <2>2, PushTold
<1>7. CASE t \notin {SystemState} \union ZoneState
  <2>1. News(t)' = News(t)
    BY <1>1, <1>2, NewsKept
  <2>2. Excused(t) => Excused(t)'
    BY <1>1, <1>7, ExcusedStays
  <2> QED
    BY <1>1, <1>2, <1>4, <1>5, <2>1, <2>2, PushTold
<1> QED
  BY <1>6, <1>7

LEMMA SubscriberTold ==
  ASSUME NEW CONSTANT t \in Topics, NewsType, TypeInv, MailType', GroupNamed, Told(t), MqttSubThread
  PROVE  Told(t)'
<1>1. UNCHANGED <<link, flight, setting, pub, zone, unsaid, broker>>
  BY DEF MqttSubThread, SubFetch, SubRefresh, SubCommand, core
<1>2. MailType
  BY DEF TypeInv
<1>3. CASE UNCHANGED <<mb, lost, group>>
  <2>1. News(t)' = News(t) /\ setting'.had = setting.had
    BY <1>1, <1>3, NothingNew
  <2>2. Excused(t) => Excused(t)'
    BY <1>1, <1>3, ExcusedStays
  <2> QED
    BY <1>1, <1>3, <2>1, <2>2, ToldFrame
<1>4. CASE SubFetch
  <2>1. UNCHANGED <<mb, lost, group>>
    BY <1>4 DEF SubFetch, core
  <2> QED
    BY <1>3, <2>1
<1>5. CASE SubRefresh
  <2>1. CASE sub.todo = <<>>
    <3>1. UNCHANGED <<mb, lost, group>>
      BY <1>5, <2>1 DEF SubRefresh, core, NoPush
    <3> QED
      BY <1>3, <3>1
  <2>2. CASE sub.todo # <<>>
    <3> DEFINE u == Head(sub.todo)
    <3>1. PushTopic(u) /\ UNCHANGED group
      BY <1>5, <2>2 DEF SubRefresh, core
    <3>2. u \in Topics
      BY <2>2, HeadTailProperties, EmptySeq DEF TypeInv, SubType
    <3>3. News(t)' = News(t)
      BY <1>1, <3>1, NothingNew
    <3> QED
      BY <1>1, <1>2, <3>1, <3>2, <3>3, TopicPushTold
  <2> QED
    BY <2>1, <2>2
<1>6. CASE SubCommand
  <2> DEFINE g == sub.cmd.arg
             ignored == sub.cmd.name # "disarm" /\ group[g].armed
  <2>1. g \in Groups
    BY <1>6 DEF SubCommand, GroupNamed
  <2>2. CASE ignored
    <3>1. UNCHANGED <<mb, lost, group>>
      BY <1>6, <2>2 DEF SubCommand, NoPush
    <3> QED
      BY <1>3, <3>1
  <2>3. CASE ~ignored
    <3>1. /\ \E s : group' = [group EXCEPT ![g] = s]
          /\ PushTopic(Topic("group", g, "state"))
      BY <1>6, <2>3 DEF SubCommand
    <3> QED
      BY <1>1, <1>2, <2>1, <3>1, GroupPushTold
  <2> QED
    BY <2>2, <2>3
<1> QED
  BY <1>4, <1>5, <1>6 DEF MqttSubThread

LEMMA NewsTypeKept ==
  ASSUME NewsType, TypeInv, GroupNamed, [Next]_vars PROVE NewsType'
<1>1. flight' \in Seq(Posts)
  <2>1. CASE Publish
    <3> DEFINE e == [topic |-> pub.msg.topic, content |-> Content(pub.msg)]
    <3>1. pub.msg.topic \in AllTopics
      BY DEF TypeInv, MailType, Msg
    <3>2. e \in Posts
      BY <3>1, ContentTyped DEF Posts
    <3>3. flight' = Append(flight, e)
      BY <2>1 DEF Publish
    <3> HIDE DEF e
    <3> QED
      BY <3>2, <3>3, AppendProperties DEF NewsType
  <2>2. CASE AlertPublishes
    <3> DEFINE e == [topic |-> AlertTopic, content |-> "text"]
    <3>1. e \in Posts
      BY DEF Posts, AllTopics, Contents
    <3>2. flight' = Append(flight, e) \/ flight' = flight
      BY <2>2 DEF AlertPublishes
    <3> HIDE DEF e
    <3> QED
      BY <3>1, <3>2, AppendProperties DEF NewsType
  <2>3. CASE Closed
    BY <2>3 DEF Closed
  <2>4. CASE Delivered \/ RequestFailed
    <3>1. flight # <<>> /\ flight' = Tail(flight) /\ flight \in Seq(Posts)
      BY <2>4 DEF Delivered, RequestFailed, NewsType
    <3> QED
      BY <3>1, HeadTailProperties, EmptySeq
  <2>5. CASE UNCHANGED flight
    BY <2>5 DEF NewsType
  <2>6. UNCHANGED flight \/ Publish \/ AlertPublishes \/ Closed \/ Delivered \/ RequestFailed
    BY DEF Next, vars, tcpip, Accepted,
       MqttPubThread, Check, Unresolved, Connect, Fetch, PubTakes, PubGivesUp, PublishFails,
       AlertThread, Alert, AlertTakes, AlertGivesUp, MqttSubThread, SubFetch, SubRefresh, SubCommand,
       Core, armGroup, Armed, WaitAuth, Triggered, disarmGroup, ZoneEvent, Boot, Quietly,
       SwitchHAD, NewAddress, mqttSubDataCB
  <2> QED
    BY <2>1, <2>2, <2>3, <2>4, <2>5, <2>6
<1>2. DOMAIN broker' = Topics
  <2>1. \/ UNCHANGED broker
        \/ \E x, c : broker' = [broker EXCEPT ![x] = c]
    BY DEF Next, vars, tcpip, Accepted, Closed, Delivered, RequestFailed,
       MqttPubThread, Check, Unresolved, Connect, Fetch, PubTakes, PubGivesUp, Publish, PublishFails,
       AlertThread, Alert, AlertTakes, AlertGivesUp, AlertPublishes,
       MqttSubThread, SubFetch, SubRefresh, SubCommand,
       Core, armGroup, Armed, WaitAuth, Triggered, disarmGroup, ZoneEvent, Boot, Quietly,
       SwitchHAD, NewAddress, mqttSubDataCB
  <2> QED
    BY <2>1 DEF NewsType
<1>3. DOMAIN group' = Groups
  <2>1. UNCHANGED group \/ \E x, c : group' = [group EXCEPT ![x] = c]
    BY DEF Next, vars, core, tcpip, Accepted, Closed, Delivered, RequestFailed,
       MqttPubThread, Check, Unresolved, Connect, Fetch, PubTakes, PubGivesUp, Publish, PublishFails,
       AlertThread, Alert, AlertTakes, AlertGivesUp, AlertPublishes,
       MqttSubThread, SubFetch, SubRefresh, SubCommand,
       Core, armGroup, Armed, WaitAuth, Triggered, disarmGroup, Change, ZoneEvent, Boot, Quietly,
       SwitchHAD, NewAddress, mqttSubDataCB
  <2> QED
    BY <2>1 DEF NewsType
<1>4. DOMAIN zone' = Zones
  <2>1. UNCHANGED zone \/ \E x, c : zone' = [zone EXCEPT ![x] = c]
    BY DEF Next, vars, core, tcpip, Accepted, Closed, Delivered, RequestFailed,
       MqttPubThread, Check, Unresolved, Connect, Fetch, PubTakes, PubGivesUp, Publish, PublishFails,
       AlertThread, Alert, AlertTakes, AlertGivesUp, AlertPublishes,
       MqttSubThread, SubFetch, SubRefresh, SubCommand,
       Core, armGroup, Armed, WaitAuth, Triggered, disarmGroup, ZoneEvent, Boot, Quietly,
       SwitchHAD, NewAddress, mqttSubDataCB
  <2> QED
    BY <2>1 DEF NewsType
<1> QED
  BY <1>1, <1>2, <1>3, <1>4 DEF NewsType

LEMMA StepTold ==
  ASSUME NEW CONSTANT t \in Topics, NewsType, TypeInv, TypeInv', GroupNamed, Told(t), [Next]_vars
  PROVE  Told(t)'
<1>1. MailType /\ MailType'
  BY DEF TypeInv
<1>2. CASE tcpip
  BY <1>1, <1>2, AcceptedTold, ClosedTold, AnsweredTold DEF tcpip
<1>3. CASE MqttPubThread
  BY <1>1, <1>3, WaitingTold, FetchTold, PublishTold DEF MqttPubThread
<1>4. CASE AlertThread
  BY <1>4, AlertTold
<1>5. CASE MqttSubThread
  BY <1>1, <1>5, SubscriberTold
<1>6. CASE Core
  <2>1. ASSUME NEW g \in Groups,
               \/ \E home \in BOOLEAN : armGroup(g, home)
               \/ Armed(g) \/ WaitAuth(g) \/ Triggered(g) \/ disarmGroup(g)
        PROVE  Told(t)'
    BY <1>1, <2>1, GroupsTold, WaitAuthTold
  <2>2. ASSUME NEW z \in Zones, NEW e, ZoneEvent(z, e) PROVE Told(t)'
    BY <1>1, <2>2, ZoneTold
  <2>3. CASE Boot
    BY <1>1, <2>3, BootTold
  <2> QED
    BY <1>6, <2>1, <2>2, <2>3 DEF Core
<1>7. CASE SwitchHAD
  BY <1>1, <1>7, SwitchTold
<1>8. CASE NewAddress \/ (\E c \in Commands : mqttSubDataCB(c)) \/ UNCHANGED vars
  <2>1. /\ UNCHANGED <<mb, flight, pub, broker, group, zone, lost, unsaid, link>>
        /\ setting'.had = setting.had
    <3>1. CASE NewAddress
      BY <1>1, <3>1 DEF NewAddress, core, MailType
    <3>2. CASE \E c \in Commands : mqttSubDataCB(c)
      BY <3>2 DEF mqttSubDataCB, core
    <3>3. CASE UNCHANGED vars
      BY <3>3 DEF vars, core
    <3> QED
      BY <1>8, <3>1, <3>2, <3>3
  <2>2. News(t)' = News(t)
    BY <2>1, NewsKept
  <2>3. Excused(t) => Excused(t)'
    BY <2>1, ExcusedStays
  <2> QED
    BY <2>1, <2>2, <2>3, ToldFrame
<1> QED
  BY <1>2, <1>3, <1>4, <1>5, <1>6, <1>7, <1>8 DEF Next

(***************************************************************************)
(* While the client is connected, each topic of the broker says what is    *)
(* true, or a message about it is on its way, or its news was dropped      *)
(* where the code drops it, or no message was sent (a group that waits for *)
(* authentication).  ToldInv says more: the newest of the messages on      *)
(* their way is not out of date, in any interleaving of the threads that   *)
(* push with MqttPubThread and the callbacks.                              *)
(***************************************************************************)
THEOREM NewsReachesBroker == Spec => []BrokerIsTold
<1>1. Init => ToldInv
  <2> SUFFICES ASSUME Init PROVE ToldInv
    OBVIOUS
  <2>1. flight = <<>> /\ DOMAIN broker = Topics /\ DOMAIN group = Groups /\ DOMAIN zone = Zones /\ lost = Topics
    BY DEF Init
  <2> QED
    BY <2>1 DEF ToldInv, NewsType, Told, Excused
<1>2. TypeInv /\ GroupNamed /\ ToldInv /\ [Next]_vars => ToldInv'
  <2> SUFFICES ASSUME TypeInv, GroupNamed, ToldInv, [Next]_vars PROVE ToldInv'
    OBVIOUS
  <2>1. TypeInv'
    BY Keeps
  <2>2. NewsType'
    BY NewsTypeKept DEF ToldInv
  <2>3. Topics' = Topics
    BY DEF Topics, SystemState, GroupState, ZoneState, Discovery, Topic
  <2>4. ASSUME NEW CONSTANT t \in Topics PROVE Told(t)'
    BY <2>1, StepTold DEF ToldInv
  <2> QED
    BY <2>2, <2>3, <2>4 DEF ToldInv
<1>3. ToldInv => BrokerIsTold
  <2> SUFFICES ASSUME ToldInv, link = "up", NEW t \in Topics
               PROVE  \/ broker[t] = News(t) \/ Pending(t) \/ t \in lost
                      \/ t \in GroupState /\ t.number \in unsaid
    BY DEF BrokerIsTold
  <2>1. Told(t)
    BY DEF ToldInv
  <2> QED
    BY <2>1 DEF Told, Excused, Newest, About, Holds, Pending
<1> QED
  BY <1>1, <1>2, <1>3, TypeAlways, PTL DEF Spec
===============================================================================
