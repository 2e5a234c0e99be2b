---------------------------- MODULE AlarmProofs -----------------------------
(***************************************************************************)
(* Proofs about the alarm core, for every number of groups, zones, events, *)
(* threads and callers: its types; that no event is lost or used twice;    *)
(* what it owes its users (a reset finds what was armed, a zone that has   *)
(* reported is heard, an alarm is not silent); and that it implements      *)
(* AlarmPanel.                                                             *)
(***************************************************************************)
EXTENDS Alarm, SequencesExt, SequenceTheorems, FiniteSetTheorems, WellFoundedInduction, TLAPS

------------------------------------------------------------------------------
(* Mailboxes in which every object is at most once.                        *)

(***************************************************************************)
(* Fetching the head of a mailbox without repetitions takes just the head  *)
(* from its elements.                                                      *)
(***************************************************************************)
LEMMA TailOfInjective ==
  ASSUME NEW S, NEW s \in Seq(S), s # <<>>, IsInjective(s)
  PROVE  /\ Head(s) \in ToSet(s) /\ IsInjective(Tail(s))
         /\ ToSet(Tail(s)) = ToSet(s) \ {Head(s)}
<1>1. /\ DOMAIN s = 1 .. Len(s) /\ Len(s) \in Nat /\ Len(s) >= 1 /\ Head(s) = s[1]
      /\ Tail(s) \in Seq(S) /\ Len(Tail(s)) = Len(s) - 1
      /\ \A i \in 1 .. Len(Tail(s)) : Tail(s)[i] = s[i + 1]
  BY HeadTailProperties, LenProperties
<1>2. DOMAIN Tail(s) = 1 .. Len(s) - 1
  BY <1>1, LenProperties
<1>3. IsInjective(Tail(s))
  BY <1>1, <1>2 DEF IsInjective
<1>4. Head(s) \in ToSet(s)
  BY <1>1 DEF ToSet
<1>5. ToSet(Tail(s)) \subseteq ToSet(s) \ {Head(s)}
  BY <1>1, <1>2 DEF ToSet, IsInjective
<1>6. ASSUME NEW x \in ToSet(s) \ {Head(s)} PROVE x \in ToSet(Tail(s))
  <2>1. PICK i \in 1 .. Len(s) : x = s[i]
    BY <1>1 DEF ToSet
  <2>2. i # 1 /\ i - 1 \in 1 .. Len(s) - 1
    BY <1>1, <1>6, <2>1
  <2>3. x = Tail(s)[i - 1]
    BY <1>1, <2>1, <2>2
  <2> QED
    BY <1>2, <2>2, <2>3 DEF ToSet
<1> QED
  BY <1>3, <1>4, <1>5, <1>6

(***************************************************************************)
(* A mailbox without repetitions to which a new object is appended.        *)
(***************************************************************************)
LEMMA AppendToInjective ==
  ASSUME NEW S, NEW s \in Seq(S), NEW e \in S, IsInjective(s), e \notin ToSet(s)
  PROVE  IsInjective(Append(s, e)) /\ ToSet(Append(s, e)) = ToSet(s) \union {e}
<1> DEFINE t == Append(s, e)
<1>1. /\ Len(s) \in Nat /\ DOMAIN s = 1 .. Len(s) /\ DOMAIN t = 1 .. Len(s) + 1
      /\ \A i \in 1 .. Len(s) : t[i] = s[i]
      /\ t[Len(s) + 1] = e
  BY AppendProperties, LenProperties
<1>2. \A i \in 1 .. Len(s) + 1 : i \in 1 .. Len(s) \/ i = Len(s) + 1
  BY <1>1
<1>3. \A i \in 1 .. Len(s) : s[i] # e
  BY <1>1 DEF ToSet
<1> HIDE DEF t
<1>4. IsInjective(t)
  BY <1>1, <1>2, <1>3 DEF IsInjective
<1>5. ToSet(t) \subseteq ToSet(s) \union {e}
  BY <1>1, <1>2 DEF ToSet
<1>6. ToSet(s) \union {e} \subseteq ToSet(t)
  BY <1>1, <1>2 DEF ToSet
<1> QED
  BY <1>4, <1>5, <1>6 DEF t

(***************************************************************************)
(* A sequence without repetitions is no longer than the set it draws from. *)
(***************************************************************************)
LEMMA InjectiveLength ==
  ASSUME NEW S, IsFiniteSet(S), NEW s, NEW R, s \in Seq(R), IsInjective(s),
         ToSet(s) \subseteq S
  PROVE  Len(s) <= Cardinality(S)
<1>1. Len(s) \in Nat /\ DOMAIN s = 1 .. Len(s) /\ s \in [1 .. Len(s) -> R]
  BY LenProperties
<1>2. s \in [1 .. Len(s) -> S]
  BY <1>1 DEF ToSet
<1>3. s \in Injection(1 .. Len(s), S)
  BY <1>2 DEF Injection
<1>4. Cardinality(1 .. Len(s)) <= Cardinality(S)
  BY <1>3, FS_Injection
<1>5. Cardinality(1 .. Len(s)) = Len(s)
  BY <1>1, FS_Interval
<1> QED
  BY <1>4, <1>5

(***************************************************************************)
(* It has room for an object that is not in it, if it has as many slots as *)
(* there are objects.                                                      *)
(***************************************************************************)
LEMMA RoomForOneMore ==
  ASSUME NEW S, IsFiniteSet(S), NEW s \in Seq(S), IsInjective(s),
         NEW e \in S, e \notin ToSet(s)
  PROVE  Len(s) < Cardinality(S)
<1>1. IsFiniteSet(S \ {e}) /\ Cardinality(S \ {e}) = Cardinality(S) - 1
  BY FS_RemoveElement
<1>2. ToSet(s) \subseteq S \ {e}
  BY LenProperties DEF ToSet
<1>3. Len(s) <= Cardinality(S \ {e})
  BY <1>1, <1>2, InjectiveLength
<1>4. Len(s) \in Nat /\ Cardinality(S) \in Nat
  BY FS_CardinalityType, LenProperties
<1> QED
  BY <1>1, <1>3, <1>4

------------------------------------------------------------------------------

(***************************************************************************)
(* There is a first group and a first zone.                                *)
(***************************************************************************)
LEMMA FirstIndex == /\ NGroups \in Nat /\ NZones \in Nat /\ 0 \in Groups /\ 0 \in Zones
                    /\ DUMMY_GROUP \notin Groups
BY AlarmAssumption DEF AlarmAssumption, Groups, Zones, DUMMY_GROUP

(***************************************************************************)
(* What the zone thread reads of a zone is a letter: what a reader or the  *)
(* registration stored, what the input gives, or what val held.            *)
(***************************************************************************)
LEMMA DecodeType ==
  ASSUME TypeOK, NEW z \in Zones, NEW elapsed \in BOOLEAN,
         NEW reading \in IF Readings[z] = {} THEN Letters ELSE Readings[z]
  PROVE  /\ Settled(z, elapsed) \in Letters \union {"N"}
         /\ Decode(z, Settled(z, elapsed), reading) \in Letters
BY AlarmAssumption DEF AlarmAssumption, TypeOK, ZoneState, Settled, Decode, Letters

(***************************************************************************)
(* Writing a value of its type to one field of a group leaves a group.     *)
(***************************************************************************)
LEMMA GroupFields ==
  ASSUME NEW r \in GroupState, NEW b \in BOOLEAN, NEW n \in 0 .. TickLimit - 1
  PROVE  /\ [r EXCEPT !.armed = b] \in GroupState
         /\ [r EXCEPT !.alarm = b] \in GroupState
         /\ [r EXCEPT !.waitAuth = b] \in GroupState
         /\ [r EXCEPT !.home = b] \in GroupState
         /\ [r EXCEPT !.armDelay = n] \in GroupState
BY DEF GroupState

(***************************************************************************)
(* The next call of a chain is a call for a group, one hop further.        *)
(***************************************************************************)
LEMMA ChainType ==
  ASSUME caller \in [Callers -> CallerState], NEW c \in Callers,
         NEW chain \in [Groups -> Groups \union {DUMMY_GROUP}],
         NEW pc \in {"arm", "disarm"}, Chain(c, chain, pc)
  PROVE  caller' \in [Callers -> CallerState]
<1> DEFINE f    == caller[c]
           next == [f EXCEPT !.pc = pc, !.g = chain[f.g], !.hop = @ + 1]
<1> DEFINE goesOn == /\ chain[f.g] # DUMMY_GROUP /\ chain[f.g] # f.master
                     /\ f.master # DUMMY_NO_VALUE /\ f.hop <= NGroups
<1>1. Idle \in CallerState
  BY FirstIndex DEF Idle, CallerState
<1>2. f \in CallerState
  OBVIOUS
<1>3. CASE goesOn
  <2>1. chain[f.g] \in Groups /\ f.hop + 1 \in 0 .. NGroups + 1
    BY <1>2, <1>3, FirstIndex DEF CallerState
  <2>2. next \in CallerState
    BY <1>2, <2>1 DEF CallerState
  <2>3. caller' = [caller EXCEPT ![c] = next]
    BY <1>3 DEF Chain
  <2> QED
    BY <2>2, <2>3
<1>4. CASE ~goesOn
  BY <1>1, <1>4 DEF Chain
<1> QED
  BY <1>3, <1>4

(***************************************************************************)
(* After a group the arm delay loop goes on to another group, waits for    *)
(* the call on this one, or leaves the loop.                               *)
(***************************************************************************)
LEMMA NextGroupType ==
  ASSUME zt.i \in Groups, zt \in ZoneThreadState, zt.pc \in {"tick", "armedSend"}
  PROVE  NextGroup \in ZoneThreadState /\ [zt EXCEPT !.pc = "armedSend"] \in ZoneThreadState
<1>1. zt \in [pc : {"tick", "armedSend"}, i : Groups]
  BY DEF ZoneThreadState
<1>2. [zt EXCEPT !.pc = "armedSend"] \in [pc : {"tick", "armedSend"}, i : Groups]
  BY <1>1
<1>3. CASE zt.i + 1 < NGroups
  <2>1. zt.i + 1 \in Groups
    BY <1>3, FirstIndex DEF Groups
  <2>2. NextGroup = [pc |-> "tick", i |-> zt.i + 1]
    BY <1>3 DEF NextGroup
  <2> QED
    BY <1>2, <2>1, <2>2 DEF ZoneThreadState
<1>4. CASE ~(zt.i + 1 < NGroups)
  <2>1. NextGroup = [pc |-> "adc", i |-> 0]
    BY <1>4 DEF NextGroup
  <2> QED
    BY <1>2, <2>1 DEF ZoneThreadState
<1> QED
  BY <1>3, <1>4

----------------------------------------------------------------------------
(* Type correctness.                                                       *)

LEMMA InitType == Init => TypeOK
BY FirstIndex, AlarmAssumption
   DEF Init, TypeOK, AlarmAssumption, GroupState, GroupOff, ZoneState, StartZones,
       ZoneThreadState, EventState, NoEvent, AEState, Fetching, CallerState, Idle,
       Letters

LEMMA ResetType == TypeOK /\ Reset => TypeOK'
BY FirstIndex, AlarmAssumption
   DEF Reset, TypeOK, AlarmAssumption, ZoneState, StartZones,
       ZoneThreadState, EventState, NoEvent, AEState, Fetching, CallerState, Idle,
       Letters

LEMMA ZoneThreadType == TypeOK /\ ZoneThread => TypeOK'
<1> SUFFICES ASSUME TypeOK, ZoneThread PROVE TypeOK'
  OBVIOUS
<1> USE FirstIndex
<1>1. CASE ZoneWake
  BY <1>1 DEF ZoneWake, TypeOK, ZoneThreadState
<1>2. CASE ZoneTick
  <2>1. zt.i \in Groups /\ zt.pc = "tick"
    BY <1>2 DEF ZoneTick, TypeOK, ZoneThreadState
  <2>2. NextGroup \in ZoneThreadState /\ [zt EXCEPT !.pc = "armedSend"] \in ZoneThreadState
    BY <2>1, NextGroupType DEF TypeOK
  <2>3. group[zt.i] \in GroupState
    BY <2>1 DEF TypeOK
  <2> DEFINE g == zt.i
  <2>4. group[g].armDelay # 0 => [group[g] EXCEPT !.armDelay = @ - 1] \in GroupState
    BY <2>3, AlarmAssumption DEF GroupState, AlarmAssumption
  <2>5. [group[g] EXCEPT !.armDelay = 0, !.armed = TRUE] \in GroupState
    <3>1. 0 \in 0 .. TickLimit - 1
      BY AlarmAssumption DEF AlarmAssumption
    <3>2. [group[g] EXCEPT !.armDelay = 0] \in GroupState
      BY <2>3, <3>1, GroupFields
    <3> QED
      BY <3>1, <3>2, GroupFields
  <2>6. /\ group \in [Groups -> GroupState]
        /\ \/ UNCHANGED group
           \/ group[g].armDelay > 1 /\ group' = [group EXCEPT ![g].armDelay = @ - 1]
           \/ group' = [group EXCEPT ![g].armDelay = 0, ![g].armed = TRUE]
    BY <1>2 DEF ZoneTick, TypeOK
  <2>7. group[g].armDelay > 1 => group[g].armDelay # 0
    BY <2>3 DEF GroupState
  <2>8. group' \in [Groups -> GroupState]
    BY <2>1, <2>4, <2>5, <2>6, <2>7
  <2> QED
    BY <1>2, <2>2, <2>8 DEF ZoneTick, TypeOK
<1>3. CASE ZoneArmedSaved
  <2>1. zt.i \in Groups /\ zt.pc = "armedSend"
    BY <1>3 DEF ZoneArmedSaved, TypeOK, ZoneThreadState
  <2>2. NextGroup \in ZoneThreadState
    BY <2>1, NextGroupType DEF TypeOK
  <2> QED
    BY <1>3, <2>2 DEF ZoneArmedSaved, TypeOK
<1>4. CASE ZoneAdcDone
  BY <1>4 DEF ZoneAdcDone, TypeOK, ZoneThreadState
<1>5. CASE ZoneScan
  <2>1. zt.i \in Zones
    BY <1>5 DEF ZoneScan, TypeOK, ZoneThreadState
  <2>2. NextZone \in ZoneThreadState
    BY <2>1 DEF NextZone, ZoneThreadState, Zones
  <2>3. PICK elapsed \in BOOLEAN,
             reading \in IF Readings[zt.i] = {} THEN Letters ELSE Readings[zt.i] :
          LET z    == zt.i
              last == Settled(z, elapsed)
              v    == Decode(z, last, reading)
          IN /\ val' = v
             /\ \/ /\ Reports(z, last, v) /\ pool # {}
                   /\ Post(z, v)
                   /\ zone' = [zone EXCEPT ![z] = [lastEvent |-> NewLast(z, last, v),
                                                   alarm |-> TRUE]]
                \/ /\ ~(Reports(z, last, v) /\ pool # {})
                   /\ zone' = [zone EXCEPT ![z].lastEvent = NewLast(z, last, v)]
                   /\ UNCHANGED <<pool, event, mbox>>
    BY <1>5 DEF ZoneScan
  <2> DEFINE z    == zt.i
             last == Settled(z, elapsed)
             v    == Decode(z, last, reading)
  <2>4. last \in Letters \union {"N"} /\ v \in Letters
    BY <2>1, DecodeType
  <2>5. NewLast(z, last, v) \in Letters \union {"N"}
    BY <2>4 DEF NewLast
  <2>6. zone' \in [Zones -> ZoneState]
    <3>1. zone \in [Zones -> ZoneState] /\ zone[z] \in ZoneState
      BY <2>1 DEF TypeOK
    <3>2. /\ [lastEvent |-> NewLast(z, last, v), alarm |-> TRUE] \in ZoneState
          /\ [zone[z] EXCEPT !.lastEvent = NewLast(z, last, v)] \in ZoneState
      BY <3>1, <2>5 DEF ZoneState
    <3> QED
      BY <2>1, <2>3, <3>1, <3>2
  <2>7. CASE Reports(z, last, v) /\ Post(z, v)
    <3>1. v \in {"P", "T"}
      BY <2>7 DEF Reports
    <3>2. PICK e \in pool : /\ pool' = pool \ {e}
                            /\ event' = [event EXCEPT ![e] = [zone |-> z, type |-> v]]
                            /\ mbox' = IF Len(mbox) < MailboxSize
                                       THEN Append(mbox, e) ELSE mbox
      BY <2>7 DEF Post
    <3>3. pool' \subseteq Events /\ mbox' \in Seq(Events)
      BY <3>2 DEF TypeOK
    <3>4. event' \in [Events -> EventState]
      BY <2>1, <3>1, <3>2 DEF TypeOK, EventState
    <3> QED
      BY <1>5, <2>2, <2>3, <2>4, <2>6, <3>3, <3>4 DEF ZoneScan, TypeOK
  <2>8. CASE UNCHANGED <<pool, event, mbox>>
    BY <1>5, <2>2, <2>3, <2>4, <2>6, <2>8 DEF ZoneScan, TypeOK
  <2> QED
    BY <2>3, <2>7, <2>8
<1> QED
  BY <1>1, <1>2, <1>3, <1>4, <1>5 DEF ZoneThread

(***************************************************************************)
(* The object at the head of the mailbox, and what an alarm event thread   *)
(* reads of it.                                                            *)
(***************************************************************************)
LEMMA HeadType ==
  ASSUME TypeOK, mbox # <<>>
  PROVE  /\ Head(mbox) \in Events /\ Tail(mbox) \in Seq(Events)
         /\ event[Head(mbox)].zone \in Zones
         /\ ZoneGroup[event[Head(mbox)].zone] \in Groups
         /\ Wait(Head(mbox)) \in 0 .. 3
BY AlarmAssumption DEF TypeOK, EventState, Wait, AlarmAssumption

LEMMA HeldType ==
  ASSUME TypeOK, NEW a \in AEThreads, ae[a].pc # "fetch"
  PROVE  ae[a].ev \in Events /\ GroupOf(a) \in Groups
<1>1. ae[a].ev \in Events
  BY DEF TypeOK, AEState
<1> QED
  BY <1>1, AlarmAssumption DEF TypeOK, EventState, GroupOf, AlarmAssumption

LEMMA FreeType ==
  ASSUME TypeOK, NEW e \in Events, Free(e)
  PROVE  pool' \subseteq Events /\ event' \in [Events -> EventState]
BY FirstIndex DEF TypeOK, Free, EventState, NoEvent

LEMMA AEThreadType == \A a \in AEThreads : TypeOK /\ AEThread(a) => TypeOK'
<1> SUFFICES ASSUME NEW a \in AEThreads, TypeOK, AEThread(a) PROVE TypeOK'
  OBVIOUS
<1>0. Fetching \in AEState
  BY DEF Fetching, AEState
<1>1. CASE AEDrop(a)
  <2>1. mbox # <<>> /\ mbox' = Tail(mbox)
    BY <1>1 DEF AEDrop, Fetch
  <2>2. Head(mbox) \in Events /\ mbox' \in Seq(Events)
    BY <2>1, HeadType
  <2>3. Free(Head(mbox))
    BY <1>1 DEF AEDrop
  <2> QED
    BY <1>1, <2>2, <2>3, FreeType DEF AEDrop, TypeOK
<1>2. CASE AEPend(a) \/ AEAlarm(a)
  <2> DEFINE e == Head(mbox)
             g == ZoneGroup[event[e].zone]
  <2>1. mbox # <<>> /\ mbox' = Tail(mbox)
    BY <1>2 DEF AEPend, AEAlarm, Fetch
  <2>2. e \in Events /\ mbox' \in Seq(Events) /\ g \in Groups /\ Wait(e) \in 0 .. 3
    BY <2>1, HeadType
  <2>3. group[g] \in GroupState
    BY <2>2 DEF TypeOK
  <2>4. /\ [group[g] EXCEPT !.waitAuth = TRUE] \in GroupState
        /\ [group[g] EXCEPT !.waitAuth = TRUE, !.alarm = TRUE] \in GroupState
    <3>1. 0 \in 0 .. TickLimit - 1
      BY AlarmAssumption DEF AlarmAssumption
    <3>2. [group[g] EXCEPT !.waitAuth = TRUE] \in GroupState
      BY <2>3, <3>1, GroupFields
    <3> QED
      BY <3>1, <3>2, GroupFields
  <2>5. group' \in [Groups -> GroupState]
    <3>1. group \in [Groups -> GroupState]
      BY DEF TypeOK
    <3>2. \/ group' = [group EXCEPT ![g].waitAuth = TRUE]
          \/ group' = [group EXCEPT ![g].waitAuth = TRUE, ![g].alarm = TRUE]
      BY <1>2 DEF AEPend, AEAlarm
    <3> QED
      BY <2>2, <2>4, <3>1, <3>2
  <2>6. ae' \in [AEThreads -> AEState]
    <3>1. CASE AEPend(a)
      <4>1. [pc |-> "notify", ev |-> e, wait |-> Wait(e), count |-> 0] \in AEState
        BY <2>2, <3>1 DEF AEState, AEPend
      <4> QED
        BY <3>1, <4>1 DEF AEPend, TypeOK
    <3>2. CASE AEAlarm(a)
      <4>1. [pc |-> "alarmSend", ev |-> e, wait |-> 0, count |-> 0] \in AEState
        BY <2>2 DEF AEState
      <4> QED
        BY <3>2, <4>1 DEF AEAlarm, TypeOK
    <3> QED
      BY <1>2, <3>1, <3>2
  <2> QED
    BY <1>2, <2>2, <2>5, <2>6 DEF AEPend, AEAlarm, TypeOK
<1>3. CASE AEWait(a)
  <2>1. ae[a].pc \in {"notify", "sleep"}
    BY <1>3 DEF AEWait
  <2>2. /\ ae \in [AEThreads -> AEState] /\ ae[a] \in AEState
        /\ ae[a].wait \in 1 .. 3 /\ ae[a].count \in Nat /\ ae[a].ev \in Events
    BY <2>1 DEF TypeOK, AEState
  <2>3. CASE ae' = [ae EXCEPT ![a].pc = "sleep"] /\ UNCHANGED <<group, pool, event>>
    <3>1. [ae[a] EXCEPT !.pc = "sleep"] \in AEState
      BY <2>1, <2>2 DEF AEState
    <3> QED
      BY <1>3, <2>2, <2>3, <3>1 DEF AEWait, TypeOK
  <2>4. CASE ae' = [ae EXCEPT ![a].count = @ + 1] /\ UNCHANGED <<group, pool, event>>
    <3>1. [ae[a] EXCEPT !.count = @ + 1] \in AEState
      BY <2>1, <2>2 DEF AEState
    <3> QED
      BY <1>3, <2>2, <2>4, <3>1 DEF AEWait, TypeOK
  <2>5. CASE EndPeriod(a)
    <3> DEFINE g    == GroupOf(a)
               left == IF group[g].waitAuth THEN ae[a].wait - 1 ELSE ae[a].wait
    <3>1. left \in 0 .. 3 /\ g \in Groups /\ ae[a].ev \in Events
      BY <2>1, <2>2, HeldType
    <3>2. CASE /\ left > 0
               /\ ae' = [ae EXCEPT ![a] = [pc |-> "notify", ev |-> @.ev, wait |-> left, count |-> 0]]
               /\ UNCHANGED <<group, pool, event>>
      <4>2. [pc |-> "notify", ev |-> ae[a].ev, wait |-> left, count |-> 0] \in AEState
        BY <3>1, <3>2 DEF AEState
      <4> HIDE DEF left
      <4>3. ae' \in [AEThreads -> AEState]
        BY <2>2, <3>2, <4>2
      <4> QED
        BY <1>3, <3>2, <4>3 DEF AEWait, TypeOK
    <3>3. CASE /\ group' = [group EXCEPT ![g].alarm = TRUE]
               /\ ae' = [ae EXCEPT ![a] = [pc |-> "alarmSend", ev |-> @.ev, wait |-> 0, count |-> 0]]
               /\ UNCHANGED <<pool, event>>
      <4>2. [pc |-> "alarmSend", ev |-> ae[a].ev, wait |-> 0, count |-> 0] \in AEState
        BY <3>1 DEF AEState
      <4>3. ae' \in [AEThreads -> AEState]
        BY <2>2, <3>3, <4>2
      <4>4. group[g] \in GroupState /\ 0 \in 0 .. TickLimit - 1
        BY <3>1, AlarmAssumption DEF TypeOK, AlarmAssumption
      <4>5. [group[g] EXCEPT !.alarm = TRUE] \in GroupState
        BY <4>4, GroupFields
      <4>6. group' \in [Groups -> GroupState]
        BY <3>1, <3>3, <4>5 DEF TypeOK
      <4> QED
        BY <1>3, <3>3, <4>3, <4>6 DEF AEWait, TypeOK
    <3>4. CASE /\ Free(ae[a].ev)
               /\ ae' = [ae EXCEPT ![a] = Fetching]
               /\ UNCHANGED group
      <4>1. pool' \subseteq Events /\ event' \in [Events -> EventState]
        BY <3>1, <3>4, FreeType
      <4> QED
        BY <1>0, <1>3, <3>4, <4>1 DEF AEWait, TypeOK
    <3> QED
      BY <2>5, <3>2, <3>3, <3>4 DEF EndPeriod
  <2> QED
    BY <1>3, <2>3, <2>4, <2>5 DEF AEWait
<1>4. CASE AERelays(a)
  <2>1. ae[a].pc = "alarmSend" /\ ae[a] \in AEState
    BY <1>4 DEF AERelays, TypeOK
  <2>2. [ae[a] EXCEPT !.pc = "horn"] \in AEState
    BY <2>1 DEF AEState
  <2>3. PirRelays[GroupOf(a)] \subseteq Relays /\ TamperRelays[GroupOf(a)] \subseteq Relays
    BY <2>1, HeldType, AlarmAssumption DEF AlarmAssumption
  <2> QED
    BY <1>4, <2>2, <2>3 DEF AERelays, TypeOK
<1>5. CASE AEDone(a)
  <2>1. ae[a].ev \in Events
    BY <1>5, HeldType DEF AEDone
  <2>2. pool' \subseteq Events /\ event' \in [Events -> EventState]
    BY <1>5, <2>1, FreeType DEF AEDone
  <2> QED
    BY <1>0, <1>5, <2>2 DEF AEDone, TypeOK
<1> QED
  BY <1>1, <1>2, <1>3, <1>4, <1>5 DEF AEThread

(***************************************************************************)
(* Moving a call on to its next stage, and opening one.                    *)
(***************************************************************************)
LEMMA StageType ==
  ASSUME caller \in [Callers -> CallerState], NEW c \in Callers,
         NEW pc \in {"arm", "armSet", "armSend", "horns", "zones", "bits", "disarmSend"}
  PROVE  [caller EXCEPT ![c].pc = pc] \in [Callers -> CallerState]
<1>1. [caller[c] EXCEPT !.pc = pc] \in CallerState
  BY DEF CallerState
<1> QED
  BY <1>1

LEMMA CallType ==
  ASSUME caller \in [Callers -> CallerState], NEW c \in Callers,
         NEW pc \in {"rejectSend", "arm", "disarm"}, NEW g \in Groups,
         NEW master \in Groups \union {DUMMY_NO_VALUE}, NEW type \in {"away", "home"},
         Call(c, pc, g, master, type)
  PROVE  caller' \in [Callers -> CallerState]
<1>1. [pc |-> pc, g |-> g, master |-> master, type |-> type, hop |-> 0] \in CallerState
  BY FirstIndex DEF CallerState
<1> QED
  BY <1>1 DEF Call

LEMMA CallStepType == \A c \in Callers : TypeOK /\ CallStep(c) => TypeOK'
<1> SUFFICES ASSUME NEW c \in Callers, TypeOK, CallStep(c) PROVE TypeOK'
  OBVIOUS
<1> DEFINE g == caller[c].g
<1>0. /\ caller \in [Callers -> CallerState] /\ caller[c] \in CallerState
      /\ g \in Groups
      /\ group \in [Groups -> GroupState] /\ group[g] \in GroupState
      /\ ArmChain \in [Groups -> Groups \union {DUMMY_GROUP}]
      /\ DisarmChain \in [Groups -> Groups \union {DUMMY_GROUP}]
      /\ 0 \in 0 .. TickLimit - 1 /\ HomeTicks \in 0 .. TickLimit - 1
  BY AlarmAssumption DEF TypeOK, CallerState, AlarmAssumption
<1>1. CASE RejectSent(c)
  BY <1>0, <1>1, StageType DEF RejectSent, TypeOK
<1>2. CASE ArmCheck(c)
  <2>1. CASE caller' = [caller EXCEPT ![c].pc = "armSet"]
    BY <1>0, <1>2, <2>1, StageType DEF ArmCheck, TypeOK
  <2>2. CASE Chain(c, ArmChain, "arm")
    BY <1>0, <1>2, <2>2, ChainType DEF ArmCheck, TypeOK
  <2> QED
    BY <1>2, <2>1, <2>2 DEF ArmCheck
<1>3. CASE ArmSet(c)
  <2>1. AwayTicks \in 0 .. TickLimit - 1
    <3>1. ArmDelay * TicksPerUnit \in Int /\ TickLimit \in Nat /\ TickLimit > 0
      BY AlarmAssumption DEF AlarmAssumption
    <3> QED
      BY <3>1 DEF AwayTicks
  <2>2. [group[g] EXCEPT !.armDelay = AwayTicks] \in GroupState
    BY <1>0, <2>1, GroupFields
  <2>3. [group[g] EXCEPT !.armDelay = HomeTicks, !.home = TRUE] \in GroupState
    <3>1. [group[g] EXCEPT !.armDelay = HomeTicks] \in GroupState
      BY <1>0, GroupFields
    <3> QED
      BY <1>0, <3>1, GroupFields
  <2>4. group' = [group EXCEPT ![g] =
                    IF caller[c].type = "away" THEN [group[g] EXCEPT !.armDelay = AwayTicks]
                    ELSE [group[g] EXCEPT !.armDelay = HomeTicks, !.home = TRUE]]
    BY <1>3 DEF ArmSet
  <2>5. group' \in [Groups -> GroupState]
    BY <1>0, <2>2, <2>3, <2>4
  <2> QED
    BY <1>0, <1>3, <2>5, StageType DEF ArmSet, TypeOK
<1>4. CASE ArmSaved(c)
  BY <1>0, <1>4, ChainType DEF ArmSaved, TypeOK
<1>5. CASE DisarmAlarm(c)
  <2>1. [group[g] EXCEPT !.alarm = FALSE] \in GroupState
    BY <1>0, GroupFields
  <2>2. /\ group' = [group EXCEPT ![g].alarm = FALSE] \/ group' = group
        /\ relays' \subseteq Relays
    BY <1>5 DEF DisarmAlarm, TypeOK
  <2>3. [group EXCEPT ![g].alarm = FALSE] \in [Groups -> GroupState]
    BY <1>0, <2>1
  <2>4. \/ caller' = [caller EXCEPT ![c].pc = "horns"]
        \/ caller' = [caller EXCEPT ![c].pc = "zones"]
    BY <1>5 DEF DisarmAlarm
  <2>5. caller' \in [Callers -> CallerState]
    <3>1. CASE caller' = [caller EXCEPT ![c].pc = "horns"]
      BY <1>0, <3>1, StageType
    <3>2. CASE caller' = [caller EXCEPT ![c].pc = "zones"]
      BY <1>0, <3>2, StageType
    <3> QED
      BY <2>4, <3>1, <3>2
  <2> QED
    BY <1>0, <1>5, <2>2, <2>3, <2>5 DEF DisarmAlarm, TypeOK
<1>6. CASE DisarmZones(c)
  <2>1. \A z \in Zones : [zone[z] EXCEPT !.alarm = FALSE] \in ZoneState
    BY DEF TypeOK, ZoneState
  <2>2. zone' \in [Zones -> ZoneState]
    BY <1>6, <2>1 DEF DisarmZones, TypeOK
  <2> QED
    BY <1>0, <1>6, <2>2, StageType DEF DisarmZones, TypeOK
<1>7. CASE DisarmBits(c)
  <2>1. [group[g] EXCEPT !.armed = FALSE] \in GroupState
    BY <1>0, GroupFields
  <2>2. [group[g] EXCEPT !.armed = FALSE, !.home = FALSE] \in GroupState
    BY <1>0, <2>1, GroupFields
  <2>3. [group[g] EXCEPT !.armed = FALSE, !.home = FALSE, !.waitAuth = FALSE] \in GroupState
    BY <1>0, <2>2, GroupFields
  <2>4. [group[g] EXCEPT !.armed = FALSE, !.home = FALSE, !.waitAuth = FALSE,
                         !.armDelay = 0] \in GroupState
    BY <1>0, <2>3, GroupFields
  <2>5. group' = [group EXCEPT ![g].armed = FALSE, ![g].home = FALSE,
                               ![g].waitAuth = FALSE, ![g].armDelay = 0]
    BY <1>7 DEF DisarmBits
  <2>6. group' \in [Groups -> GroupState]
    BY <1>0, <2>4, <2>5
  <2> QED
    BY <1>0, <1>7, <2>6, StageType DEF DisarmBits, TypeOK
<1>8. CASE DisarmSaved(c)
  BY <1>0, <1>8, ChainType DEF DisarmSaved, TypeOK
<1> QED
  BY <1>1, <1>2, <1>3, <1>4, <1>5, <1>6, <1>7, <1>8 DEF CallStep

LEMMA CommandsType == TypeOK /\ Commands => TypeOK'
<1> SUFFICES ASSUME TypeOK, Commands PROVE TypeOK'
  OBVIOUS
<1>0. /\ KeyReaders \subseteq Callers /\ AutoArmers \subseteq Callers
      /\ MqttSubs \subseteq Callers /\ Webs \subseteq Callers
      /\ caller \in [Callers -> CallerState]
  BY DEF Callers, TypeOK
<1>1. ASSUME NEW c \in KeyReaders, NEW g \in Groups, NEW type \in {"away", "home"},
             KeyPress(c, g, type)
      PROVE  TypeOK'
  <2>1. \/ Call(c, "disarm", g, g, "away") \/ Call(c, "rejectSend", g, g, type)
        \/ Call(c, "arm", g, g, type)
    BY <1>1 DEF KeyPress
  <2>2. caller' \in [Callers -> CallerState]
    BY <1>0, <2>1, CallType
  <2> QED
    BY <1>1, <2>2 DEF KeyPress, TypeOK
<1>2. ASSUME NEW c \in KeyReaders, NEW z \in Zones, NEW letter \in Letters,
             RemoteZoneMessage(c, z, letter)
      PROVE  TypeOK'
  <2>1. [zone[z] EXCEPT !.lastEvent = letter] \in ZoneState
    BY DEF TypeOK, ZoneState
  <2> QED
    BY <1>2, <2>1 DEF RemoteZoneMessage, TypeOK
<1>3. ASSUME NEW z \in Zones, RegisterZone(z) PROVE TypeOK'
  <2>1. [zone[z] EXCEPT !.lastEvent = "O"] \in ZoneState
    BY DEF TypeOK, ZoneState, Letters
  <2> QED
    BY <1>3, <2>1 DEF RegisterZone, TypeOK
<1>4. ASSUME NEW c \in AutoArmers, NEW g \in Groups, AutoArm(c, g) PROVE TypeOK'
  BY <1>0, <1>4, CallType DEF AutoArm, TypeOK
<1>5. ASSUME NEW c \in MqttSubs, NEW g \in Groups, NEW type \in {"away", "home"},
             MqttArm(c, g, type)
      PROVE  TypeOK'
  BY <1>0, <1>5, CallType DEF MqttArm, TypeOK
<1>6. ASSUME NEW c \in MqttSubs, NEW g \in Groups, MqttDisarm(c, g) PROVE TypeOK'
  BY <1>0, <1>6, CallType DEF MqttDisarm, TypeOK
<1>7. ASSUME NEW c \in Webs, NEW g \in Groups, WebDisarm(c, g) PROVE TypeOK'
  BY <1>0, <1>7, CallType DEF WebDisarm, TypeOK
<1>8. ASSUME NEW c \in Webs, NEW g \in Groups, WebSetEnabled(c, g) PROVE TypeOK'
  BY <1>8 DEF WebSetEnabled, TypeOK
<1>9. ASSUME NEW c \in Webs, WebSave(c) PROVE TypeOK'
  BY <1>9 DEF WebSave, TypeOK
<1> QED
  BY <1>1, <1>2, <1>3, <1>4, <1>5, <1>6, <1>7, <1>8, <1>9 DEF Commands

(***************************************************************************)
(* Every variable keeps its type: in particular the arm delay stays a      *)
(* uint8_t, no zone or group index leaves its array, and a chain of calls  *)
(* is never longer than the groups and two.                                *)
(***************************************************************************)
THEOREM TypeCorrect == Spec => []TypeOK
<1>1. TypeOK /\ [Next]_vars => TypeOK'
  <2> SUFFICES ASSUME TypeOK, [Next]_vars PROVE TypeOK'
    OBVIOUS
  <2>1. CASE Running
    BY <2>1, ZoneThreadType, AEThreadType, CallStepType, CommandsType DEF Running
  <2>2. CASE Reset
    BY <2>2, ResetType
  <2>3. CASE UNCHANGED vars
    BY <2>3 DEF vars, TypeOK
  <2> QED
    BY <2>1, <2>2, <2>3 DEF Next
<1> QED
  BY <1>1, InitType, PTL DEF Spec

----------------------------------------------------------------------------
(* No group is armed and arming at once.                                   *)

(***************************************************************************)
(* A thread that may run has the processor for itself: with equal          *)
(* priorities all the others are blocked.                                  *)
(***************************************************************************)
LEMMA ZoneRunsAlone ==
  ASSUME EqualPriorities, ZoneMayRun
  PROVE  \A d \in Callers : CallerBlocked(d)
BY AlarmAssumption DEF EqualPriorities, ZoneMayRun, AlarmAssumption

LEMMA CallerRunsAlone ==
  ASSUME EqualPriorities, NEW c \in Callers, CallerMayRun(c)
  PROVE  ZoneBlocked /\ \A d \in Callers \ {c} : CallerBlocked(d)
BY AlarmAssumption DEF EqualPriorities, CallerMayRun, AlarmAssumption

(***************************************************************************)
(* A step of one caller, which alone was running, keeps the invariant when *)
(* it keeps the group array free of armed and arming groups, and leaves    *)
(* the test of armGroup only with a group that is not armed.               *)
(***************************************************************************)
LEMMA CallerKeepsArmingInv ==
  ASSUME EqualPriorities, TypeOK, ArmingInv, NEW c \in Callers, CallerMayRun(c),
         \A d \in Callers \ {c} : caller'[d] = caller[d],
         UNCHANGED zt,
         caller'[c].pc = "armSet" => ~group'[caller'[c].g].armed,
         \A g \in Groups : group'[g].armed => group'[g].armDelay = 0,
         bkpGroup' \in {group, bkpGroup}
  PROVE  ArmingInv'
<1>1. ZoneBlocked' /\ \A d \in Callers \ {c} : CallerBlocked(d)'
  BY CallerRunsAlone DEF ZoneBlocked, CallerBlocked
<1>2. OneRunner'
  BY <1>1 DEF OneRunner
<1>3. \A d \in Callers : caller'[d].pc = "armSet" => ~group'[caller'[d].g].armed
  BY <1>1 DEF CallerBlocked
<1>4. \A g \in Groups : bkpGroup'[g].armed => bkpGroup'[g].armDelay = 0
  BY DEF ArmingInv, ArmedIsNotArming
<1> QED
  BY <1>2, <1>3, <1>4 DEF ArmingInv, ArmedIsNotArming

(***************************************************************************)
(* The alarm event threads set alarm and waitAuth only.                    *)
(***************************************************************************)
LEMMA AEThreadGroups ==
  ASSUME TypeOK, NEW a \in AEThreads, AEThread(a)
  PROVE  /\ \A g \in Groups : /\ group'[g].armed = group[g].armed
                              /\ group'[g].home = group[g].home
                              /\ group'[g].armDelay = group[g].armDelay
         /\ UNCHANGED <<bkpGroup, zt, caller>>
<1> DEFINE g0 == ZoneGroup[event[Head(mbox)].zone]
           g1 == GroupOf(a)
<1>1. \A r \in GroupState :
        /\ [r EXCEPT !.waitAuth = TRUE].armed = r.armed
        /\ [r EXCEPT !.waitAuth = TRUE].home = r.home
        /\ [r EXCEPT !.waitAuth = TRUE].armDelay = r.armDelay
        /\ [r EXCEPT !.alarm = TRUE].armed = r.armed
        /\ [r EXCEPT !.alarm = TRUE].home = r.home
        /\ [r EXCEPT !.alarm = TRUE].armDelay = r.armDelay
        /\ [r EXCEPT !.waitAuth = TRUE, !.alarm = TRUE].armed = r.armed
        /\ [r EXCEPT !.waitAuth = TRUE, !.alarm = TRUE].home = r.home
        /\ [r EXCEPT !.waitAuth = TRUE, !.alarm = TRUE].armDelay = r.armDelay
  BY DEF GroupState
<1>2. \/ group' = group
      \/ group' = [group EXCEPT ![g0].waitAuth = TRUE]
      \/ group' = [group EXCEPT ![g0].waitAuth = TRUE, ![g0].alarm = TRUE]
      \/ group' = [group EXCEPT ![g1].alarm = TRUE]
  BY DEF AEThread, AEDrop, AEPend, AEAlarm, AEWait, AERelays, AEDone, EndPeriod
<1>3. group \in [Groups -> GroupState]
  BY DEF TypeOK
<1>4. \A g \in Groups : /\ group'[g].armed = group[g].armed
                        /\ group'[g].home = group[g].home
                        /\ group'[g].armDelay = group[g].armDelay
  <2>1. CASE group' = group
    BY <2>1
  <2>2. CASE group' = [group EXCEPT ![g0].waitAuth = TRUE]
    BY <1>1, <1>3, <2>2
  <2>3. CASE group' = [group EXCEPT ![g0].waitAuth = TRUE, ![g0].alarm = TRUE]
    <3>1. \A g \in Groups : group'[g] = IF g = g0
            THEN [group[g] EXCEPT !.waitAuth = TRUE, !.alarm = TRUE] ELSE group[g]
      BY <1>3, <2>3
    <3> QED
      BY <1>1, <1>3, <3>1
  <2>4. CASE group' = [group EXCEPT ![g1].alarm = TRUE]
    BY <1>1, <1>3, <2>4
  <2> QED
    BY <1>2, <2>1, <2>2, <2>3, <2>4
<1> QED
  BY <1>4 DEF AEThread, AEDrop, AEPend, AEAlarm, AEWait, AERelays, AEDone

LEMMA ArmingInvInit == Init => ArmingInv
BY DEF Init, ArmingInv, OneRunner, ArmedIsNotArming, CallerBlocked, Idle, GroupOff

LEMMA ArmingInvStep == EqualPriorities /\ TypeOK /\ ArmingInv /\ [Next]_vars => ArmingInv'
<1> SUFFICES ASSUME EqualPriorities, TypeOK, ArmingInv, [Next]_vars PROVE ArmingInv'
  OBVIOUS
<1>0. /\ KeyReaders \subseteq Callers /\ AutoArmers \subseteq Callers
      /\ MqttSubs \subseteq Callers /\ Webs \subseteq Callers
      /\ caller \in [Callers -> CallerState]
  BY DEF Callers, TypeOK
<1>1. CASE ZoneThread
  <2>1. ZoneMayRun /\ UNCHANGED caller
    BY <1>1 DEF ZoneThread, ZoneWake, ZoneTick, ZoneArmedSaved, ZoneAdcDone, ZoneScan
  <2>2. \A d \in Callers : CallerBlocked(d) /\ CallerBlocked(d)'
    BY <2>1, ZoneRunsAlone DEF CallerBlocked
  <2>3. OneRunner' /\ \A d \in Callers : caller'[d].pc # "armSet"
    BY <2>2 DEF OneRunner, CallerBlocked
  <2>4. ArmedIsNotArming'
    <3>1. CASE ZoneTick
      <4> DEFINE g == zt.i
      <4>1. g \in Groups /\ group \in [Groups -> GroupState]
        BY <3>1 DEF ZoneTick, TypeOK, ZoneThreadState
      <4>2. group[g].armDelay > 1 => ~group[g].armed
        BY <4>1 DEF ArmingInv, ArmedIsNotArming, GroupState
      <4>3. CASE group' = group
        BY <4>3 DEF ArmingInv, ArmedIsNotArming
      <4>4. CASE group[g].armDelay > 1 /\ group' = [group EXCEPT ![g].armDelay = @ - 1]
        <5>1. group'[g].armed = group[g].armed
          BY <4>1, <4>4 DEF GroupState
        <5> QED
          BY <4>1, <4>2, <4>4, <5>1 DEF ArmingInv, ArmedIsNotArming
      <4>5. CASE group' = [group EXCEPT ![g].armDelay = 0, ![g].armed = TRUE]
        <5>1. group'[g].armDelay = 0
          BY <4>1, <4>5 DEF GroupState
        <5> QED
          BY <4>1, <4>5, <5>1 DEF ArmingInv, ArmedIsNotArming
      <4> QED
        BY <3>1, <4>3, <4>4, <4>5 DEF ZoneTick
    <3>2. CASE ~ZoneTick
      BY <1>1, <3>2 DEF ZoneThread, ZoneWake, ZoneArmedSaved, ZoneAdcDone, ZoneScan,
                        ArmingInv, ArmedIsNotArming
    <3> QED
      BY <3>1, <3>2
  <2>5. bkpGroup' \in {group, bkpGroup}
    BY <1>1 DEF ZoneThread, ZoneWake, ZoneTick, ZoneArmedSaved, ZoneAdcDone, ZoneScan
  <2> QED
    BY <2>3, <2>4, <2>5 DEF ArmingInv, ArmedIsNotArming
<1>2. ASSUME NEW a \in AEThreads, AEThread(a) PROVE ArmingInv'
  <2>1. /\ \A g \in Groups : /\ group'[g].armed = group[g].armed
                             /\ group'[g].armDelay = group[g].armDelay
        /\ UNCHANGED <<bkpGroup, zt, caller>>
    BY <1>2, AEThreadGroups
  <2>2. \A c \in Callers : caller[c].g \in Groups
    BY <1>0 DEF CallerState
  <2>3. OneRunner'
    BY <2>1 DEF ArmingInv, OneRunner, CallerBlocked, ZoneBlocked
  <2>4. ArmedIsNotArming'
    BY <2>1 DEF ArmingInv, ArmedIsNotArming
  <2>5. \A c \in Callers : caller'[c].pc = "armSet" => ~group'[caller'[c].g].armed
    BY <2>1, <2>2 DEF ArmingInv
  <2> QED
    BY <2>1, <2>3, <2>4, <2>5 DEF ArmingInv
<1>3. ASSUME NEW c \in Callers, CallStep(c) PROVE ArmingInv'
  <2> DEFINE g == caller[c].g
  <2>1. /\ CallerMayRun(c) /\ UNCHANGED zt
        /\ bkpGroup' \in {group, bkpGroup}
    BY <1>3 DEF CallStep, RejectSent, ArmCheck, ArmSet, ArmSaved, DisarmAlarm,
                DisarmZones, DisarmBits, DisarmSaved
  <2>2. \A d \in Callers \ {c} : caller'[d] = caller[d]
    BY <1>0, <1>3
       DEF CallStep, RejectSent, ArmCheck, ArmSet, ArmSaved, DisarmAlarm, DisarmZones,
           DisarmBits, DisarmSaved, Chain
  <2>3. g \in Groups /\ group \in [Groups -> GroupState] /\ group[g] \in GroupState
        /\ caller[c] \in CallerState
    BY <1>0 DEF TypeOK, CallerState
  <2>4. \A h \in Groups : group'[h].armed => group'[h].armDelay = 0
    <3>1. CASE ArmSet(c)
      <4>1. ~group[g].armed
        BY <3>1 DEF ArmSet, ArmingInv
      <4>2. ~group'[g].armed /\ \A h \in Groups \ {g} : group'[h] = group[h]
        BY <2>3, <3>1, <4>1 DEF ArmSet, GroupState
      <4> QED
        BY <4>2 DEF ArmingInv, ArmedIsNotArming
    <3>2. CASE DisarmAlarm(c)
      <4>1. /\ group'[g].armed = group[g].armed /\ group'[g].armDelay = group[g].armDelay
            /\ \A h \in Groups \ {g} : group'[h] = group[h]
        BY <2>3, <3>2 DEF DisarmAlarm, GroupState
      <4> QED
        BY <4>1 DEF ArmingInv, ArmedIsNotArming
    <3>3. CASE DisarmBits(c)
      <4>1. group'[g].armDelay = 0 /\ \A h \in Groups \ {g} : group'[h] = group[h]
        BY <2>3, <3>3 DEF DisarmBits, GroupState
      <4> QED
        BY <4>1 DEF ArmingInv, ArmedIsNotArming
    <3>4. CASE group' = group
      BY <3>4 DEF ArmingInv, ArmedIsNotArming
    <3> QED
      BY <1>3, <3>1, <3>2, <3>3, <3>4
         DEF CallStep, RejectSent, ArmCheck, ArmSaved, DisarmZones, DisarmSaved
  <2>5. caller'[c].pc = "armSet" => ~group'[caller'[c].g].armed
    <3>1. CASE caller' = [caller EXCEPT ![c].pc = "armSet"] /\ ~group[g].armed
               /\ UNCHANGED group
      <4>1. caller'[c].g = g
        BY <1>0, <3>1
      <4> QED
        BY <3>1, <4>1
    <3>2. CASE caller'[c].pc # "armSet"
      BY <3>2
    <3>3. \A chain, pc : Chain(c, chain, pc) /\ pc # "armSet" => caller'[c].pc # "armSet"
      BY <1>0, <2>3 DEF Chain, Idle, CallerState
    <3> QED
      BY <1>0, <1>3, <2>3, <3>1, <3>2, <3>3
         DEF CallStep, RejectSent, ArmCheck, ArmSet, ArmSaved, DisarmAlarm, DisarmZones,
             DisarmBits, DisarmSaved, CallerState
  <2> QED
    BY <2>1, <2>2, <2>4, <2>5, CallerKeepsArmingInv
<1>4. CASE Commands
  <2>1. ASSUME NEW c \in Callers, CallerMayRun(c), UNCHANGED <<group, bkpGroup, zt>>,
               \/ UNCHANGED caller
               \/ \E pc \in {"disarm", "rejectSend", "arm"}, h \in Groups,
                     master \in Groups \union {DUMMY_NO_VALUE}, type \in {"away", "home"} :
                     Call(c, pc, h, master, type)
        PROVE  ArmingInv'
    <3>1. \A d \in Callers \ {c} : caller'[d] = caller[d]
      BY <1>0, <2>1 DEF Call
    <3>2. caller'[c].pc = "armSet" => ~group'[caller'[c].g].armed
      BY <1>0, <2>1 DEF Call, ArmingInv
    <3> QED
      BY <2>1, <3>1, <3>2, CallerKeepsArmingInv DEF ArmingInv, ArmedIsNotArming
  <2>2. ASSUME NEW z \in Zones, RegisterZone(z) PROVE ArmingInv'
    BY <2>2 DEF RegisterZone, ArmingInv, ArmedIsNotArming, OneRunner, CallerBlocked,
                ZoneBlocked
  <2> QED
    BY <1>0, <1>4, <2>1, <2>2
       DEF Commands, KeyPress, RemoteZoneMessage, AutoArm, MqttArm, MqttDisarm, WebDisarm,
           WebSetEnabled, WebSave
<1>5. CASE Reset
  <2>1. \A c \in Callers : caller'[c].pc = "idle"
    BY <1>5 DEF Reset, Idle
  <2> QED
    BY <1>5, <2>1 DEF Reset, ArmingInv, ArmedIsNotArming, OneRunner, CallerBlocked
<1>6. CASE UNCHANGED vars
  BY <1>6 DEF vars, ArmingInv, ArmedIsNotArming, OneRunner, CallerBlocked, ZoneBlocked
<1> QED
  BY <1>1, <1>2, <1>3, <1>4, <1>5, <1>6 DEF Next, Running

(***************************************************************************)
(* When every caller has the priority of the zone thread, as the readers   *)
(* and the service thread do, no interleaving and no reset gives a group   *)
(* that is armed while its arm delay runs.  For the MQTT and http threads, *)
(* which a higher priority preempts between the test of armGroup and the   *)
(* assignment, it does not hold.                                           *)
(***************************************************************************)
THEOREM ArmedNotArming == EqualPriorities => (Spec => []ArmedIsNotArming)
<1> SUFFICES ASSUME EqualPriorities PROVE Spec => []ArmedIsNotArming
  OBVIOUS
<1>1. ArmingInv => ArmedIsNotArming
  BY DEF ArmingInv
<1>2. TypeOK /\ ArmingInv /\ [Next]_vars => ArmingInv'
  BY ArmingInvStep
<1> QED
  BY <1>1, <1>2, TypeCorrect, ArmingInvInit, PTL DEF Spec

----------------------------------------------------------------------------
(* No alarm event object is lost or doubled: each object of the pool is    *)
(* always in one place, and the thread that holds an object is the only    *)
(* one to touch it.                                                        *)

(***************************************************************************)
(* While an object is free, the mailbox has a slot left: a post succeeds.  *)
(***************************************************************************)
LEMMA PostSucceeds ==
  ASSUME TypeOK, EventsConserved, NEW e \in pool
  PROVE  Len(mbox) < MailboxSize
<1>1. IsFiniteSet(Events) /\ MailboxSize \in Nat /\ Cardinality(Events) <= MailboxSize
  BY AlarmAssumption DEF AlarmAssumption
<1>2. e \in Events /\ mbox \in Seq(Events) /\ IsInjective(mbox)
  BY DEF TypeOK, EventsConserved
<1>3. e \notin ToSet(mbox)
  BY DEF EventsConserved
<1>4. Len(mbox) < Cardinality(Events)
  BY <1>1, <1>2, <1>3, RoomForOneMore
<1>5. Len(mbox) \in Nat /\ Cardinality(Events) \in Nat
  BY <1>1, <1>2, FS_CardinalityType, LenProperties
<1> QED
  BY <1>1, <1>4, <1>5

----------------------------------------------------------------------------
(* The five ways an object moves.                                          *)

\* Only the entry of thread a changes.
OthersHold(a) == \A b \in AEThreads \ {a} : ae'[b] = ae[b]

(***************************************************************************)
(* The zone thread takes a free object and posts it.                       *)
(***************************************************************************)
LEMMA Posted ==
  ASSUME TypeOK, EventsConserved, NEW e \in pool, pool' = pool \ {e},
         mbox' = Append(mbox, e), ae' = ae
  PROVE  EventsConserved'
<1>1. e \in Events /\ mbox \in Seq(Events) /\ e \notin ToSet(mbox) /\ IsInjective(mbox)
      /\ e \notin HeldEvents
  BY DEF TypeOK, EventsConserved
<1>2. IsInjective(mbox') /\ ToSet(mbox') = ToSet(mbox) \union {e}
  BY <1>1, AppendToInjective
<1>3. HeldEvents' = HeldEvents
  BY DEF HeldEvents
<1>4. /\ Events = pool' \union ToSet(mbox') \union HeldEvents'
      /\ pool' \intersect ToSet(mbox') = {}
      /\ (pool' \union ToSet(mbox')) \intersect HeldEvents' = {}
  BY <1>1, <1>2, <1>3 DEF EventsConserved
<1> QED
  BY <1>2, <1>4 DEF EventsConserved

(***************************************************************************)
(* An alarm event thread fetches an object and frees it at once.           *)
(***************************************************************************)
LEMMA Dropped ==
  ASSUME TypeOK, EventsConserved, mbox # <<>>, mbox' = Tail(mbox),
         pool' = pool \union {Head(mbox)}, ae' = ae
  PROVE  EventsConserved'
<1>1. mbox \in Seq(Events) /\ IsInjective(mbox)
  BY DEF TypeOK, EventsConserved
<1>2. /\ Head(mbox) \in ToSet(mbox) /\ IsInjective(mbox')
      /\ ToSet(mbox') = ToSet(mbox) \ {Head(mbox)}
  BY <1>1, TailOfInjective
<1>3. HeldEvents' = HeldEvents
  BY DEF HeldEvents
<1>4. /\ Events = pool' \union ToSet(mbox') \union HeldEvents'
      /\ pool' \intersect ToSet(mbox') = {}
      /\ (pool' \union ToSet(mbox')) \intersect HeldEvents' = {}
  BY <1>2, <1>3 DEF EventsConserved
<1> QED
  BY <1>2, <1>4 DEF EventsConserved

(***************************************************************************)
(* An alarm event thread fetches an object and keeps it.                   *)
(***************************************************************************)
LEMMA Kept ==
  ASSUME TypeOK, EventsConserved, NEW a \in AEThreads, ae[a].pc = "fetch",
         mbox # <<>>, mbox' = Tail(mbox), pool' = pool, OthersHold(a),
         ae'[a].pc # "fetch", ae'[a].ev = Head(mbox)
  PROVE  EventsConserved'
<1> DEFINE e == Head(mbox)
<1>1. mbox \in Seq(Events) /\ IsInjective(mbox)
  BY DEF TypeOK, EventsConserved
<1>2. e \in ToSet(mbox) /\ IsInjective(mbox') /\ ToSet(mbox') = ToSet(mbox) \ {e}
  BY <1>1, TailOfInjective
<1>3. HeldEvents' = HeldEvents \union {e}
  BY DEF HeldEvents, OthersHold
<1>4. e \notin HeldEvents /\ e \notin pool
  BY <1>2 DEF EventsConserved
<1>5. /\ Events = pool' \union ToSet(mbox') \union HeldEvents'
      /\ pool' \intersect ToSet(mbox') = {}
      /\ (pool' \union ToSet(mbox')) \intersect HeldEvents' = {}
  BY <1>2, <1>3, <1>4 DEF EventsConserved
<1>6. \A b \in AEThreads \ {a} : ae'[b].pc # "fetch" => ae'[b].ev # e
  BY <1>4 DEF HeldEvents, OthersHold
<1>7. \A b, c \in AEThreads : b # c /\ ae'[b].pc # "fetch" /\ ae'[c].pc # "fetch"
                              => ae'[b].ev # ae'[c].ev
  BY <1>6 DEF OthersHold, EventsConserved
<1> QED
  BY <1>2, <1>5, <1>7 DEF EventsConserved

(***************************************************************************)
(* An alarm event thread goes on with the object it holds.                 *)
(***************************************************************************)
LEMMA StillHeld ==
  ASSUME EventsConserved, NEW a \in AEThreads, ae[a].pc # "fetch",
         pool' = pool, mbox' = mbox, OthersHold(a),
         ae'[a].pc # "fetch", ae'[a].ev = ae[a].ev
  PROVE  EventsConserved'
<1>1. \A b \in AEThreads : /\ ae'[b].pc = "fetch" <=> ae[b].pc = "fetch"
                           /\ ae'[b].ev = ae[b].ev
  BY DEF OthersHold
<1>2. HeldEvents' = HeldEvents
  BY <1>1 DEF HeldEvents
<1> QED
  BY <1>1, <1>2 DEF EventsConserved

(***************************************************************************)
(* An alarm event thread frees the object it holds.                        *)
(***************************************************************************)
LEMMA GivenBack ==
  ASSUME EventsConserved, NEW a \in AEThreads, ae[a].pc # "fetch",
         pool' = pool \union {ae[a].ev}, mbox' = mbox, OthersHold(a),
         ae'[a].pc = "fetch"
  PROVE  EventsConserved'
<1> DEFINE e == ae[a].ev
<1>1. e \in HeldEvents /\ e \in Events /\ e \notin ToSet(mbox)
  BY DEF HeldEvents, EventsConserved
<1>2. \A b \in AEThreads \ {a} : ae[b].pc # "fetch" => ae[b].ev # e
  BY DEF EventsConserved
<1>3. HeldEvents' = HeldEvents \ {e}
  BY <1>2 DEF HeldEvents, OthersHold
<1>4. /\ Events = pool' \union ToSet(mbox') \union HeldEvents'
      /\ pool' \intersect ToSet(mbox') = {}
      /\ (pool' \union ToSet(mbox')) \intersect HeldEvents' = {}
  BY <1>1, <1>3 DEF EventsConserved
<1>5. \A b, c \in AEThreads : b # c /\ ae'[b].pc # "fetch" /\ ae'[c].pc # "fetch"
                              => ae'[b].ev # ae'[c].ev
  BY DEF OthersHold, EventsConserved
<1> QED
  BY <1>4, <1>5 DEF EventsConserved

----------------------------------------------------------------------------
LEMMA EventsInit == Init => EventsConserved
<1> SUFFICES ASSUME Init PROVE EventsConserved
  OBVIOUS
<1>1. pool = Events /\ mbox = <<>> /\ \A a \in AEThreads : ae[a].pc = "fetch"
  BY DEF Init, Fetching
<1>2. ToSet(mbox) = {} /\ IsInjective(mbox) /\ HeldEvents = {}
  BY <1>1 DEF ToSet, IsInjective, HeldEvents
<1> QED
  BY <1>1, <1>2 DEF EventsConserved

LEMMA EventsAEStep ==
  ASSUME TypeOK, EventsConserved, NEW a \in AEThreads, AEThread(a)
  PROVE  EventsConserved'
<1>0. ae \in [AEThreads -> AEState]
  BY DEF TypeOK
<1>1. CASE AEDrop(a)
  BY <1>1, Dropped DEF AEDrop, Fetch, Free
<1>2. CASE AEPend(a)
  <2>1. /\ ae[a].pc = "fetch" /\ mbox # <<>> /\ mbox' = Tail(mbox) /\ pool' = pool
        /\ OthersHold(a) /\ ae'[a].pc # "fetch" /\ ae'[a].ev = Head(mbox)
    BY <1>0, <1>2 DEF AEPend, Fetch, OthersHold
  <2> QED
    BY <2>1, Kept
<1>3. CASE AEAlarm(a)
  <2>1. /\ ae[a].pc = "fetch" /\ mbox # <<>> /\ mbox' = Tail(mbox) /\ pool' = pool
        /\ OthersHold(a) /\ ae'[a].pc # "fetch" /\ ae'[a].ev = Head(mbox)
    BY <1>0, <1>3 DEF AEAlarm, Fetch, OthersHold
  <2> QED
    BY <2>1, Kept
<1>4. CASE AEWait(a)
  <2>1. ae[a].pc # "fetch" /\ mbox' = mbox
    BY <1>4 DEF AEWait
  <2>2. ASSUME UNCHANGED pool,
               \/ ae' = [ae EXCEPT ![a].pc = "sleep"]
               \/ ae' = [ae EXCEPT ![a].count = @ + 1]
        PROVE  EventsConserved'
    <3>1. OthersHold(a)
      BY <1>0, <2>2 DEF OthersHold
    <3>2. ae'[a].pc # "fetch" /\ ae'[a].ev = ae[a].ev
      BY <1>0, <2>1, <2>2 DEF AEState
    <3> QED
      BY <2>1, <2>2, <3>1, <3>2, StillHeld
  <2>3. ASSUME UNCHANGED pool, NEW pc \in {"notify", "alarmSend"}, NEW wait,
               ae' = [ae EXCEPT ![a] = [pc |-> pc, ev |-> @.ev, wait |-> wait, count |-> 0]]
        PROVE  EventsConserved'
    <3>1. OthersHold(a) /\ ae'[a].pc # "fetch" /\ ae'[a].ev = ae[a].ev
      BY <1>0, <2>3 DEF OthersHold
    <3> QED
      BY <2>1, <2>3, <3>1, StillHeld
  <2>4. ASSUME Free(ae[a].ev), ae' = [ae EXCEPT ![a] = Fetching] PROVE EventsConserved'
    <3>1. pool' = pool \union {ae[a].ev} /\ OthersHold(a) /\ ae'[a].pc = "fetch"
      BY <1>0, <2>4 DEF Free, OthersHold, Fetching
    <3> QED
      BY <2>1, <3>1, GivenBack
  <2>5. CASE EndPeriod(a)
    BY <2>3, <2>4, <2>5 DEF EndPeriod
  <2> QED
    BY <1>4, <2>2, <2>5 DEF AEWait
<1>5. CASE AERelays(a)
  <2>1. ae[a].pc # "fetch" /\ pool' = pool /\ mbox' = mbox /\ OthersHold(a)
    BY <1>0, <1>5 DEF AERelays, OthersHold
  <2>2. ae'[a].pc # "fetch" /\ ae'[a].ev = ae[a].ev
    BY <1>0, <1>5 DEF AERelays, AEState
  <2> QED
    BY <2>1, <2>2, StillHeld
<1>6. CASE AEDone(a)
  <2>1. /\ ae[a].pc # "fetch" /\ mbox' = mbox /\ OthersHold(a)
        /\ pool' = pool \union {ae[a].ev} /\ ae'[a].pc = "fetch"
    BY <1>0, <1>6 DEF AEDone, Free, OthersHold, Fetching
  <2> QED
    BY <2>1, GivenBack
<1> QED
  BY <1>1, <1>2, <1>3, <1>4, <1>5, <1>6 DEF AEThread

LEMMA EventsUntouched ==
  ASSUME EventsConserved, UNCHANGED <<pool, mbox, ae>>
  PROVE  EventsConserved'
BY DEF EventsConserved, HeldEvents

LEMMA EventsStep == TypeOK /\ EventsConserved /\ [Next]_vars => EventsConserved'
<1> SUFFICES ASSUME TypeOK, EventsConserved, [Next]_vars PROVE EventsConserved'
  OBVIOUS
<1>1. CASE ZoneThread
  <2>1. CASE ZoneScan
    <3>1. \/ \E z, v : Post(z, v)
          \/ UNCHANGED <<pool, mbox>>
      BY <2>1 DEF ZoneScan
    <3>2. ae' = ae
      BY <2>1 DEF ZoneScan
    <3>3. ASSUME NEW z, NEW v, Post(z, v) PROVE EventsConserved'
      <4>1. PICK e \in pool :
              /\ pool' = pool \ {e}
              /\ mbox' = IF Len(mbox) < MailboxSize THEN Append(mbox, e) ELSE mbox
        BY <3>3 DEF Post
      <4>2. mbox' = Append(mbox, e)
        BY <4>1, PostSucceeds
      <4> QED
        BY <3>2, <4>1, <4>2, Posted
    <3> QED
      BY <3>1, <3>2, <3>3, EventsUntouched
  <2>2. CASE ZoneWake \/ ZoneTick \/ ZoneArmedSaved \/ ZoneAdcDone
    BY <2>2, EventsUntouched DEF ZoneWake, ZoneTick, ZoneArmedSaved, ZoneAdcDone
  <2> QED
    BY <1>1, <2>1, <2>2 DEF ZoneThread
<1>2. CASE \E a \in AEThreads : AEThread(a)
  BY <1>2, EventsAEStep
<1>3. ASSUME NEW c \in Callers, CallStep(c) PROVE EventsConserved'
  BY <1>3, EventsUntouched
     DEF CallStep, RejectSent, ArmCheck, ArmSet, ArmSaved, DisarmAlarm, DisarmZones,
         DisarmBits, DisarmSaved
<1>4. CASE Commands
  BY <1>4, EventsUntouched
     DEF Commands, KeyPress, RemoteZoneMessage, RegisterZone, AutoArm, MqttArm, MqttDisarm,
         WebDisarm, WebSetEnabled, WebSave
<1>5. CASE Reset
  <2>1. pool' = Events /\ mbox' = <<>> /\ \A a \in AEThreads : ae'[a].pc = "fetch"
    BY <1>5 DEF Reset, Fetching
  <2>2. ToSet(mbox') = {} /\ IsInjective(mbox') /\ HeldEvents' = {}
    BY <2>1 DEF ToSet, IsInjective, HeldEvents
  <2> QED
    BY <2>1, <2>2 DEF EventsConserved
<1>6. CASE UNCHANGED vars
  BY <1>6, EventsUntouched DEF vars
<1> QED
  BY <1>1, <1>2, <1>3, <1>4, <1>5, <1>6 DEF Next, Running

(***************************************************************************)
(* Every object of alarmEvent_pool is in one place in every behaviour: in  *)
(* the pool, in the mailbox or with one alarm event thread.  TypeOK and    *)
(* EventsConserved together are inductive.                                 *)
(***************************************************************************)
THEOREM EventsAreConserved == Spec => []EventsConserved
<1>1. TypeOK /\ EventsConserved /\ [Next]_vars => EventsConserved'
  BY EventsStep
<1> QED
  BY <1>1, TypeCorrect, EventsInit, PTL DEF Spec

(***************************************************************************)
(* As long as an object is free the mailbox has a slot for it: after the   *)
(* zone thread has taken an object from the pool its post cannot fail, and *)
(* its failure branch (ohs_th_zone.h:191, 227) is never taken.             *)
(***************************************************************************)
THEOREM PostNeverFails == Spec => [](pool # {} => Len(mbox) < MailboxSize)
<1>1. TypeOK /\ EventsConserved => (pool # {} => Len(mbox) < MailboxSize)
  BY PostSucceeds
<1> QED
  BY <1>1, TypeCorrect, EventsAreConserved, PTL

----------------------------------------------------------------------------
(* What is armed is saved.                                                 *)

\* A thread has changed the group array and will save it.
Saving == \/ zt.pc = "armedSend"
          \/ \E c \in Callers : caller[c].pc \in {"armSend", "disarmSend"}

(***************************************************************************)
(* A step that changes nothing a reset must restore, and ends no saving.   *)
(***************************************************************************)
LEMMA NothingToSave ==
  ASSUME ArmedIsSaved, bkpGroup' = bkpGroup, Saving => Saving',
         \A g \in Groups : /\ group'[g].armed = group[g].armed
                           /\ group'[g].home = group[g].home
                           /\ (group'[g].armDelay > 0) = (group[g].armDelay > 0)
  PROVE  ArmedIsSaved'
  BY DEF ArmedIsSaved, Saving

LEMMA SavedInit == Init => ArmedIsSaved
  BY DEF Init, ArmedIsSaved

LEMMA SavedStep == TypeOK /\ ArmedIsSaved /\ [Next]_vars => ArmedIsSaved'
<1> SUFFICES ASSUME TypeOK, ArmedIsSaved, [Next]_vars PROVE ArmedIsSaved'
  OBVIOUS
<1>0. /\ KeyReaders \subseteq Callers /\ AutoArmers \subseteq Callers
      /\ MqttSubs \subseteq Callers /\ Webs \subseteq Callers
      /\ caller \in [Callers -> CallerState] /\ group \in [Groups -> GroupState]
      /\ zt \in ZoneThreadState
  BY DEF Callers, TypeOK
<1>1. CASE ZoneTick
  <2> DEFINE g == zt.i
  <2>1. g \in Groups /\ zt.pc = "tick" /\ UNCHANGED <<caller, bkpGroup>>
    BY <1>0, <1>1 DEF ZoneTick, ZoneThreadState
  <2>2. Saving => \E c \in Callers : caller'[c].pc \in {"armSend", "disarmSend"}
    BY <2>1 DEF Saving
  <2>3. CASE group' = group
    BY <2>1, <2>2, <2>3, NothingToSave DEF Saving
  <2>4. CASE group[g].armDelay > 1 /\ group' = [group EXCEPT ![g].armDelay = @ - 1]
    <3>1. \A h \in Groups : /\ group'[h].armed = group[h].armed
                            /\ group'[h].home = group[h].home
                            /\ (group'[h].armDelay > 0) = (group[h].armDelay > 0)
      <4>1. /\ group'[g].armed = group[g].armed /\ group'[g].home = group[g].home
            /\ group'[g].armDelay = group[g].armDelay - 1
            /\ group[g].armDelay \in Int
        BY <1>0, <2>1, <2>4 DEF GroupState
      <4>2. \A h \in Groups \ {g} : group'[h] = group[h]
        BY <1>0, <2>1, <2>4
      <4>3. (group'[g].armDelay > 0) = (group[g].armDelay > 0)
        BY <2>4, <4>1
      <4> QED
        BY <4>1, <4>2, <4>3
    <3> QED
      BY <2>1, <2>2, <3>1, NothingToSave DEF Saving
  <2>5. CASE zt' = [zt EXCEPT !.pc = "armedSend"]
    <3>1. zt'.pc = "armedSend"
      BY <1>0, <2>5 DEF ZoneThreadState
    <3> QED
      BY <3>1 DEF ArmedIsSaved
  <2> QED
    BY <1>1, <2>3, <2>4, <2>5 DEF ZoneTick
<1>2. CASE ZoneArmedSaved
  BY <1>2 DEF ZoneArmedSaved, ArmedIsSaved
<1>3. CASE ZoneWake \/ ZoneAdcDone \/ ZoneScan
  <2>1. zt.pc # "armedSend" /\ UNCHANGED <<group, bkpGroup, caller>>
    BY <1>3 DEF ZoneWake, ZoneAdcDone, ZoneScan
  <2>2. Saving => Saving'
    BY <2>1 DEF Saving
  <2> QED
    BY <2>1, <2>2, NothingToSave
<1>4. ASSUME NEW a \in AEThreads, AEThread(a) PROVE ArmedIsSaved'
  <2>1. /\ \A g \in Groups : /\ group'[g].armed = group[g].armed
                             /\ group'[g].home = group[g].home
                             /\ group'[g].armDelay = group[g].armDelay
        /\ UNCHANGED <<bkpGroup, zt, caller>>
    BY <1>4, AEThreadGroups
  <2> QED
    BY <2>1, NothingToSave DEF Saving
<1>5. ASSUME NEW c \in Callers, CallStep(c) PROVE ArmedIsSaved'
  <2> DEFINE g == caller[c].g
  <2>1. g \in Groups /\ zt' = zt /\ \A d \in Callers \ {c} : caller'[d] = caller[d]
    BY <1>0, <1>5
       DEF CallStep, RejectSent, ArmCheck, ArmSet, ArmSaved, DisarmAlarm, DisarmZones,
           DisarmBits, DisarmSaved, Chain, CallerState
  <2>2. CASE ArmSaved(c) \/ DisarmSaved(c)
    BY <2>2 DEF ArmSaved, DisarmSaved, ArmedIsSaved
  <2>3. CASE ArmSet(c) \/ DisarmBits(c)
    <3>1. caller'[c].pc \in {"armSend", "disarmSend"}
      BY <1>0, <2>3 DEF ArmSet, DisarmBits, CallerState
    <3> QED
      BY <3>1 DEF ArmedIsSaved
  <2>4. CASE RejectSent(c) \/ ArmCheck(c) \/ DisarmAlarm(c) \/ DisarmZones(c)
    <3>1. caller[c].pc \notin {"armSend", "disarmSend"} /\ bkpGroup' = bkpGroup
      BY <2>4 DEF RejectSent, ArmCheck, DisarmAlarm, DisarmZones
    <3>2. Saving => Saving'
      BY <2>1, <3>1 DEF Saving
    <3>3. group' = group \/ group' = [group EXCEPT ![g].alarm = FALSE]
      BY <2>4 DEF RejectSent, ArmCheck, DisarmAlarm, DisarmZones
    <3>4. \A h \in Groups : /\ group'[h].armed = group[h].armed
                            /\ group'[h].home = group[h].home
                            /\ group'[h].armDelay = group[h].armDelay
      BY <1>0, <2>1, <3>3 DEF GroupState
    <3> QED
      BY <3>1, <3>2, <3>4, NothingToSave
  <2> QED
    BY <1>5, <2>2, <2>3, <2>4 DEF CallStep
<1>6. CASE Commands
  <2>1. ASSUME NEW c \in Callers, caller[c].pc = "idle", UNCHANGED <<group, bkpGroup, zt>>,
               \/ UNCHANGED caller
               \/ \E pc, h, master, type : Call(c, pc, h, master, type)
        PROVE  ArmedIsSaved'
    <3>1. \A d \in Callers \ {c} : caller'[d] = caller[d]
      BY <1>0, <2>1 DEF Call
    <3>2. Saving => Saving'
      BY <2>1, <3>1 DEF Saving
    <3> QED
      BY <2>1, <3>2, NothingToSave
  <2>2. ASSUME NEW z \in Zones, RegisterZone(z) PROVE ArmedIsSaved'
    BY <2>2 DEF RegisterZone, ArmedIsSaved
  <2> QED
    BY <1>0, <1>6, <2>1, <2>2
       DEF Commands, KeyPress, RemoteZoneMessage, AutoArm, MqttArm, MqttDisarm, WebDisarm,
           WebSetEnabled, WebSave
<1>7. CASE Reset
  BY <1>7 DEF Reset, ArmedIsSaved
<1>8. CASE UNCHANGED vars
  BY <1>8 DEF vars, ArmedIsSaved
<1> QED
  BY <1>1, <1>2, <1>3, <1>4, <1>5, <1>6, <1>7, <1>8 DEF Next, Running, ZoneThread

(***************************************************************************)
(* When no thread is between a change and its save, a reset restores which *)
(* groups are armed, armed home and arming: for any callers and priorities *)
(* and in spite of saves that overlap (armGroup, disarmGroup, ZoneThread). *)
(***************************************************************************)
THEOREM ResetFindsWhatWasArmed == Spec => []ArmedIsSaved
<1>1. TypeOK /\ ArmedIsSaved /\ [Next]_vars => ArmedIsSaved'
  BY SavedStep
<1> QED
  BY <1>1, TypeCorrect, SavedInit, PTL DEF Spec

----------------------------------------------------------------------------
(* What an event says does not change while it is under way.               *)

(***************************************************************************)
(* The zone thread writes only events that are free, and posts an event of *)
(* a zone whose group is enabled.                                          *)
(***************************************************************************)
LEMMA ScanKeepsEvents ==
  ASSUME TypeOK, EventsConserved, ZoneScan
  PROVE  /\ UNCHANGED <<ae, group, enabled, saved, caller, relays>>
         /\ \A e \in ToSet(mbox) \union HeldEvents : event'[e] = event[e]
         /\ ToSet(mbox) \subseteq ToSet(mbox')
         /\ \A e \in ToSet(mbox') \ ToSet(mbox) : ZoneGroup[event'[e].zone] \in enabled
         /\ \A z \in Zones : zone'[z].alarm /\ ~zone[z].alarm
                               => \E e \in ToSet(mbox') : event'[e].zone = z
<1> DEFINE z == zt.i
<1>1. /\ z \in Zones /\ zone \in [Zones -> ZoneState] /\ event \in [Events -> EventState]
      /\ pool \subseteq Events /\ mbox \in Seq(Events)
      /\ UNCHANGED <<ae, group, enabled, saved, caller, relays>>
  BY DEF ZoneScan, TypeOK, ZoneThreadState
<1>2. \/ /\ zone' = [zone EXCEPT ![z].lastEvent = zone'[z].lastEvent]
         /\ UNCHANGED <<pool, event, mbox>>
      \/ /\ ZoneGroup[z] \in enabled
         /\ \E v : Post(z, v)
         /\ \E l : zone' = [zone EXCEPT ![z] = [lastEvent |-> l, alarm |-> TRUE]]
  <2>1. PICK last, v :
          \/ /\ Reports(z, last, v) /\ pool # {}
             /\ Post(z, v)
             /\ zone' = [zone EXCEPT ![z] = [lastEvent |-> NewLast(z, last, v),
                                             alarm |-> TRUE]]
          \/ /\ zone' = [zone EXCEPT ![z].lastEvent = NewLast(z, last, v)]
             /\ UNCHANGED <<pool, event, mbox>>
    BY DEF ZoneScan
  <2>2. CASE Reports(z, last, v) /\ Post(z, v)
              /\ zone' = [zone EXCEPT ![z] = [lastEvent |-> NewLast(z, last, v),
                                              alarm |-> TRUE]]
    BY <2>2 DEF Reports
  <2>3. CASE /\ zone' = [zone EXCEPT ![z].lastEvent = NewLast(z, last, v)]
             /\ UNCHANGED <<pool, event, mbox>>
    <3>1. zone'[z].lastEvent = NewLast(z, last, v)
      BY <1>1, <2>3 DEF ZoneState
    <3> QED
      BY <2>3, <3>1
  <2> QED
    BY <2>1, <2>2, <2>3
<1>3. CASE /\ zone' = [zone EXCEPT ![z].lastEvent = zone'[z].lastEvent]
           /\ UNCHANGED <<pool, event, mbox>>
  <2>1. \A y \in Zones : zone'[y].alarm = zone[y].alarm
    BY <1>1, <1>3 DEF ZoneState
  <2> QED
    BY <1>1, <1>3, <2>1
<1>4. ASSUME ZoneGroup[z] \in enabled, NEW v, Post(z, v), NEW l,
             zone' = [zone EXCEPT ![z] = [lastEvent |-> l, alarm |-> TRUE]]
      PROVE  /\ \A e \in ToSet(mbox) \union HeldEvents : event'[e] = event[e]
             /\ ToSet(mbox) \subseteq ToSet(mbox')
             /\ \A e \in ToSet(mbox') \ ToSet(mbox) : ZoneGroup[event'[e].zone] \in enabled
             /\ \A y \in Zones : zone'[y].alarm /\ ~zone[y].alarm
                                   => \E e \in ToSet(mbox') : event'[e].zone = y
  <2>1. PICK e \in pool :
          /\ event' = [event EXCEPT ![e] = [zone |-> z, type |-> v]]
          /\ mbox' = IF Len(mbox) < MailboxSize THEN Append(mbox, e) ELSE mbox
    BY <1>4 DEF Post
  <2>2. mbox' = Append(mbox, e)
    BY <2>1, PostSucceeds
  <2>3. e \in Events /\ e \notin ToSet(mbox) /\ e \notin HeldEvents /\ IsInjective(mbox)
    BY <1>1 DEF EventsConserved
  <2>4. ToSet(mbox') = ToSet(mbox) \union {e}
    BY <1>1, <2>2, <2>3, AppendToInjective
  <2>5. event'[e].zone = z /\ \A d \in Events \ {e} : event'[d] = event[d]
    BY <1>1, <2>1, <2>3
  <2>6. \A y \in Zones \ {z} : zone'[y] = zone[y]
    BY <1>1, <1>4
  <2>7. ToSet(mbox) \union HeldEvents \subseteq Events
    BY DEF EventsConserved
  <2> QED
    BY <1>4, <2>3, <2>4, <2>5, <2>6, <2>7
<1> QED
  BY <1>1, <1>2, <1>3, <1>4

\* The events that thread a neither holds nor takes.
NotOf(a) == {e \in ToSet(mbox) : ae[a].pc = "fetch" => e # Head(mbox)}

(***************************************************************************)
(* An alarm event thread touches only the event it holds or fetches.       *)
(***************************************************************************)
LEMMA OthersKeep ==
  ASSUME TypeOK, EventsConserved, NEW a \in AEThreads, AEThread(a)
  PROVE  /\ UNCHANGED <<enabled, saved, zone, caller>>
         /\ ToSet(mbox') = NotOf(a)
         /\ \A e \in NotOf(a) : event'[e] = event[e]
         /\ \A b \in AEThreads \ {a} :
              /\ ae'[b] = ae[b]
              /\ ae[b].pc # "fetch" => event'[ae[b].ev] = event[ae[b].ev]
<1>1. /\ ae \in [AEThreads -> AEState] /\ event \in [Events -> EventState]
      /\ mbox \in Seq(Events) /\ IsInjective(mbox)
  BY DEF TypeOK, EventsConserved
<1>2. UNCHANGED <<enabled, saved, zone, caller>>
  BY DEF AEThread, AEDrop, AEPend, AEAlarm, AEWait, AERelays, AEDone
<1>3. \A b \in AEThreads \ {a} : ae'[b] = ae[b]
  BY <1>1 DEF AEThread, AEDrop, AEPend, AEAlarm, AEWait, AERelays, AEDone, EndPeriod
<1>4. CASE AEDrop(a) \/ AEPend(a) \/ AEAlarm(a)
  <2>1. /\ ae[a].pc = "fetch" /\ mbox # <<>> /\ mbox' = Tail(mbox)
        /\ event' = event \/ event' = [event EXCEPT ![Head(mbox)] = NoEvent]
    BY <1>4 DEF AEDrop, AEPend, AEAlarm, Fetch, Free
  <2>2. Head(mbox) \in ToSet(mbox) /\ ToSet(mbox') = ToSet(mbox) \ {Head(mbox)}
    BY <1>1, <2>1, TailOfInjective
  <2>3. \A e \in Events \ {Head(mbox)} : event'[e] = event[e]
    BY <1>1, <2>1
  <2>4. \A b \in AEThreads : ae[b].pc # "fetch" => ae[b].ev \in Events \ {Head(mbox)}
    BY <2>2 DEF EventsConserved, HeldEvents
  <2>5. NotOf(a) = ToSet(mbox) \ {Head(mbox)} /\ NotOf(a) \subseteq Events
    BY <2>1 DEF NotOf, EventsConserved
  <2> QED
    BY <1>2, <1>3, <2>2, <2>3, <2>4, <2>5
<1>5. CASE AEWait(a) \/ AERelays(a) \/ AEDone(a)
  <2>1. /\ ae[a].pc # "fetch" /\ mbox' = mbox
        /\ event' = event \/ event' = [event EXCEPT ![ae[a].ev] = NoEvent]
    BY <1>5 DEF AEWait, AERelays, AEDone, EndPeriod, Free
  <2>2. ae[a].ev \in HeldEvents
    BY <2>1 DEF HeldEvents
  <2>3. \A e \in Events \ {ae[a].ev} : event'[e] = event[e]
    BY <1>1, <2>1
  <2>4. \A b \in AEThreads \ {a} : ae[b].pc # "fetch" => ae[b].ev \in Events \ {ae[a].ev}
    BY <2>1 DEF EventsConserved, HeldEvents
  <2>5. NotOf(a) = ToSet(mbox) /\ NotOf(a) \subseteq Events \ {ae[a].ev}
    BY <2>1, <2>2 DEF NotOf, EventsConserved
  <2> QED
    BY <1>2, <1>3, <2>1, <2>3, <2>4, <2>5
<1> QED
  BY <1>4, <1>5 DEF AEThread

----------------------------------------------------------------------------
(* An alarm is not silent.                                                 *)

LEMMA SoundInit == Init => AlarmSounds
  BY DEF Init, AlarmSounds, GroupOff

LEMMA SoundStep ==
  ASSUME NGroups = 1, TypeOK, EventsConserved, AlarmSounds, [Running]_vars
  PROVE  AlarmSounds'
<1> USE DEF AlarmSounds
<1>0. /\ Groups = {0} /\ group \in [Groups -> GroupState]
      /\ ZoneGroup \in [Zones -> Groups] /\ event \in [Events -> EventState]
      /\ ae \in [AEThreads -> AEState] /\ caller \in [Callers -> CallerState]
  BY AlarmAssumption DEF Groups, TypeOK, AlarmAssumption
<1>1. CASE UNCHANGED <<ae, event, relays>> /\ \A g \in Groups : group'[g].alarm => group[g].alarm
  BY <1>1 DEF GroupOf
<1>2. CASE ZoneScan
  <2>1. UNCHANGED <<ae, group, relays>> /\ \A e \in HeldEvents : event'[e] = event[e]
    BY <1>2, ScanKeepsEvents
  <2>2. \A a \in AEThreads : ae[a].pc = "alarmSend" => GroupOf(a)' = GroupOf(a)
    BY <2>1 DEF HeldEvents, GroupOf
  <2> QED
    BY <2>1, <2>2
<1>3. ASSUME NEW a \in AEThreads, AEThread(a) PROVE AlarmSounds'
  <2>1. \A b \in AEThreads \ {a} :
          ae[b].pc = "alarmSend" => ae'[b].pc = "alarmSend" /\ GroupOf(b)' = GroupOf(b)
    BY <1>3, OthersKeep DEF GroupOf
  <2>2. relays \subseteq relays'
    BY <1>3 DEF AEThread, AEDrop, AEPend, AEAlarm, AEWait, AERelays, AEDone
  <2>3. CASE AEAlarm(a)
    <3>1. /\ mbox # <<>> /\ mbox \in Seq(Events) /\ ae'[a].pc = "alarmSend"
          /\ ae'[a].ev = Head(mbox) /\ event' = event
      BY <1>0, <2>3 DEF AEAlarm, Fetch, TypeOK
    <3>2. Head(mbox) \in Events
      BY <3>1, HeadTailProperties
    <3>3. GroupOf(a)' = 0
      BY <1>0, <3>1, <3>2 DEF GroupOf, EventState
    <3> QED
      BY <1>0, <3>1, <3>3
  <2>4. CASE AERelays(a)
    <3>1. ae[a].ev \in Events
      BY <1>0, <2>4 DEF AERelays, AEState
    <3>2. GroupOf(a) = 0
      BY <1>0, <3>1 DEF GroupOf, EventState
    <3> QED
      BY <1>0, <2>4, <3>2 DEF AERelays
  <2>5. CASE AEDrop(a) \/ AEDone(a)
    <3>1. group' = group /\ ae[a].pc # "alarmSend"
      BY <2>5 DEF AEDrop, AEDone, Fetch
    <3> QED
      BY <2>1, <2>2, <3>1
  <2>6. CASE AEPend(a)
    <3>1. ae[a].pc # "alarmSend" /\ \A g \in Groups : group'[g].alarm = group[g].alarm
      BY <1>0, <2>6 DEF AEPend, Fetch, GroupState
    <3> QED
      BY <2>1, <2>2, <3>1
  <2>7. CASE AEWait(a)
    <3>1. ae[a].pc \in {"notify", "sleep"} /\ ae[a].ev \in Events
      BY <1>0, <2>7 DEF AEWait, AEState
    <3>2. CASE group' = group
      BY <2>1, <2>2, <3>1, <3>2
    <3>3. CASE /\ ae' = [ae EXCEPT ![a] = [pc |-> "alarmSend", ev |-> @.ev, wait |-> 0,
                                           count |-> 0]]
               /\ UNCHANGED event
      <4>1. ae'[a].pc = "alarmSend" /\ ae'[a].ev = ae[a].ev
        BY <1>0, <3>3
      <4>2. GroupOf(a)' = 0
        BY <1>0, <3>1, <3>3, <4>1 DEF GroupOf, EventState
      <4> QED
        BY <1>0, <4>1, <4>2
    <3> QED
      BY <2>7, <3>2, <3>3 DEF AEWait, EndPeriod
  <2> QED
    BY <1>3, <2>3, <2>4, <2>5, <2>6, <2>7 DEF AEThread
<1>4. ASSUME NEW c \in Callers, CallStep(c) PROVE AlarmSounds'
  <2> DEFINE g == caller[c].g
  <2>1. g \in Groups /\ UNCHANGED <<ae, event>>
    BY <1>0, <1>4
       DEF CallerState, CallStep, RejectSent, ArmCheck, ArmSet, ArmSaved, DisarmAlarm,
           DisarmZones, DisarmBits, DisarmSaved
  <2>2. CASE DisarmAlarm(c) /\ group[g].alarm
    <3>1. \A h \in Groups : ~group'[h].alarm
      BY <1>0, <2>1, <2>2 DEF DisarmAlarm, GroupState
    <3> QED
      BY <3>1
  <2>3. CASE ArmSet(c)
    <3>1. \A h \in Groups : group'[h].alarm = group[h].alarm
      <4>1. /\ [group[g] EXCEPT !.armDelay = AwayTicks].alarm = group[g].alarm
            /\ [group[g] EXCEPT !.armDelay = HomeTicks, !.home = TRUE].alarm = group[g].alarm
        BY <1>0, <2>1 DEF GroupState
      <4> QED
        BY <1>0, <2>1, <2>3, <4>1 DEF ArmSet
    <3> QED
      BY <1>1, <2>1, <2>3, <3>1 DEF ArmSet
  <2>4. CASE DisarmBits(c)
    <3>1. \A h \in Groups : group'[h].alarm = group[h].alarm
      BY <1>0, <2>1, <2>4 DEF DisarmBits, GroupState
    <3> QED
      BY <1>1, <2>1, <2>4, <3>1 DEF DisarmBits
  <2>5. CASE UNCHANGED <<group, relays>>
    BY <1>1, <2>1, <2>5
  <2> QED
    BY <1>4, <2>2, <2>3, <2>4, <2>5
       DEF CallStep, RejectSent, ArmCheck, ArmSaved, DisarmAlarm, DisarmZones, DisarmSaved
<1>5. CASE ZoneTick
  <2>1. zt.i \in Groups /\ UNCHANGED <<ae, event, relays>>
    BY <1>5 DEF ZoneTick, TypeOK, ZoneThreadState
  <2>2. \A h \in Groups : group'[h].alarm = group[h].alarm
    BY <1>0, <1>5, <2>1 DEF ZoneTick, GroupState
  <2> QED
    BY <1>1, <2>1, <2>2
<1>6. CASE ZoneWake \/ ZoneArmedSaved \/ ZoneAdcDone
  BY <1>1, <1>6 DEF ZoneWake, ZoneArmedSaved, ZoneAdcDone
<1>7. CASE Commands
  <2>1. UNCHANGED <<ae, event, relays, group>>
    BY <1>7 DEF Commands, KeyPress, RemoteZoneMessage, RegisterZone, AutoArm, MqttArm,
                MqttDisarm, WebDisarm, WebSetEnabled, WebSave
  <2> QED
    BY <1>1, <2>1
<1>8. CASE UNCHANGED vars
  BY <1>1, <1>8 DEF vars
<1> QED
  BY <1>2, <1>3, <1>4, <1>5, <1>6, <1>7, <1>8 DEF Running, ZoneThread

(***************************************************************************)
(* With one group, and between two resets, a group in alarm has its relays *)
(* on, or a thread is about to switch them on: no disarm, second event or  *)
(* late send leaves an alarm silent (AEThread, disarmGroup).               *)
(***************************************************************************)
THEOREM NoSilentAlarm == NGroups = 1 => (RunningSpec => []AlarmSounds)
<1> SUFFICES ASSUME NGroups = 1 PROVE RunningSpec => []AlarmSounds
  OBVIOUS
<1>1. TypeOK /\ EventsConserved /\ AlarmSounds /\ [Running]_vars => AlarmSounds'
  BY SoundStep
<1>2. [Running]_vars => [Next]_vars
  BY DEF Next
<1> QED
  BY <1>1, <1>2, TypeCorrect, EventsAreConserved, SoundInit, PTL DEF RunningSpec, Spec

----------------------------------------------------------------------------
(* A zone that has reported is heard.                                      *)

\* What answers for the ALARM bit of zone z: ZoneNotDeaf, where a thread that
\* waits for a key does so only while its group waits for one.
InMailbox(z) == \E e \in ToSet(mbox) : event[e].zone = z
WaitsForKey(z) ==
  /\ \E a \in AEThreads : ae[a].pc \in {"notify", "sleep"} /\ event[ae[a].ev].zone = z
  /\ group[ZoneGroup[z]].waitAuth
InAlarm(z) == group[ZoneGroup[z]].alarm
ToBeCleared(z) ==
  \E c \in Callers : /\ caller[c].g = ZoneGroup[z]
                     /\ caller[c].pc \in {"disarm", "horns", "zones"}

Heard(z) == InMailbox(z) \/ WaitsForKey(z) \/ InAlarm(z) \/ ToBeCleared(z)

\* No group is ever disabled; and between the clearing of a group's zones and
\* that of its bits no zone of the group reports.
DeafInv ==
  /\ enabled = GroupsOn /\ saved = GroupsOn
  /\ \A e \in ToSet(mbox) : ZoneGroup[event[e].zone] \in enabled
  /\ \A c \in Callers : caller[c].pc = "bits"
       => \A z \in Zones : ZoneGroup[z] = caller[c].g => ~zone[z].alarm
  /\ \A z \in Zones : zone[z].alarm => Heard(z)

LEMMA DeafInit == Init => DeafInv
  BY DEF Init, DeafInv, StartZones, ToSet, Idle

(***************************************************************************)
(* The zone thread: a report is in the mailbox.  While it scans, no caller *)
(* of its priority is between two points where it blocks.                  *)
(***************************************************************************)
LEMMA DeafScan ==
  ASSUME EqualPriorities, TypeOK, EventsConserved, DeafInv, ZoneScan
  PROVE  DeafInv'
<1>1. /\ UNCHANGED <<ae, group, enabled, saved, caller>>
      /\ \A e \in ToSet(mbox) \union HeldEvents : event'[e] = event[e]
      /\ ToSet(mbox) \subseteq ToSet(mbox')
      /\ \A e \in ToSet(mbox') \ ToSet(mbox) : ZoneGroup[event'[e].zone] \in enabled
      /\ \A z \in Zones : zone'[z].alarm /\ ~zone[z].alarm
                            => \E e \in ToSet(mbox') : event'[e].zone = z
  BY ScanKeepsEvents
<1>2. \A c \in Callers : caller'[c].pc # "bits"
  BY <1>1, ZoneRunsAlone DEF ZoneScan, CallerBlocked
<1>3. \A a \in AEThreads : ae[a].pc \in {"notify", "sleep"} => event'[ae[a].ev] = event[ae[a].ev]
  BY <1>1 DEF HeldEvents
<1>4. ASSUME NEW z \in Zones, zone'[z].alarm PROVE Heard(z)'
  <2>1. CASE ~zone[z].alarm
    BY <1>1, <1>4, <2>1 DEF Heard, InMailbox
  <2>2. CASE zone[z].alarm
    <3>1. InMailbox(z) \/ WaitsForKey(z) \/ InAlarm(z) \/ ToBeCleared(z)
      BY <2>2 DEF DeafInv, Heard
    <3>2. InMailbox(z) => InMailbox(z)'
      BY <1>1 DEF InMailbox
    <3>3. WaitsForKey(z) => WaitsForKey(z)'
      BY <1>1, <1>3 DEF WaitsForKey
    <3>4. (InAlarm(z) => InAlarm(z)') /\ (ToBeCleared(z) => ToBeCleared(z)')
      BY <1>1 DEF InAlarm, ToBeCleared
    <3> QED
      BY <3>1, <3>2, <3>3, <3>4 DEF Heard
  <2> QED
    BY <2>1, <2>2
<1>5. \A e \in ToSet(mbox') : ZoneGroup[event'[e].zone] \in enabled'
  BY <1>1 DEF DeafInv
<1> QED
  BY <1>1, <1>2, <1>4, <1>5 DEF DeafInv

\* No bit that answers for a zone is lost.
Grows(r, s) == (r.alarm => s.alarm) /\ (r.waitAuth => s.waitAuth)

(***************************************************************************)
(* An alarm event thread: an event leaves the mailbox for a thread that    *)
(* waits, or for an alarm; and ends in an alarm, or after a disarm.        *)
(***************************************************************************)
LEMMA DeafAEThread ==
  ASSUME TypeOK, EventsConserved, DeafInv, NEW a \in AEThreads, AEThread(a)
  PROVE  DeafInv'
<1>0. /\ group \in [Groups -> GroupState] /\ ZoneGroup \in [Zones -> Groups]
      /\ event \in [Events -> EventState] /\ ae \in [AEThreads -> AEState]
      /\ mbox \in Seq(Events)
  BY AlarmAssumption DEF TypeOK, AlarmAssumption
<1>1. /\ UNCHANGED <<enabled, saved, zone, caller>>
      /\ ToSet(mbox') = NotOf(a)
      /\ \A e \in NotOf(a) : event'[e] = event[e]
      /\ \A b \in AEThreads \ {a} :
           /\ ae'[b] = ae[b]
           /\ ae[b].pc # "fetch" => event'[ae[b].ev] = event[ae[b].ev]
  BY OthersKeep
<1>2. NotOf(a) \subseteq ToSet(mbox)
  BY DEF NotOf
<1>3. \A g \in Groups : /\ group[g].alarm => group'[g].alarm
                        /\ group[g].waitAuth => group'[g].waitAuth
  <2> DEFINE g0 == ZoneGroup[event[Head(mbox)].zone]
             g1 == GroupOf(a)
  <2>1. \/ group' = group
        \/ group' = [group EXCEPT ![g0].waitAuth = TRUE]
        \/ group' = [group EXCEPT ![g0].waitAuth = TRUE, ![g0].alarm = TRUE]
        \/ group' = [group EXCEPT ![g1].alarm = TRUE]
    BY DEF AEThread, AEDrop, AEPend, AEAlarm, AEWait, AERelays, AEDone, EndPeriod
  <2>2. \A r \in GroupState :
          /\ Grows(r, r) /\ Grows(r, [r EXCEPT !.waitAuth = TRUE])
          /\ Grows(r, [r EXCEPT !.alarm = TRUE])
          /\ Grows(r, [r EXCEPT !.waitAuth = TRUE, !.alarm = TRUE])
    BY DEF GroupState, Grows
  <2>3. ASSUME NEW g \in Groups PROVE Grows(group[g], group'[g])
    <3>1. group[g] \in GroupState
      BY <1>0
    <3>2. \/ group'[g] = group[g]
          \/ group'[g] = [group[g] EXCEPT !.waitAuth = TRUE]
          \/ group'[g] = [group[g] EXCEPT !.waitAuth = TRUE, !.alarm = TRUE]
          \/ group'[g] = [group[g] EXCEPT !.alarm = TRUE]
      <4> HIDE DEF g0, g1
      <4>1. CASE group' = group
        BY <4>1
      <4>2. CASE group' = [group EXCEPT ![g0].waitAuth = TRUE]
        BY <1>0, <4>2
      <4>3. CASE group' = [group EXCEPT ![g0].waitAuth = TRUE, ![g0].alarm = TRUE]
        BY <1>0, <4>3
      <4>4. CASE group' = [group EXCEPT ![g1].alarm = TRUE]
        BY <1>0, <4>4
      <4> QED
        BY <2>1, <4>1, <4>2, <4>3, <4>4
    <3> QED
      BY <2>2, <3>1, <3>2
  <2> QED
    BY <2>3 DEF Grows
<1>4. ASSUME NEW z \in Zones,
             \/ \E e \in ToSet(mbox) : event[e].zone = z /\ e \in NotOf(a)
             \/ /\ group[ZoneGroup[z]].waitAuth
                /\ \E b \in AEThreads \ {a} : ae[b].pc \in {"notify", "sleep"}
                                              /\ event[ae[b].ev].zone = z
             \/ InAlarm(z) \/ ToBeCleared(z)
      PROVE  Heard(z)'
  <2>0. ZoneGroup[z] \in Groups
    BY <1>0
  <2>1. CASE \E e \in ToSet(mbox) : event[e].zone = z /\ e \in NotOf(a)
    BY <1>1, <2>1 DEF Heard, InMailbox
  <2>2. CASE /\ group[ZoneGroup[z]].waitAuth
             /\ \E b \in AEThreads \ {a} : ae[b].pc \in {"notify", "sleep"}
                                           /\ event[ae[b].ev].zone = z
    BY <1>1, <1>3, <2>0, <2>2 DEF Heard, WaitsForKey
  <2>3. CASE InAlarm(z)
    BY <1>3, <2>0, <2>3 DEF Heard, InAlarm
  <2>4. CASE ToBeCleared(z)
    BY <1>1, <2>4 DEF Heard, ToBeCleared
  <2> QED
    BY <1>4, <2>1, <2>2, <2>3, <2>4
<1>5. ASSUME NEW z \in Zones, Heard(z) PROVE Heard(z)'
  <2>1. CASE ae[a].pc = "fetch"
    <3> DEFINE e == Head(mbox)
    <3>1. mbox # <<>> /\ e \in ToSet(mbox) /\ e \in Events
      <4>1. mbox # <<>>
        BY <2>1 DEF AEThread, AEDrop, AEPend, AEAlarm, AEWait, AERelays, AEDone, Fetch
      <4>2. IsInjective(mbox)
        BY DEF EventsConserved
      <4> QED
        BY <1>0, <4>1, <4>2, TailOfInjective, HeadTailProperties
    <3>2. NotOf(a) = ToSet(mbox) \ {e}
      BY <2>1 DEF NotOf
    <3>3. CASE event[e].zone # z
      <4>1. InMailbox(z) => \E d \in ToSet(mbox) : event[d].zone = z /\ d \in NotOf(a)
        BY <3>2, <3>3 DEF InMailbox
      <4>2. WaitsForKey(z) =>
              /\ group[ZoneGroup[z]].waitAuth
              /\ \E b \in AEThreads \ {a} : ae[b].pc \in {"notify", "sleep"}
                                            /\ event[ae[b].ev].zone = z
        BY <2>1 DEF WaitsForKey
      <4> QED
        BY <1>4, <1>5, <4>1, <4>2 DEF Heard
    <3>4. CASE event[e].zone = z
      <4> DEFINE g == ZoneGroup[z]
      <4>1. g \in Groups /\ g \in enabled
        BY <1>0, <3>1, <3>4 DEF DeafInv
      <4>2. CASE AEDrop(a)
        BY <1>4, <3>4, <4>1, <4>2 DEF AEDrop, InAlarm
      <4>3. CASE AEPend(a)
        <5>1. /\ ae'[a] = [pc |-> "notify", ev |-> e, wait |-> Wait(e), count |-> 0]
              /\ event' = event /\ group' = [group EXCEPT ![g].waitAuth = TRUE]
          BY <1>0, <3>4, <4>3 DEF AEPend
        <5>2. ae'[a].pc = "notify" /\ ae'[a].ev = e
          BY <5>1
        <5>3. group'[g].waitAuth
          BY <1>0, <4>1, <5>1 DEF GroupState
        <5> QED
          BY <3>4, <5>1, <5>2, <5>3 DEF Heard, WaitsForKey
      <4>4. CASE AEAlarm(a)
        <5>1. group' = [group EXCEPT ![g].waitAuth = TRUE, ![g].alarm = TRUE]
          BY <3>4, <4>4 DEF AEAlarm
        <5>2. group'[g].alarm
          BY <1>0, <4>1, <5>1 DEF GroupState
        <5> QED
          BY <5>2 DEF Heard, InAlarm
      <4> QED
        BY <2>1, <4>2, <4>3, <4>4 DEF AEThread, AEWait, AERelays, AEDone
    <3> QED
      BY <3>3, <3>4
  <2>2. CASE ae[a].pc # "fetch"
    <3>1. InMailbox(z) => \E d \in ToSet(mbox) : event[d].zone = z /\ d \in NotOf(a)
      BY <2>2 DEF InMailbox, NotOf
    <3>2. CASE \/ ~WaitsForKey(z) \/ event[ae[a].ev].zone # z
               \/ ae[a].pc \notin {"notify", "sleep"}
      <4>1. WaitsForKey(z) =>
              /\ group[ZoneGroup[z]].waitAuth
              /\ \E b \in AEThreads \ {a} : ae[b].pc \in {"notify", "sleep"}
                                            /\ event[ae[b].ev].zone = z
        BY <3>2 DEF WaitsForKey
      <4> QED
        BY <1>4, <1>5, <3>1, <4>1 DEF Heard
    <3>3. CASE /\ WaitsForKey(z) /\ event[ae[a].ev].zone = z
               /\ ae[a].pc \in {"notify", "sleep"}
      <4> DEFINE g == ZoneGroup[z]
      <4>1. /\ g \in Groups /\ GroupOf(a) = g /\ group[g].waitAuth
            /\ AEWait(a) /\ ae[a].ev \in Events
        BY <1>0, <3>3 DEF GroupOf, WaitsForKey, AEThread, AEDrop, AEPend, AEAlarm, AERelays,
                          AEDone, Fetch, AEState
      <4>2. group'[g].waitAuth
        BY <1>3, <4>1
      <4>3. ASSUME event' = event, ae'[a].pc \in {"notify", "sleep"}, ae'[a].ev = ae[a].ev
            PROVE  Heard(z)'
        BY <3>3, <4>2, <4>3 DEF Heard, WaitsForKey
      <4>4. CASE ae' = [ae EXCEPT ![a].pc = "sleep"] /\ event' = event
        <5>1. ae'[a].pc = "sleep" /\ ae'[a].ev = ae[a].ev
          BY <1>0, <3>3, <4>4 DEF AEState
        <5> QED
          BY <4>3, <4>4, <5>1
      <4>5. CASE ae' = [ae EXCEPT ![a].count = @ + 1] /\ event' = event
        <5>1. ae'[a].pc = ae[a].pc /\ ae'[a].ev = ae[a].ev
          BY <1>0, <3>3, <4>5 DEF AEState
        <5> QED
          BY <3>3, <4>3, <4>5, <5>1
      <4>6. CASE EndPeriod(a)
        <5>1. CASE \E left : /\ ae' = [ae EXCEPT ![a] = [pc |-> "notify", ev |-> @.ev,
                                                         wait |-> left, count |-> 0]]
                             /\ event' = event
          <6>1. ae'[a].pc = "notify" /\ ae'[a].ev = ae[a].ev
            BY <1>0, <5>1
          <6> QED
            BY <4>3, <5>1, <6>1
        <5>2. CASE group' = [group EXCEPT ![g].alarm = TRUE]
          <6>1. group'[g].alarm
            BY <1>0, <4>1, <5>2 DEF GroupState
          <6> QED
            BY <6>1 DEF Heard, InAlarm
        <5>3. CASE group[g].alarm
          BY <1>4, <5>3 DEF InAlarm
        <5> QED
          BY <4>1, <4>6, <5>1, <5>2, <5>3 DEF EndPeriod
      <4> QED
        BY <4>1, <4>4, <4>5, <4>6 DEF AEWait
    <3> QED
      BY <3>2, <3>3
  <2> QED
    BY <2>1, <2>2
<1>6. \A e \in ToSet(mbox') : ZoneGroup[event'[e].zone] \in enabled'
  BY <1>1, <1>2 DEF DeafInv
<1>7. \A c \in Callers : caller'[c].pc = "bits"
        => \A z \in Zones : ZoneGroup[z] = caller'[c].g => ~zone'[z].alarm
  BY <1>1 DEF DeafInv
<1>8. \A z \in Zones : zone'[z].alarm => Heard(z)'
  BY <1>1, <1>5 DEF DeafInv
<1> QED
  BY <1>1, <1>6, <1>7, <1>8 DEF DeafInv

(***************************************************************************)
(* Steps that leave the events, the zones' ALARM bits and the groups'      *)
(* alarm and waitAuth alone, and take no caller out of the part of         *)
(* disarmGroup that clears the zones or past it.                           *)
(***************************************************************************)
LEMMA DeafUntouched ==
  ASSUME DeafInv, UNCHANGED <<enabled, saved, mbox, event, ae>>,
         \A z \in Zones : zone'[z].alarm = zone[z].alarm,
         \A z \in Zones : Grows(group[ZoneGroup[z]], group'[ZoneGroup[z]]),
         \A c \in Callers : \/ caller'[c] = caller[c]
                            \/ /\ caller[c].pc \notin {"disarm", "horns", "zones"}
                               /\ caller'[c].pc # "bits"
  PROVE  DeafInv'
<1>1. \A c \in Callers : caller'[c].pc = "bits"
        => \A z \in Zones : ZoneGroup[z] = caller'[c].g => ~zone'[z].alarm
  BY DEF DeafInv
<1>2. ASSUME NEW z \in Zones, zone'[z].alarm PROVE Heard(z)'
  <2>1. Heard(z) /\ Grows(group[ZoneGroup[z]], group'[ZoneGroup[z]])
    BY <1>2 DEF DeafInv
  <2>2. (InMailbox(z) => InMailbox(z)') /\ (ToBeCleared(z) => ToBeCleared(z)')
    BY DEF InMailbox, ToBeCleared
  <2>3. (WaitsForKey(z) => WaitsForKey(z)') /\ (InAlarm(z) => InAlarm(z)')
    BY <2>1 DEF WaitsForKey, InAlarm, Grows
  <2> QED
    BY <2>1, <2>2, <2>3 DEF Heard
<1>3. \A e \in ToSet(mbox') : ZoneGroup[event'[e].zone] \in enabled'
  BY DEF DeafInv
<1> QED
  BY <1>1, <1>2, <1>3 DEF DeafInv

(***************************************************************************)
(* The calls: disarmGroup clears the alarm only on its way to clearing the *)
(* zones, and waitAuth only after it.                                      *)
(***************************************************************************)
LEMMA DeafCallStep ==
  ASSUME TypeOK, DeafInv, NEW c \in Callers, CallStep(c)
  PROVE  DeafInv'
<1> DEFINE g == caller[c].g
<1>0. /\ group \in [Groups -> GroupState] /\ ZoneGroup \in [Zones -> Groups]
      /\ caller \in [Callers -> CallerState] /\ zone \in [Zones -> ZoneState]
      /\ g \in Groups
  BY AlarmAssumption DEF TypeOK, AlarmAssumption, CallerState
<1>1. /\ UNCHANGED <<enabled, saved, mbox, event, ae>>
      /\ \A d \in Callers \ {c} : caller'[d] = caller[d]
  BY <1>0 DEF CallStep, RejectSent, ArmCheck, ArmSet, ArmSaved, DisarmAlarm, DisarmZones,
              DisarmBits, DisarmSaved, Chain
<1>2. CASE RejectSent(c) \/ ArmCheck(c) \/ ArmSet(c) \/ ArmSaved(c) \/ DisarmSaved(c)
  <2>1. zone' = zone /\ caller[c].pc \notin {"disarm", "horns", "zones"}
    BY <1>2 DEF RejectSent, ArmCheck, ArmSet, ArmSaved, DisarmSaved
  <2>2. caller'[c].pc # "bits"
    <3>1. \A chain, pc : Chain(c, chain, pc) /\ pc # "bits" => caller'[c].pc # "bits"
      BY <1>0 DEF Chain, Idle, CallerState
    <3>2. \A pc : caller' = [caller EXCEPT ![c].pc = pc] => caller'[c].pc = pc
      BY <1>0 DEF CallerState
    <3> QED
      BY <1>2, <3>1, <3>2 DEF RejectSent, ArmCheck, ArmSet, ArmSaved, DisarmSaved
  <2>3. ASSUME NEW h \in Groups PROVE Grows(group[h], group'[h])
    <3>1. CASE group' = group
      BY <3>1 DEF Grows
    <3>2. CASE ArmSet(c)
      <4>1. /\ Grows(group[g], [group[g] EXCEPT !.armDelay = AwayTicks])
            /\ Grows(group[g], [group[g] EXCEPT !.armDelay = HomeTicks, !.home = TRUE])
            /\ Grows(group[h], group[h])
        BY <1>0 DEF GroupState, Grows
      <4>2. \/ group'[h] = group[h]
            \/ /\ h = g
               /\ \/ group'[g] = [group[g] EXCEPT !.armDelay = AwayTicks]
                  \/ group'[g] = [group[g] EXCEPT !.armDelay = HomeTicks, !.home = TRUE]
        BY <1>0, <3>2 DEF ArmSet
      <4> QED
        BY <4>1, <4>2
    <3> QED
      BY <1>2, <3>1, <3>2 DEF RejectSent, ArmCheck, ArmSaved, DisarmSaved
  <2> QED
    BY <1>0, <1>1, <2>1, <2>2, <2>3, DeafUntouched
<1>3. ASSUME NEW z \in Zones, ZoneGroup[z] # g, group'[ZoneGroup[z]] = group[ZoneGroup[z]],
             Heard(z)
      PROVE  Heard(z)'
  <2>1. (InMailbox(z) => InMailbox(z)') /\ (WaitsForKey(z) => WaitsForKey(z)')
        /\ (InAlarm(z) => InAlarm(z)')
    BY <1>1, <1>3 DEF InMailbox, WaitsForKey, InAlarm
  <2>2. ToBeCleared(z) => ToBeCleared(z)'
    BY <1>1, <1>3 DEF ToBeCleared
  <2> QED
    BY <1>3, <2>1, <2>2 DEF Heard
<1>4. \A e \in ToSet(mbox') : ZoneGroup[event'[e].zone] \in enabled'
  BY <1>1 DEF DeafInv
<1>5. CASE DisarmAlarm(c)
  <2>1. /\ zone' = zone /\ caller'[c].g = g /\ caller'[c].pc \in {"horns", "zones"}
        /\ \A h \in Groups \ {g} : group'[h] = group[h]
    BY <1>0, <1>5 DEF DisarmAlarm, CallerState
  <2>2. \A z \in Zones : ZoneGroup[z] = g => Heard(z)'
    BY <2>1 DEF Heard, ToBeCleared
  <2>3. \A z \in Zones : zone'[z].alarm => Heard(z)'
    BY <1>0, <1>3, <2>1, <2>2 DEF DeafInv
  <2> QED
    BY <1>1, <1>4, <2>1, <2>3 DEF DeafInv
<1>6. CASE DisarmZones(c)
  <2>1. /\ group' = group /\ caller'[c].g = g
        /\ \A z \in Zones : IF ZoneGroup[z] = g THEN ~zone'[z].alarm ELSE zone'[z] = zone[z]
    BY <1>0, <1>6 DEF DisarmZones, CallerState, ZoneState
  <2>2. \A z \in Zones : zone'[z].alarm => Heard(z)'
    BY <1>0, <1>3, <2>1 DEF DeafInv
  <2>3. \A d \in Callers : caller'[d].pc = "bits"
          => \A z \in Zones : ZoneGroup[z] = caller'[d].g => ~zone'[z].alarm
    BY <1>1, <2>1 DEF DeafInv
  <2> QED
    BY <1>1, <1>4, <2>2, <2>3 DEF DeafInv
<1>7. CASE DisarmBits(c)
  <2>1. /\ zone' = zone /\ caller[c].pc = "bits" /\ caller'[c].pc # "bits"
        /\ \A h \in Groups \ {g} : group'[h] = group[h]
    BY <1>0, <1>7 DEF DisarmBits, CallerState
  <2>2. \A z \in Zones : zone'[z].alarm => Heard(z)'
    BY <1>0, <1>3, <2>1 DEF DeafInv
  <2> QED
    BY <1>1, <1>4, <2>1, <2>2 DEF DeafInv
<1> QED
  BY <1>2, <1>5, <1>6, <1>7 DEF CallStep

LEMMA DeafStep ==
  ASSUME EqualPriorities, Webs = {}, TypeOK, EventsConserved, DeafInv, [Next]_vars
  PROVE  DeafInv'
<1>0. /\ group \in [Groups -> GroupState] /\ ZoneGroup \in [Zones -> Groups]
      /\ zone \in [Zones -> ZoneState] /\ caller \in [Callers -> CallerState]
      /\ zt \in ZoneThreadState
  BY AlarmAssumption DEF TypeOK, AlarmAssumption
<1>1. group' = group => \A z \in Zones : Grows(group[ZoneGroup[z]], group'[ZoneGroup[z]])
  BY DEF Grows
<1>2. CASE ZoneScan
  BY <1>2, DeafScan
<1>3. CASE ZoneTick
  <2>1. zt.i \in Groups
    BY <1>0, <1>3 DEF ZoneTick, ZoneThreadState
  <2>2. \A h \in Groups : /\ group'[h].alarm = group[h].alarm
                          /\ group'[h].waitAuth = group[h].waitAuth
    BY <1>0, <1>3, <2>1 DEF ZoneTick, GroupState
  <2>3. \A z \in Zones : Grows(group[ZoneGroup[z]], group'[ZoneGroup[z]])
    BY <1>0, <2>2 DEF Grows
  <2> QED
    BY <1>3, <2>3, DeafUntouched DEF ZoneTick
<1>4. CASE ZoneWake \/ ZoneArmedSaved \/ ZoneAdcDone
  BY <1>1, <1>4, DeafUntouched DEF ZoneWake, ZoneArmedSaved, ZoneAdcDone
<1>5. CASE \E a \in AEThreads : AEThread(a)
  BY <1>5, DeafAEThread
<1>6. CASE \E c \in Callers : CallStep(c)
  BY <1>6, DeafCallStep
<1>7. CASE Commands
  <2>1. ASSUME NEW c \in Callers, caller[c].pc = "idle",
               UNCHANGED <<enabled, saved, mbox, event, ae, zone, group>>,
               NEW pc \in {"disarm", "rejectSend", "arm"}, NEW h, NEW master, NEW type,
               Call(c, pc, h, master, type)
        PROVE  DeafInv'
    <3>1. caller'[c].pc # "bits" /\ \A d \in Callers \ {c} : caller'[d] = caller[d]
      BY <1>0, <2>1 DEF Call
    <3> QED
      BY <1>1, <2>1, <3>1, DeafUntouched
  <2>2. ASSUME UNCHANGED <<enabled, saved, mbox, event, ae, group, caller>>,
               NEW z \in Zones, NEW l, zone' = [zone EXCEPT ![z].lastEvent = l]
        PROVE  DeafInv'
    <3>1. \A y \in Zones : zone'[y].alarm = zone[y].alarm
      BY <1>0, <2>2 DEF ZoneState
    <3> QED
      BY <1>1, <2>2, <3>1, DeafUntouched
  <2>3. KeyReaders \subseteq Callers /\ AutoArmers \subseteq Callers /\ MqttSubs \subseteq Callers
    BY DEF Callers
  <2>4. CASE \E c \in KeyReaders, g \in Groups, type \in {"away", "home"} : KeyPress(c, g, type)
    BY <2>1, <2>3, <2>4 DEF KeyPress
  <2>5. CASE \E c \in KeyReaders, z \in Zones, letter \in Letters : RemoteZoneMessage(c, z, letter)
    BY <2>2, <2>5 DEF RemoteZoneMessage
  <2>6. CASE \E z \in Zones : RegisterZone(z)
    BY <2>2, <2>6 DEF RegisterZone
  <2>7. CASE \E c \in AutoArmers, g \in Groups : AutoArm(c, g)
    BY <2>1, <2>3, <2>7 DEF AutoArm
  <2>8. CASE \/ \E c \in MqttSubs, g \in Groups, type \in {"away", "home"} : MqttArm(c, g, type)
             \/ \E c \in MqttSubs, g \in Groups : MqttDisarm(c, g)
    BY <2>1, <2>3, <2>8 DEF MqttArm, MqttDisarm
  <2> QED
    BY <1>7, <2>4, <2>5, <2>6, <2>7, <2>8 DEF Commands
<1>8. CASE Reset
  BY <1>8 DEF Reset, DeafInv, StartZones, ToSet, Idle
<1>9. CASE UNCHANGED vars
  BY <1>1, <1>9, DeafUntouched DEF vars
<1> QED
  BY <1>2, <1>3, <1>4, <1>5, <1>6, <1>7, <1>8, <1>9 DEF Next, Running, ZoneThread

(***************************************************************************)
(* Where no group is disabled by the page and every caller has the zone    *)
(* thread's priority, a zone's ALARM bit always has an event, an alarm or  *)
(* a disarm that answers for it.  A caller of lower priority (MQTT) can be *)
(* preempted between the zones and the bits of disarmGroup, and there it   *)
(* does not hold.                                                          *)
(***************************************************************************)
THEOREM ReportIsHeard == Webs = {} /\ EqualPriorities => (Spec => []ZoneNotDeaf)
<1> SUFFICES ASSUME Webs = {}, EqualPriorities PROVE Spec => []ZoneNotDeaf
  OBVIOUS
<1>1. TypeOK /\ EventsConserved /\ DeafInv /\ [Next]_vars => DeafInv'
  BY DeafStep
<1>2. DeafInv => ZoneNotDeaf
  <2> SUFFICES ASSUME DeafInv, NEW z \in Zones, zone[z].alarm
               PROVE  \/ \E e \in ToSet(mbox) \union HeldEvents : event[e].zone = z
                      \/ group[ZoneGroup[z]].alarm
                      \/ \E c \in Callers : /\ caller[c].g = ZoneGroup[z]
                                            /\ caller[c].pc \in {"disarm", "horns", "zones"}
    BY DEF ZoneNotDeaf
  <2>1. Heard(z)
    BY DEF DeafInv
  <2>2. WaitsForKey(z) => \E e \in HeldEvents : event[e].zone = z
    BY DEF WaitsForKey, HeldEvents
  <2> QED
    BY <2>1, <2>2 DEF Heard, InMailbox, InAlarm, ToBeCleared
<1> QED
  BY <1>1, <1>2, TypeCorrect, EventsAreConserved, DeafInit, PTL DEF Spec
----------------------------------------------------------------------------
(* The threads implement the panel.                                        *)

\* The mode the panel shows of a group.
ModeOf(r) ==
  CASE r.armed -> IF r.home THEN "armedHome" ELSE "armedAway"
    [] ~r.armed /\ r.armDelay > 0 -> IF r.home THEN "armingHome" ELSE "armingAway"
    [] OTHER -> "disarmed"

\* The ways a group r becomes s, as the panel sees them.
Alike(r, s)   == ModeOf(s) = ModeOf(r) /\ s.waitAuth = r.waitAuth /\ s.alarm = r.alarm
ArmsTo(r, s)  == /\ \/ ModeOf(r) = "disarmed" /\ ModeOf(s) \in {"armingAway", "armingHome"}
                    \/ ModeOf(r) = "armingAway" /\ ModeOf(s) = "armingHome"
                 /\ s.waitAuth = r.waitAuth /\ s.alarm = r.alarm
Leaves(r, s)  == /\ \/ ModeOf(r) = "armingAway" /\ ModeOf(s) = "armedAway"
                    \/ ModeOf(r) = "armingHome" /\ ModeOf(s) = "armedHome"
                 /\ s.waitAuth = r.waitAuth /\ s.alarm = r.alarm
Enters(r, s)  == r.armed /\ ModeOf(s) = ModeOf(r) /\ s.waitAuth /\ s.alarm = r.alarm
Raises(r, s)  == ~r.alarm /\ ModeOf(s) = ModeOf(r) /\ s.waitAuth /\ s.alarm
Silences(r, s) == ModeOf(s) = ModeOf(r) /\ s.waitAuth = r.waitAuth /\ ~s.alarm
Disarms(r, s) == ModeOf(s) = "disarmed" /\ ~s.waitAuth /\ s.alarm = r.alarm

(***************************************************************************)
(* A step that changes one group in one of these ways is a step of the     *)
(* panel.                                                                  *)
(***************************************************************************)
LEMMA GroupMoves ==
  ASSUME TypeOK, NEW g \in Groups, NEW s \in GroupState, group' = [group EXCEPT ![g] = s],
         LET r == group[g] IN
           \/ Alike(r, s) \/ ArmsTo(r, s) \/ Leaves(r, s) \/ Enters(r, s)
           \/ Silences(r, s) \/ Disarms(r, s)
           \/ Raises(r, s) /\ (r.armed \/ g \in TamperGroups)
  PROVE  [Panel!Next]_Panel!vars
<1> DEFINE modes == [h \in Groups |-> Mode(h)]
           pendings == [h \in Groups |-> group[h].waitAuth]
           alarms == [h \in Groups |-> group[h].alarm]
<1>1. group \in [Groups -> GroupState]
  BY DEF TypeOK
<1>2. PICK r \in GroupState : r = group[g]
  BY <1>1
<1>3. group'[g] = s /\ \A h \in Groups \ {g} : group'[h] = group[h]
  BY <1>1
<1>4. /\ Mode(g) = ModeOf(r) /\ Mode(g)' = ModeOf(s)
      /\ \A h \in Groups \ {g} : Mode(h)' = Mode(h)
  BY <1>2, <1>3 DEF Mode, ModeOf
<1>5. PICK m0, m1 : /\ m0 = modes /\ m1 = [h \in Groups |-> Mode(h)']
                    /\ m1 = [m0 EXCEPT ![g] = ModeOf(s)] /\ m0[g] = ModeOf(r)
  <2>1. [h \in Groups |-> Mode(h)'] = [modes EXCEPT ![g] = ModeOf(s)]
    BY <1>4
  <2> QED
    BY <1>4, <2>1
<1>6. PICK p0, p1 : /\ p0 = pendings /\ p1 = [h \in Groups |-> group'[h].waitAuth]
                    /\ p1 = [p0 EXCEPT ![g] = s.waitAuth] /\ p0[g] = r.waitAuth
  <2>1. \A h \in Groups : group'[h].waitAuth = IF h = g THEN s.waitAuth ELSE pendings[h]
    BY <1>3
  <2>2. [h \in Groups |-> group'[h].waitAuth] = [pendings EXCEPT ![g] = s.waitAuth]
    BY <2>1
  <2> QED
    BY <1>2, <2>2
<1>7. PICK a0, a1 : /\ a0 = alarms /\ a1 = [h \in Groups |-> group'[h].alarm]
                    /\ a1 = [a0 EXCEPT ![g] = s.alarm] /\ a0[g] = r.alarm
  <2>1. \A h \in Groups : group'[h].alarm = IF h = g THEN s.alarm ELSE alarms[h]
    BY <1>3
  <2>2. [h \in Groups |-> group'[h].alarm] = [alarms EXCEPT ![g] = s.alarm]
    BY <2>1
  <2> QED
    BY <1>2, <2>2
<1>8. /\ r.waitAuth \in BOOLEAN /\ r.alarm \in BOOLEAN /\ s.waitAuth \in BOOLEAN /\ s.alarm \in BOOLEAN
      /\ r.armed \in BOOLEAN /\ (r.armed => ModeOf(r) \in {"armedAway", "armedHome"})
      /\ ModeOf(s) \in {"disarmed", "armingAway", "armingHome", "armedAway", "armedHome"}
  BY <1>2 DEF GroupState, ModeOf
<1>9. DOMAIN m0 = Groups /\ DOMAIN p0 = Groups /\ DOMAIN a0 = Groups
  BY <1>5, <1>6, <1>7
<1>10. CASE Alike(r, s)
  <2>1. m1 = m0 /\ p1 = p0 /\ a1 = a0
    BY <1>5, <1>6, <1>7, <1>9, <1>10 DEF Alike
  <2> QED
    BY <1>5, <1>6, <1>7, <2>1 DEF Panel!vars
<1>11. CASE ArmsTo(r, s)
  <2>1. p1 = p0 /\ a1 = a0
    BY <1>6, <1>7, <1>9, <1>11 DEF ArmsTo
  <2>2. Panel!Arm(g, ModeOf(s))
    BY <1>5, <1>6, <1>7, <1>11, <2>1 DEF Panel!Arm, ArmsTo
  <2> QED
    BY <1>8, <2>2 DEF Panel!Next, Panel!Modes
<1>12. CASE Leaves(r, s)
  <2>1. p1 = p0 /\ a1 = a0
    BY <1>6, <1>7, <1>9, <1>12 DEF Leaves
  <2>2. Panel!Leave(g)
    BY <1>5, <1>6, <1>7, <1>12, <2>1 DEF Panel!Leave, Leaves
  <2> QED
    BY <2>2 DEF Panel!Next
<1>13. CASE Enters(r, s)
  <2>1. m1 = m0 /\ a1 = a0
    BY <1>5, <1>7, <1>9, <1>13 DEF Enters
  <2>2. s.waitAuth = TRUE
    BY <1>8, <1>13 DEF Enters
  <2>3. Panel!Enter(g)
    BY <1>5, <1>6, <1>7, <1>8, <1>13, <2>1, <2>2 DEF Panel!Enter, Panel!Armed, Enters
  <2> QED
    BY <2>3 DEF Panel!Next
<1>14. CASE Silences(r, s)
  <2>1. m1 = m0 /\ p1 = p0
    BY <1>5, <1>6, <1>9, <1>14 DEF Silences
  <2>2. s.alarm = FALSE
    BY <1>8, <1>14 DEF Silences
  <2>3. Panel!Silence(g)
    BY <1>5, <1>6, <1>7, <2>1, <2>2 DEF Panel!Silence
  <2> QED
    BY <2>3 DEF Panel!Next
<1>15. CASE Disarms(r, s)
  <2>1. a1 = a0
    BY <1>7, <1>9, <1>15 DEF Disarms
  <2>2. s.waitAuth = FALSE
    BY <1>8, <1>15 DEF Disarms
  <2>3. Panel!Disarm(g)
    BY <1>5, <1>6, <1>7, <1>15, <2>1, <2>2 DEF Panel!Disarm, Disarms
  <2> QED
    BY <2>3 DEF Panel!Next
<1>16. CASE Raises(r, s) /\ (r.armed \/ g \in TamperGroups)
  <2>1. m1 = m0
    BY <1>5, <1>9, <1>16 DEF Raises
  <2>2. s.waitAuth = TRUE /\ s.alarm = TRUE
    BY <1>8, <1>16 DEF Raises
  <2>3. Panel!Raise(g)
    BY <1>5, <1>6, <1>7, <1>8, <1>16, <2>1, <2>2 DEF Panel!Raise, Panel!Armed, Raises
  <2> QED
    BY <2>3 DEF Panel!Next
<1> QED
  BY <1>2, <1>10, <1>11, <1>12, <1>13, <1>14, <1>15, <1>16

(***************************************************************************)
(* The panel shows nothing but the groups.                                 *)
(***************************************************************************)
LEMMA SamePanel ==
  ASSUME group' = group
  PROVE  UNCHANGED Panel!vars
<1>1. \A g \in Groups : Mode(g)' = Mode(g)
  BY DEF Mode
<1> QED
  BY <1>1 DEF Panel!vars

\* What the theorem needs of the constants.
ThreadsEnough == IsFiniteSet(AEThreads) /\ Cardinality(Events) <= Cardinality(AEThreads)
Delays        == AwayTicks > 0 /\ HomeTicks > 0

\* An event that is posted is fetched before anything else happens: its group is
\* still armed, or it is a tamper.
Lawful(e) ==
  LET g == ZoneGroup[event[e].zone] IN
    \/ event[e].type = "P" /\ group[g].armed
    \/ event[e].type = "T" /\ g \in TamperGroups

PanelInv ==
  /\ \A e \in ToSet(mbox) : Lawful(e)
  /\ mbox # <<>> => Tail(mbox) = <<>> /\ \E a \in AEThreads : ae[a].pc = "fetch"
  /\ \A g \in Groups : group[g].waitAuth => group[g].armed \/ g \in TamperGroups

(***************************************************************************)
(* While an object is free and there is a thread for each, a thread is at  *)
(* the mailbox.                                                            *)
(***************************************************************************)
LEMMA ThreadIsFree ==
  ASSUME TypeOK, EventsConserved, ThreadsEnough, NEW e \in pool
  PROVE  \E a \in AEThreads : ae[a].pc = "fetch"
<1> SUFFICES ASSUME \A a \in AEThreads : ae[a].pc # "fetch" PROVE FALSE
  OBVIOUS
<1> DEFINE f == [a \in AEThreads |-> ae[a].ev]
           T == Events \ {e}
<1>1. IsFiniteSet(Events) /\ e \in Events
  BY AlarmAssumption DEF AlarmAssumption, EventsConserved
<1>2. IsFiniteSet(T) /\ Cardinality(T) = Cardinality(Events) - 1
  BY <1>1, FS_RemoveElement
<1>3. f \in [AEThreads -> T]
  BY DEF EventsConserved, HeldEvents
<1>4. Cardinality(T) < Cardinality(AEThreads)
  BY <1>1, <1>2, FS_CardinalityType DEF ThreadsEnough
<1>5. \A a, b \in AEThreads : a # b => f[a] # f[b]
  BY DEF EventsConserved
<1> HIDE DEF f, T
<1> QED
  BY <1>2, <1>3, <1>4, <1>5, FS_PigeonHole DEF ThreadsEnough

(***************************************************************************)
(* While an event waits, its thread runs before any other.                 *)
(***************************************************************************)
LEMMA NobodyElseRuns ==
  ASSUME PanelInv, ~AEReady
  PROVE  mbox = <<>>
BY DEF PanelInv, AEReady

(***************************************************************************)
(* With nothing in the mailbox, only the groups that wait for a key        *)
(* matter.                                                                 *)
(***************************************************************************)
LEMMA EmptyMailbox ==
  ASSUME PanelInv, mbox = <<>>, mbox' = <<>>,
         \A g \in Groups : group'[g].waitAuth => group'[g].armed \/ g \in TamperGroups
  PROVE  PanelInv'
BY DEF PanelInv, ToSet

(***************************************************************************)
(* A tamper is seen only at a zone that may report one.                    *)
(***************************************************************************)
LEMMA TamperDecoded ==
  ASSUME NEW z \in Zones, NEW last,
         NEW reading \in IF Readings[z] = {} THEN Letters ELSE Readings[z],
         Decode(z, last, reading) = "T"
  PROVE  ZoneGroup[z] \in TamperGroups
<1>1. z \in TamperZones
  BY DEF Decode, TamperZones
<1> QED
  BY <1>1 DEF TamperGroups

(***************************************************************************)
(* The delay of a group: it goes on arming, or leaves.                     *)
(***************************************************************************)
LEMMA PanelZoneTick ==
  ASSUME TypeOK, ArmingInv, PanelInv, ZoneTick
  PROVE  PanelInv' /\ [Panel!Next]_Panel!vars
<1> DEFINE g == zt.i
<1>1. /\ g \in Groups /\ group \in [Groups -> GroupState] /\ group[g] \in GroupState
      /\ mbox = <<>> /\ mbox' = <<>>
  BY NobodyElseRuns DEF ZoneTick, ZoneMayRun, TypeOK, ZoneThreadState
<1>2. PICK r : r = group[g]
  OBVIOUS
<1>3. PICK s : group' = [group EXCEPT ![g] = s]
               /\ \/ s = r
                  \/ r.armDelay > 1 /\ s = [r EXCEPT !.armDelay = @ - 1]
                  \/ r.armDelay = 1 /\ s = [r EXCEPT !.armDelay = 0, !.armed = TRUE]
  <2>1. CASE group' = group
    BY <1>1, <1>2, <2>1
  <2>2. CASE group[g].armDelay > 1 /\ group' = [group EXCEPT ![g].armDelay = @ - 1]
    BY <1>1, <1>2, <2>2
  <2>3. CASE group[g].armDelay = 1 /\ group' = [group EXCEPT ![g].armDelay = 0, ![g].armed = TRUE]
    <3>1. group' = [group EXCEPT ![g] = [group[g] EXCEPT !.armDelay = 0, !.armed = TRUE]]
      BY <1>1, <2>3
    <3> QED
      BY <1>2, <2>3, <3>1
  <2> QED
    BY <2>1, <2>2, <2>3 DEF ZoneTick
<1>4. /\ s \in GroupState /\ s.waitAuth = r.waitAuth /\ (r.armed => s.armed)
      /\ Alike(r, s) \/ Leaves(r, s)
  <2>1. CASE s = r
    BY <1>1, <1>2, <2>1 DEF Alike
  <2>2. CASE r.armDelay > 1 /\ s = [r EXCEPT !.armDelay = @ - 1]
    <3>1. r \in GroupState /\ r.armDelay - 1 \in 0 .. TickLimit - 1 /\ r.armDelay > 0 /\ r.armDelay - 1 > 0
      BY <1>1, <1>2, <2>2, AlarmAssumption DEF GroupState, AlarmAssumption
    <3>2. s \in GroupState
      BY <2>2, <3>1, GroupFields
    <3>3. /\ s.armed = r.armed /\ s.home = r.home /\ s.waitAuth = r.waitAuth /\ s.alarm = r.alarm
          /\ s.armDelay > 0
      BY <2>2, <3>1 DEF GroupState
    <3> QED
      BY <3>1, <3>2, <3>3 DEF Alike, ModeOf
  <2>3. CASE r.armDelay = 1 /\ s = [r EXCEPT !.armDelay = 0, !.armed = TRUE]
    <3>1. ~r.armed
      BY <1>1, <1>2, <2>3 DEF ArmingInv, ArmedIsNotArming
    <3>2. s \in GroupState /\ s.armed /\ s.home = r.home /\ s.waitAuth = r.waitAuth /\ s.alarm = r.alarm
      <4>1. r \in GroupState /\ 0 \in 0 .. TickLimit - 1
        BY <1>1, <1>2, AlarmAssumption DEF AlarmAssumption
      <4>2. [r EXCEPT !.armDelay = 0] \in GroupState
        BY <4>1, GroupFields
      <4>3. s = [[r EXCEPT !.armDelay = 0] EXCEPT !.armed = TRUE]
        BY <2>3
      <4>4. s \in GroupState
        BY <4>1, <4>2, <4>3, GroupFields
      <4> QED
        BY <2>3, <4>1, <4>4 DEF GroupState
    <3> QED
      BY <2>3, <3>1, <3>2 DEF Leaves, ModeOf
  <2> QED
    BY <1>3, <2>1, <2>2, <2>3
<1>5. \A h \in Groups : group'[h].waitAuth => group'[h].armed \/ h \in TamperGroups
  BY <1>1, <1>2, <1>3, <1>4 DEF PanelInv
<1> QED
  BY <1>1, <1>2, <1>3, <1>4, <1>5, GroupMoves, EmptyMailbox

(***************************************************************************)
(* A zone that reports posts what is lawful, and finds a thread waiting    *)
(* for it.                                                                 *)
(***************************************************************************)
LEMMA PanelZoneScan ==
  ASSUME TypeOK, EventsConserved, ThreadsEnough, PanelInv, ZoneScan
  PROVE  PanelInv' /\ [Panel!Next]_Panel!vars
<1> DEFINE z == zt.i
<1>1. /\ z \in Zones /\ event \in [Events -> EventState] /\ mbox = <<>> /\ pool \subseteq Events
      /\ UNCHANGED <<ae, group>>
  BY NobodyElseRuns DEF ZoneScan, ZoneMayRun, TypeOK, ZoneThreadState
<1>2. CASE mbox' = mbox
  BY <1>1, <1>2, EmptyMailbox, SamePanel DEF PanelInv
<1>3. ASSUME NEW last, NEW reading \in IF Readings[z] = {} THEN Letters ELSE Readings[z], NEW v,
             v = Decode(z, last, reading), Reports(z, last, v), Post(z, v)
      PROVE  PanelInv' /\ [Panel!Next]_Panel!vars
  <2>1. PICK e \in pool :
          /\ event' = [event EXCEPT ![e] = [zone |-> z, type |-> v]]
          /\ mbox' = IF Len(mbox) < MailboxSize THEN Append(mbox, e) ELSE mbox
    BY <1>3 DEF Post
  <2>2. mbox' = <<e>>
    BY <1>1, <2>1, PostSucceeds
  <2>3. event'[e].zone = z /\ event'[e].type = v
    BY <1>1, <2>1
  <2>4. Lawful(e)'
    BY <1>1, <1>3, <2>3, TamperDecoded DEF Lawful, Reports
  <2>5. \E a \in AEThreads : ae[a].pc = "fetch"
    BY ThreadIsFree
  <2>6. ToSet(mbox') = {e} /\ Tail(mbox') = <<>>
    BY <2>2 DEF ToSet
  <2>7. PanelInv'
    BY <1>1, <2>2, <2>4, <2>5, <2>6 DEF PanelInv
  <2> QED
    BY <1>1, <2>7, SamePanel
<1> QED
  BY <1>1, <1>2, <1>3 DEF ZoneScan

(***************************************************************************)
(* A fetched event is dropped, makes its group wait, or raises the alarm.  *)
(***************************************************************************)
LEMMA PanelFetch ==
  ASSUME TypeOK, PanelInv, NEW a \in AEThreads, AEDrop(a) \/ AEPend(a) \/ AEAlarm(a)
  PROVE  PanelInv' /\ [Panel!Next]_Panel!vars
<1> DEFINE e == Head(mbox)
           g == ZoneGroup[event[e].zone]
<1>1. /\ mbox # <<>> /\ mbox \in Seq(Events) /\ mbox' = Tail(mbox) /\ mbox' = <<>>
      /\ group \in [Groups -> GroupState] /\ event \in [Events -> EventState]
  BY DEF AEDrop, AEPend, AEAlarm, Fetch, PanelInv, TypeOK
<1>2. e \in Events /\ e \in ToSet(mbox)
  BY <1>1, HeadTailProperties, LenProperties DEF ToSet
<1>3. g \in Groups /\ Lawful(e)
  BY <1>1, <1>2, AlarmAssumption DEF AlarmAssumption, PanelInv, EventState
<1>4. CASE AEDrop(a)
  <2>1. group' = group
    BY <1>4 DEF AEDrop
  <2> QED
    <3>1. \A h \in Groups : group'[h].waitAuth => group'[h].armed \/ h \in TamperGroups
      BY <2>1 DEF PanelInv
    <3>2. mbox' = <<>>
      BY <1>1
    <3>3. PanelInv'
      BY <3>1, <3>2 DEF PanelInv, ToSet
    <3> QED
      BY <2>1, <3>3, SamePanel
<1>5. PICK r \in GroupState : r = group[g]
  BY <1>1, <1>3
<1>6. ASSUME NEW s, group' = [group EXCEPT ![g] = s], s \in GroupState,
             \/ Enters(r, s) /\ s.armed
             \/ Raises(r, s) /\ (r.armed \/ g \in TamperGroups) /\ s.armed = r.armed
      PROVE  PanelInv' /\ [Panel!Next]_Panel!vars
  <2>1. \A h \in Groups : group'[h].waitAuth => group'[h].armed \/ h \in TamperGroups
    BY <1>1, <1>3, <1>6 DEF PanelInv
  <2> QED
    <3>1. PanelInv'
      BY <1>1, <2>1 DEF PanelInv, ToSet
    <3>2. [Panel!Next]_Panel!vars
      BY <1>3, <1>5, <1>6, GroupMoves
    <3> QED
      BY <3>1, <3>2
<1>7. CASE AEPend(a)
  <2>1. PICK s : s = [r EXCEPT !.waitAuth = TRUE]
    OBVIOUS
  <2>2. group' = [group EXCEPT ![g] = s]
    BY <1>1, <1>5, <1>7, <2>1 DEF AEPend
  <2>3. r.armed
    <3>1. Wait(e) > 0
      BY <1>7 DEF AEPend
    <3>2. event[e].type = "P"
      BY <3>1 DEF Wait
    <3> QED
      BY <1>3, <1>5, <3>2 DEF Lawful
  <2>4. /\ s \in GroupState /\ s.waitAuth /\ s.armed = r.armed /\ s.home = r.home
        /\ s.armDelay = r.armDelay /\ s.alarm = r.alarm
    BY <1>5, <2>1 DEF GroupState
  <2>5. Enters(r, s)
    BY <2>3, <2>4 DEF Enters, ModeOf
  <2> QED
    BY <1>6, <2>2, <2>3, <2>4, <2>5
<1>8. CASE AEAlarm(a)
  <2>1. PICK s : s = [r EXCEPT !.waitAuth = TRUE, !.alarm = TRUE]
    OBVIOUS
  <2>2. group' = [group EXCEPT ![g] = s]
    BY <1>1, <1>5, <1>8, <2>1 DEF AEAlarm
  <2>3. ~r.alarm /\ (r.armed \/ g \in TamperGroups)
    BY <1>3, <1>5, <1>8 DEF AEAlarm, Lawful
  <2>4. /\ s \in GroupState /\ s.waitAuth /\ s.armed = r.armed /\ s.home = r.home
        /\ s.armDelay = r.armDelay /\ s.alarm
    BY <1>5, <2>1 DEF GroupState
  <2>5. Raises(r, s)
    BY <2>3, <2>4 DEF Raises, ModeOf
  <2> QED
    BY <1>6, <2>2, <2>3, <2>4, <2>5
<1> QED
  BY <1>4, <1>7, <1>8

(***************************************************************************)
(* The end of a period raises the alarm of a group that still waits.       *)
(***************************************************************************)
LEMMA PanelHeld ==
  ASSUME TypeOK, EventsConserved, PanelInv, NEW a \in AEThreads, AEWait(a) \/ AERelays(a) \/ AEDone(a)
  PROVE  PanelInv' /\ [Panel!Next]_Panel!vars
<1> DEFINE g == GroupOf(a)
<1>1. /\ ae[a].pc # "fetch" /\ mbox' = mbox /\ group \in [Groups -> GroupState]
      /\ event \in [Events -> EventState] /\ ae \in [AEThreads -> AEState]
  BY DEF AEWait, AERelays, AEDone, TypeOK
<1>2. /\ \A e \in ToSet(mbox) : event'[e] = event[e]
      /\ \A b \in AEThreads : ae[b].pc = "fetch" => ae'[b] = ae[b]
  BY <1>1, OthersKeep DEF AEThread, NotOf
<1>3. ASSUME \A h \in Groups : /\ group'[h].armed = group[h].armed
                               /\ group'[h].waitAuth = group[h].waitAuth
      PROVE  PanelInv'
  <2>1. \A e \in ToSet(mbox) : e \in Events /\ ZoneGroup[event[e].zone] \in Groups
    BY <1>1, AlarmAssumption DEF EventsConserved, EventState, AlarmAssumption
  <2>2. \A e \in ToSet(mbox) : Lawful(e)'
    BY <1>2, <1>3, <2>1 DEF PanelInv, Lawful
  <2> QED
    BY <1>1, <1>2, <1>3, <2>2 DEF PanelInv
<1>4. CASE group' = group
  BY <1>3, <1>4, SamePanel
<1>5. CASE group' # group
  <2>1. ae[a].pc \in {"notify", "sleep"} /\ EndPeriod(a)
    BY <1>5 DEF AEWait, AERelays, AEDone
  <2>2. ae[a].ev \in Events /\ ae[a].wait \in 1..3 /\ g \in Groups
    BY <1>1, <2>1, AlarmAssumption DEF AEState, EventState, GroupOf, AlarmAssumption
  <2>3. PICK r \in GroupState : r = group[g]
    BY <1>1, <2>2
  <2>4. r.waitAuth /\ ~r.alarm /\ group' = [group EXCEPT ![g].alarm = TRUE]
    BY <1>5, <2>1, <2>2, <2>3 DEF EndPeriod
  <2>5. PICK s : s = [r EXCEPT !.alarm = TRUE]
    OBVIOUS
  <2>6. group' = [group EXCEPT ![g] = s]
    BY <1>1, <2>3, <2>4, <2>5
  <2>7. /\ s \in GroupState /\ s.waitAuth = r.waitAuth /\ s.armed = r.armed /\ s.home = r.home
        /\ s.armDelay = r.armDelay /\ s.alarm
    BY <2>3, <2>5 DEF GroupState
  <2>8. Raises(r, s) /\ (r.armed \/ g \in TamperGroups)
    BY <2>2, <2>3, <2>4, <2>7 DEF Raises, ModeOf, PanelInv
  <2>9. \A h \in Groups : group'[h].armed = group[h].armed /\ group'[h].waitAuth = group[h].waitAuth
    BY <1>1, <2>2, <2>3, <2>6, <2>7
  <2> QED
    BY <1>3, <2>2, <2>3, <2>6, <2>7, <2>8, <2>9, GroupMoves
<1> QED
  BY <1>4, <1>5

(***************************************************************************)
(* The calls: arming, disarming, silencing.                                *)
(***************************************************************************)
LEMMA PanelCall ==
  ASSUME Delays, TypeOK, ArmingInv, PanelInv, NEW c \in Callers, CallStep(c)
  PROVE  PanelInv' /\ [Panel!Next]_Panel!vars
<1> DEFINE g == caller[c].g
<1>1. /\ mbox = <<>> /\ mbox' = <<>> /\ group \in [Groups -> GroupState]
      /\ g \in Groups /\ caller[c].type \in {"away", "home"}
  BY NobodyElseRuns DEF CallStep, RejectSent, ArmCheck, ArmSet, ArmSaved, DisarmAlarm, DisarmZones, DisarmBits,
     DisarmSaved, CallerMayRun, TypeOK, CallerState
<1>2. CASE group' = group
  BY <1>1, <1>2, EmptyMailbox, SamePanel DEF PanelInv
<1>3. PICK r \in GroupState : r = group[g]
  BY <1>1
<1>4. ASSUME NEW s, group' = [group EXCEPT ![g] = s], s \in GroupState,
             ArmsTo(r, s) \/ Alike(r, s) \/ Silences(r, s) \/ Disarms(r, s),
             s.waitAuth => r.waitAuth /\ (r.armed => s.armed)
      PROVE  PanelInv' /\ [Panel!Next]_Panel!vars
  <2>1. \A h \in Groups : group'[h].waitAuth => group'[h].armed \/ h \in TamperGroups
    BY <1>1, <1>3, <1>4 DEF PanelInv
  <2> QED
    BY <1>1, <1>3, <1>4, <2>1, GroupMoves, EmptyMailbox
<1>5. /\ TickLimit \in Nat /\ AwayTicks \in 1 .. TickLimit - 1
      /\ HomeTicks \in 0 .. TickLimit - 1 /\ HomeTicks > 0
  BY AlarmAssumption DEF AlarmAssumption, Delays, AwayTicks
<1>6. CASE ArmSet(c)
  <2>1. ~r.armed
    BY <1>3, <1>6 DEF ArmSet, ArmingInv
  <2>2. PICK s : s = IF caller[c].type = "away"
                     THEN [r EXCEPT !.armDelay = AwayTicks]
                     ELSE [r EXCEPT !.armDelay = HomeTicks, !.home = TRUE]
    OBVIOUS
  <2>3. group' = [group EXCEPT ![g] = s]
    BY <1>1, <1>3, <1>6, <2>2 DEF ArmSet
  <2>4. /\ s \in GroupState /\ s.waitAuth = r.waitAuth /\ s.armed = r.armed /\ s.alarm = r.alarm
        /\ s.armDelay > 0 /\ (r.home => s.home)
    <3>1. CASE caller[c].type = "away"
      BY <1>5, <2>2, <3>1 DEF GroupState
    <3>2. CASE caller[c].type = "home"
      <4>1. s = [[r EXCEPT !.armDelay = HomeTicks] EXCEPT !.home = TRUE]
        BY <2>2, <3>2
      <4>2. PICK t \in GroupState : t = [r EXCEPT !.armDelay = HomeTicks]
        <5>1. [r EXCEPT !.armDelay = HomeTicks] \in GroupState
          BY <1>3, <1>5 DEF GroupState
        <5> QED
          BY <5>1
      <4>3. s \in GroupState
        BY <4>1, <4>2 DEF GroupState
      <4>4. /\ t.waitAuth = r.waitAuth /\ t.armed = r.armed /\ t.alarm = r.alarm
            /\ t.armDelay = HomeTicks
        BY <4>2 DEF GroupState
      <4>5. /\ s.waitAuth = t.waitAuth /\ s.armed = t.armed /\ s.alarm = t.alarm
            /\ s.armDelay = t.armDelay /\ s.home
        BY <4>1, <4>2 DEF GroupState
      <4> QED
        BY <1>5, <4>3, <4>4, <4>5
    <3> QED
      BY <1>1, <3>1, <3>2
  <2>5. ArmsTo(r, s) \/ Alike(r, s)
    BY <2>1, <2>4 DEF ArmsTo, Alike, ModeOf
  <2> QED
    BY <1>4, <2>1, <2>3, <2>4, <2>5
<1>7. CASE DisarmAlarm(c) /\ group' # group
  <2>1. PICK s : s = [r EXCEPT !.alarm = FALSE]
    OBVIOUS
  <2>2. group' = [group EXCEPT ![g] = s]
    BY <1>1, <1>3, <1>7, <2>1 DEF DisarmAlarm
  <2>3. /\ s \in GroupState /\ s.waitAuth = r.waitAuth /\ s.armed = r.armed /\ s.home = r.home
        /\ s.armDelay = r.armDelay /\ ~s.alarm
    BY <1>3, <2>1 DEF GroupState
  <2>4. Silences(r, s)
    BY <2>3 DEF Silences, ModeOf
  <2> QED
    BY <1>4, <2>2, <2>3, <2>4
<1>8. CASE DisarmBits(c)
  <2>1. PICK s : s = [r EXCEPT !.armed = FALSE, !.home = FALSE, !.waitAuth = FALSE, !.armDelay = 0]
    OBVIOUS
  <2>2. group' = [group EXCEPT ![g] = s]
    BY <1>1, <1>3, <1>8, <2>1 DEF DisarmBits
  <2>3. 0 \in 0 .. TickLimit - 1
    BY AlarmAssumption DEF AlarmAssumption
  <2>4. /\ s \in GroupState /\ ~s.waitAuth /\ ~s.armed /\ s.armDelay = 0 /\ s.alarm = r.alarm
    BY <1>3, <2>1, <2>3 DEF GroupState
  <2>5. Disarms(r, s)
    BY <2>4 DEF Disarms, ModeOf
  <2> QED
    BY <1>4, <2>2, <2>4, <2>5
<1> QED
  BY <1>2, <1>6, <1>7, <1>8 DEF CallStep, RejectSent, ArmCheck, ArmSaved, DisarmAlarm, DisarmZones, DisarmSaved

(***************************************************************************)
(* All groups start disarmed.                                              *)
(***************************************************************************)
LEMMA PanelInit == Init => PanelInv /\ Panel!Init
<1> SUFFICES ASSUME Init PROVE PanelInv /\ Panel!Init
  OBVIOUS
<1>1. group = [g \in Groups |-> GroupOff] /\ mbox = <<>>
  BY DEF Init
<1>2. \A g \in Groups : ~group[g].waitAuth /\ ~group[g].alarm /\ Mode(g) = "disarmed"
                        /\ group[g].waitAuth = FALSE /\ group[g].alarm = FALSE
  BY <1>1 DEF GroupOff, Mode
<1>3. PanelInv
  BY <1>1, <1>2 DEF PanelInv, ToSet
<1> QED
  BY <1>2, <1>3 DEF Panel!Init

(***************************************************************************)
(* Every step between two resets.                                          *)
(***************************************************************************)
LEMMA PanelStep ==
  ASSUME Delays, ThreadsEnough, TypeOK, EventsConserved, ArmingInv, PanelInv, [Running]_vars
  PROVE  PanelInv' /\ [Panel!Next]_Panel!vars
<1>1. CASE UNCHANGED <<group, mbox, event, ae>>
  BY <1>1, SamePanel DEF PanelInv, Lawful
<1>2. CASE ZoneThread
  <2>1. CASE ZoneWake \/ ZoneArmedSaved \/ ZoneAdcDone
    BY <1>1, <2>1 DEF ZoneWake, ZoneArmedSaved, ZoneAdcDone
  <2> QED
    BY <1>2, <2>1, PanelZoneTick, PanelZoneScan DEF ZoneThread
<1>3. ASSUME NEW a \in AEThreads, AEThread(a) PROVE PanelInv' /\ [Panel!Next]_Panel!vars
  BY <1>3, PanelFetch, PanelHeld DEF AEThread
<1>4. CASE Commands
  BY <1>1, <1>4 DEF Commands, KeyPress, RemoteZoneMessage, RegisterZone, AutoArm, MqttArm,
                    MqttDisarm, WebDisarm, WebSetEnabled, WebSave
<1>5. CASE UNCHANGED vars
  BY <1>1, <1>5 DEF vars
<1> QED
  BY <1>2, <1>3, <1>4, <1>5, PanelCall DEF Running

(***************************************************************************)
(* The threads implement the panel of docs/alarm_state_machine.d2: with as *)
(* many event threads as event objects, with callers of the zone thread's  *)
(* priority and delays that do not wrap to zero, no interleaving of theirs *)
(* takes a group through a transition the panel does not have. With fewer  *)
(* threads an event may be fetched after its group was disarmed (AEThread, *)
(* armGroup, disarmGroup).                                                 *)
(***************************************************************************)
THEOREM PanelIsImplemented ==
  EqualPriorities /\ ThreadsEnough /\ Delays => (RunningSpec => ImplementsPanel)
<1> SUFFICES ASSUME EqualPriorities, ThreadsEnough, Delays PROVE RunningSpec => Panel!Spec
  BY DEF ImplementsPanel
<1>1. [Running]_vars => [Next]_vars
  BY DEF Next
<1>2. TypeOK /\ ArmingInv /\ [Next]_vars => ArmingInv'
  BY ArmingInvStep
<1>3. TypeOK /\ EventsConserved /\ ArmingInv /\ PanelInv /\ [Running]_vars
        => PanelInv' /\ [Panel!Next]_Panel!vars
  BY PanelStep
<1> QED
  BY <1>1, <1>2, <1>3, TypeCorrect, EventsAreConserved, ArmingInvInit, PanelInit, PTL
     DEF RunningSpec, Spec, Panel!Spec
=============================================================================
