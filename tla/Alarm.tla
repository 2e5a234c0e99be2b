------------------------------- MODULE Alarm -------------------------------
(***************************************************************************)
(* The alarm core of the gateway: groups, zones, the alarm event pool and  *)
(* mailbox, the zone thread (ohs_th_zone.h), the alarm event threads       *)
(* (ohs_th_alarm.h), and the threads that call checkKey, armGroup and      *)
(* disarmGroup (ohs_functions.h).                                          *)
(*                                                                         *)
(* A thread's step runs up to the next point where the thread blocks (a    *)
(* command sent to the nodes, a sleep, an ADC conversion) or where a       *)
(* thread of higher priority can act on what it has done.  The kernel is   *)
(* built with CH_CFG_TIME_QUANTUM = 0: threads of equal priority switch    *)
(* only where they block, a higher one preempts anywhere.                  *)
(***************************************************************************)
EXTENDS Integers, Sequences, FiniteSets, SequencesExt

CONSTANTS
  NGroups, NZones,       \* ALARM_GROUPS and the number of enabled zones
  Events, NoObject,      \* the objects of alarmEvent_pool; none of them
  MailboxSize,           \* the slots of alarmEvent_mb
  AEThreads,             \* the alarm event threads
  KeyReaders,            \* RS485Thread, RadioThread: they call checkKey
  AutoArmers,            \* ServiceThread
  MqttSubs,              \* MqttSubThread
  Webs,                  \* the lwIP thread running the http handlers
  Prio, NORMALPRIO,      \* priority of each caller; of the zone thread
  ZoneGroup,             \* GET_CONF_ZONE_GROUP of each zone
  AuthTime,              \* GET_CONF_ZONE_AUTH_TIME of each zone
  Readings,              \* what a local zone's input can read; {} = not read
  NeededZones, HomeZones, PirAsTamper, RemoteZones, BalancedZones,
  GroupsOn,              \* the groups the saved configuration enables
  AutoArmGroups, ArmChain, DisarmChain,
  Relays, PirRelays, TamperRelays,
  ArmDelay,              \* conf.armDelay
  TicksPerUnit,          \* 4, its factor in armGroup
  HomeTicks,             \* 8, the arm-home delay
  TickLimit              \* 256, the values of the uint8_t group.armDelay

Groups  == 0 .. NGroups - 1
Zones   == 0 .. NZones - 1
Callers == KeyReaders \union AutoArmers \union MqttSubs \union Webs

DUMMY_GROUP    == 15
DUMMY_NO_VALUE == 255

ASSUME AlarmAssumption ==
  /\ NGroups \in 1 .. 15 /\ NZones \in Nat \ {0}
  /\ IsFiniteSet(Events) /\ NoObject \notin Events /\ MailboxSize \in Nat
  /\ Cardinality(Events) <= MailboxSize
  /\ Prio \in [Callers -> Nat] /\ NORMALPRIO \in Nat
  /\ ZoneGroup \in [Zones -> Groups] /\ AuthTime \in [Zones -> 0 .. 3]
  /\ Readings \in [Zones -> SUBSET {"O", "P", "T"}]
  /\ GroupsOn \subseteq Groups
  /\ ArmChain \in [Groups -> Groups \union {DUMMY_GROUP}]
  /\ DisarmChain \in [Groups -> Groups \union {DUMMY_GROUP}]
  /\ PirRelays \in [Groups -> SUBSET Relays]
  /\ TamperRelays \in [Groups -> SUBSET Relays]
  /\ ArmDelay \in Nat /\ TicksPerUnit \in Nat
  /\ TickLimit \in Nat \ {0} /\ HomeTicks \in 0 .. TickLimit - 1

VARIABLES
  group,      \* the group[] array: armed, alarm, waitAuth, home, armDelay
  bkpGroup,   \* the copy of it in the RTC backup registers
  enabled,    \* the groups conf.group[] enables now
  saved,      \* those the configuration saved in the backup SRAM enables
  zone,       \* the zone[] array: lastEvent and the ALARM bit
  connected,  \* the remote zones with a conf.zoneAddress
  val,        \* the zone thread's local variable val, kept between zones
  zt,         \* where the zone thread is: pc and its loop index i
  pool,       \* the free objects of alarmEvent_pool
  mbox,       \* alarmEvent_mb
  event,      \* what the objects in use hold
  ae,         \* each alarm event thread: pc, its object, wait and count
  relays,     \* the relay outputs that are on
  caller      \* each calling thread: pc and the arguments of the call

vars == <<group, bkpGroup, enabled, saved, zone, connected, val, zt, pool, mbox,
          event, ae, relays, caller>>

Letters   == {"O", "P", "T"}
NoEvent   == [zone |-> 0, type |-> "N"]
Idle      == [pc |-> "idle", g |-> 0, master |-> DUMMY_NO_VALUE,
              type |-> "away", hop |-> 0]
Fetching  == [pc |-> "fetch", ev |-> NoObject, wait |-> 0, count |-> 0]

GroupState ==
  [armed : BOOLEAN, alarm : BOOLEAN, waitAuth : BOOLEAN, home : BOOLEAN,
   armDelay : 0 .. TickLimit - 1]

ZoneState == [lastEvent : Letters \union {"N"}, alarm : BOOLEAN]

ZoneThreadState ==
  [pc : {"sleep", "adc"}, i : {0}] \union [pc : {"tick", "armedSend"}, i : Groups]
  \union [pc : {"scan"}, i : Zones]

EventState == [zone : Zones, type : {"N", "P", "T"}]

AEState ==
  [pc : {"fetch"}, ev : {NoObject}, wait : {0}, count : {0}]
  \union [pc : {"notify", "sleep"}, ev : Events, wait : 1 .. 3, count : Nat]
  \union [pc : {"alarmSend", "horn"}, ev : Events, wait : {0}, count : {0}]

CallerState ==
  [pc : {"idle", "rejectSend", "arm", "armSet", "armSend",
         "disarm", "horns", "zones", "bits", "disarmSend"},
   g : Groups, master : Groups \union {DUMMY_NO_VALUE},
   type : {"away", "home"}, hop : 0 .. NGroups + 1]

TypeOK ==
  /\ group \in [Groups -> GroupState] /\ bkpGroup \in [Groups -> GroupState]
  /\ enabled \subseteq Groups /\ saved \subseteq Groups
  /\ zone \in [Zones -> ZoneState]
  /\ connected \subseteq Zones
  /\ val \in Letters
  /\ zt \in ZoneThreadState
  /\ pool \subseteq Events /\ mbox \in Seq(Events)
  /\ event \in [Events -> EventState]
  /\ ae \in [AEThreads -> AEState]
  /\ relays \subseteq Relays
  /\ caller \in [Callers -> CallerState]

----------------------------------------------------------------------------
(* Scheduling.  An alarm event thread has the highest priority.            *)

AEReady == mbox # <<>> /\ \E a \in AEThreads : ae[a].pc = "fetch"

CallerBlocked(c) ==
  caller[c].pc \in {"idle", "rejectSend", "armSend", "horns", "disarmSend"}

ZoneBlocked == zt.pc \in {"sleep", "armedSend", "adc"}

ZoneMayRun ==
  /\ ~AEReady
  /\ \A d \in Callers : Prio[d] >= NORMALPRIO => CallerBlocked(d)

CallerMayRun(c) ==
  /\ ~AEReady
  /\ NORMALPRIO >= Prio[c] => ZoneBlocked
  /\ \A d \in Callers \ {c} : Prio[d] >= Prio[c] => CallerBlocked(d)

----------------------------------------------------------------------------
(* The zone thread: one pass manages the arm delays, then the zones.       *)

\* chThdSleepMilliseconds(250) is over.
ZoneWake ==
  /\ zt.pc = "sleep" /\ ZoneMayRun
  /\ zt' = [pc |-> "tick", i |-> 0]
  /\ UNCHANGED <<group, bkpGroup, enabled, saved, zone, connected, val, pool, mbox,
                 event, ae, relays, caller>>

NextGroup == IF zt.i + 1 < NGroups THEN [pc |-> "tick", i |-> zt.i + 1]
                                   ELSE [pc |-> "adc", i |-> 0]

\* Mutant: the test that armDelay is above zero is gone.
ZoneTickUntested ==
  LET g == zt.i IN
  /\ zt.pc = "tick" /\ ZoneMayRun
  /\ group' = [group EXCEPT ![g].armDelay = @ - 1, ![g].armed = @ \/ group[g].armDelay = 1]
  /\ zt' = IF group[g].armDelay = 1 THEN [zt EXCEPT !.pc = "armedSend"] ELSE NextGroup
  /\ UNCHANGED <<bkpGroup, enabled, saved, zone, connected, val, pool, mbox, event, ae,
                 relays, caller>>

\* Mutant: a group that is arming home is skipped.
ZoneTickAwayOnly ==
  LET g == zt.i IN
  /\ zt.pc = "tick" /\ ZoneMayRun
  /\ IF group[g].armDelay = 0 \/ group[g].home
     THEN zt' = NextGroup /\ UNCHANGED group
     ELSE /\ group' = [group EXCEPT ![g].armDelay = @ - 1,
                                   ![g].armed = @ \/ group[g].armDelay = 1]
          /\ zt' = IF group[g].armDelay = 1 THEN [zt EXCEPT !.pc = "armedSend"]
                                             ELSE NextGroup
  /\ UNCHANGED <<bkpGroup, enabled, saved, zone, connected, val, pool, mbox, event, ae,
                 relays, caller>>

\* One group of the arm delay loop: at zero the group becomes armed and its
\* key nodes are told.
ZoneTick ==
  LET g == zt.i IN
  /\ zt.pc = "tick" /\ ZoneMayRun
  /\ \/ /\ group[g].armDelay = 0
        /\ zt' = NextGroup
        /\ UNCHANGED group
     \/ /\ group[g].armDelay > 1
        /\ group' = [group EXCEPT ![g].armDelay = @ - 1]
        /\ zt' = NextGroup
     \/ /\ group[g].armDelay = 1
        /\ group' = [group EXCEPT ![g].armDelay = 0, ![g].armed = TRUE]
        /\ zt' = [zt EXCEPT !.pc = "armedSend"]
  /\ UNCHANGED <<bkpGroup, enabled, saved, zone, connected, val, pool, mbox, event, ae,
                 relays, caller>>

\* Mutant: the group array is not saved.
ZoneArmedUnsaved ==
  /\ zt.pc = "armedSend" /\ ZoneMayRun
  /\ zt' = NextGroup
  /\ UNCHANGED <<group, bkpGroup, enabled, saved, zone, connected, val, pool, mbox, event,
                 ae, relays, caller>>

\* sendCmdToGrp returned: the group array is saved.
ZoneArmedSaved ==
  /\ zt.pc = "armedSend" /\ ZoneMayRun
  /\ bkpGroup' = group
  /\ zt' = NextGroup
  /\ UNCHANGED <<group, enabled, saved, zone, connected, val, pool, mbox, event, ae,
                 relays, caller>>

ZoneAdcDone ==
  /\ zt.pc = "adc" /\ ZoneMayRun
  /\ zt' = [pc |-> "scan", i |-> 0]
  /\ UNCHANGED <<group, bkpGroup, enabled, saved, zone, connected, val, pool, mbox,
                 event, ae, relays, caller>>

NextZone == IF zt.i + 1 < NZones THEN [pc |-> "scan", i |-> zt.i + 1]
                                 ELSE [pc |-> "sleep", i |-> 0]

\* A balanced remote zone goes from PIR back to OK after 2 seconds.
Settled(z, elapsed) ==
  IF z \in RemoteZones \intersect BalancedZones \intersect connected
     /\ zone[z].lastEvent = "P" /\ elapsed
  THEN "O" ELSE zone[z].lastEvent

\* The class of val: OK, PIR or tamper.  A remote zone that is not connected
\* and a local digital zone other than the box input leave val as it was.
Decode(z, last, reading) ==
  LET seen == CASE z \in RemoteZones /\ z \in connected ->
                     IF last \in {"O", "P"} THEN last ELSE "T"
                [] z \notin RemoteZones /\ Readings[z] # {} -> reading
                [] OTHER -> val
  IN  IF z \in PirAsTamper /\ seen = "P" THEN "T" ELSE seen

\* Mutant: a PIR zone reports whether its group is armed or not.
ReportsUnarmed(z, last, v) ==
  /\ v \in {"P", "T"} /\ last = v
  /\ ~zone[z].alarm
  /\ ZoneGroup[z] \in enabled

\* The conditions under which zone z, seen as v, reports an alarm event: the
\* second pass in a row, no alarm of this zone yet, and for PIR an armed group.
Reports(z, last, v) ==
  LET g == ZoneGroup[z] IN
  /\ v \in {"P", "T"} /\ last = v
  /\ ~zone[z].alarm
  /\ g \in enabled
  /\ v = "P" => /\ group[g].armDelay = 0
                /\ group[g].armed
                /\ group[g].home => z \in HomeZones

\* What chPoolAlloc and chMBPostTimeout(TIME_IMMEDIATE) do with the event.
Post(z, v) ==
  \E e \in pool :
    /\ pool' = pool \ {e}
    /\ event' = [event EXCEPT ![e] = [zone |-> z, type |-> v]]
    /\ mbox' = IF Len(mbox) < MailboxSize THEN Append(mbox, e) ELSE mbox

\* lastEvent is not touched for a balanced remote zone.
NewLast(z, last, v) ==
  IF z \in RemoteZones \intersect BalancedZones THEN last ELSE v

ZoneScan ==
  LET z == zt.i IN
  /\ zt.pc = "scan" /\ ZoneMayRun
  /\ \E elapsed \in BOOLEAN,
        reading \in IF Readings[z] = {} THEN Letters ELSE Readings[z] :
       LET last == Settled(z, elapsed)
           v    == Decode(z, last, reading)
       IN /\ val' = v
          /\ \/ /\ Reports(z, last, v) /\ pool # {}
                /\ Post(z, v)
                /\ zone' = [zone EXCEPT ![z] = [lastEvent |-> NewLast(z, last, v),
                                                alarm |-> TRUE]]
             \/ /\ ~(Reports(z, last, v) /\ pool # {})
                /\ zone' = [zone EXCEPT ![z].lastEvent = NewLast(z, last, v)]
                /\ UNCHANGED <<pool, event, mbox>>
  /\ zt' = NextZone
  /\ UNCHANGED <<group, bkpGroup, enabled, saved, connected, ae, relays, caller>>

\* A zone message of a remote node, handled by a reader that has no call open.
RemoteZoneMessage(c, z, letter) ==
  /\ caller[c].pc = "idle" /\ CallerMayRun(c)
  /\ z \in RemoteZones \intersect connected
  /\ zone' = [zone EXCEPT ![z].lastEvent = letter]
  /\ UNCHANGED <<group, bkpGroup, enabled, saved, connected, val, zt, pool, mbox, event,
                 ae, relays, caller>>

\* RegistrationThread connects a remote zone and resets it to OK.
RegisterZone(z) ==
  /\ z \in RemoteZones /\ ZoneBlocked /\ ZoneMayRun
  /\ connected' = connected \union {z}
  /\ zone' = [zone EXCEPT ![z].lastEvent = "O"]
  /\ UNCHANGED <<group, bkpGroup, enabled, saved, val, zt, pool, mbox, event, ae,
                 relays, caller>>

----------------------------------------------------------------------------
(* The alarm event threads.                                                *)

GroupOf(a) == ZoneGroup[event[ae[a].ev].zone]
Wait(e)    == IF event[e].type = "P" THEN AuthTime[event[e].zone] ELSE 0
Periods    == 2 * ArmDelay   \* sleeps of 125 ms in one authentication period

Fetch(a) == /\ ae[a].pc = "fetch" /\ mbox # <<>>
            /\ mbox' = Tail(mbox)

Free(e) == /\ pool' = pool \union {e}
           /\ event' = [event EXCEPT ![e] = NoEvent]

\* Mutant: continue without chPoolFree.
AEDropUnfreed(a) ==
  LET g == ZoneGroup[event[Head(mbox)].zone] IN
  /\ Fetch(a)
  /\ g \notin enabled \/ group[g].alarm
  /\ UNCHANGED <<group, bkpGroup, enabled, saved, zone, connected, val, zt, pool, event, ae,
                 relays, caller>>

\* The group is disabled or has its alarm already: the event is dropped.
AEDrop(a) ==
  LET e == Head(mbox)
      g == ZoneGroup[event[e].zone] IN
  /\ Fetch(a)
  /\ g \notin enabled \/ group[g].alarm
  /\ Free(e)
  /\ UNCHANGED <<group, bkpGroup, enabled, saved, zone, connected, val, zt, ae, relays,
                 caller>>

\* A PIR event of a zone with an authentication time: wait for a key.
AEPend(a) ==
  LET e == Head(mbox)
      g == ZoneGroup[event[e].zone] IN
  /\ Fetch(a)
  /\ g \in enabled /\ ~group[g].alarm /\ Wait(e) > 0
  /\ group' = [group EXCEPT ![g].waitAuth = TRUE]
  /\ ae' = [ae EXCEPT ![a] = [pc |-> "notify", ev |-> e, wait |-> Wait(e),
                              count |-> 0]]
  /\ UNCHANGED <<bkpGroup, enabled, saved, zone, connected, val, zt, pool, event, relays,
                 caller>>

\* A tamper event, or a zone without authentication time: alarm at once.
AEAlarm(a) ==
  LET e == Head(mbox)
      g == ZoneGroup[event[e].zone] IN
  /\ Fetch(a)
  /\ g \in enabled /\ ~group[g].alarm /\ Wait(e) = 0
  /\ group' = [group EXCEPT ![g].waitAuth = TRUE, ![g].alarm = TRUE]
  /\ ae' = [ae EXCEPT ![a] = [pc |-> "alarmSend", ev |-> e, wait |-> 0,
                              count |-> 0]]
  /\ UNCHANGED <<bkpGroup, enabled, saved, zone, connected, val, zt, pool, event, relays,
                 caller>>

\* The sleeps of the period go on while nobody authenticated.
StillWaiting(a, count) ==
  /\ group[GroupOf(a)].waitAuth /\ ~group[GroupOf(a)].alarm
  /\ count < Periods

\* Mutant: the event is freed when the alarm is raised, and again at the end.
EndPeriodFreesTwice(a) ==
  LET g    == GroupOf(a)
      left == IF group[g].waitAuth THEN ae[a].wait - 1 ELSE ae[a].wait
  IN  \/ /\ left > 0 /\ group[g].waitAuth /\ ~group[g].alarm
         /\ ae' = [ae EXCEPT ![a] = [pc |-> "notify", ev |-> @.ev, wait |-> left, count |-> 0]]
         /\ UNCHANGED <<group, pool, event>>
      \/ /\ left = 0 /\ ~group[g].alarm
         /\ group' = [group EXCEPT ![g].alarm = TRUE]
         /\ ae' = [ae EXCEPT ![a] = [pc |-> "alarmSend", ev |-> @.ev, wait |-> 0, count |-> 0]]
         /\ pool' = pool \union {ae[a].ev} /\ UNCHANGED event
      \/ /\ group[g].alarm \/ (left > 0 /\ ~group[g].waitAuth)
         /\ Free(ae[a].ev)
         /\ ae' = [ae EXCEPT ![a] = Fetching]
         /\ UNCHANGED group

\* Mutant: wait is not decremented.
EndPeriodForever(a) ==
  LET g == GroupOf(a) IN
  \/ /\ group[g].waitAuth /\ ~group[g].alarm
     /\ ae' = [ae EXCEPT ![a].pc = "notify", ![a].count = 0]
     /\ UNCHANGED <<group, pool, event>>
  \/ /\ ~(group[g].waitAuth /\ ~group[g].alarm)
     /\ Free(ae[a].ev)
     /\ ae' = [ae EXCEPT ![a] = Fetching]
     /\ UNCHANGED group

\* The period is over: one less to wait if nobody authenticated, then the next
\* period, the alarm, or the end of the event.
EndPeriod(a) ==
  LET g    == GroupOf(a)
      left == IF group[g].waitAuth THEN ae[a].wait - 1 ELSE ae[a].wait
  IN  \/ /\ left > 0 /\ group[g].waitAuth /\ ~group[g].alarm
         /\ ae' = [ae EXCEPT ![a] = [pc |-> "notify", ev |-> @.ev, wait |-> left, count |-> 0]]
         /\ UNCHANGED <<group, pool, event>>
      \/ /\ left = 0 /\ ~group[g].alarm
         /\ group' = [group EXCEPT ![g].alarm = TRUE]
         /\ ae' = [ae EXCEPT ![a] = [pc |-> "alarmSend", ev |-> @.ev, wait |-> 0, count |-> 0]]
         /\ UNCHANGED <<pool, event>>
      \/ /\ group[g].alarm \/ (left > 0 /\ ~group[g].waitAuth)
         /\ Free(ae[a].ev)
         /\ ae' = [ae EXCEPT ![a] = Fetching]
         /\ UNCHANGED group

\* The key nodes were told of the period, or 125 ms have passed (one more sleep).
AEWait(a) ==
  /\ \/ /\ ae[a].pc = "notify" /\ StillWaiting(a, 0)
        /\ ae' = [ae EXCEPT ![a].pc = "sleep"]
        /\ UNCHANGED <<group, pool, event>>
     \/ /\ ae[a].pc = "sleep" /\ StillWaiting(a, ae[a].count + 1)
        /\ ae' = [ae EXCEPT ![a].count = @ + 1]
        /\ UNCHANGED <<group, pool, event>>
     \/ /\ \/ ae[a].pc = "notify" /\ ~StillWaiting(a, 0)
           \/ ae[a].pc = "sleep" /\ ~StillWaiting(a, ae[a].count + 1)
        /\ EndPeriod(a)
  /\ UNCHANGED <<bkpGroup, enabled, saved, zone, connected, val, zt, mbox, relays, caller>>

\* The key nodes were told of the alarm: the group's relays are switched on.
AERelays(a) ==
  /\ ae[a].pc = "alarmSend"
  /\ relays' = relays \union (IF event[ae[a].ev].type = "P"
                              THEN PirRelays[GroupOf(a)] ELSE TamperRelays[GroupOf(a)])
  /\ ae' = [ae EXCEPT ![a].pc = "horn"]
  /\ UNCHANGED <<group, bkpGroup, enabled, saved, zone, connected, val, zt, pool, mbox,
                 event, caller>>

\* The remote horns were told: the event object goes back to the pool.
AEDone(a) ==
  /\ ae[a].pc = "horn"
  /\ Free(ae[a].ev)
  /\ ae' = [ae EXCEPT ![a] = Fetching]
  /\ UNCHANGED <<group, bkpGroup, enabled, saved, zone, connected, val, zt, mbox, relays,
                 caller>>

----------------------------------------------------------------------------
(* The calls: checkKey, armGroup, disarmGroup.                             *)

Call(c, pc, g, master, type) ==
  caller' = [caller EXCEPT ![c] = [pc |-> pc, g |-> g, master |-> master,
                                   type |-> type, hop |-> 0]]

ZoneRejects(z) == z \in NeededZones /\ zone[z].lastEvent # "O"

\* checkKey of a known, enabled key: disarm what is in alarm, armed or arming;
\* otherwise arm, after a rejection is sent if a needed zone is not OK.
KeyPress(c, g, type) ==
  /\ caller[c].pc = "idle" /\ CallerMayRun(c)
  /\ g \in enabled
  /\ LET active   == group[g].alarm \/ group[g].armed \/ group[g].armDelay > 0
         rejected == \E z \in Zones : ZoneGroup[z] = g /\ ZoneRejects(z)
     IN  \/ active /\ Call(c, "disarm", g, g, "away")
         \/ ~active /\ rejected /\ Call(c, "rejectSend", g, g, type)
         \/ ~active /\ ~rejected /\ Call(c, "arm", g, g, type)
  /\ UNCHANGED <<group, bkpGroup, enabled, saved, zone, connected, val, zt, pool, mbox,
                 event, ae, relays>>

\* After the rejection checkKey goes on to armGroup all the same.
RejectSent(c) ==
  /\ caller[c].pc = "rejectSend" /\ CallerMayRun(c)
  /\ caller' = [caller EXCEPT ![c].pc = "arm"]
  /\ UNCHANGED <<group, bkpGroup, enabled, saved, zone, connected, val, zt, pool, mbox,
                 event, ae, relays>>

\* ServiceThread: no PIR for conf.autoArm minutes in a group that is off.
AutoArm(c, g) ==
  /\ caller[c].pc = "idle" /\ CallerMayRun(c)
  /\ g \in enabled \intersect AutoArmGroups
  /\ \E z \in Zones : ZoneGroup[z] = g
  /\ ~group[g].armed /\ group[g].armDelay = 0
  /\ Call(c, "arm", g, DUMMY_NO_VALUE, "away")
  /\ UNCHANGED <<group, bkpGroup, enabled, saved, zone, connected, val, zt, pool, mbox,
                 event, ae, relays>>

MqttArm(c, g, type) ==
  /\ caller[c].pc = "idle" /\ CallerMayRun(c)
  /\ g \in enabled
  /\ Call(c, "arm", g, g, type)
  /\ UNCHANGED <<group, bkpGroup, enabled, saved, zone, connected, val, zt, pool, mbox,
                 event, ae, relays>>

MqttDisarm(c, g) ==
  /\ caller[c].pc = "idle" /\ CallerMayRun(c)
  /\ g \in enabled
  /\ Call(c, "disarm", g, g, "away")
  /\ UNCHANGED <<group, bkpGroup, enabled, saved, zone, connected, val, zt, pool, mbox,
                 event, ae, relays>>

\* The group page: its disarm button disarms this group only, its radio button
\* enables or disables the group.
WebDisarm(c, g) ==
  /\ caller[c].pc = "idle" /\ CallerMayRun(c)
  /\ Call(c, "disarm", g, DUMMY_NO_VALUE, "away")
  /\ UNCHANGED <<group, bkpGroup, enabled, saved, zone, connected, val, zt, pool, mbox,
                 event, ae, relays>>

WebSetEnabled(c, g) ==
  /\ caller[c].pc = "idle" /\ CallerMayRun(c)
  /\ enabled' = IF g \in enabled THEN enabled \ {g} ELSE enabled \union {g}
  /\ UNCHANGED <<group, bkpGroup, saved, zone, connected, val, zt, pool, mbox, event, ae,
                 relays, caller>>

WebSave(c) ==
  /\ caller[c].pc = "idle" /\ CallerMayRun(c)
  /\ saved' = enabled
  /\ UNCHANGED <<group, bkpGroup, enabled, zone, connected, val, zt, pool, mbox, event,
                 ae, relays, caller>>

\* The call goes on with the next group of the chain, or is over.
Chain(c, chain, pc) ==
  LET f    == caller[c]
      next == chain[f.g]
  IN  caller' =
        [caller EXCEPT ![c] =
           IF /\ next # DUMMY_GROUP /\ next # f.master
              /\ f.master # DUMMY_NO_VALUE /\ f.hop <= NGroups
           THEN [f EXCEPT !.pc = pc, !.g = next, !.hop = @ + 1]
           ELSE Idle]

AwayTicks == (ArmDelay * TicksPerUnit) % TickLimit

\* Mutant: a group that is armed already is armed again.
ArmCheckEnabledOnly(c) ==
  LET g == caller[c].g IN
  /\ caller[c].pc = "arm" /\ CallerMayRun(c)
  /\ IF g \in enabled THEN caller' = [caller EXCEPT ![c].pc = "armSet"]
                       ELSE Chain(c, ArmChain, "arm")
  /\ UNCHANGED <<group, bkpGroup, enabled, saved, zone, connected, val, zt, pool, mbox,
                 event, ae, relays>>

\* armGroup up to its tests.
ArmCheck(c) ==
  LET g == caller[c].g IN
  /\ caller[c].pc = "arm" /\ CallerMayRun(c)
  /\ \/ /\ g \in enabled /\ ~group[g].armed
        /\ caller' = [caller EXCEPT ![c].pc = "armSet"]
     \/ /\ ~(g \in enabled /\ ~group[g].armed)
        /\ Chain(c, ArmChain, "arm")
  /\ UNCHANGED <<group, bkpGroup, enabled, saved, zone, connected, val, zt, pool, mbox,
                 event, ae, relays>>

\* armGroup sets the delay, and the home flag when arming home.
ArmSet(c) ==
  LET g == caller[c].g IN
  /\ caller[c].pc = "armSet" /\ CallerMayRun(c)
  /\ group' = [group EXCEPT ![g] =
       IF caller[c].type = "away"
       THEN [@ EXCEPT !.armDelay = AwayTicks]
       ELSE [@ EXCEPT !.armDelay = HomeTicks, !.home = TRUE]]
  /\ caller' = [caller EXCEPT ![c].pc = "armSend"]
  /\ UNCHANGED <<bkpGroup, enabled, saved, zone, connected, val, zt, pool, mbox, event,
                 ae, relays>>

ArmSaved(c) ==
  /\ caller[c].pc = "armSend" /\ CallerMayRun(c)
  /\ bkpGroup' = group
  /\ Chain(c, ArmChain, "arm")
  /\ UNCHANGED <<group, enabled, saved, zone, connected, val, zt, pool, mbox, event, ae,
                 relays>>

\* Mutant: the relays go off, the ALARM bit stays.
DisarmAlarmKept(c) ==
  LET g == caller[c].g IN
  /\ caller[c].pc = "disarm" /\ CallerMayRun(c)
  /\ relays' = IF group[g].alarm THEN {} ELSE relays
  /\ caller' = [caller EXCEPT ![c].pc = IF group[g].alarm THEN "horns" ELSE "zones"]
  /\ UNCHANGED <<group, bkpGroup, enabled, saved, zone, connected, val, zt, pool, mbox,
                 event, ae>>

\* disarmGroup: the alarm is cleared and both relays are switched off.
DisarmAlarm(c) ==
  LET g == caller[c].g IN
  /\ caller[c].pc = "disarm" /\ CallerMayRun(c)
  /\ \/ /\ group[g].alarm
        /\ group' = [group EXCEPT ![g].alarm = FALSE]
        /\ relays' = {}
        /\ caller' = [caller EXCEPT ![c].pc = "horns"]
     \/ /\ ~group[g].alarm
        /\ caller' = [caller EXCEPT ![c].pc = "zones"]
        /\ UNCHANGED <<group, relays>>
  /\ UNCHANGED <<bkpGroup, enabled, saved, zone, connected, val, zt, pool, mbox, event, ae>>

\* Mutant: the zones are cleared only when the group is in alarm.
DisarmZonesInAlarm(c) ==
  LET g == caller[c].g IN
  /\ caller[c].pc \in {"horns", "zones"} /\ CallerMayRun(c)
  /\ zone' = [z \in Zones |-> IF ZoneGroup[z] = g /\ caller[c].pc = "horns"
                              THEN [zone[z] EXCEPT !.alarm = FALSE] ELSE zone[z]]
  /\ caller' = [caller EXCEPT ![c].pc = "bits"]
  /\ UNCHANGED <<group, bkpGroup, enabled, saved, connected, val, zt, pool, mbox, event,
                 ae, relays>>

\* Mutant: the zones of the first group of the chain are cleared.
DisarmZonesOfMaster(c) ==
  /\ caller[c].pc \in {"horns", "zones"} /\ CallerMayRun(c)
  /\ zone' = [z \in Zones |-> IF ZoneGroup[z] = caller[c].master
                              THEN [zone[z] EXCEPT !.alarm = FALSE] ELSE zone[z]]
  /\ caller' = [caller EXCEPT ![c].pc = "bits"]
  /\ UNCHANGED <<group, bkpGroup, enabled, saved, connected, val, zt, pool, mbox, event,
                 ae, relays>>

\* The remote horns were told; then the zones of the group are cleared.
DisarmZones(c) ==
  LET g == caller[c].g IN
  /\ caller[c].pc \in {"horns", "zones"} /\ CallerMayRun(c)
  /\ zone' = [z \in Zones |-> IF ZoneGroup[z] = g
                              THEN [zone[z] EXCEPT !.alarm = FALSE] ELSE zone[z]]
  /\ caller' = [caller EXCEPT ![c].pc = "bits"]
  /\ UNCHANGED <<group, bkpGroup, enabled, saved, connected, val, zt, pool, mbox, event,
                 ae, relays>>

DisarmBits(c) ==
  LET g == caller[c].g IN
  /\ caller[c].pc = "bits" /\ CallerMayRun(c)
  /\ group' = [group EXCEPT ![g].armed = FALSE, ![g].home = FALSE,
                            ![g].waitAuth = FALSE, ![g].armDelay = 0]
  /\ caller' = [caller EXCEPT ![c].pc = "disarmSend"]
  /\ UNCHANGED <<bkpGroup, enabled, saved, zone, connected, val, zt, pool, mbox, event, ae,
                 relays>>

\* Mutant: the group array is not saved.
DisarmUnsaved(c) ==
  /\ caller[c].pc = "disarmSend" /\ CallerMayRun(c)
  /\ Chain(c, DisarmChain, "disarm")
  /\ UNCHANGED <<group, bkpGroup, enabled, saved, zone, connected, val, zt, pool, mbox,
                 event, ae, relays>>

DisarmSaved(c) ==
  /\ caller[c].pc = "disarmSend" /\ CallerMayRun(c)
  /\ bkpGroup' = group
  /\ Chain(c, DisarmChain, "disarm")
  /\ UNCHANGED <<group, enabled, saved, zone, connected, val, zt, pool, mbox, event, ae,
                 relays>>

----------------------------------------------------------------------------
(* Start and restart.  main() restores group[] from the RTC registers and  *)
(* the configuration from the backup SRAM, and resets everything else.     *)

StartZones == [z \in Zones |-> [lastEvent |-> IF z \in RemoteZones THEN "O" ELSE "N",
                                alarm |-> FALSE]]

GroupOff == [armed |-> FALSE, alarm |-> FALSE, waitAuth |-> FALSE, home |-> FALSE,
             armDelay |-> 0]

Init ==
  /\ group = [g \in Groups |-> GroupOff]
  /\ bkpGroup = group
  /\ enabled = GroupsOn
  /\ saved = GroupsOn
  /\ zone = StartZones
  /\ connected = {}
  /\ val \in Letters
  /\ zt = [pc |-> "sleep", i |-> 0]
  /\ pool = Events
  /\ mbox = <<>>
  /\ event = [e \in Events |-> NoEvent]
  /\ ae = [a \in AEThreads |-> Fetching]
  /\ relays = {}
  /\ caller = [c \in Callers |-> Idle]

\* A reset, by the watchdog or the supply, between any two steps.
Reset ==
  /\ group' = bkpGroup
  /\ enabled' = saved
  /\ zone' = StartZones
  /\ connected' = {}
  /\ val' \in Letters
  /\ zt' = [pc |-> "sleep", i |-> 0]
  /\ pool' = Events
  /\ mbox' = <<>>
  /\ event' = [e \in Events |-> NoEvent]
  /\ ae' = [a \in AEThreads |-> Fetching]
  /\ relays' = {}
  /\ caller' = [c \in Callers |-> Idle]
  /\ UNCHANGED <<bkpGroup, saved>>

ZoneThread == ZoneWake \/ ZoneTick \/ ZoneArmedSaved \/ ZoneAdcDone \/ ZoneScan

AEThread(a) ==
  AEDrop(a) \/ AEPend(a) \/ AEAlarm(a) \/ AEWait(a) \/ AERelays(a) \/ AEDone(a)

CallStep(c) ==
  \/ RejectSent(c) \/ ArmCheck(c) \/ ArmSet(c) \/ ArmSaved(c)
  \/ DisarmAlarm(c) \/ DisarmZones(c) \/ DisarmBits(c) \/ DisarmSaved(c)

Commands ==
  \/ \E c \in KeyReaders, g \in Groups, type \in {"away", "home"} : KeyPress(c, g, type)
  \/ \E c \in KeyReaders, z \in Zones, letter \in Letters : RemoteZoneMessage(c, z, letter)
  \/ \E z \in Zones : RegisterZone(z)
  \/ \E c \in AutoArmers, g \in Groups : AutoArm(c, g)
  \/ \E c \in MqttSubs, g \in Groups, type \in {"away", "home"} : MqttArm(c, g, type)
  \/ \E c \in MqttSubs, g \in Groups : MqttDisarm(c, g)
  \/ \E c \in Webs, g \in Groups : WebDisarm(c, g)
  \/ \E c \in Webs, g \in Groups : WebSetEnabled(c, g)
  \/ \E c \in Webs : WebSave(c)

\* What happens between two resets.
Running ==
  \/ ZoneThread
  \/ \E a \in AEThreads : AEThread(a)
  \/ \E c \in Callers : CallStep(c)
  \/ Commands

Next == Running \/ Reset

Spec == Init /\ [][Next]_vars

\* Without resets.  The alarm event threads have the highest priority and every
\* send they block in is bounded by retries: they go on.  The threads of equal
\* priority are served in turn, so the zone thread and an open call go on too.
Fairness ==
  /\ \A a \in AEThreads : WF_vars(AEThread(a))
  /\ SF_vars(ZoneThread)
  /\ \A c \in Callers : SF_vars(CallStep(c))

RunningSpec == Init /\ [][Running]_vars /\ Fairness

----------------------------------------------------------------------------
(* Properties.                                                             *)

HeldEvents == {ae[a].ev : a \in {b \in AEThreads : ae[b].pc # "fetch"}}

(***************************************************************************)
(* Every object of alarmEvent_pool is in exactly one place: free, in the   *)
(* mailbox once, or with one alarm event thread.  So none is freed twice,  *)
(* none is lost, and since the mailbox has a slot for each, no post of the *)
(* zone thread fails.                                                      *)
(***************************************************************************)
EventsConserved ==
  /\ Events = pool \union ToSet(mbox) \union HeldEvents
  /\ pool \intersect ToSet(mbox) = {}
  /\ (pool \union ToSet(mbox)) \intersect HeldEvents = {}
  /\ IsInjective(mbox)
  /\ \A a, b \in AEThreads :
       a # b /\ ae[a].pc # "fetch" /\ ae[b].pc # "fetch" => ae[a].ev # ae[b].ev

(***************************************************************************)
(* A zone whose ALARM bit is set no longer reports (ohs_th_zone.h tests    *)
(* the bit first).  It is never set for nothing: its event is under way,   *)
(* its group is in alarm, or a disarm that will clear the bit has begun.   *)
(* A zone left with the bit set would be deaf when the group is armed next.*)
(***************************************************************************)
ZoneNotDeaf ==
  \A z \in Zones : zone[z].alarm =>
    \/ \E e \in ToSet(mbox) \union HeldEvents : event[e].zone = z
    \/ group[ZoneGroup[z]].alarm
    \/ \E c \in Callers : /\ caller[c].g = ZoneGroup[z]
                          /\ caller[c].pc \in {"disarm", "horns", "zones"}

(***************************************************************************)
(* When no thread is between a change of the group array and its save, the *)
(* RTC registers hold what a reset must restore: which groups are armed,   *)
(* armed home, and arming.  Every save writes the whole array, also what   *)
(* other threads are in the middle of changing.                            *)
(***************************************************************************)
ArmedIsSaved ==
  (zt.pc # "armedSend" /\ \A c \in Callers : caller[c].pc \notin {"armSend", "disarmSend"})
  => \A g \in Groups : /\ bkpGroup[g].armed = group[g].armed
                       /\ bkpGroup[g].home = group[g].home
                       /\ (bkpGroup[g].armDelay > 0) = (group[g].armDelay > 0)

(***************************************************************************)
(* No group is armed and arming at once: the zone thread ignores the PIR   *)
(* of a group while its armDelay runs, so such a group would be blind.     *)
(***************************************************************************)
ArmedIsNotArming == \A g \in Groups : group[g].armed => group[g].armDelay = 0

\* The inductive invariant that shows it, when all priorities are equal: at most
\* one of the zone thread and the callers is between two points where it blocks.
EqualPriorities == \A c \in Callers : Prio[c] = NORMALPRIO

OneRunner ==
  \A c \in Callers : ~CallerBlocked(c) =>
    /\ ZoneBlocked
    /\ \A d \in Callers \ {c} : CallerBlocked(d)

ArmingInv ==
  /\ OneRunner
  /\ \A c \in Callers : caller[c].pc = "armSet" => ~group[caller[c].g].armed
  /\ ArmedIsNotArming
  /\ \A g \in Groups : bkpGroup[g].armed => bkpGroup[g].armDelay = 0

RaisedBy(a, type) == ae[a].pc # "alarmSend" /\ ae'[a].pc = "alarmSend"
                     /\ event'[ae'[a].ev].type = type

(***************************************************************************)
(* A PIR event brings a group to alarm only while the group is armed: after*)
(* a known key has disarmed it, what was detected before is forgotten.     *)
(***************************************************************************)
PirAlarmOnlyWhenArmed ==
  [][\A a \in AEThreads : RaisedBy(a, "P") => group[ZoneGroup[event'[ae'[a].ev].zone]].armed]_vars

(***************************************************************************)
(* With a single group: in alarm, its relays for PIR or for tamper are on, *)
(* or an alarm event thread is about to switch them on.                    *)
(***************************************************************************)
AlarmSounds ==
  \A g \in Groups : group[g].alarm =>
    \/ PirRelays[g] \subseteq relays \/ TamperRelays[g] \subseteq relays
    \/ \E a \in AEThreads : ae[a].pc = "alarmSend" /\ GroupOf(a) = g

(***************************************************************************)
(* A relay is on only while some group is in alarm: disarming the last one *)
(* turns the relays off for good.                                          *)
(***************************************************************************)
SirenMeansAlarm == relays # {} => \E g \in Groups : group[g].alarm

(***************************************************************************)
(* A zone that reported leads to an alarm of its group unless the group is *)
(* disarmed meanwhile, which clears the bit.                               *)
(***************************************************************************)
ReportLeadsToAlarm ==
  \A z \in Zones : zone[z].alarm ~> (group[ZoneGroup[z]].alarm \/ ~zone[z].alarm)

(***************************************************************************)
(* A group that is arming becomes armed, or is disarmed.                   *)
(***************************************************************************)
ArmingEnds ==
  \A g \in Groups : group[g].armDelay > 0 ~> group[g].armDelay = 0

(***************************************************************************)
(* The arm delay a group gets is the configured one: conf.armDelay counts  *)
(* quarters of a second, and so do the passes of the zone thread.          *)
(***************************************************************************)
ArmDelayHonoured ==
  [][\A c \in Callers :
       caller[c].pc = "armSet" /\ caller'[c].pc = "armSend" /\ caller[c].type = "away"
       => group'[caller[c].g].armDelay = ArmDelay]_vars

(***************************************************************************)
(* A key does not arm its group while a zone needed for arming is not OK.  *)
(***************************************************************************)
CannotArm ==
  \A c \in KeyReaders : caller[c].pc = "arm" /\ caller[c].hop = 0
    => \A z \in Zones : ZoneGroup[z] = caller[c].g => ~ZoneRejects(z)

\* The groups as the state machine of the documentation sees them.
Mode(g) ==
  CASE group[g].armed -> IF group[g].home THEN "armedHome" ELSE "armedAway"
    [] ~group[g].armed /\ group[g].armDelay > 0 ->
         IF group[g].home THEN "armingHome" ELSE "armingAway"
    [] OTHER -> "disarmed"

\* A zone that is not read may find a tamper in val.
TamperZones == {z \in Zones : \/ z \in PirAsTamper \union RemoteZones
                              \/ "T" \in Readings[z] \/ Readings[z] = {}}
TamperGroups == {ZoneGroup[z] : z \in TamperZones}

Panel == INSTANCE AlarmPanel WITH
  mode    <- [g \in Groups |-> Mode(g)],
  pending <- [g \in Groups |-> group[g].waitAuth],
  alarm   <- [g \in Groups |-> group[g].alarm]

(***************************************************************************)
(* The threads together implement the panel: no interleaving of theirs     *)
(* takes a group through a transition the panel does not have.             *)
(***************************************************************************)
ImplementsPanel == Panel!Spec
=============================================================================
