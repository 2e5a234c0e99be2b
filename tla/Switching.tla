------------------------------- MODULE Switching -------------------------------
(***************************************************************************)
(* The switching of outputs: the trigger thread, the timers and the        *)
(* off-times that the service thread looks after once a second, and the    *)
(* sensor command of the MQTT subscriber, over the node table of Nodes.    *)
(*                                                                         *)
(* A second is one tick.  Calls of sendData() and scripts end within the   *)
(* second in which they begin (Prompt): the clock waits for them.          *)
(***************************************************************************)
EXTENDS Nodes

CONSTANTS Confs,   \* bound: the settings and configurations to look at
          Day,     \* SECONDS_PER_DAY, in ticks
          SubValues \* what an MQTT command may set an output to

(* The settings, as the pages store them.                                  *)
Triggers ==
  [from : Ids, condition : {"=", "<>", "<", ">", "always"}, value : Nat, hysteresis : Nat,
   pass : {"no", "once", "yes"}, passValue : BOOLEAN, passOff : {"no", "yes", "timer"}, offTime : Nat,
   to : Outputs, on : Nat, off : Nat, script : BOOLEAN, timersNumber : BOOLEAN]
Timers ==
  [calendar : BOOLEAN, days : SUBSET (1..7), start : 0..(Day - 1), period : Nat, run : Nat,
   to : Outputs, on : Nat, off : Nat, script : BOOLEAN]

ASSUME SwitchingAssumption ==
  /\ Day \in Nat \ {0}
  /\ \A c \in Confs : c.trigger \in Seq(Triggers) /\ c.timer \in Seq(Timers)

VARIABLES trg, trig,  \* the flags of conf.trigger[], the trigger thread
          tmr, svc,   \* the flags and times of conf.timer[], the service thread
          sub         \* the subscriber

switchVars == <<trg, trig, tmr, svc, sub>>
vars == <<nodeVars, switchVars>>
quiet == <<conf, events, called, registration_mb, sensor_mb, radio, rs485, sensor, web, webNode>>

Trigger == conf.trigger
Timer == conf.timer

(* A send to the output x by `who' ends: the output takes the value when   *)
(* the message got through.  The sender will write into slot s, which may  *)
(* have gone to another node while it waited: that one shows a value it    *)
(* was never sent.                                                         *)
Switched(x, s, v, o, who) ==
  LET outcome == IF ~o.acked THEN By("failed") ELSE IF node[s].id # x THEN By("moved") ELSE who
  IN /\ dev' = IF o.got THEN [dev EXCEPT ![x].out = v] ELSE dev
     /\ last' = [y \in Outputs |-> IF y = x THEN outcome
                                   ELSE IF y = node[s].id THEN By("moved") ELSE last[y]]

------------------------------------------------------------------------------
(* The trigger thread.                                                     *)

(* The condition, with the hysteresis on the side that the trigger is on.  *)
Found(c, triggered, v) ==
  CASE c.condition = "=" -> v = c.value
    [] c.condition = "<>" -> v # c.value
    [] c.condition = "<" -> IF triggered THEN v < c.value + c.hysteresis
                                         ELSE v + c.hysteresis < c.value
    [] c.condition = ">" -> IF triggered THEN v + c.hysteresis > c.value
                                         ELSE v > c.value + c.hysteresis
    [] OTHER -> TRUE

OnValue(c, e) == IF c.passValue THEN e.value ELSE c.on
OffValue(c, e) == IF c.passValue THEN e.value ELSE c.off

Trying(e, i) == [pc |-> "match", event |-> e, i |-> i]
Sending(pc, i, s) == [pc |-> pc, event |-> trig.event, i |-> i, slot |-> s]

(* The thread goes on to the next trigger, or gives the event back.        *)
AfterTrigger(i) == IF i = Len(Trigger) THEN Idle ELSE Trying(trig.event, i + 1)
Done(i) ==
  /\ trig' = AfterTrigger(i)
  /\ pool' = IF i = Len(Trigger) THEN [pool EXCEPT !.trigger = @ + 1] ELSE pool

TriggerFetch ==
  /\ trig = Idle /\ trigger_mb # <<>>
  /\ trigger_mb' = Tail(trigger_mb)
  /\ IF Trigger = <<>> THEN pool' = [pool EXCEPT !.trigger = @ + 1] /\ UNCHANGED trig
     ELSE trig' = Trying(Head(trigger_mb), 1) /\ UNCHANGED pool
  /\ UNCHANGED <<quiet, now, node, dev, last, trg, tmr, svc, sub>>

(* Pass the event on: the off-time counts from the event, the output is    *)
(* written unless this was done once and for all.                          *)
Pass(i, t) ==
  LET c == Trigger[i]
      s == getNodeIndex(c.to)
      passes == c.pass # "no" /\ (t.result \/ ~c.script) /\ s # Dummy
  IN /\ trg' = [trg EXCEPT ![i] = IF passes /\ c.passOff = "timer"
                                  THEN [t EXCEPT !.nextOff = now + c.offTime] ELSE t]
     /\ IF passes /\ ~t.passed
        THEN trig' = Sending("on", i, s) /\ UNCHANGED pool
        ELSE Done(i)

TriggerOther ==
  /\ trig.pc = "match" /\ Trigger[trig.i].from # trig.event.id
  /\ Done(trig.i)
  /\ UNCHANGED <<quiet, now, node, dev, trigger_mb, last, trg, tmr, svc, sub>>

TriggerOn ==
  /\ trig.pc = "match"
  /\ LET i == trig.i
         c == Trigger[i]
         t == [trg[i] EXCEPT !.triggered = TRUE]
     IN /\ c.from = trig.event.id /\ Found(c, trg[i].triggered, trig.event.value)
        /\ IF c.script
           THEN /\ trg' = [trg EXCEPT ![i] = [t EXCEPT !.result = FALSE]]
                /\ trig' = [trig EXCEPT !.pc = "script"]
                /\ UNCHANGED pool
           ELSE Pass(i, t)
  /\ UNCHANGED <<quiet, now, node, dev, trigger_mb, last, tmr, svc, sub>>

(* The script says yes, or it says no, fails, is missing or takes longer   *)
(* than 300 ms.                                                            *)
TriggerScript ==
  /\ trig.pc = "script"
  /\ \E yes \in BOOLEAN : Pass(trig.i, [trg[trig.i] EXCEPT !.result = yes])
  /\ UNCHANGED <<quiet, now, node, dev, trigger_mb, last, tmr, svc, sub>>

(* sendData() is tested for "not 0", which a failure is as well.  The      *)
(* service thread may have taken the flag away in the meantime.            *)
TriggerOnSent ==
  /\ trig.pc = "on"
  /\ LET i == trig.i
         c == Trigger[i]
         v == OnValue(c, trig.event)
     IN /\ \E o \in Outcomes : Switched(c.to, trig.slot, v, o, <<IF trg[i].triggered THEN "trigger" ELSE "raced", i>>)
        /\ node' = Written(trig.slot, v)
        /\ trg' = [trg EXCEPT ![i].passed = @ \/ c.pass = "once"]
        /\ Done(i)
  /\ UNCHANGED <<quiet, now, trigger_mb, tmr, svc, sub>>

(* The condition does not hold: off at once, when an input with the name   *)
(* of the event's source is known, or forget.                              *)
TriggerOff ==
  /\ trig.pc = "match"
  /\ LET i == trig.i
         c == Trigger[i]
         s == getNodeIndex(conf.namesake[trig.event.id])
         sends == c.passOff = "yes" /\ trg[i].triggered /\ s # Dummy
     IN /\ c.from = trig.event.id /\ ~Found(c, trg[i].triggered, trig.event.value)
        /\ trg' = IF c.passOff = "no" /\ trg[i].triggered
                  THEN [trg EXCEPT ![i].triggered = FALSE, ![i].passed = FALSE] ELSE trg
        /\ IF sends THEN trig' = Sending("off", i, s) /\ UNCHANGED pool
                    ELSE Done(i)
  /\ UNCHANGED <<quiet, now, node, dev, trigger_mb, last, tmr, svc, sub>>

TriggerOffSent ==
  /\ trig.pc = "off"
  /\ LET i == trig.i
         c == Trigger[i]
         v == OffValue(c, trig.event)
     IN /\ \E o \in Outcomes : Switched(c.to, trig.slot, v, o, By("off"))
        /\ node' = Written(trig.slot, v)
        /\ trg' = [trg EXCEPT ![i].triggered = FALSE, ![i].passed = FALSE]
        /\ Done(i)
  /\ UNCHANGED <<quiet, now, trigger_mb, tmr, svc, sub>>

------------------------------------------------------------------------------
(* setTimer(): the next start of a timer and the end of that run.          *)

Weekday(t) == ((t \div Day) % 7) + 1
Midnight == now - (now % Day)

(* The loop over the days: `k' days from today, until one is chosen.  The  *)
(* eighth day is today's weekday again.                                    *)
DaysAheadWeek(c) ==
  LET scan[k \in 0..7] == IF k = 7 THEN 8
                          ELSE IF Weekday(now + k * Day) \in c.days /\ ~(k = 0 /\ (now % Day) > c.start) THEN k
                          ELSE scan[k + 1]
  IN scan[0]
DaysAhead(c) ==
  LET passed(k) == k = 0 /\ (now % Day) > c.start
      scan[k \in 0..8] == IF k = 8 THEN 8
                          ELSE IF Weekday(now + k * Day) \in c.days /\ ~passed(k) THEN k
                          ELSE scan[k + 1]
  IN scan[0]

CalendarOn(c) ==
  IF DaysAhead(c) = 8 THEN 0 ELSE Midnight + c.start + DaysAhead(c) * Day

PeriodOn(c, t, restart) ==
  LET first == Midnight + c.start
  IN IF c.period = 0 THEN t.nextOn
     ELSE IF ~restart THEN t.nextOn + c.period
     ELSE IF now > first THEN first + ((now - first) \div c.period + 1) * c.period
     ELSE first

setTimer(c, t, restart) ==
  LET on == IF c.calendar THEN CalendarOn(c) ELSE PeriodOn(c, t, restart)
  IN [t EXCEPT !.nextOn = on, !.nextOff = on + c.run, !.triggered = FALSE]

------------------------------------------------------------------------------
(* The service thread wakes once a second: zombies, timers, off-times.     *)

Tick ==
  /\ now < conf.maxTime
  /\ svc = Idle /\ trig = Idle /\ sub = Idle /\ radio = Idle /\ rs485 = Idle /\ web = Idle
  /\ sensor.pc = "idle"
  /\ now' = now + 1
  /\ svc' = [pc |-> "housekeeping"]
  /\ UNCHANGED <<quiet, node, dev, pool, trigger_mb, last, trg, trig, tmr, sub>>

At1(pc, count) == IF count = 0 THEN Idle ELSE [pc |-> pc, i |-> 1]
ToTriggers == At1("off", Len(Trigger))
ToTimers == IF Timer = <<>> THEN ToTriggers ELSE At1("start", Len(Timer))

ServiceZombies ==
  /\ svc.pc = "housekeeping"
  /\ node' = WithoutZombies
  /\ svc' = ToTimers
  /\ UNCHANGED <<quiet, now, dev, pool, trigger_mb, last, trg, trig, tmr, sub>>

(* A timer's message, if it has an output, its script agreed and the       *)
(* output is known.                                                        *)
TimerSends(c, t) == (t.result \/ ~c.script) /\ getNodeIndex(c.to) # Dummy

TimerSend(pc, i) ==
  svc' = [pc |-> pc, i |-> i, slot |-> getNodeIndex(Timer[i].to)]

TimerStart ==
  /\ svc.pc = "start"
  /\ LET i == svc.i
         c == Timer[i]
         due == tmr[i].nextOn > 0 /\ now >= tmr[i].nextOn /\ ~tmr[i].triggered
         t == [tmr[i] EXCEPT !.triggered = TRUE]
     IN IF ~due THEN svc' = [svc EXCEPT !.pc = "end"] /\ UNCHANGED tmr
        ELSE IF c.script
        THEN svc' = [svc EXCEPT !.pc = "script"] /\ tmr' = [tmr EXCEPT ![i] = [t EXCEPT !.result = FALSE]]
        ELSE /\ tmr' = [tmr EXCEPT ![i] = t]
             /\ IF TimerSends(c, t) THEN TimerSend("on", i) ELSE svc' = [svc EXCEPT !.pc = "end"]
  /\ UNCHANGED <<quiet, now, node, dev, pool, trigger_mb, last, trg, trig, sub>>

TimerScript ==
  /\ svc.pc = "script"
  /\ \E yes \in BOOLEAN :
       LET t == [tmr[svc.i] EXCEPT !.result = yes]
       IN /\ tmr' = [tmr EXCEPT ![svc.i] = t]
          /\ IF TimerSends(Timer[svc.i], t) THEN TimerSend("on", svc.i)
                                            ELSE svc' = [svc EXCEPT !.pc = "end"]
  /\ UNCHANGED <<quiet, now, node, dev, pool, trigger_mb, last, trg, trig, sub>>

TimerOnSent ==
  /\ svc.pc = "on"
  /\ LET c == Timer[svc.i]
     IN \E o \in Outcomes :
          /\ Switched(c.to, svc.slot, c.on, o, <<IF tmr[svc.i].triggered THEN "timer" ELSE "raced", svc.i>>)
          /\ node' = IF o.acked THEN Written(svc.slot, c.on) ELSE node
  /\ svc' = [pc |-> "end", i |-> svc.i]
  /\ UNCHANGED <<quiet, now, pool, trigger_mb, trg, trig, tmr, sub>>

AfterTimer(i) == IF i = Len(Timer) THEN ToTriggers ELSE [pc |-> "start", i |-> i + 1]

(* The end of a run; the next one is set even if this one never began.     *)
TimerEnd ==
  /\ svc.pc = "end"
  /\ LET i == svc.i
         over == tmr[i].nextOn > 0 /\ now >= tmr[i].nextOff
     IN IF over /\ tmr[i].triggered /\ TimerSends(Timer[i], tmr[i])
        THEN TimerSend("timerOff", i) /\ UNCHANGED tmr
        ELSE /\ tmr' = IF over THEN [tmr EXCEPT ![i] = setTimer(Timer[i], @, FALSE)] ELSE tmr
             /\ svc' = AfterTimer(i)
  /\ UNCHANGED <<quiet, now, node, dev, pool, trigger_mb, last, trg, trig, sub>>

TimerOffSent ==
  /\ svc.pc = "timerOff"
  /\ LET i == svc.i
         c == Timer[i]
     IN /\ \E o \in Outcomes :
             /\ Switched(c.to, svc.slot, c.off, o, By("off"))
             /\ node' = IF o.acked THEN Written(svc.slot, c.off) ELSE node
        /\ tmr' = [tmr EXCEPT ![i] = setTimer(c, @, FALSE)]
        /\ svc' = AfterTimer(i)
  /\ UNCHANGED <<quiet, now, pool, trigger_mb, trg, trig, sub>>

(* The off-time of a trigger.  Its output is looked up with the number of  *)
(* the timer at the same index, and found only if the two are the same.    *)
OffSlotOfTimer(i) == Dummy
OffSlot(i) == IF Trigger[i].timersNumber THEN getNodeIndex(Trigger[i].to) ELSE Dummy

AfterOff(i) == IF i = Len(Trigger) THEN Idle ELSE [pc |-> "off", i |-> i + 1]

TriggerOffTime ==
  /\ svc.pc = "off"
  /\ LET i == svc.i
         c == Trigger[i]
         over == c.passOff = "timer" /\ now >= trg[i].nextOff /\ trg[i].triggered
         s == OffSlot(i)
     IN IF over /\ (trg[i].result \/ ~c.script) /\ s # Dummy
        THEN svc' = [pc |-> "triggerOff", i |-> i, slot |-> s] /\ UNCHANGED trg
        ELSE /\ trg' = IF over THEN [trg EXCEPT ![i].triggered = FALSE] ELSE trg
             /\ svc' = AfterOff(i)
  /\ UNCHANGED <<quiet, now, node, dev, pool, trigger_mb, last, trig, tmr, sub>>

TriggerOffTimeSent ==
  /\ svc.pc = "triggerOff"
  /\ LET i == svc.i
         c == Trigger[i]
     IN /\ \E o \in Outcomes :
             /\ Switched(c.to, svc.slot, c.off, o, By("off"))
             /\ node' = IF o.acked THEN Written(svc.slot, c.off) ELSE node
        /\ trg' = [trg EXCEPT ![i].triggered = FALSE]
        /\ svc' = AfterOff(i)
  /\ UNCHANGED <<quiet, now, pool, trigger_mb, trig, tmr, sub>>

------------------------------------------------------------------------------
(* The timer page's Apply, and a command from MQTT to an output.           *)

PageTimer(i) ==
  /\ conf.page /\ Event
  /\ tmr' = [tmr EXCEPT ![i] = setTimer(Timer[i], @, TRUE)]
  /\ last' = [last EXCEPT ![Timer[i].to] = By("page")]
  /\ UNCHANGED <<conf, now, node, dev, called, tables, radio, rs485, sensor, web, webNode, trg, trig, svc, sub>>

SubSensor(x, v) ==
  /\ sub = Idle /\ Event
  /\ getNodeIndex(x) # Dummy /\ node[getNodeIndex(x)].setting
  /\ sub' = [id |-> x, slot |-> getNodeIndex(x), value |-> v]
  /\ UNCHANGED <<conf, now, node, dev, called, tables, radio, rs485, sensor, web, webNode, last, trg, trig, tmr, svc>>

SubSensorSent ==
  /\ sub # Idle
  /\ \E o \in Outcomes :
       /\ Switched(sub.id, sub.slot, sub.value, o, By("mqtt"))
       /\ node' = IF o.acked THEN Written(sub.slot, sub.value) ELSE node
  /\ sub' = Idle
  /\ UNCHANGED <<quiet, now, pool, trigger_mb, trg, trig, tmr, svc>>

------------------------------------------------------------------------------
NoTimes == [nextOn |-> 0, nextOff |-> 0, triggered |-> FALSE, result |-> FALSE]

Init ==
  /\ conf \in Confs
  /\ NodesInit
  /\ trg = [i \in DOMAIN Trigger |->
              [triggered |-> FALSE, passed |-> FALSE, result |-> FALSE, nextOff |-> 0]]
  /\ tmr = [i \in DOMAIN Timer |-> setTimer(Timer[i], NoTimes, TRUE)]
  /\ trig = Idle /\ svc = Idle /\ sub = Idle

TriggerThread ==
  TriggerFetch \/ TriggerOther \/ TriggerOn \/ TriggerScript \/ TriggerOnSent \/ TriggerOff \/ TriggerOffSent
ServiceThread ==
  \/ ServiceZombies \/ TimerStart \/ TimerScript \/ TimerOnSent \/ TimerEnd \/ TimerOffSent
  \/ TriggerOffTime \/ TriggerOffTimeSent
Subscriber ==
  \/ \E x \in Outputs \intersect Alive, v \in SubValues : SubSensor(x, v)
  \/ SubSensorSent

Next ==
  \/ NodesNext /\ UNCHANGED switchVars
  \/ TriggerThread \/ ServiceThread \/ Subscriber \/ Tick
  \/ \E i \in DOMAIN Timer : PageTimer(i)

Spec == Init /\ [][Next]_vars

------------------------------------------------------------------------------
Known(x) == getNodeIndex(x) # Dummy

(* The table tells the truth about an output: when the last thing sent to  *)
(* it was acknowledged and it has not registered since, its slot shows the *)
(* value it has, whoever sent it.  The exception is a slot that changed     *)
(* hands while a message was under way: the value is then written into the *)
(* slot of another node, or of none, and neither of the two is right.      *)
Agree ==
  \A x \in Outputs \intersect Alive :
    Known(x) /\ last[x][1] \notin {"none", "failed", "moved", "page"} => node[getNodeIndex(x)].value = dev[x].out

OnIsMarked(by, scripts) ==
  \A x \in Outputs \intersect Alive :
    /\ \A i \in DOMAIN Trigger :
         /\ Known(x) /\ last[x] \in by \X {i}
         /\ Trigger[i].passOff = "timer" /\ Trigger[i].script \in scripts
         => trg[i].triggered /\ trg[i].nextOff <= now + Trigger[i].offTime
    /\ \A i \in DOMAIN Timer :
         Known(x) /\ last[x] = <<"timer", i>> => tmr[i].triggered /\ tmr[i].nextOff <= now + Timer[i].run

(* No output is left on: one that a timer or a trigger with an off-time    *)
(* has switched on stays marked for switching off, until it is.  An event  *)
(* that meets the switching off, the page's Apply while an output is being *)
(* switched on, and a trigger with a script are left aside here.           *)
OnIsArmed == OnIsMarked({"trigger"}, {FALSE})

(* The same with the first: the off-time of a trigger ends whatever it     *)
(* switched on.                                                            *)
OffTimeEndsIt == OnIsMarked({"trigger", "raced"}, {FALSE})

(* The same with the last: the off-time of a trigger with a script ends    *)
(* what its script agreed to, whatever it says to a later event.           *)
ScriptOffTimeEndsIt == OnIsMarked({"trigger"}, BOOLEAN)

(* Starts on the days and at the time of a calendar timer, from now on for *)
(* the next week and a day.                                                *)
Starts(c) == {t \in now..(now + 8 * Day) : (t % Day) = c.start /\ Weekday(t) \in c.days}

(* Whenever a timer is set, it is set to its next start: none that is due  *)
(* is left out, across midnight, the end of the week and a start that is   *)
(* over today; and a period timer goes on in its period, or, set by the    *)
(* page, in periods from today's start, and never back in time.            *)
NextStart(i) ==
  LET c == Timer[i]
  IN IF c.calendar
     THEN tmr'[i].nextOn = IF Starts(c) = {} THEN 0 ELSE Min(Starts(c))
     ELSE /\ tmr'[i].nextOn >= now
          /\ \/ tmr'[i].nextOn = tmr[i].nextOn + c.period
             \/ (tmr'[i].nextOn - (Midnight + c.start)) % c.period = 0

NextStartIsSet ==
  [][\A i \in DOMAIN Timer : tmr'[i].nextOn # tmr[i].nextOn => NextStart(i)]_vars
===============================================================================
