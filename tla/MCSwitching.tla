------------------------------ MODULE MCSwitching ------------------------------
(* One or two nodes, with what is to be looked at in each configuration:    *)
(* off-times, off by value, a script, a calendar timer with every set of    *)
(* days, a period timer, the node page, a key, a slot that goes from one    *)
(* output to another.                                                       *)
EXTENDS Switching

CONSTANTS s1, o1, o2, k1, a, w

MCTrigger == [from |-> s1, condition |-> ">", value |-> 1, hysteresis |-> 0, passValue |-> FALSE,
              pass |-> "yes", passOff |-> "no", offTime |-> 1, on |-> 2, off |-> 0, to |-> o1,
              script |-> FALSE, timersNumber |-> TRUE]
MCTimer == [calendar |-> TRUE, days |-> {1}, start |-> 0, period |-> 0, run |-> 1, to |-> o1,
            on |-> 2, off |-> 0, script |-> FALSE]
MCConf == [addr |-> s1 :> a @@ o1 :> w, namesake |-> s1 :> "no node", trigger |-> <<>>, timer |-> <<>>, zoneAddress |-> {},
           page |-> FALSE, maxTime |-> 3, maxEvents |-> 4]

MCOffTime == [MCConf EXCEPT !.trigger = <<[MCTrigger EXCEPT !.passOff = "timer"]>>]
MCByValue ==
  [MCConf EXCEPT !.addr = s1 :> w @@ o1 :> w, !.namesake = s1 :> o1, !.maxTime = 1,
     !.trigger = <<[MCTrigger EXCEPT !.from = o1],
                   [MCTrigger EXCEPT !.hysteresis = 1, !.pass = "once", !.passOff = "yes"]>>]
MCScript ==
  [MCConf EXCEPT !.trigger = <<[MCTrigger EXCEPT !.script = TRUE, !.passValue = TRUE, !.condition = "<",
                                            !.passOff = "timer"]>>, !.maxTime = 2]
MCCalendar ==
  {[MCConf EXCEPT !.addr = o1 :> w, !.maxTime = 8 * Day, !.maxEvents = 1,
      !.timer = <<[MCTimer EXCEPT !.days = d, !.start = t]>>] : d \in SUBSET (1..7), t \in 0..1}
MCPeriod ==
  {[MCConf EXCEPT !.addr = o1 :> w, !.page = TRUE, !.maxTime = 6, !.maxEvents = 3,
      !.timer = <<[MCTimer EXCEPT !.calendar = FALSE, !.period = 3, !.start = 1, !.script = b]>>] : b \in BOOLEAN}
MCPage == [MCConf EXCEPT !.addr = s1 :> a, !.page = TRUE]
MCKey == [MCConf EXCEPT !.addr = k1 :> a @@ s1 :> a @@ o1 :> a, !.page = TRUE, !.maxTime = 2, !.maxEvents = 3]
MCWiredKey ==
  {[MCConf EXCEPT !.addr = k1 :> w @@ s1 :> w, !.maxTime = 2, !.zoneAddress = z] : z \in {{}, {w}}}
MCMoved ==
  [MCConf EXCEPT !.addr = o1 :> a @@ o2 :> w, !.maxEvents = 3,
     !.timer = <<[MCTimer EXCEPT !.days = 1..7, !.start = 1, !.to = o2]>>]

MCConfs == {MCOffTime, MCByValue, MCScript, MCPage, MCKey, MCMoved} \union MCWiredKey \union MCCalendar \union MCPeriod
===============================================================================
