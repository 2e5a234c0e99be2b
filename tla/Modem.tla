--------------------------------- MODULE Modem ---------------------------------
(***************************************************************************)
(* The cellular modem: the AT commands and the receive ring of gprs.c, the *)
(* modem thread (ohs_th_modem.h), which starts, checks and resets the      *)
(* modem and obeys the commands that come by SMS, and, external, the modem *)
(* itself.  The unit on the serial line is a line: `out' are those the     *)
(* modem has still to send, `ring' those received and not yet read.        *)
(***************************************************************************)
EXTENDS Commands, Integers

CONSTANTS Slots,       \* where the modem keeps an SMS, numbers
          CommandIn,   \* for each slot, the command of the SMS that comes there
          Period, StartAt, DummyAt, CheckAt,  \* the turns: 256, 15, 25, 30
          LogSize      \* LOGGER_FIFO_SIZE

ASSUME ModemAssumption ==
  /\ Slots \subseteq Nat \ {0}
  /\ Period \in Nat \ {0} /\ {StartAt, DummyAt, CheckAt} \subseteq 0..(Period - 1)
  /\ LogSize \in Nat \ {0}

VARIABLES hw,          \* the modem: "off", "on", or "hung", which looks on
          out, ring,
          message,      \* gprsRingBuffer.message, the lines counted in the ring
          sim, fate,   \* the slots in use, and what became of the notice
          obeyed,      \* how often the SMS that is there was obeyed
          gprsSem,     \* its owner, or "free"
          dialog,      \* the command in progress and the stage of its answer
          answer,      \* of the last one: 1, -1, or 0 while it is under way
          modem,       \* the thread's place and variables
          smsText,     \* modemSmsText
          wrong,       \* what was done with a text that was not meant: who, with what
          logMb, logPool,
          events       \* bound: of each kind, how many are still to come

serial == <<hw, out, ring, message, sim, fate, dialog, answer>>
work == <<modem, obeyed>>
logs == <<logMb, logPool>>
mvars == <<serial, gprsSem, work, smsText, wrong, logs, events>>

Text(kind, number) == [kind |-> kind, number |-> number]
Line(kind, number) == [kind |-> kind, name |-> "", number |-> number]
Echo(name) == [kind |-> "echo", name |-> name, number |-> 0]
Blank == Line("blank", 0)

Event(kind) == events[kind] > 0 /\ events' = [events EXCEPT ![kind] = @ - 1]
NoEvent == UNCHANGED events

(* pushToLog: an entry that finds the pool empty is lost.                  *)
PushToLog(entry) ==
  IF logPool = 0 THEN UNCHANGED logs
  ELSE logMb' = Append(logMb, entry) /\ logPool' = logPool - 1

ModemEntry == [kind |-> "modem", number |-> 0]

------------------------------------------------------------------------------
(* The modem, external: what it answers, when the lines come, the SMS it   *)
(* receives and its failures.                                              *)

Reply(name, slot) ==
  <<Echo(name)>> \o
  CASE name \in {"CGMM", "CPSI", "CREG", "CSQ"} -> <<Line("data", 0), Line("ok", 0)>>
    [] name = "CMGS" -> <<>>
    [] name = "CMGR" /\ slot \in sim -> <<Line("header", 0), Line("body", slot), Line("ok", 0)>>
    [] OTHER -> <<Line("ok", 0)>>

TextReply == <<Line("cmgs", 0), Line("ok", 0)>>

(* It answers, or refuses, or is off or deaf.                              *)
Hears(name, slot) ==
  \/ /\ hw = "on"
     /\ out' = out \o (IF name = "text" THEN TextReply ELSE Reply(name, slot))
     /\ sim' = IF name = "CMGD" THEN sim \ {slot} ELSE sim
     /\ NoEvent
  \/ /\ hw = "on" /\ Event("fault")
     /\ out' = out \o (IF name = "text" THEN <<Line("error", 0)>> ELSE <<Echo(name), Line("error", 0)>>)
     /\ UNCHANGED sim
  \/ hw # "on" /\ NoEvent /\ UNCHANGED <<out, sim>>

Notices(lines) == {lines[i].number : i \in {j \in DOMAIN lines : lines[j].kind = "notice"}}

Miss(slots, f) == [s \in Slots |-> IF s \in slots /\ f[s] = "noticed" THEN "missed" ELSE f[s]]

(* rxchar_cb, a line of it.  While an answer is awaited the next line comes *)
(* when it is read (DialogReads): what else has come by then matters only   *)
(* when the ring is emptied, and so can come after the answer.              *)
LineComes ==
  /\ dialog.name = "none" /\ out # <<>>
  /\ out' = Tail(out) /\ ring' = Append(ring, Head(out))
  /\ message' = message + 1
  /\ UNCHANGED <<hw, sim, fate, dialog, answer, gprsSem, work, smsText, wrong, logs, events>>

(* An SMS is stored and announced: a blank line and "+CMTI", which may come *)
(* between the lines of an answer but not inside the text of an SMS.       *)
SmsArrives ==
  \E slot \in Slots \ sim, i \in 0..Len(out) :
    /\ hw = "on" /\ Event("sms")
    /\ i > 0 => out[i].kind # "header"
    /\ sim' = sim \union {slot} /\ fate' = [fate EXCEPT ![slot] = "noticed"]
    /\ obeyed' = [obeyed EXCEPT ![slot] = 0]
    /\ out' = SubSeq(out, 1, i) \o <<Blank, Line("notice", slot)>> \o SubSeq(out, i + 1, Len(out))
    /\ UNCHANGED <<hw, ring, message, dialog, answer, gprsSem, modem, smsText, wrong, logs>>

ModemFails ==
  /\ hw = "on" /\ Event("fault")
  /\ \/ hw' = "hung" /\ UNCHANGED <<out, fate>>
     \/ hw' = "off" /\ out' = <<>> /\ fate' = Miss(Notices(out), fate)
  /\ UNCHANGED <<ring, message, sim, dialog, answer, gprsSem, work, smsText, wrong, logs>>

Hardware == LineComes \/ SmsArrives \/ ModemFails

------------------------------------------------------------------------------
(* gprs.c: one command at a time, its answer read line by line.            *)

(* Each is the lines it waits for, one after the other.                    *)
gprsSendCmd == <<"echo", "ok">>
gprsSendCmdWR == <<"echo", "answer", "ok">>
gprsSendCmdWRI == <<"echo", "data", "ok">>
gprsSendSMSBegin == <<"echo">>
gprsSendSMSEnd == <<"cmgs", "ok">>
gprsGetSMS == <<"echo", "header", "body", "ok">>
gprsDeleteSMS == <<"echo", "ok">>

Stages(name) ==
  CASE name \in {"CGMM", "CPSI"} -> gprsSendCmdWR
    [] name \in {"CREG", "CSQ"} -> gprsSendCmdWRI
    [] name = "CMGS" -> gprsSendSMSBegin
    [] name = "text" -> gprsSendSMSEnd
    [] name = "CMGR" -> gprsGetSMS
    [] name = "CMGD" -> gprsDeleteSMS
    [] OTHER -> gprsSendCmd

(* What passes at a stage.  gprsSendCmdWRI compares another buffer than it *)
(* has read, gprsGetSMS the number: any line at all does there.            *)
Passes(stage, line, name) ==
  CASE stage = "echo" -> line = Echo(name)
    [] stage = "answer" -> line.kind # "error"
    [] stage \in {"data", "body"} -> TRUE
    [] OTHER -> line.kind = stage

Silent == [name |-> "none", at |-> 0]

\* Mutant: the notices are dropped as if none had waited.
FlushSilently(f) == ring' = <<>> /\ message' = 0 /\ fate' = f

(* gprsFlushRX: the notices that wait in the ring go too.                  *)
gprsFlushRX(f) == ring' = <<>> /\ message' = 0 /\ fate' = Miss(Notices(ring), f)

(* Every command, up to the write.                                         *)
SayAs(name, slot, f) ==
  /\ gprsFlushRX(f)
  /\ Hears(name, slot)
  /\ dialog' = [name |-> name, at |-> 1] /\ answer' = 0
  /\ UNCHANGED hw

Say(name, slot) == SayAs(name, slot, fate)

Stage == Stages(dialog.name)[dialog.at]

Ends(result) == dialog' = Silent /\ answer' = result

(* gprsWaitAndReadMsg and the check that follows it.  The ring's count is   *)
(* not protected: a line that comes while the reader decrements it may go   *)
(* uncounted.                                                              *)
DialogReads ==
  LET came == message > 0
      line == IF ring # <<>> THEN Head(ring) ELSE Head(out) IN
    /\ dialog.name # "none" /\ (came \/ out # <<>>)
    /\ \/ ring # <<>> /\ came /\ ring' = Tail(ring) /\ message' = message - 1 /\ NoEvent /\ UNCHANGED out
       \/ /\ ring # <<>> /\ ~came
          /\ ring' = Append(Tail(ring), Head(out)) /\ out' = Tail(out) /\ NoEvent /\ UNCHANGED message
       \/ ring = <<>> /\ out' = Tail(out) /\ NoEvent /\ UNCHANGED <<ring, message>>
       \/ /\ ring = <<>> /\ Len(out) > 1 /\ Event("race")
          /\ ring' = <<out[2]>> /\ out' = Tail(Tail(out)) /\ UNCHANGED message
    /\ fate' = Miss(Notices(<<line>>), fate)
    /\ IF line.kind = "blank" THEN UNCHANGED <<dialog, answer>>
       ELSE IF ~Passes(Stage, line, dialog.name) THEN Ends(-1)
       ELSE IF dialog.at = Len(Stages(dialog.name)) THEN Ends(1)
       ELSE dialog' = [dialog EXCEPT !.at = @ + 1] /\ UNCHANGED answer
    /\ smsText' = IF line.kind = "blank" \/ Stage # "body" THEN smsText
                  ELSE IF line.kind = "body" THEN Text("sms", line.number) ELSE Text("line", 0)
    /\ UNCHANGED <<hw, sim, gprsSem, work, wrong, logs>>

(* The wait ends, with a line on the way only now and then.                *)
DialogTimesOut ==
  /\ dialog.name # "none"
  /\ IF message = 0 /\ out = <<>> THEN NoEvent ELSE Event("fault")
  /\ Ends(-1)
  /\ UNCHANGED <<hw, out, ring, message, sim, fate, gprsSem, work, smsText, wrong, logs>>

Dialog == DialogReads \/ DialogTimesOut

Answered == dialog.name = "none" /\ answer # 0

------------------------------------------------------------------------------
(* The modem thread.                                                       *)

At(place) == modem.pc = place

Goes(place) == modem' = [modem EXCEPT !.pc = place] /\ UNCHANGED obeyed

Quiet == UNCHANGED <<gprsSem, smsText, wrong, logs>>

(* One second is over.                                                     *)
NextTurn ==
  modem' = [modem EXCEPT !.pc = "sleep", !.counter = (@ + 1) % Period] /\ UNCHANGED obeyed

ModemSkips ==
  /\ At("sleep") /\ gprsSem # "free"
  /\ NextTurn
  /\ UNCHANGED <<serial, events>> /\ Quiet

StartsNow == modem.counter = StartAt /\ modem.status \notin {"OK", "Failed"}

Started(status) ==
  modem' = [modem EXCEPT !.pc = "checks", !.status = status] /\ UNCHANGED obeyed

(* The turn begins: the modem is started when it is its time.              *)
ModemWakes ==
  /\ At("sleep") /\ gprsSem = "free"
  /\ gprsSem' = "modem"
  /\ \/ ~StartsNow /\ Goes("checks") /\ NoEvent /\ UNCHANGED <<hw, logs>>
     \/ StartsNow /\ hw # "off" /\ Started("OK") /\ NoEvent /\ UNCHANGED <<hw, logs>>
     \/ StartsNow /\ hw = "off" /\ hw' = "on" /\ Started("OK") /\ PushToLog(ModemEntry) /\ NoEvent
     \/ /\ StartsNow /\ hw = "off" /\ Started("Failed") /\ PushToLog(ModemEntry)
        /\ Event("fault") /\ UNCHANGED hw
  /\ UNCHANGED <<out, ring, message, sim, fate, dialog, answer, smsText, wrong>>

ModemChecks ==
  LET dummy == modem.counter = DummyAt /\ modem.lastStatus = "none"
      check == modem.counter = CheckAt IN
    /\ At("checks")
    /\ IF modem.status = "OK" /\ (dummy \/ check)
       THEN Say("AT", 0) /\ Goes(IF check THEN "alive" ELSE "dummy")
       ELSE Goes("read") /\ UNCHANGED <<serial, events>>
    /\ Quiet

ModemDummy ==
  /\ At("dummy") /\ Answered
  /\ gprsFlushRX(fate) /\ Goes("read")
  /\ UNCHANGED <<hw, out, sim, dialog, answer, events>> /\ Quiet

(* The registration is logged when it has changed.                         *)
Registration(m) ==
  /\ modem' = [m EXCEPT !.lastStatus = m.reg] /\ UNCHANGED obeyed
  /\ IF m.lastStatus # m.reg THEN PushToLog(ModemEntry) ELSE UNCHANGED logs

\* Mutant: no reset is asked for.
NotAliveKept == [modem EXCEPT !.pc = "read", !.reg = "unknown", !.setSMS = 0]

NotAlive == [modem EXCEPT !.pc = "stop", !.reg = "unknown", !.setSMS = 0, !.status = "ForceReset"]

(* Alive, or to be reset: any answer but the right lines is none.          *)
ModemAlive ==
  /\ At("alive") /\ Answered
  /\ IF answer = 1
     THEN /\ IF modem.setSMS # 1 THEN Say("CMGF", 0) /\ Goes("format")
             ELSE Say("CREG", 0) /\ Goes("registered")
          /\ UNCHANGED logs
     ELSE /\ Registration(NotAlive)
          /\ UNCHANGED <<serial, events>>
  /\ UNCHANGED <<gprsSem, smsText, wrong>>

(* The further commands of the check, each after the answer of another.    *)
Follows(place, name, next, m) ==
  /\ At(place) /\ Answered
  /\ Say(name, 0)
  /\ modem' = [m EXCEPT !.pc = next] /\ UNCHANGED obeyed
  /\ Quiet

ModemSetsUp ==
  \/ answer = 1 /\ Follows("format", "CNMI", "store", [modem EXCEPT !.setSMS = answer])
  \/ answer # 1 /\ Follows("format", "CGMM", "model", [modem EXCEPT !.setSMS = answer])
  \/ Follows("store", "CGMM", "model", [modem EXCEPT !.setSMS = answer])
  \/ Follows("model", "CVHU", "voice", modem)
  \/ Follows("voice", "CREG", "registered", modem)

ModemAsks ==
  \/ Follows("registered", "CSQ", "signal",
             IF answer = 1 THEN [modem EXCEPT !.reg = "registered"] ELSE modem)
  \/ Follows("signal", "CPSI", "system", modem)

ModemChecked ==
  /\ At("system") /\ Answered
  /\ Registration([modem EXCEPT !.pc = "read"])
  /\ UNCHANGED <<serial, gprsSem, smsText, wrong, events>>

(* The power key is held; whether the modem went off is not looked at.     *)
ModemStops ==
  /\ At("stop")
  /\ \/ hw' = "off" /\ out' = <<>> /\ fate' = Miss(Notices(out), fate) /\ NoEvent
     \/ hw # "off" /\ Event("fault") /\ UNCHANGED <<hw, out, fate>>
  /\ modem' = [modem EXCEPT !.pc = "read", !.status = "NotInitialized", !.lastStatus = "none"]
  /\ UNCHANGED obeyed
  /\ PushToLog(ModemEntry)
  /\ UNCHANGED <<ring, message, sim, dialog, answer, gprsSem, smsText, wrong>>

NothingToRead == IF message = 0 THEN TRUE ELSE Head(ring).kind = "blank"

(* The lines that came by themselves, until none is counted or one is      *)
(* blank: then the turn is over.                                           *)
ModemReads ==
  /\ At("read")
  /\ \/ /\ NothingToRead
        /\ ring' = IF message = 0 THEN ring ELSE Tail(ring)
        /\ message' = IF message = 0 THEN 0 ELSE message - 1
        /\ NextTurn /\ gprsSem' = "free"
        /\ NoEvent /\ UNCHANGED <<hw, out, sim, fate, dialog, answer, smsText>>
     \/ /\ message > 0 /\ Head(ring).kind \notin {"blank", "notice"}
        /\ ring' = Tail(ring) /\ message' = message - 1
        /\ smsText' = Text("line", 0)
        /\ NoEvent /\ UNCHANGED <<hw, out, sim, fate, dialog, answer, work, gprsSem>>
     \/ /\ message > 0 /\ Head(ring).kind = "notice"
        /\ smsText' = Text("line", 0)
        /\ modem' = [modem EXCEPT !.pc = "get", !.slot = Head(ring).number]
        /\ SayAs("CMGR", Head(ring).number, [fate EXCEPT ![Head(ring).number] = "taken"])
        /\ UNCHANGED <<gprsSem, obeyed>>
  /\ UNCHANGED <<wrong, logs>>

(* What a text is as a command: anything but an SMS begins with no name.   *)
Tokens(text) == IF text.kind = "sms" THEN CommandIn[text.number] ELSE <<text.kind>>

Meant(who, text) ==
  wrong' = IF smsText = text THEN wrong ELSE wrong \union {<<who, smsText.kind>>}

(* cmdProcess works on what is in modemSmsText by now.                      *)
ModemObeys ==
  LET obeys == answer = 1 /\ modem.setSMS # 0
      slot == smsText.number IN
    /\ At("get") /\ Answered
    /\ IF obeys THEN Meant("command", Text("sms", modem.slot)) ELSE UNCHANGED wrong
    /\ IF obeys /\ cmdProcess(Tokens(smsText)) = "OK"
       THEN Say("CMGS", 0) /\ modem' = [modem EXCEPT !.pc = "reply"]
       ELSE Say("CMGD", modem.slot) /\ modem' = [modem EXCEPT !.pc = "delete"]
    /\ obeyed' = IF obeys /\ smsText.kind = "sms" THEN [obeyed EXCEPT ![slot] = @ + 1] ELSE obeyed
    /\ UNCHANGED <<gprsSem, smsText, logs>>

ModemReplies ==
  \/ /\ At("reply") /\ Answered
     /\ IF answer = 1 THEN Say("text", 0) /\ Goes("replied")
        ELSE Say("CMGD", modem.slot) /\ Goes("delete")
     /\ Quiet
  \/ /\ At("replied") /\ Answered
     /\ Say("CMGD", modem.slot) /\ Goes("delete")
     /\ Quiet
  \/ /\ At("delete") /\ Answered
     /\ modem' = [modem EXCEPT !.pc = "read", !.slot = 0]
     /\ UNCHANGED obeyed /\ UNCHANGED <<serial, events>> /\ Quiet

ModemThread ==
  \/ ModemSkips \/ ModemWakes \/ ModemChecks \/ ModemDummy \/ ModemAlive \/ ModemSetsUp
  \/ ModemAsks \/ ModemChecked \/ ModemStops \/ ModemReads \/ ModemObeys \/ ModemReplies
===============================================================================
