------------------------------- MODULE Messages -------------------------------
(***************************************************************************)
(* From an entry of the log to the messages about it: the logger thread    *)
(* (ohs_th_logger.h), the alert thread with its SMS, calls, e-mails and    *)
(* MQTT (ohs_th_alert.h), the SMS that MQTT commands send                  *)
(* (ohs_th_mqtt_sub.h), and the service thread's wait for all of it when   *)
(* the battery is low.  They share the modem (gprsSem) with its thread,    *)
(* and one buffer for texts, modemSmsText, with nobody's leave.            *)
(***************************************************************************)
EXTENDS Modem, FiniteSets

CONSTANTS ContactOf,   \* a sequence: the group of each contact, and if it is global
          Entries,     \* what the other threads may log
          AlertSize,   \* ALERT_FIFO_SIZE
          FirstHw,     \* the modem when the gateway starts
          Scenarios    \* bound: settings (the channels of each kind of entry,
                       \* conf.alert) with how many events of each kind may come

Channel == {"SMS", "Page", "Email", "MQTT"}

(* What entries are about: the letters decodeLog knows.                    *)
EntryKind == {"system", "node", "modem", "group", "zone", "key", "queue", "trigger", "mqtt"}

ASSUME MessagesAssumption ==
  /\ AlertSize \in Nat \ {0}
  /\ ContactOf \in Seq([group : Nat, global : BOOLEAN])
  /\ Entries \subseteq [kind : EntryKind, number : Nat]
  /\ \A s \in Scenarios : \A kind \in DOMAIN s.conf : s.conf[kind] \subseteq Channel

VARIABLES conf,
          alertMb, alertPool,
          alert,       \* the alert thread: its place, alert, and what is left to do
          emailSem,    \* TRUE: available
          mail,        \* the e-mail under way: a sequence of none or one text
          sub,         \* the SMS an MQTT command asked for: place, contacts
          svc          \* the service thread and the battery

mine == <<conf, alertMb, alertPool, alert, emailSem, mail, sub, svc>>
vars == <<mvars, mine>>

------------------------------------------------------------------------------
(* decodeLog: the text, one per entry, and the group.  For zones and keys  *)
(* the code takes bits 1 to 4 of the number where the setting was meant.   *)

NoGroup == 255   \* DUMMY_NO_VALUE

DecodedGroup(entry) ==
  CASE entry.kind = "group" -> entry.number
    [] entry.kind \in {"zone", "key"} -> (entry.number \div 2) % 16
    [] OTHER -> NoGroup

AlertText(entry) == Text(entry.kind, entry.number)

Wanted(entry, c) == ContactOf[c].global \/ ContactOf[c].group = DecodedGroup(entry)

(* The contacts that want it, in the order of the contacts.                *)
Recipients(entry) ==
  LET among[c \in 0..Len(ContactOf)] ==
        IF c = 0 THEN <<>>
        ELSE IF Wanted(entry, c) THEN Append(among[c - 1], c) ELSE among[c - 1]
  IN  among[Len(ContactOf)]

To(channel, contacts) == [i \in DOMAIN contacts |-> <<channel, contacts[i]>>]

\* Mutant: the contacts are called before the SMS are sent.
CallsFirst(entry, channels) ==
  LET to(channel) == IF channel \in channels THEN To(channel, Recipients(entry)) ELSE <<>> IN
    to("Page") \o to("SMS") \o to("Email") \o (IF "MQTT" \in channels THEN <<<<"MQTT", 0>>>> ELSE <<>>)

(* What an alert asks for, channel by channel.                             *)
Work(entry, channels) ==
  LET to(channel) == IF channel \in channels THEN To(channel, Recipients(entry)) ELSE <<>> IN
    to("SMS") \o to("Page") \o to("Email") \o (IF "MQTT" \in channels THEN <<<<"MQTT", 0>>>> ELSE <<>>)

Channels(entry) == IF entry.kind \in DOMAIN conf THEN conf[entry.kind] ELSE {}

------------------------------------------------------------------------------
(* The other threads log; the logger.                                      *)

Logs ==
  \E entry \in Entries :
    /\ Event("log")
    /\ PushToLog(entry)
    /\ UNCHANGED <<serial, gprsSem, work, smsText, wrong, mine>>

(* An entry is written to the FRAM and, if its kind has channels, passed on. *)
LoggerThread ==
  LET entry == Head(logMb) IN
    /\ logMb # <<>>
    /\ logMb' = Tail(logMb) /\ logPool' = logPool + 1
    /\ IF Channels(entry) # {} /\ alertPool > 0
       THEN /\ alertMb' = Append(alertMb, [entry |-> entry, channels |-> Channels(entry)])
            /\ alertPool' = alertPool - 1
       ELSE UNCHANGED <<alertMb, alertPool>>
    /\ UNCHANGED <<serial, gprsSem, work, smsText, wrong, events, conf, alert, emailSem, mail, sub, svc>>

------------------------------------------------------------------------------
(* The alert thread.                                                       *)

NoAlert == [pc |-> "fetch", entry |-> [kind |-> "none", number |-> 0], todo |-> <<>>]

AlertFetches ==
  LET new == Head(alertMb) IN
    /\ alert.pc = "fetch" /\ alertMb # <<>>
    /\ alertMb' = Tail(alertMb)
    /\ alert' = [pc |-> "work", entry |-> new.entry, todo |-> Work(new.entry, new.channels)]
    /\ smsText' = AlertText(new.entry)
    /\ UNCHANGED <<serial, gprsSem, work, wrong, logs, events, conf, alertPool, emailSem, mail, sub, svc>>

AlertDone ==
  /\ alert.pc = "work" /\ alert.todo = <<>>
  /\ alert' = NoAlert /\ alertPool' = alertPool + 1
  /\ UNCHANGED <<mvars, conf, alertMb, emailSem, mail, sub, svc>>

Next1(channel) == alert.pc = "work" /\ alert.todo # <<>> /\ alert.todo[1][1] = channel

Becomes(place) == alert' = [alert EXCEPT !.pc = place]

Over == alert' = [alert EXCEPT !.pc = "work", !.todo = Tail(@)]

AlertRest == UNCHANGED <<work, logs, conf, alertMb, alertPool, emailSem, mail, sub, svc>>

(* chBSemWait, then the SMS or the call.                                   *)
AlertTakesModem ==
  /\ gprsSem = "free" /\ gprsSem' = "alert"
  /\ \/ Next1("SMS") /\ Say("CMGS", 0) /\ Becomes("sms") /\ UNCHANGED smsText
     \/ /\ Next1("Page")
        /\ smsText' = Text("dial", alert.todo[1][2])
        /\ Say("ATD", 0) /\ Becomes("call")
  /\ UNCHANGED wrong /\ AlertRest

AlertReleases == gprsSem' = "free" /\ Over /\ UNCHANGED <<serial, events, smsText, wrong>>

AlertUsesModem ==
  /\ Answered /\ gprsSem = "alert"
  /\ \/ /\ alert.pc = "sms" /\ answer = 1
        /\ Say("text", 0) /\ Meant("sms", AlertText(alert.entry)) /\ Becomes("text")
        /\ UNCHANGED <<gprsSem, smsText>>
     \/ alert.pc = "sms" /\ answer # 1 /\ AlertReleases
     \/ alert.pc = "text" /\ AlertReleases
     \/ /\ alert.pc = "call" /\ answer = 1
        /\ Say("ATH", 0) /\ Becomes("hangUp") /\ UNCHANGED <<gprsSem, smsText, wrong>>
     \/ alert.pc = "call" /\ answer # 1 /\ AlertReleases
     \/ alert.pc = "hangUp" /\ AlertReleases
  /\ AlertRest

(* One e-mail at a time; while one is under way the others are not sent.   *)
(* It may be refused at once, and then nothing calls back.                 *)
AlertMails ==
  /\ Next1("Email")
  /\ IF emailSem
     THEN /\ emailSem' = FALSE
          /\ \/ mail' = <<AlertText(alert.entry)>> /\ NoEvent
             \/ Event("mail") /\ UNCHANGED mail
     ELSE NoEvent /\ UNCHANGED <<emailSem, mail>>
  /\ Over
  /\ UNCHANGED <<serial, gprsSem, smsText, wrong, work, logs, conf, alertMb, alertPool, sub, svc>>

(* my_smtp_result_fn: the text was read from the buffer until now.         *)
MailEnds ==
  /\ mail # <<>> /\ mail' = <<>>
  /\ Meant("mail", mail[1])
  /\ emailSem' = TRUE
  /\ UNCHANGED <<serial, gprsSem, work, smsText, logs, events, conf, alertMb, alertPool, alert, sub, svc>>

AlertPublishes ==
  /\ Next1("MQTT")
  /\ \/ Meant("mqtt", AlertText(alert.entry))
     \/ UNCHANGED wrong
  /\ Over
  /\ UNCHANGED <<serial, gprsSem, smsText, events>> /\ AlertRest

AlertThread == AlertFetches \/ AlertDone \/ AlertTakesModem \/ AlertUsesModem \/ AlertMails \/ AlertPublishes

------------------------------------------------------------------------------
(* handleMqttSubSms: an SMS to each contact asked for, with the payload as *)
(* text, unless the modem stays busy for a second.                         *)

SubRest == UNCHANGED <<smsText, wrong, work, logs, conf, alertMb, alertPool, alert, emailSem, mail, svc>>

SubAsked ==
  \E n \in DOMAIN ContactOf :
    /\ sub.pc = "idle" /\ Event("sub")
    /\ sub' = [pc |-> "next", left |-> n]
    /\ UNCHANGED <<serial, gprsSem>> /\ SubRest

SubSends ==
  \/ /\ sub.pc = "next" /\ sub.left > 0 /\ gprsSem = "free"
     /\ gprsSem' = "sub" /\ Say("CMGS", 0) /\ sub' = [sub EXCEPT !.pc = "sms"]
     /\ SubRest
  \/ /\ sub.pc = "next" /\ (sub.left = 0 \/ gprsSem # "free")
     /\ sub' = IF sub.left < 2 THEN [pc |-> "idle", left |-> 0] ELSE [sub EXCEPT !.left = @ - 1]
     /\ UNCHANGED <<serial, gprsSem, events>> /\ SubRest
  \/ /\ sub.pc = "sms" /\ Answered /\ answer = 1
     /\ Say("text", 0) /\ sub' = [sub EXCEPT !.pc = "text"]
     /\ UNCHANGED gprsSem /\ SubRest
  \/ /\ \/ sub.pc = "sms" /\ answer # 1
        \/ sub.pc = "text"
     /\ Answered
     /\ gprsSem' = "free" /\ sub' = [pc |-> "next", left |-> sub.left - 1]
     /\ UNCHANGED <<serial, events>> /\ SubRest

------------------------------------------------------------------------------
(* The service thread when the battery is low.                             *)

BatteryEntry == [kind |-> "system", number |-> 0]

SvcRest == UNCHANGED <<gprsSem, work, smsText, wrong, conf, alertMb, alertPool, alert, emailSem, mail, sub>>

(* "SBL" and "SCP", and the wait begins.                                   *)
BatteryLow ==
  /\ svc = "idle" /\ Event("battery")
  /\ svc' = "waiting"
  /\ LET kept == IF logPool < 2 THEN logPool ELSE 2 IN
       /\ logMb' = logMb \o SubSeq(<<BatteryEntry, ModemEntry>>, 1, kept)
       /\ logPool' = logPool - kept
  /\ UNCHANGED serial /\ SvcRest

\* Mutant: the e-mail's semaphore is taken for free when it is not.
WaitsForMails == alertMb = <<>> /\ emailSem = FALSE

NothingWaits == alertMb = <<>> /\ emailSem

(* The alerts are fetched and no e-mail is under way: the settings are      *)
(* saved and the kernel is locked.                                         *)
BatteryLocks ==
  /\ svc = "waiting" /\ NothingWaits
  /\ svc' = "locked"
  /\ UNCHANGED <<serial, logs, events>> /\ SvcRest

(* The power is back ("SBH"); what the modem sent meanwhile is gone.       *)
PowerReturns ==
  /\ svc = "locked" /\ svc' = "idle"
  /\ out' = <<>> /\ fate' = Miss(Notices(out), fate)
  /\ PushToLog(BatteryEntry)
  /\ UNCHANGED <<hw, ring, message, sim, dialog, answer, events>> /\ SvcRest

------------------------------------------------------------------------------
Init ==
  /\ hw \in FirstHw /\ out = <<>> /\ ring = <<>> /\ message = 0
  /\ sim = {} /\ fate = [s \in Slots |-> "none"] /\ obeyed = [s \in Slots |-> 0]
  /\ gprsSem = "free" /\ dialog = Silent /\ answer = 0
  /\ modem = [pc |-> "sleep", counter |-> 0, status |-> "NotInitialized", lastStatus |-> "none",
              reg |-> "searching", setSMS |-> 0, slot |-> 0]
  /\ smsText = Text("line", 0) /\ wrong = {}
  /\ logMb = <<>> /\ logPool = LogSize
  /\ \E s \in Scenarios : conf = s.conf /\ events = s.events
  /\ alertMb = <<>> /\ alertPool = AlertSize /\ alert = NoAlert
  /\ emailSem = TRUE /\ mail = <<>>
  /\ sub = [pc |-> "idle", left |-> 0] /\ svc = "idle"

(* The modem's part, by itself.                                            *)
ModemSide == (Hardware \/ Dialog \/ ModemThread) /\ UNCHANGED mine

Running ==
  \/ ModemSide \/ Logs \/ LoggerThread \/ AlertThread \/ MailEnds \/ SubAsked \/ SubSends
  \/ BatteryLow \/ BatteryLocks

Next == (svc # "locked" /\ Running) \/ PowerReturns

Spec == Init /\ [][Next]_vars

(* Threads run, lines come, waits and e-mails end; whoever waits for the    *)
(* modem gets it when it is released.                                      *)
Fair(A) == svc # "locked" /\ A

RunningSpec ==
  /\ Spec
  /\ WF_vars(Fair(ModemThread /\ UNCHANGED mine)) /\ WF_vars(Fair(Dialog /\ UNCHANGED mine))
  /\ WF_vars(Fair(LineComes /\ UNCHANGED mine))
  /\ WF_vars(Fair(LoggerThread)) /\ WF_vars(Fair(MailEnds)) /\ WF_vars(Fair(SubSends))
  /\ WF_vars(Fair(BatteryLocks))
  /\ WF_vars(Fair(AlertFetches \/ AlertDone \/ AlertUsesModem \/ AlertMails \/ AlertPublishes))
  /\ SF_vars(Fair(AlertTakesModem))

------------------------------------------------------------------------------
(* Who may find another's text in the buffer: an SMS of an alert only what  *)
(* the modem's thread has read into it while the alert waited for the       *)
(* modem; a publication that or the number of a call, an e-mail also the    *)
(* text of a later alert; and a command by SMS the text of an alert decoded *)
(* while the SMS was read, or a line that came between its lines, or, if    *)
(* the modem has room for several, another SMS, whose answer came late.  No *)
(* SMS and no command has the number of a call.                             *)
OneSlot == \A s, q \in Slots : s = q

TextsMix ==
  \A w \in wrong :
    /\ w[1] = "sms" => w[2] \in {"line", "sms"}
    /\ w[1] = "mqtt" => w[2] \in {"line", "sms", "dial"}
    /\ w[1] = "command" => \/ w[2] \in EntryKind \union {"line"}
                           \/ w[2] = "sms" /\ ~OneSlot

(* An SMS that was announced has its announcement still to come, or was     *)
(* missed by a command that emptied or misread the ring or by a reset, or   *)
(* was taken; an announcement still to come is of an SMS that is there and  *)
(* was not taken; and when the SMS come one at a time none is obeyed twice, *)
(* or without having been taken.  (With several the late answer to a        *)
(* reading that was given up may be taken for that of the next.)            *)
SmsAccounted ==
  \A s \in Slots :
    /\ fate[s] = "noticed" <=> s \in Notices(out) \union Notices(ring)
    /\ fate[s] = "noticed" => s \in sim
    /\ OneSlot => obeyed[s] <= 1 /\ (obeyed[s] = 1 => fate[s] = "taken")

(* The modem recovers: once the faults are over it is on and answers, or    *)
(* its start has failed, or the battery has stopped everything.            *)
Recovers ==
  \/ <>[](hw = "on" /\ modem.status = "OK")
  \/ <>[](modem.status = "Failed")
  \/ []<>(svc = "locked")

(* The wait for the messages ends, unless an e-mail that was refused at     *)
(* once has kept the semaphore.                                            *)
BatteryWaitEnds ==
  (svc = "waiting") ~> (svc = "locked" \/ (~emailSem /\ mail = <<>>))
===============================================================================
