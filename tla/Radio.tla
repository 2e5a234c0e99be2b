-------------------------------- MODULE Radio --------------------------------
(***************************************************************************)
(* The radio driver source/rfm69.c and the loop of the radio thread around *)
(* it (ohs_th_radio.h).  Senders call rfm69SendWithRetry; the reader waits *)
(* for rfm69DataReceived, calls rfm69GetData, handles what is in rfm69Data *)
(* and may send in turn (a command to register, a queued packet).          *)
(*                                                                         *)
(* rfm69Lock covers one frame, not a call: between its frame and its       *)
(* acknowledgement a call holds nothing, and the mode of the chip,         *)
(* rfm69Data and both semaphores are shared.                               *)
(***************************************************************************)
EXTENDS Naturals, FiniteSets, Sequences

CONSTANTS Senders,     \* threads that send: trigger, service, http, alarm
          Reader,      \* the radio thread
          Nodes,
          Nobody,      \* no lock holder, no frame, no sender
          Retries,     \* attempts of rfm69SendWithRetry
          MaxFrames,   \* bound: data frames the nodes send
          MaxCalls,    \* bound: calls of the senders and answers of the reader
          LateAcks,    \* an acknowledgement may come when nobody waits for it
          Overlap,     \* a call may start while another is in progress
          Polite       \* no wait times out while another thread has the lock

(* What the head of a frame tells: its sender, whether it is for us, an    *)
(* acknowledgement, a request for one; data numbers the data frames.       *)
Frames == [from : Nodes, us : BOOLEAN, ack : BOOLEAN, req : BOOLEAN, data : 0 .. MaxFrames]

ASSUME RadioAssumption ==
  /\ Reader \notin Senders /\ Nobody \notin Senders \union Nodes \union {Reader} \union Frames
  /\ Retries \in Nat \ {0} /\ MaxFrames \in Nat /\ MaxCalls \in Nat
  /\ {LateAcks, Overlap, Polite} \subseteq BOOLEAN

Threads == Senders \union {Reader}

VARIABLES mode,        \* transceiverMode, and the chip's mode
          lock,        \* the holder of rfm69Lock
          ackSem,      \* rfm69AckReceived
          dataSem,     \* rfm69DataReceived
          fifo,        \* the frame the chip has ready (PAYLOADREADY)
          rfm69Data,   \* the frame read last
          th,          \* each thread's place in its call
          owes,        \* nodes that have still to acknowledge a frame
          origin,      \* the nodes that sent the data frames so far
          handled,     \* the data frames the reader has handled
          got,         \* the node addressed has received a frame of the call
          alone,       \* no other thread has been in a call during this one
          calls        \* calls started

chip == <<mode, fifo>>
vars == <<mode, lock, ackSem, dataSem, fifo, rfm69Data, th, owes, origin, handled, got, alone, calls>>

Receiving == {"RX", "RX_WAIT_ACK"}
Sending == {"TX_ACK", "TX_WAIT_ACK"}

Idle == [pc |-> "idle", to |-> Nobody, peer |-> Nobody, kind |-> "req", tries |-> 0, res |-> "none"]

(* rfm69SetMode: setting the mode it has is nothing, and every change to a *)
(* receiving mode restarts the receiver, which empties the FIFO.           *)
SetMode(m) ==
  /\ mode' = m
  /\ fifo' = IF m # mode /\ m \in Receiving THEN Nobody ELSE fifo

Step(t, pc) == th' = [th EXCEPT ![t].pc = pc]

Ended(t, res) == th' = [th EXCEPT ![t] = [Idle EXCEPT !.res = res]]

(* The next attempt of rfm69SendWithRetry, or its end.                     *)
Again(t) ==
  IF th[t].tries > 1
  THEN th' = [th EXCEPT ![t].pc = "lock", ![t].tries = @ - 1, ![t].kind = "req",
                        ![t].peer = th[t].to]
  ELSE Ended(t, "NOK")

WaitOver(t) == owes' = IF LateAcks THEN owes ELSE owes \ {th[t].to}

Call(t, n) == [pc |-> "lock", to |-> n, peer |-> n, kind |-> "req", tries |-> Retries, res |-> "none"]

Quiet == \A t \in Threads : th[t].pc = "idle"

(* Thread t comes in: who is in a call is no longer alone.                 *)
ComesIn(t) == alone' = [u \in Threads |-> IF u = t THEN Quiet ELSE alone[u] /\ th[u].pc = "idle"]

------------------------------------------------------------------------------
(* rfm69SendFrame.                                                         *)

Send(t, n) ==
  /\ th[t].pc = "idle" /\ calls < MaxCalls /\ (Overlap \/ Quiet)
  /\ th' = [th EXCEPT ![t] = Call(t, n)]
  /\ ComesIn(t)
  /\ got' = [got EXCEPT ![t] = FALSE]
  /\ calls' = calls + 1
  /\ UNCHANGED <<mode, lock, ackSem, dataSem, fifo, rfm69Data, owes, origin, handled>>

(* The lock, and listening before talking.                                 *)
Listen(t) ==
  /\ th[t].pc = "lock" /\ lock = Nobody
  /\ lock' = t
  /\ SetMode("RX")
  /\ Step(t, "csma")
  /\ UNCHANGED <<ackSem, dataSem, rfm69Data, owes, origin, handled, got, alone, calls>>

(* Where GetData returns to, with or without a frame to handle.            *)
\* Mutant: a frame that is not for us is handled all the same.
BackAlways(t, ok) ==
  IF t \in Senders \/ th[t].to # Nobody THEN "judge" ELSE "handle"

Back(t, ok) ==
  IF t \in Senders \/ th[t].to # Nobody THEN "judge" ELSE IF ok THEN "handle" ELSE "idle"

(* The line stays busy for RF69_CSMA_LIMIT_MS: RF69_RSLT_BUSY.             *)
\* Mutant: the lock is not given back.
BusyKeeps(t) ==
  /\ th[t].pc = "csma"
  /\ IF th[t].kind = "req" THEN Again(t) ELSE Step(t, Back(t, FALSE))
  /\ UNCHANGED <<mode, lock, ackSem, dataSem, fifo, rfm69Data, owes, origin, handled, got, alone, calls>>

Busy(t) ==
  /\ th[t].pc = "csma"
  /\ lock' = Nobody
  /\ IF th[t].kind = "req" THEN Again(t)
     ELSE Step(t, Back(t, FALSE))
  /\ UNCHANGED <<mode, ackSem, dataSem, fifo, rfm69Data, owes, origin, handled, got, alone, calls>>

(* The FIFO is filled in standby, what was in it is gone, and the chip     *)
(* starts to transmit.                                                     *)
Transmit(t) ==
  /\ th[t].pc = "csma"
  /\ mode' = IF th[t].kind = "ack" THEN "TX_ACK" ELSE "TX_WAIT_ACK"
  /\ fifo' = Nobody
  /\ Step(t, "sent")
  /\ UNCHANGED <<lock, ackSem, dataSem, rfm69Data, owes, origin, handled, got, alone, calls>>

(* PACKETSENT comes only while the chip transmits; the wait for it has no  *)
(* end.  The node may get the frame, and then owes an acknowledgement.     *)
AfterSent(t) == IF mode = "TX_WAIT_ACK" THEN "RX_WAIT_ACK" ELSE "RX"
PacketSent(t) ==
  /\ th[t].pc = "sent" /\ mode \in Sending
  /\ SetMode(AfterSent(t))
  /\ lock' = Nobody
  /\ IF th[t].kind = "ack" THEN Step(t, Back(t, TRUE)) ELSE Step(t, "reset")
  /\ \/ UNCHANGED <<owes, got>>
     \/ /\ th[t].kind = "req"
        /\ owes' = owes \union {th[t].peer}
        /\ got' = [got EXCEPT ![t] = TRUE]
  /\ UNCHANGED <<ackSem, dataSem, rfm69Data, origin, handled, alone, calls>>

------------------------------------------------------------------------------
(* rfm69Send after its frame.                                              *)

(* chBSemReset also wakes the other threads that wait for an answer.       *)
Reset(t) ==
  /\ th[t].pc = "reset"
  /\ ackSem' = FALSE
  /\ th' = [u \in Threads |->
              IF u = t THEN [th[u] EXCEPT !.pc = "wait"]
              ELSE IF th[u].pc = "wait" THEN [th[u] EXCEPT !.pc = "woken"] ELSE th[u]]
  /\ UNCHANGED <<mode, lock, dataSem, fifo, rfm69Data, owes, origin, handled, got, alone, calls>>

Answered(t) ==
  /\ th[t].pc = "wait" /\ ackSem
  /\ ackSem' = FALSE
  /\ Step(t, "get")
  /\ UNCHANGED <<mode, lock, dataSem, fifo, rfm69Data, owes, origin, handled, got, alone, calls>>

(* The wait ends without an answer: the mode is set without the lock.      *)
\* Mutant: the receiver is left waiting for an acknowledgement.
TimeoutStays(t) ==
  /\ th[t].pc \in {"wait", "woken"} /\ (Polite => lock = Nobody)
  /\ Again(t)
  /\ WaitOver(t)
  /\ UNCHANGED <<mode, lock, ackSem, dataSem, fifo, rfm69Data, origin, handled, got, alone, calls>>

Timeout(t) ==
  /\ th[t].pc \in {"wait", "woken"} /\ (Polite => lock = Nobody)
  /\ SetMode("RX")
  /\ Again(t)
  /\ WaitOver(t)
  /\ UNCHANGED <<lock, ackSem, dataSem, rfm69Data, origin, handled, got, alone, calls>>

\* Mutant: any acknowledgement will do.
IsAnswerAny(t) == rfm69Data.sender # Nobody
IsAnswer(t) == rfm69Data.sender = th[t].to /\ rfm69Data.ack

(* The result of rfm69GetData is not looked at, only rfm69Data.            *)
Judge(t) ==
  /\ th[t].pc = "judge"
  /\ IF IsAnswer(t) THEN Ended(t, "OK") ELSE Again(t)
  /\ WaitOver(t)
  /\ UNCHANGED <<mode, lock, ackSem, dataSem, fifo, rfm69Data, origin, handled, got, alone, calls>>

------------------------------------------------------------------------------
(* The radio thread, and rfm69GetData.                                     *)

Wake ==
  /\ th[Reader].pc = "idle" /\ dataSem /\ (Overlap \/ Quiet)
  /\ dataSem' = FALSE
  /\ ComesIn(Reader)
  /\ th' = [th EXCEPT ![Reader] = [Idle EXCEPT !.pc = "get"]]
  /\ UNCHANGED <<mode, lock, ackSem, fifo, rfm69Data, owes, origin, handled, got, calls>>

(* PAYLOADREADY is looked at before the lock is taken.                     *)
Look(t) ==
  /\ th[t].pc = "get"
  /\ Step(t, IF fifo # Nobody THEN "getlock" ELSE Back(t, FALSE))
  /\ UNCHANGED <<mode, lock, ackSem, dataSem, fifo, rfm69Data, owes, origin, handled, got, alone, calls>>

(* Under the lock: a frame for another address, and an empty FIFO, which   *)
(* reads as zeroes, clear the header and leave the data of the last frame. *)
Cleared == [rfm69Data EXCEPT !.sender = Nobody, !.ack = FALSE, !.len = 0]
NotForUs(f) == f = Nobody \/ ~f.us

Read(t) ==
  LET f == fifo IN
  /\ th[t].pc = "getlock" /\ lock = Nobody
  /\ fifo' = Nobody
  /\ rfm69Data' = IF NotForUs(f) THEN Cleared
                  ELSE [sender |-> f.from, ack |-> f.ack, len |-> IF f.ack THEN 0 ELSE 1,
                        data |-> IF f.ack THEN rfm69Data.data ELSE f.data]
  /\ IF ~NotForUs(f) /\ f.req
     THEN /\ th' = [th EXCEPT ![t].pc = "lock", ![t].kind = "ack", ![t].peer = f.from]
          /\ mode' = "STANDBY"
     ELSE /\ Step(t, Back(t, ~NotForUs(f)))
          /\ mode' = "RX"
  /\ UNCHANGED <<lock, ackSem, dataSem, owes, origin, handled, got, alone, calls>>

(* The reader acts on what is in rfm69Data, and may send to its sender.    *)
Handle ==
  /\ th[Reader].pc = "handle"
  /\ handled' = handled \union {rfm69Data.data}
  /\ \/ Ended(Reader, "none") /\ UNCHANGED <<got, calls>>
     \/ /\ calls < MaxCalls /\ rfm69Data.sender # Nobody
        /\ th' = [th EXCEPT ![Reader] = Call(Reader, rfm69Data.sender)]
        /\ got' = [got EXCEPT ![Reader] = FALSE]
        /\ calls' = calls + 1
  /\ UNCHANGED <<mode, lock, ackSem, dataSem, fifo, rfm69Data, owes, origin, alone>>

------------------------------------------------------------------------------
(* The nodes, the air and the interrupt.                                   *)

(* rfm69IsrCb, by the mode at that moment.  Whatever comes while the chip  *)
(* does not receive or has a frame ready is lost.                          *)
Arrive(f) ==
  /\ mode \in Receiving /\ fifo = Nobody
  /\ fifo' = f
  /\ dataSem' = (dataSem \/ mode = "RX")
  /\ ackSem' = (ackSem \/ mode = "RX_WAIT_ACK")

NodeSends(n) ==
  /\ Len(origin) < MaxFrames
  /\ \E us, req \in BOOLEAN :
       /\ us \/ ~req
       /\ Arrive([from |-> n, us |-> us, ack |-> FALSE, req |-> req, data |-> Len(origin) + 1])
  /\ origin' = Append(origin, n)
  /\ UNCHANGED <<mode, lock, rfm69Data, th, owes, handled, got, alone, calls>>

NodeAcks(n) ==
  /\ n \in owes
  /\ owes' = owes \ {n}
  /\ \/ /\ LateAcks \/ mode = "RX_WAIT_ACK"
        /\ Arrive([from |-> n, us |-> TRUE, ack |-> TRUE, req |-> FALSE, data |-> 0])
     \/ UNCHANGED <<fifo, dataSem, ackSem>>
  /\ UNCHANGED <<mode, lock, rfm69Data, th, origin, handled, got, alone, calls>>

Init ==
  /\ mode = "RX" /\ lock = Nobody /\ fifo = Nobody
  /\ ackSem = FALSE /\ dataSem = FALSE
  /\ rfm69Data = [sender |-> Nobody, ack |-> FALSE, len |-> 0, data |-> 0]
  /\ th = [t \in Threads |-> Idle]
  /\ owes = {} /\ origin = <<>> /\ handled = {} /\ calls = 0
  /\ got = [t \in Threads |-> FALSE] /\ alone = [t \in Threads |-> TRUE]

ThreadStep(t) ==
  \/ Listen(t) \/ Busy(t) \/ Transmit(t) \/ PacketSent(t)
  \/ Reset(t) \/ Answered(t) \/ Timeout(t) \/ Look(t) \/ Read(t) \/ Judge(t)

Next ==
  \/ \E t \in Senders, n \in Nodes : Send(t, n)
  \/ \E t \in Threads : ThreadStep(t)
  \/ Wake \/ Handle
  \/ \E n \in Nodes : NodeSends(n) \/ NodeAcks(n)

Spec == Init /\ [][Next]_vars

(* Every thread runs when it can; the lock's queue is first come first     *)
(* served.                                                                 *)
Fairness ==
  /\ \A t \in Threads :
       /\ WF_vars(ThreadStep(t))
       /\ SF_vars(Listen(t)) /\ SF_vars(Read(t))
  /\ WF_vars(Wake) /\ WF_vars(Handle)

RunningSpec == Spec /\ Fairness

------------------------------------------------------------------------------
(* Properties.                                                             *)

TypeOK ==
  /\ mode \in Receiving \union Sending \union {"STANDBY"}
  /\ lock \in Threads \union {Nobody}
  /\ {ackSem, dataSem} \subseteq BOOLEAN /\ fifo \in Frames \union {Nobody}
  /\ rfm69Data.sender \in Nodes \union {Nobody} /\ rfm69Data.data \in 0 .. MaxFrames
  /\ \A t \in Threads : th[t].pc \in {"idle", "lock", "csma", "sent", "reset", "wait",
                                      "woken", "get", "getlock", "judge", "handle"}
  /\ owes \subseteq Nodes /\ handled \subseteq 0 .. MaxFrames

\* rfm69Send says RF69_RSLT_OK only when the node has received a frame of
\* this call: no acknowledgement of another node, and no frame or semaphore
\* left over from calls before, is taken for its answer.  A call that
\* another thread joins has no such promise (rfm69Data is shared).
OkMeansReceived == \A t \in Threads : th[t].res = "OK" /\ alone[t] => got[t]

\* The reader handles a frame as the node sent it, and once, whatever calls
\* went before, when none joins it: neither the sender nor the data is that
\* of another frame.
FrameIntact ==
  th[Reader].pc = "handle" /\ alone[Reader] =>
    /\ rfm69Data.len > 0
    /\ rfm69Data.data \in DOMAIN origin /\ origin[rfm69Data.data] = rfm69Data.sender
    /\ rfm69Data.data \notin handled

\* When no thread is in a call, the chip receives and interrupts: it does
\* not sit with an unread frame that nobody has been told of.
NotDeaf == Quiet => mode = "RX" /\ (fifo # Nobody => dataSem)

\* A thread that waits for PACKETSENT has the chip transmitting: the wait
\* has no other end, and it is done under rfm69Lock.
SendEnds == \A t \in Threads : th[t].pc = "sent" => mode \in Sending

\* Every call returns.
CallsEnd == \A t \in Threads : th[t].pc # "idle" ~> th[t].pc = "idle"
=============================================================================
