----------------------------- MODULE RadioProofs -----------------------------
(***************************************************************************)
(* Proofs about the radio driver, for any threads, nodes, retries and any  *)
(* numbers of frames and calls, when no acknowledgement comes after the    *)
(* wait for it has ended.                                                  *)
(***************************************************************************)
EXTENDS Radio, TLAPS

Pcs == {"idle", "lock", "csma", "sent", "reset", "wait", "woken", "get", "getlock", "judge", "handle"}
ThreadState == [pc : Pcs, to : Nodes \union {Nobody}, peer : Nodes \union {Nobody},
                kind : {"req", "ack"}, tries : Nat, res : {"none", "OK", "NOK"}]

(* What the variables are, and what a thread's place says of its call.     *)
PlaceOK(t) ==
  /\ th[t].pc \in {"reset", "wait", "woken", "judge"} => th[t].to # Nobody
  /\ th[t].pc \in {"lock", "csma", "sent"} /\ th[t].kind = "req"
       => th[t].to # Nobody /\ th[t].peer = th[t].to
  /\ t \in Senders /\ th[t].pc # "idle" => th[t].to # Nobody
  /\ th[t].pc = "handle" => t = Reader /\ th[t].to = Nobody
  /\ th[t].pc = "idle" => th[t].to = Nobody

Shape ==
  /\ th \in [Threads -> ThreadState]
  /\ fifo \in Frames \union {Nobody}
  /\ rfm69Data \in [sender : Nodes \union {Nobody}, ack : BOOLEAN, len : Nat, data : Nat]
  /\ alone \in [Threads -> BOOLEAN] /\ got \in [Threads -> BOOLEAN]
  /\ owes \subseteq Nodes /\ origin \in Seq(Nodes)
  /\ \A t \in Threads : PlaceOK(t)

(* A thread that sends a frame has the lock, and the chip sends what the   *)
(* thread asked for, or does not send.                                     *)
Locked ==
  \A t \in Threads :
    /\ th[t].pc \in {"csma", "sent"} => lock = t
    /\ th[t].pc = "sent" /\ mode \in Sending
         => mode = IF th[t].kind = "ack" THEN "TX_ACK" ELSE "TX_WAIT_ACK"

(* A call that nobody joins is alone.                                      *)
Alone == \A t, u \in Threads : alone[t] /\ th[t].pc # "idle" /\ u # t => th[u].pc = "idle"

(* A node owes an acknowledgement to a call that it got a frame of.        *)
Acking(t) == th[t].pc \in {"lock", "csma", "sent"} /\ th[t].kind = "ack"
Waiting(t) == th[t].pc \in {"reset", "wait", "woken", "get", "getlock"}
OwesGot ==
  \A n \in owes : \E t \in Threads :
    th[t].to = n /\ got[t] /\ (Waiting(t) \/ Acking(t) \/ th[t].pc = "judge")

(* The chip waits for an acknowledgement while a call does, and has one    *)
(* only then.                                                              *)
Awaits(t) ==
  /\ th[t].to # Nobody
  /\ \/ th[t].pc \in {"reset", "woken"}
     \/ (th[t].pc = "wait" /\ (ackSem => fifo # Nobody))
     \/ (th[t].pc \in {"get", "getlock"} /\ fifo # Nobody)
AckAwaited ==
  /\ mode = "RX_WAIT_ACK" => \E t \in Threads : Awaits(t)
  /\ fifo # Nobody /\ fifo.ack => mode = "RX_WAIT_ACK"

(* Of a call alone: the frame it will read is there, and if that or what   *)
(* it has read is its answer, the node got a frame.                        *)
Answer(t) ==
  alone[t] /\ th[t].to # Nobody =>
    /\ Waiting(t) /\ fifo # Nobody /\ fifo.ack /\ fifo.from = th[t].to => got[t]
    /\ th[t].pc \in {"get", "getlock"} \/ (th[t].pc = "wait" /\ ackSem) => fifo # Nobody
    /\ (th[t].pc = "judge" \/ Acking(t)) /\ IsAnswer(t) => got[t]
Answers == \A t \in Threads : Answer(t)

OkGot == \A t \in Threads : th[t].res = "OK" => th[t].pc = "idle" /\ (alone[t] => got[t])

(* Data frames are read in the order they were sent in, and each once.     *)
Numbered ==
  /\ rfm69Data.data \in 0 .. Len(origin) /\ handled \subseteq 0 .. Len(origin)
  /\ fifo # Nobody /\ ~fifo.ack =>
       /\ fifo.data \in 1 .. Len(origin) /\ origin[fifo.data] = fifo.from
       /\ fifo.data > rfm69Data.data /\ \A k \in handled : fifo.data > k

(* The reader alone, from its read to its handling of a frame.             *)
Whole ==
  alone[Reader] /\ th[Reader].to = Nobody /\ (th[Reader].pc = "handle" \/ Acking(Reader)) =>
    /\ rfm69Data.len > 0
    /\ rfm69Data.data \in 1 .. Len(origin) /\ origin[rfm69Data.data] = rfm69Data.sender
    /\ rfm69Data.data \notin handled

IInv ==
  /\ Shape /\ Locked /\ Alone /\ OwesGot /\ AckAwaited /\ Answers /\ OkGot /\ Numbered /\ Whole

(* Assumed throughout: a type for the constants, and no late answers.      *)
Timely == RadioAssumption /\ ~LateAcks

------------------------------------------------------------------------------
(* What becomes of a thread's record.                                      *)

Same(u) == th'[u] = th[u]

LEMMA StepFields ==
  ASSUME NEW t \in Threads, NEW p \in Pcs, th \in [Threads -> ThreadState], Step(t, p)
  PROVE  /\ th' \in [Threads -> ThreadState]
         /\ th'[t].pc = p /\ th'[t].to = th[t].to /\ th'[t].peer = th[t].peer
         /\ th'[t].kind = th[t].kind /\ th'[t].res = th[t].res
         /\ \A u \in Threads \ {t} : Same(u)
BY DEF Step, Same, ThreadState

LEMMA EndedFields ==
  ASSUME NEW t \in Threads, NEW r \in {"none", "OK", "NOK"}, th \in [Threads -> ThreadState], Ended(t, r)
  PROVE  /\ th' \in [Threads -> ThreadState]
         /\ th'[t].pc = "idle" /\ th'[t].to = Nobody /\ th'[t].kind = "req" /\ th'[t].res = r
         /\ \A u \in Threads \ {t} : Same(u)
BY DEF Ended, Idle, Same, ThreadState, Pcs

LEMMA AgainFields ==
  ASSUME NEW t \in Threads, th \in [Threads -> ThreadState], Again(t)
  PROVE  /\ th' \in [Threads -> ThreadState]
         /\ \/ /\ th'[t].pc = "lock" /\ th'[t].to = th[t].to /\ th'[t].peer = th[t].to
               /\ th'[t].kind = "req" /\ th'[t].res = th[t].res
            \/ /\ th'[t].pc = "idle" /\ th'[t].to = Nobody /\ th'[t].kind = "req"
               /\ th'[t].res = "NOK"
         /\ \A u \in Threads \ {t} : Same(u)
<1>1. CASE th[t].tries > 1
  <2> DEFINE r == [pc |-> "lock", to |-> th[t].to, peer |-> th[t].to, kind |-> "req",
                   tries |-> th[t].tries - 1, res |-> th[t].res]
  <2>1. th[t] \in ThreadState
    OBVIOUS
  <2>2. th' = [th EXCEPT ![t] = r]
    <3>1. th[t] = [pc |-> th[t].pc, to |-> th[t].to, peer |-> th[t].peer, kind |-> th[t].kind,
                   tries |-> th[t].tries, res |-> th[t].res]
      BY <2>1 DEF ThreadState
    <3> QED
      BY <1>1, <3>1 DEF Again
  <2>3. r \in ThreadState
    BY <1>1, <2>1 DEF ThreadState, Pcs
  <2> QED
    BY <2>2, <2>3 DEF Same
<1>2. CASE ~(th[t].tries > 1)
  BY <1>2, EndedFields DEF Again
<1> QED
  BY <1>1, <1>2

LEMMA CallFields ==
  ASSUME NEW t \in Threads, NEW n \in Nodes, RadioAssumption, th \in [Threads -> ThreadState],
         th' = [th EXCEPT ![t] = Call(t, n)]
  PROVE  /\ th' \in [Threads -> ThreadState]
         /\ th'[t].pc = "lock" /\ th'[t].to = n /\ th'[t].peer = n
         /\ th'[t].kind = "req" /\ th'[t].res = "none"
         /\ \A u \in Threads \ {t} : Same(u)
BY DEF Call, Same, ThreadState, Pcs, RadioAssumption

------------------------------------------------------------------------------
(* rfm69SendFrame.                                                         *)

LEMMA ListenKeeps ==
  ASSUME NEW CONSTANT t \in Threads, Timely, IInv, Listen(t)
  PROVE  IInv'
<1> USE DEF Timely, IInv, Same
<1>1. /\ th' \in [Threads -> ThreadState]
      /\ th'[t].pc = "csma" /\ th'[t].to = th[t].to /\ th'[t].peer = th[t].peer
      /\ th'[t].kind = th[t].kind /\ th'[t].res = th[t].res
      /\ \A u \in Threads \ {t} : Same(u)
  BY StepFields DEF Listen, Shape, Pcs
<1>2. Shape'
  BY <1>1 DEF Listen, SetMode, Shape, PlaceOK
<1>3. Locked'
  BY <1>1 DEF Listen, SetMode, Locked, RadioAssumption, Sending, Threads
<1>4. Alone'
  BY <1>1 DEF Listen, Alone
<1>5. OwesGot'
  BY <1>1 DEF Listen, OwesGot, Waiting, Acking
<1>6. AckAwaited'
  BY <1>1 DEF Listen, SetMode, AckAwaited, Receiving
<1>7. Answers'
  BY <1>1, <1>4 DEF Listen, SetMode, Answers, Answer, Waiting, Acking, IsAnswer, Alone
<1>8. OkGot'
  BY <1>1 DEF Listen, OkGot
<1>9. Numbered'
  BY <1>1 DEF Listen, SetMode, Numbered
<1>10. Whole'
  BY <1>1 DEF Listen, Whole, Acking, Threads
<1> QED
  BY <1>2, <1>3, <1>4, <1>5, <1>6, <1>7, <1>8, <1>9, <1>10

LEMMA BusyKeepsInv ==
  ASSUME NEW CONSTANT t \in Threads, Timely, IInv, Busy(t)
  PROVE  IInv'
<1> USE DEF Timely, IInv, Same
<1>0. /\ th[t].pc = "csma" /\ lock' = Nobody
      /\ UNCHANGED <<mode, ackSem, dataSem, fifo, rfm69Data, owes, origin, handled, got, alone>>
  BY DEF Busy
<1>1. /\ th' \in [Threads -> ThreadState]
      /\ \A u \in Threads \ {t} : Same(u)
      /\ \/ /\ th[t].kind = "ack" /\ th[t].to # Nobody /\ th'[t].pc = "judge"
            /\ th'[t].to = th[t].to /\ th'[t].kind = "ack" /\ th'[t].res = th[t].res
         \/ /\ th[t].kind = "ack" /\ th[t].to = Nobody /\ th'[t].pc = "idle"
            /\ th'[t].to = Nobody /\ th'[t].kind = "ack" /\ th'[t].res = th[t].res
         \/ /\ th[t].kind = "req" /\ th'[t].kind = "req" /\ th'[t].pc = "lock"
            /\ th'[t].to = th[t].to /\ th'[t].peer = th[t].to /\ th'[t].res = th[t].res
         \/ /\ th[t].kind = "req" /\ th'[t].kind = "req" /\ th'[t].pc = "idle"
            /\ th'[t].to = Nobody /\ th'[t].res = "NOK"
  <2>1. CASE th[t].kind = "req"
    BY <2>1, AgainFields DEF Busy, Shape
  <2>2. CASE th[t].kind # "req"
    <3>1. th[t].kind = "ack" /\ Step(t, Back(t, FALSE))
      BY <2>2 DEF Busy, Shape, ThreadState
    <3>2. CASE th[t].to # Nobody
      <4>1. Step(t, "judge") /\ "judge" \in Pcs
        BY <3>1, <3>2 DEF Back, Pcs
      <4> QED
        BY <3>1, <3>2, <4>1, StepFields DEF Shape
    <3>3. CASE th[t].to = Nobody
      <4>1. Step(t, "idle") /\ "idle" \in Pcs
        BY <1>0, <3>1, <3>3 DEF Back, Pcs, Shape, PlaceOK
      <4> QED
        BY <3>1, <3>3, <4>1, StepFields DEF Shape
    <3> QED
      BY <3>2, <3>3
  <2> QED
    BY <2>1, <2>2
<1> HIDE DEF Timely
<1>2. Shape'
  <2>1. PlaceOK(t)'
    <3>1. PlaceOK(t)
      BY DEF Shape
    <3> QED
      BY <1>0, <1>1, <3>1 DEF PlaceOK
  <2>2. ASSUME NEW u \in Threads \ {t} PROVE PlaceOK(u)'
    BY <1>1, <2>2 DEF Shape, PlaceOK
  <2> QED
    BY <1>0, <1>1, <2>1, <2>2 DEF Shape
<1>3. Locked'
  BY <1>0, <1>1 DEF Locked
<1>4. Alone'
  BY <1>0, <1>1 DEF Alone
<1>5. OwesGot'
  <2> SUFFICES ASSUME NEW n \in owes
               PROVE  \E u \in Threads : th'[u].to = n /\ got[u]
                        /\ (Waiting(u) \/ Acking(u) \/ th[u].pc = "judge")'
    BY <1>0 DEF OwesGot
  <2>1. PICK u \in Threads : th[u].to = n /\ got[u]
                              /\ (Waiting(u) \/ Acking(u) \/ th[u].pc = "judge")
    BY DEF OwesGot
  <2>2. n # Nobody
    BY DEF Timely, RadioAssumption, Shape
  <2>3. th'[u].to = n /\ (Waiting(u) \/ Acking(u) \/ th[u].pc = "judge")'
    BY <1>0, <1>1, <2>1, <2>2 DEF Waiting, Acking
  <2> QED
    BY <2>1, <2>3
<1>6. AckAwaited'
  BY <1>0, <1>1 DEF AckAwaited, Awaits
<1>7. Answers'
  <2> SUFFICES ASSUME NEW u \in Threads PROVE Answer(u)'
    BY DEF Answers
  <2>1. CASE u = t
    BY <1>0, <1>1, <2>1 DEF Answers, Answer, Waiting, Acking, IsAnswer
  <2>2. CASE u # t
    BY <1>0, <1>1, <2>2 DEF Answers, Answer, Waiting, Acking, IsAnswer
  <2> QED
    BY <2>1, <2>2
<1>8. OkGot'
  BY <1>0, <1>1 DEF OkGot
<1>9. Numbered'
  BY <1>0, <1>1 DEF Numbered
<1>10. Whole'
  BY <1>0, <1>1 DEF Whole, Acking, Threads
<1> QED
  BY <1>2, <1>3, <1>4, <1>5, <1>6, <1>7, <1>8, <1>9, <1>10

LEMMA TransmitKeeps ==
  ASSUME NEW CONSTANT t \in Threads, Timely, IInv, Transmit(t)
  PROVE  IInv'
<1> USE DEF Timely, IInv, Same
<1>1. /\ th' \in [Threads -> ThreadState]
      /\ th'[t].pc = "sent" /\ th'[t].to = th[t].to /\ th'[t].peer = th[t].peer
      /\ th'[t].kind = th[t].kind /\ th'[t].res = th[t].res
      /\ \A u \in Threads \ {t} : Same(u)
  BY StepFields DEF Transmit, Shape, Pcs
<1>2. Shape'
  BY <1>1 DEF Transmit, Shape, PlaceOK
<1>3. Locked'
  BY <1>1 DEF Transmit, Locked, Sending
<1>4. Alone'
  BY <1>1 DEF Transmit, Alone
<1>5. OwesGot'
  BY <1>1 DEF Transmit, OwesGot, Waiting, Acking
<1>6. AckAwaited'
  BY <1>1 DEF Transmit, AckAwaited
<1>7. Answers'
  BY <1>1, <1>4 DEF Transmit, Answers, Answer, Waiting, Acking, IsAnswer, Alone
<1>8. OkGot'
  BY <1>1 DEF Transmit, OkGot
<1>9. Numbered'
  BY <1>1 DEF Transmit, Numbered
<1>10. Whole'
  BY <1>1 DEF Transmit, Whole, Acking, Threads
<1> QED
  BY <1>2, <1>3, <1>4, <1>5, <1>6, <1>7, <1>8, <1>9, <1>10

LEMMA PacketSentKeeps ==
  ASSUME NEW CONSTANT t \in Threads, Timely, IInv, PacketSent(t)
  PROVE  IInv'
<1> USE DEF IInv, Same
<1>0. /\ th[t].pc = "sent" /\ lock' = Nobody /\ fifo' = Nobody /\ lock = t
      /\ th[t].kind \in {"req", "ack"}
      /\ mode' = IF th[t].kind = "ack" THEN "RX" ELSE "RX_WAIT_ACK"
      /\ UNCHANGED <<ackSem, dataSem, rfm69Data, origin, handled, alone>>
      /\ PlaceOK(t)
  BY DEF PacketSent, SetMode, AfterSent, Receiving, Sending, Locked, Shape, ThreadState
<1>1. /\ th' \in [Threads -> ThreadState]
      /\ th'[t].to = th[t].to /\ th'[t].peer = th[t].peer
      /\ th'[t].kind = th[t].kind /\ th'[t].res = th[t].res
      /\ \A u \in Threads \ {t} : Same(u)
      /\ \/ th[t].kind = "req" /\ th'[t].pc = "reset"
         \/ th[t].kind = "ack" /\ th[t].to # Nobody /\ th'[t].pc = "judge"
         \/ th[t].kind = "ack" /\ th[t].to = Nobody /\ t = Reader /\ th'[t].pc = "handle"
  <2>1. CASE th[t].kind = "req"
    <3>1. Step(t, "reset") /\ "reset" \in Pcs
      BY <2>1 DEF PacketSent, Pcs
    <3> QED
      BY <2>1, <3>1, StepFields DEF Shape
  <2>2. CASE th[t].kind = "ack" /\ th[t].to # Nobody
    <3>1. Step(t, "judge") /\ "judge" \in Pcs
      BY <2>2 DEF PacketSent, Pcs, Back
    <3> QED
      BY <2>2, <3>1, StepFields DEF Shape
  <2>3. CASE th[t].kind = "ack" /\ th[t].to = Nobody
    <3>1. t = Reader /\ t \notin Senders
      BY <1>0, <2>3 DEF PlaceOK, Threads
    <3>2. Step(t, "handle") /\ "handle" \in Pcs
      BY <2>3, <3>1 DEF PacketSent, Pcs, Back
    <3> QED
      BY <2>3, <3>1, <3>2, StepFields DEF Shape
  <2> QED
    BY <1>0, <2>1, <2>2, <2>3
<1>2. \/ owes' = owes /\ got' = got
      \/ th[t].kind = "req" /\ owes' = owes \union {th[t].to} /\ got' = [got EXCEPT ![t] = TRUE]
  BY <1>0 DEF PacketSent, PlaceOK
<1>3. Shape'
  <2>1. PlaceOK(t)'
    BY <1>0, <1>1 DEF PlaceOK, Timely, RadioAssumption
  <2>2. ASSUME NEW u \in Threads \ {t} PROVE PlaceOK(u)'
    BY <1>1, <2>2 DEF Shape, PlaceOK
  <2>3. owes' \subseteq Nodes /\ got' \in [Threads -> BOOLEAN]
    <3>1. th[t] \in ThreadState /\ (th[t].kind = "req" => th[t].to # Nobody)
      BY <1>0 DEF Shape, PlaceOK
    <3> QED
      BY <1>2, <3>1 DEF Shape, ThreadState
  <2> QED
    BY <1>0, <1>1, <2>1, <2>2, <2>3 DEF Shape
<1>4. Locked'
  <2>1. ASSUME NEW u \in Threads, th'[u].pc \in {"csma", "sent"} PROVE FALSE
    <3>1. u # t
      BY <1>1, <2>1
    <3> QED
      BY <1>0, <1>1, <2>1, <3>1 DEF Locked
  <2> QED
    BY <2>1 DEF Locked
<1>5. Alone'
  BY <1>0, <1>1 DEF Alone
<1>6. \A u \in Threads : got[u] => got'[u]
  BY <1>2 DEF Shape
<1>7. OwesGot'
  <2> SUFFICES ASSUME NEW n \in owes'
               PROVE  \E u \in Threads : th'[u].to = n /\ got'[u]
                        /\ (Waiting(u) \/ Acking(u) \/ th[u].pc = "judge")'
    BY DEF OwesGot
  <2>1. CASE n \in owes
    <3>1. PICK u \in Threads : th[u].to = n /\ got[u]
                                /\ (Waiting(u) \/ Acking(u) \/ th[u].pc = "judge")
      BY <2>1 DEF OwesGot
    <3>2. n # Nobody
      BY <2>1 DEF Timely, RadioAssumption, Shape
    <3>3. th'[u].to = n /\ (Waiting(u) \/ Acking(u) \/ th[u].pc = "judge")'
      BY <1>0, <1>1, <3>1, <3>2 DEF Waiting, Acking
    <3> QED
      BY <1>6, <3>1, <3>3
  <2>2. CASE n \notin owes
    <3>1. th[t].kind = "req" /\ n = th[t].to /\ got'[t]
      BY <1>2, <2>2 DEF Shape
    <3> QED
      BY <1>1, <3>1 DEF Waiting
  <2> QED
    BY <2>1, <2>2
<1>8. AckAwaited'
  BY <1>0, <1>1 DEF AckAwaited, Awaits, PlaceOK
<1>9. Answers'
  <2> SUFFICES ASSUME NEW u \in Threads PROVE Answer(u)'
    BY DEF Answers
  <2>1. CASE u = t
    <3>1. Answer(t)
      BY DEF Answers
    <3> QED
      BY <1>0, <1>1, <1>6, <2>1, <3>1 DEF Answer, Waiting, Acking, IsAnswer
  <2>2. CASE u # t
    <3>1. alone[u] => th[u].pc = "idle"
      BY <1>0, <2>2 DEF Alone
    <3> QED
      BY <1>0, <1>1, <2>2, <3>1 DEF Answer, Waiting, Acking
  <2> QED
    BY <2>1, <2>2
<1>10. OkGot'
  BY <1>0, <1>1, <1>6 DEF OkGot
<1>11. Numbered'
  BY <1>0 DEF Numbered
<1>12. Whole'
  BY <1>0, <1>1 DEF Whole, Acking, Threads
<1> QED
  BY <1>3, <1>4, <1>5, <1>7, <1>8, <1>9, <1>10, <1>11, <1>12

------------------------------------------------------------------------------
(* rfm69Send after its frame.                                              *)

LEMMA ResetKeeps ==
  ASSUME NEW CONSTANT t \in Threads, Timely, IInv, Reset(t)
  PROVE  IInv'
<1> USE DEF IInv
<1>0. /\ th[t].pc = "reset" /\ ackSem' = FALSE
      /\ UNCHANGED <<mode, lock, fifo, rfm69Data, owes, origin, handled, got, alone>>
  BY DEF Reset
<1>1. /\ th' \in [Threads -> ThreadState]
      /\ th'[t].pc = "wait"
      /\ \A u \in Threads :
           /\ th'[u].to = th[u].to /\ th'[u].peer = th[u].peer
           /\ th'[u].kind = th[u].kind /\ th'[u].res = th[u].res
           /\ u # t /\ th[u].pc = "wait" => th'[u].pc = "woken"
           /\ u # t /\ th[u].pc # "wait" => th'[u].pc = th[u].pc
  <2>1. ASSUME NEW u \in Threads, NEW p \in Pcs
        PROVE  [th[u] EXCEPT !.pc = p] = [pc |-> p, to |-> th[u].to, peer |-> th[u].peer,
                 kind |-> th[u].kind, tries |-> th[u].tries, res |-> th[u].res]
    <3>1. th[u] \in ThreadState
      BY DEF Shape
    <3> QED
      BY <3>1 DEF ThreadState
  <2>2. "wait" \in Pcs /\ "woken" \in Pcs
    BY DEF Pcs
  <2>3. ASSUME NEW u \in Threads
        PROVE  /\ th'[u] \in ThreadState
               /\ th'[u].to = th[u].to /\ th'[u].peer = th[u].peer
               /\ th'[u].kind = th[u].kind /\ th'[u].res = th[u].res
               /\ u = t => th'[u].pc = "wait"
               /\ u # t /\ th[u].pc = "wait" => th'[u].pc = "woken"
               /\ u # t /\ th[u].pc # "wait" => th'[u].pc = th[u].pc
    <3>1. th[u] \in ThreadState
      BY DEF Shape
    <3>2. CASE u = t
      <4>1. th'[u] = [th[u] EXCEPT !.pc = "wait"]
        BY <3>2 DEF Reset
      <4> QED
        BY <2>1, <2>2, <3>1, <3>2, <4>1 DEF ThreadState
    <3>3. CASE u # t /\ th[u].pc = "wait"
      <4>1. th'[u] = [th[u] EXCEPT !.pc = "woken"]
        BY <3>3 DEF Reset
      <4> QED
        BY <2>1, <2>2, <3>1, <3>3, <4>1 DEF ThreadState
    <3>4. CASE u # t /\ th[u].pc # "wait"
      BY <3>1, <3>4 DEF Reset
    <3> QED
      BY <3>2, <3>3, <3>4
  <2>4. th' = [u \in Threads |-> th'[u]]
    BY DEF Reset
  <2> QED
    BY <2>3, <2>4
<1>2. Shape'
  <2>1. ASSUME NEW u \in Threads PROVE PlaceOK(u)'
    BY <1>0, <1>1 DEF Shape, PlaceOK
  <2> QED
    BY <1>0, <1>1, <2>1 DEF Shape
<1>3. Locked'
  BY <1>0, <1>1 DEF Locked
<1>4. Alone'
  BY <1>0, <1>1 DEF Alone
<1>5. OwesGot'
  <2> SUFFICES ASSUME NEW n \in owes
               PROVE  \E u \in Threads : th'[u].to = n /\ got[u]
                        /\ (Waiting(u) \/ Acking(u) \/ th[u].pc = "judge")'
    BY <1>0 DEF OwesGot
  <2>1. PICK u \in Threads : th[u].to = n /\ got[u]
                              /\ (Waiting(u) \/ Acking(u) \/ th[u].pc = "judge")
    BY DEF OwesGot
  <2>2. th'[u].to = n /\ (Waiting(u) \/ Acking(u) \/ th[u].pc = "judge")'
    BY <1>0, <1>1, <2>1 DEF Waiting, Acking
  <2> QED
    BY <2>1, <2>2
<1>6. AckAwaited'
  BY <1>0, <1>1 DEF AckAwaited, Awaits
<1>7. Answers'
  <2> SUFFICES ASSUME NEW u \in Threads PROVE Answer(u)'
    BY DEF Answers
  <2>1. Answer(u)
    BY DEF Answers
  <2> QED
    BY <1>0, <1>1, <2>1 DEF Answer, Waiting, Acking, IsAnswer
<1>8. OkGot'
  BY <1>0, <1>1 DEF OkGot
<1>9. Numbered'
  BY <1>0 DEF Numbered
<1>10. Whole'
  BY <1>0, <1>1 DEF Whole, Acking, Threads
<1> QED
  BY <1>2, <1>3, <1>4, <1>5, <1>6, <1>7, <1>8, <1>9, <1>10

LEMMA AnsweredKeeps ==
  ASSUME NEW CONSTANT t \in Threads, Timely, IInv, Answered(t)
  PROVE  IInv'
<1> USE DEF IInv, Same
<1>0. /\ th[t].pc = "wait" /\ ackSem /\ ackSem' = FALSE
      /\ UNCHANGED <<mode, lock, fifo, rfm69Data, owes, origin, handled, got, alone>>
  BY DEF Answered
<1>1. /\ th' \in [Threads -> ThreadState]
      /\ th'[t].pc = "get" /\ th'[t].to = th[t].to /\ th'[t].peer = th[t].peer
      /\ th'[t].kind = th[t].kind /\ th'[t].res = th[t].res
      /\ \A u \in Threads \ {t} : Same(u)
  BY StepFields DEF Answered, Shape, Pcs
<1>2. Shape'
  BY <1>0, <1>1 DEF Shape, PlaceOK
<1>3. Locked'
  BY <1>0, <1>1 DEF Locked
<1>4. Alone'
  BY <1>0, <1>1 DEF Alone
<1>5. OwesGot'
  BY <1>0, <1>1 DEF OwesGot, Waiting, Acking
<1>6. AckAwaited'
  BY <1>0, <1>1 DEF AckAwaited, Awaits
<1>7. Answers'
  BY <1>0, <1>1 DEF Answers, Answer, Waiting, Acking, IsAnswer
<1>8. OkGot'
  BY <1>0, <1>1 DEF OkGot
<1>9. Numbered'
  BY <1>0 DEF Numbered
<1>10. Whole'
  BY <1>0, <1>1 DEF Whole, Acking, Threads
<1> QED
  BY <1>2, <1>3, <1>4, <1>5, <1>6, <1>7, <1>8, <1>9, <1>10

LEMMA TimeoutKeeps ==
  ASSUME NEW CONSTANT t \in Threads, Timely, IInv, Timeout(t)
  PROVE  IInv'
<1> USE DEF IInv, Same
<1>0. /\ th[t].pc \in {"wait", "woken"} /\ mode' = "RX" /\ owes' = owes \ {th[t].to}
      /\ fifo' = IF mode = "RX" THEN fifo ELSE Nobody
      /\ UNCHANGED <<lock, ackSem, rfm69Data, origin, handled, got, alone>>
      /\ PlaceOK(t)
  BY DEF Timeout, SetMode, Receiving, WaitOver, Timely, Shape
<1>1. /\ th' \in [Threads -> ThreadState]
      /\ th'[t].kind = "req"
      /\ \/ /\ th'[t].pc = "lock" /\ th'[t].to = th[t].to /\ th'[t].peer = th[t].to
            /\ th'[t].res = th[t].res
         \/ th'[t].pc = "idle" /\ th'[t].to = Nobody /\ th'[t].res = "NOK"
      /\ \A u \in Threads \ {t} : Same(u)
  BY AgainFields DEF Timeout, Shape
<1>2. Shape'
  <2>1. PlaceOK(t)'
    BY <1>0, <1>1 DEF PlaceOK
  <2>2. ASSUME NEW u \in Threads \ {t} PROVE PlaceOK(u)'
    BY <1>1, <2>2 DEF Shape, PlaceOK
  <2> QED
    BY <1>0, <1>1, <2>1, <2>2 DEF Shape
<1>3. Locked'
  BY <1>0, <1>1 DEF Locked, Sending
<1>4. Alone'
  BY <1>0, <1>1 DEF Alone
<1>5. OwesGot'
  BY <1>0, <1>1 DEF OwesGot, Waiting, Acking
<1>6. AckAwaited'
  BY <1>0 DEF AckAwaited
<1>7. Answers'
  <2> SUFFICES ASSUME NEW u \in Threads PROVE Answer(u)'
    BY DEF Answers
  <2>1. CASE u = t
    BY <1>1, <2>1 DEF Answer, Waiting, Acking
  <2>2. CASE u # t
    <3>1. alone[u] => th[u].pc = "idle"
      BY <1>0, <2>2 DEF Alone
    <3> QED
      BY <1>0, <1>1, <2>2, <3>1 DEF Answer, Waiting, Acking
  <2> QED
    BY <2>1, <2>2
<1>8. OkGot'
  BY <1>0, <1>1 DEF OkGot
<1>9. Numbered'
  BY <1>0 DEF Numbered
<1>10. Whole'
  BY <1>0, <1>1 DEF Whole, Acking, Threads
<1> QED
  BY <1>2, <1>3, <1>4, <1>5, <1>6, <1>7, <1>8, <1>9, <1>10

LEMMA JudgeKeeps ==
  ASSUME NEW CONSTANT t \in Threads, Timely, IInv, Judge(t)
  PROVE  IInv'
<1> USE DEF IInv, Same
<1>0. /\ th[t].pc = "judge" /\ owes' = owes \ {th[t].to}
      /\ UNCHANGED <<mode, lock, fifo, ackSem, rfm69Data, origin, handled, got, alone>>
      /\ PlaceOK(t)
  BY DEF Judge, WaitOver, Timely, Shape
<1>1. /\ th' \in [Threads -> ThreadState]
      /\ th'[t].kind = "req"
      /\ \/ /\ th'[t].pc = "lock" /\ th'[t].to = th[t].to /\ th'[t].peer = th[t].to
            /\ th'[t].res = th[t].res
         \/ th'[t].pc = "idle" /\ th'[t].to = Nobody /\ th'[t].res = "NOK"
         \/ th'[t].pc = "idle" /\ th'[t].to = Nobody /\ th'[t].res = "OK" /\ IsAnswer(t)
      /\ \A u \in Threads \ {t} : Same(u)
  <2>1. CASE IsAnswer(t)
    <3>1. Ended(t, "OK")
      BY <2>1 DEF Judge
    <3> QED
      BY <2>1, <3>1, EndedFields DEF Shape
  <2>2. CASE ~IsAnswer(t)
    <3>1. Again(t)
      BY <2>2 DEF Judge
    <3> QED
      BY <3>1, AgainFields DEF Shape
  <2> QED
    BY <2>1, <2>2
<1>2. Shape'
  <2>1. PlaceOK(t)'
    BY <1>0, <1>1 DEF PlaceOK
  <2>2. ASSUME NEW u \in Threads \ {t} PROVE PlaceOK(u)'
    BY <1>1, <2>2 DEF Shape, PlaceOK
  <2> QED
    BY <1>0, <1>1, <2>1, <2>2 DEF Shape
<1>3. Locked'
  BY <1>0, <1>1 DEF Locked
<1>4. Alone'
  BY <1>0, <1>1 DEF Alone
<1>5. OwesGot'
  BY <1>0, <1>1 DEF OwesGot, Waiting, Acking
<1>6. AckAwaited'
  BY <1>0, <1>1 DEF AckAwaited, Awaits
<1>7. Answers'
  <2> SUFFICES ASSUME NEW u \in Threads PROVE Answer(u)'
    BY DEF Answers
  <2>1. Answer(u)
    BY DEF Answers
  <2> QED
    BY <1>0, <1>1, <2>1 DEF Answer, Waiting, Acking, IsAnswer
<1>8. OkGot'
  <2>1. IsAnswer(t) /\ alone[t] => got[t]
    <3>1. Answer(t) /\ th[t].to # Nobody
      BY <1>0 DEF Answers, PlaceOK
    <3> QED
      BY <1>0, <3>1 DEF Answer
  <2> QED
    BY <1>0, <1>1, <2>1 DEF OkGot
<1>9. Numbered'
  BY <1>0 DEF Numbered
<1>10. Whole'
  BY <1>0, <1>1 DEF Whole, Acking, Threads
<1> QED
  BY <1>2, <1>3, <1>4, <1>5, <1>6, <1>7, <1>8, <1>9, <1>10

------------------------------------------------------------------------------
(* The radio thread, and rfm69GetData.                                     *)

LEMMA LookKeeps ==
  ASSUME NEW CONSTANT t \in Threads, Timely, IInv, Look(t)
  PROVE  IInv'
<1> USE DEF IInv, Same
<1>0. /\ th[t].pc = "get" /\ PlaceOK(t)
      /\ UNCHANGED <<mode, lock, fifo, ackSem, rfm69Data, owes, origin, handled, got, alone>>
  BY DEF Look, Shape
<1>1. /\ th' \in [Threads -> ThreadState]
      /\ th'[t].to = th[t].to /\ th'[t].peer = th[t].peer
      /\ th'[t].kind = th[t].kind /\ th'[t].res = th[t].res
      /\ \A u \in Threads \ {t} : Same(u)
      /\ \/ fifo # Nobody /\ th'[t].pc = "getlock"
         \/ fifo = Nobody /\ th[t].to # Nobody /\ th'[t].pc = "judge"
         \/ fifo = Nobody /\ th[t].to = Nobody /\ th'[t].pc = "idle"
  <2>1. CASE fifo # Nobody
    <3>1. Step(t, "getlock") /\ "getlock" \in Pcs
      BY <2>1 DEF Look, Pcs
    <3> QED
      BY <2>1, <3>1, StepFields DEF Shape
  <2>2. CASE fifo = Nobody /\ th[t].to # Nobody
    <3>1. Step(t, "judge") /\ "judge" \in Pcs
      BY <2>2 DEF Look, Pcs, Back
    <3> QED
      BY <2>2, <3>1, StepFields DEF Shape
  <2>3. CASE fifo = Nobody /\ th[t].to = Nobody
    <3>1. Step(t, "idle") /\ "idle" \in Pcs
      BY <1>0, <2>3 DEF Look, Pcs, Back, PlaceOK
    <3> QED
      BY <2>3, <3>1, StepFields DEF Shape
  <2> QED
    BY <2>1, <2>2, <2>3
<1>2. Shape'
  <2>1. PlaceOK(t)'
    BY <1>0, <1>1 DEF PlaceOK
  <2>2. ASSUME NEW u \in Threads \ {t} PROVE PlaceOK(u)'
    BY <1>1, <2>2 DEF Shape, PlaceOK
  <2> QED
    BY <1>0, <1>1, <2>1, <2>2 DEF Shape
<1>3. Locked'
  BY <1>0, <1>1 DEF Locked
<1>4. Alone'
  BY <1>0, <1>1 DEF Alone
<1>5. OwesGot'
  <2> SUFFICES ASSUME NEW n \in owes
               PROVE  \E u \in Threads : th'[u].to = n /\ got[u]
                        /\ (Waiting(u) \/ Acking(u) \/ th[u].pc = "judge")'
    BY <1>0 DEF OwesGot
  <2>1. PICK u \in Threads : th[u].to = n /\ got[u]
                              /\ (Waiting(u) \/ Acking(u) \/ th[u].pc = "judge")
    BY DEF OwesGot
  <2>2. n # Nobody
    BY DEF Timely, RadioAssumption, Shape
  <2>3. th'[u].to = n /\ (Waiting(u) \/ Acking(u) \/ th[u].pc = "judge")'
    BY <1>0, <1>1, <2>1, <2>2 DEF Waiting, Acking
  <2> QED
    BY <2>1, <2>3
<1>6. AckAwaited'
  BY <1>0, <1>1 DEF AckAwaited, Awaits
<1>7. Answers'
  <2> SUFFICES ASSUME NEW u \in Threads PROVE Answer(u)'
    BY DEF Answers
  <2>1. Answer(u)
    BY DEF Answers
  <2> QED
    BY <1>0, <1>1, <2>1 DEF Answer, Waiting, Acking, IsAnswer
<1>8. OkGot'
  BY <1>0, <1>1 DEF OkGot
<1>9. Numbered'
  BY <1>0 DEF Numbered
<1>10. Whole'
  BY <1>0, <1>1 DEF Whole, Acking, Threads
<1> QED
  BY <1>2, <1>3, <1>4, <1>5, <1>6, <1>7, <1>8, <1>9, <1>10

LEMMA WakeKeeps ==
  ASSUME Timely, IInv, Wake
  PROVE  IInv'
<1> USE DEF IInv, Same
<1>0. /\ Reader \in Threads /\ th[Reader].pc = "idle" /\ Reader \notin Senders
      /\ UNCHANGED <<mode, lock, fifo, ackSem, rfm69Data, owes, origin, handled, got>>
  BY DEF Wake, Threads, Timely, RadioAssumption
<1>1. /\ th' \in [Threads -> ThreadState]
      /\ th'[Reader].pc = "get" /\ th'[Reader].to = Nobody /\ th'[Reader].kind = "req"
      /\ th'[Reader].res = "none"
      /\ \A u \in Threads \ {Reader} : Same(u)
  BY <1>0 DEF Wake, Idle, Shape, ThreadState, Pcs
<1>2. /\ alone' \in [Threads -> BOOLEAN]
      /\ alone'[Reader] => Quiet
      /\ \A u \in Threads \ {Reader} : alone'[u] <=> alone[u] /\ th[u].pc = "idle"
  BY <1>0 DEF Wake, ComesIn, Shape, Quiet
<1>3. Shape'
  <2>1. PlaceOK(Reader)'
    BY <1>0, <1>1 DEF PlaceOK
  <2>2. ASSUME NEW u \in Threads \ {Reader} PROVE PlaceOK(u)'
    BY <1>1, <2>2 DEF Shape, PlaceOK
  <2> QED
    BY <1>0, <1>1, <1>2, <2>1, <2>2 DEF Shape
<1>4. Locked'
  <2> SUFFICES ASSUME NEW u \in Threads, th'[u].pc \in {"csma", "sent"}
               PROVE  /\ lock = u
                      /\ th'[u].pc = "sent" /\ mode \in Sending
                           => mode = IF th'[u].kind = "ack" THEN "TX_ACK" ELSE "TX_WAIT_ACK"
    BY <1>0 DEF Locked
  <2>1. u # Reader
    BY <1>1
  <2> QED
    BY <1>1, <2>1 DEF Locked
<1>5. Alone'
  <2> SUFFICES ASSUME NEW u \in Threads, NEW v \in Threads, v # u,
                      alone'[u], th'[u].pc # "idle"
               PROVE  th'[v].pc = "idle"
    BY DEF Alone
  <2>1. CASE u = Reader
    BY <1>1, <1>2, <2>1 DEF Quiet
  <2>2. CASE u # Reader
    BY <1>1, <1>2, <2>2
  <2> QED
    BY <2>1, <2>2
<1>6. OwesGot'
  BY <1>0, <1>1 DEF OwesGot, Waiting, Acking
<1>7. AckAwaited'
  BY <1>0, <1>1 DEF AckAwaited, Awaits
<1>8. Answers'
  <2> SUFFICES ASSUME NEW u \in Threads PROVE Answer(u)'
    BY DEF Answers
  <2>1. CASE u = Reader
    BY <1>1, <2>1 DEF Answer
  <2>2. CASE u # Reader
    BY <1>0, <1>1, <1>2, <2>2 DEF Answer, Waiting, Acking
  <2> QED
    BY <2>1, <2>2
<1>9. OkGot'
  BY <1>0, <1>1, <1>2 DEF OkGot
<1>10. Numbered'
  BY <1>0 DEF Numbered
<1>11. Whole'
  BY <1>1 DEF Whole, Acking
<1> QED
  BY <1>3, <1>4, <1>5, <1>6, <1>7, <1>8, <1>9, <1>10, <1>11

LEMMA ReadFields ==
  ASSUME NEW CONSTANT t \in Threads, Timely, IInv, Read(t)
  PROVE  /\ th[t].pc = "getlock" /\ lock = Nobody /\ PlaceOK(t)
         /\ fifo' = Nobody /\ mode' \in {"RX", "STANDBY"}
         /\ UNCHANGED <<lock, ackSem, owes, origin, handled, got, alone>>
         /\ \/ rfm69Data' = Cleared /\ NotForUs(fifo)
            \/ /\ fifo # Nobody /\ fifo.us
               /\ rfm69Data' = [sender |-> fifo.from, ack |-> fifo.ack,
                                len |-> IF fifo.ack THEN 0 ELSE 1,
                                data |-> IF fifo.ack THEN rfm69Data.data ELSE fifo.data]
         /\ th' \in [Threads -> ThreadState]
         /\ th'[t].to = th[t].to /\ th'[t].res = th[t].res
         /\ \A u \in Threads \ {t} : Same(u)
         /\ \/ fifo # Nobody /\ fifo.us /\ th'[t].pc = "lock" /\ th'[t].kind = "ack"
            \/ th[t].to # Nobody /\ th'[t].pc = "judge" /\ th'[t].kind = th[t].kind
            \/ th[t].to = Nobody /\ th'[t].pc = "idle"
            \/ /\ th[t].to = Nobody /\ t = Reader /\ th'[t].pc = "handle"
               /\ fifo # Nobody /\ fifo.us
<1>1. /\ th[t].pc = "getlock" /\ lock = Nobody /\ PlaceOK(t)
      /\ fifo' = Nobody /\ mode' \in {"RX", "STANDBY"}
      /\ UNCHANGED <<lock, ackSem, owes, origin, handled, got, alone>>
  BY DEF Read, IInv, Shape
<1>2. \/ rfm69Data' = Cleared /\ NotForUs(fifo)
      \/ /\ fifo # Nobody /\ fifo.us
         /\ rfm69Data' = [sender |-> fifo.from, ack |-> fifo.ack,
                          len |-> IF fifo.ack THEN 0 ELSE 1,
                          data |-> IF fifo.ack THEN rfm69Data.data ELSE fifo.data]
  BY DEF Read, NotForUs
<1>3. CASE ~NotForUs(fifo) /\ fifo.req
  <2>1. th \in [Threads -> ThreadState] /\ th[t] \in ThreadState /\ fifo \in Frames
    BY <1>3 DEF IInv, Shape, NotForUs
  <2>2. th' = [th EXCEPT ![t].pc = "lock", ![t].kind = "ack", ![t].peer = fifo.from]
    BY <1>3 DEF Read
  <2>3. th' = [th EXCEPT ![t] = [[[th[t] EXCEPT !.pc = "lock"] EXCEPT !.kind = "ack"]
                                 EXCEPT !.peer = fifo.from]]
    BY <2>1, <2>2
  <2>4. PICK x : x = [th[t] EXCEPT !.pc = "lock"]
    OBVIOUS
  <2>5. x \in ThreadState /\ x.pc = "lock" /\ x.to = th[t].to /\ x.res = th[t].res
    BY <2>1, <2>4 DEF ThreadState, Pcs
  <2>6. PICK y : y = [x EXCEPT !.kind = "ack"]
    OBVIOUS
  <2>7. y \in ThreadState /\ y.pc = "lock" /\ y.to = th[t].to /\ y.res = th[t].res /\ y.kind = "ack"
    BY <2>5, <2>6 DEF ThreadState
  <2>8. PICK z : z = [y EXCEPT !.peer = fifo.from]
    OBVIOUS
  <2>9. /\ z \in ThreadState /\ z.pc = "lock" /\ z.to = th[t].to /\ z.res = th[t].res
        /\ z.kind = "ack"
    BY <2>1, <2>7, <2>8 DEF ThreadState, Frames
  <2>10. th' = [th EXCEPT ![t] = z]
    BY <2>3, <2>4, <2>6, <2>8
  <2>11. th' \in [Threads -> ThreadState] /\ th'[t] = z /\ \A u \in Threads \ {t} : Same(u)
    BY <2>1, <2>9, <2>10 DEF Same
  <2> QED
    BY <1>1, <1>2, <1>3, <2>9, <2>11 DEF NotForUs
<1>4. CASE ~(~NotForUs(fifo) /\ fifo.req)
  <2>1. th \in [Threads -> ThreadState] /\ Step(t, Back(t, ~NotForUs(fifo)))
    BY <1>4 DEF IInv, Shape, Read
  <2>2. CASE th[t].to # Nobody
    <3>1. Step(t, "judge") /\ "judge" \in Pcs
      BY <2>1, <2>2 DEF Pcs, Back
    <3> QED
      BY <1>1, <1>2, <2>1, <2>2, <3>1, StepFields
  <2>3. CASE th[t].to = Nobody /\ NotForUs(fifo)
    <3>1. Step(t, "idle") /\ "idle" \in Pcs
      BY <1>1, <2>1, <2>3 DEF Pcs, Back, PlaceOK
    <3> QED
      BY <1>1, <1>2, <2>1, <2>3, <3>1, StepFields
  <2>4. CASE th[t].to = Nobody /\ ~NotForUs(fifo)
    <3>1. Step(t, "handle") /\ "handle" \in Pcs /\ t = Reader
      BY <1>1, <2>1, <2>4 DEF Pcs, Back, PlaceOK, Threads
    <3> QED
      BY <1>1, <1>2, <2>1, <2>4, <3>1, StepFields DEF NotForUs
  <2> QED
    BY <2>2, <2>3, <2>4
<1> QED
  BY <1>3, <1>4

LEMMA ReadKeeps ==
  ASSUME NEW CONSTANT t \in Threads, Timely, IInv, Read(t)
  PROVE  IInv'
<1> USE DEF IInv, Same
<1>1. /\ th[t].pc = "getlock" /\ lock = Nobody /\ PlaceOK(t)
      /\ fifo' = Nobody /\ mode' \in {"RX", "STANDBY"}
      /\ UNCHANGED <<lock, ackSem, owes, origin, handled, got, alone>>
      /\ th' \in [Threads -> ThreadState]
      /\ th'[t].to = th[t].to /\ th'[t].res = th[t].res
      /\ \A u \in Threads \ {t} : Same(u)
  BY ReadFields
<1>2. \/ fifo # Nobody /\ fifo.us /\ th'[t].pc = "lock" /\ th'[t].kind = "ack"
      \/ th[t].to # Nobody /\ th'[t].pc = "judge" /\ th'[t].kind = th[t].kind
      \/ th[t].to = Nobody /\ th'[t].pc = "idle"
      \/ /\ th[t].to = Nobody /\ t = Reader /\ th'[t].pc = "handle"
         /\ fifo # Nobody /\ fifo.us
  BY ReadFields
<1>3. /\ rfm69Data' \in [sender : Nodes \union {Nobody}, ack : BOOLEAN, len : Nat, data : Nat]
      /\ rfm69Data'.data = rfm69Data.data \/ (fifo # Nobody /\ ~fifo.ack /\ rfm69Data'.data = fifo.data)
      /\ rfm69Data'.sender = Nobody
         \/ (/\ fifo # Nobody /\ rfm69Data'.sender = fifo.from /\ rfm69Data'.ack = fifo.ack
             /\ ~fifo.ack => rfm69Data'.len = 1 /\ rfm69Data'.data = fifo.data)
  <2>1. CASE rfm69Data' = Cleared
    BY <2>1 DEF Cleared, Shape
  <2>2. CASE rfm69Data' # Cleared
    <3>1. /\ fifo # Nobody
          /\ rfm69Data' = [sender |-> fifo.from, ack |-> fifo.ack,
                           len |-> IF fifo.ack THEN 0 ELSE 1,
                           data |-> IF fifo.ack THEN rfm69Data.data ELSE fifo.data]
      BY <2>2, ReadFields
    <3>2. fifo.from \in Nodes /\ fifo.ack \in BOOLEAN /\ fifo.data \in Nat
      BY <3>1 DEF Shape, Frames
    <3>3. rfm69Data.data \in Nat
      BY DEF Shape
    <3> QED
      BY <3>1, <3>2, <3>3
  <2> QED
    BY <2>1, <2>2
<1>4. Shape'
  <2>1. PlaceOK(t)'
    BY <1>1, <1>2 DEF PlaceOK
  <2>2. ASSUME NEW u \in Threads \ {t} PROVE PlaceOK(u)'
    BY <1>1, <2>2 DEF Shape, PlaceOK
  <2> QED
    BY <1>1, <1>3, <2>1, <2>2 DEF Shape
<1>5. Locked'
  <2>1. ASSUME NEW u \in Threads, th'[u].pc \in {"csma", "sent"} PROVE FALSE
    <3>1. u # t
      BY <1>2, <2>1
    <3>2. u = Nobody
      BY <1>1, <2>1, <3>1 DEF Locked
    <3> QED
      BY <3>2 DEF Timely, RadioAssumption, Threads
  <2> QED
    BY <2>1 DEF Locked
<1>6. Alone'
  BY <1>1 DEF Alone
<1>7. OwesGot'
  <2> SUFFICES ASSUME NEW n \in owes
               PROVE  \E u \in Threads : th'[u].to = n /\ got[u]
                        /\ (Waiting(u) \/ Acking(u) \/ th[u].pc = "judge")'
    BY <1>1 DEF OwesGot
  <2>1. PICK u \in Threads : th[u].to = n /\ got[u]
                              /\ (Waiting(u) \/ Acking(u) \/ th[u].pc = "judge")
    BY DEF OwesGot
  <2>2. n # Nobody
    BY DEF Timely, RadioAssumption, Shape
  <2>3. th'[u].to = n /\ (Waiting(u) \/ Acking(u) \/ th[u].pc = "judge")'
    BY <1>1, <1>2, <2>1, <2>2 DEF Waiting, Acking
  <2> QED
    BY <2>1, <2>3
<1>8. AckAwaited'
  BY <1>1 DEF AckAwaited
<1>9. Answers'
  <2> SUFFICES ASSUME NEW u \in Threads PROVE Answer(u)'
    BY DEF Answers
  <2>1. CASE u = t
    <3> SUFFICES ASSUME alone[t], th[t].to # Nobody, IsAnswer(t)'
                 PROVE  got[t]
      BY <1>1, <1>2, <2>1 DEF Answer, Waiting
    <3>1. rfm69Data'.sender = th[t].to /\ rfm69Data'.ack
      BY <1>1 DEF IsAnswer
    <3>2. fifo # Nobody /\ fifo.from = th[t].to /\ fifo.ack
      BY <1>3, <3>1
    <3> QED
      BY <1>1, <3>2 DEF Answers, Answer, Waiting
  <2>2. CASE u # t
    <3>1. alone[u] => th[u].pc = "idle"
      BY <1>1, <2>2 DEF Alone
    <3> QED
      BY <1>1, <2>2, <3>1 DEF Answer, Waiting, Acking
  <2> QED
    BY <2>1, <2>2
<1>10. OkGot'
  <2>1. th[t].res # "OK"
    BY <1>1 DEF OkGot
  <2> QED
    BY <1>1, <2>1 DEF OkGot
<1>11. Numbered'
  <2>1. rfm69Data'.data \in 0 .. Len(origin)
    BY <1>3 DEF Numbered
  <2> QED
    BY <1>1, <2>1 DEF Numbered
<1>12. Whole'
  <2> SUFFICES ASSUME alone[Reader], th'[Reader].to = Nobody,
                      th'[Reader].pc = "handle" \/ Acking(Reader)'
               PROVE  Whole'
    BY <1>1 DEF Whole
  <2>1. Reader \in Threads
    BY DEF Threads
  <2>2. CASE Reader # t
    <3>1. th[Reader].pc = "idle"
      BY <1>1, <2>1, <2>2 DEF Alone
    <3> QED
      BY <1>1, <2>1, <2>2, <3>1 DEF Acking
  <2>3. CASE Reader = t
    <3>1. fifo # Nobody /\ fifo.us
      BY <1>1, <1>2, <2>3 DEF Acking
    <3>2. ~fifo.ack
      <4> SUFFICES ASSUME fifo.ack PROVE FALSE
        OBVIOUS
      <4>1. PICK u \in Threads : Awaits(u)
        BY <3>1 DEF AckAwaited
      <4>2. u # Reader /\ th[u].pc # "idle"
        BY <1>1, <2>3, <4>1 DEF Awaits
      <4> QED
        BY <1>1, <2>1, <2>3, <4>2 DEF Alone
    <3>3. /\ rfm69Data'.sender = fifo.from /\ rfm69Data'.len = 1 /\ rfm69Data'.data = fifo.data
      BY <3>1, <3>2, ReadFields DEF NotForUs
    <3> QED
      BY <1>1, <3>1, <3>2, <3>3 DEF Whole, Numbered
  <2> QED
    BY <2>2, <2>3
<1> QED
  BY <1>4, <1>5, <1>6, <1>7, <1>8, <1>9, <1>10, <1>11, <1>12

LEMMA HandleKeeps ==
  ASSUME Timely, IInv, Handle
  PROVE  IInv'
<1> USE DEF IInv, Same
<1>0. /\ Reader \in Threads /\ th[Reader].pc = "handle" /\ th[Reader].to = Nobody
      /\ Reader \notin Senders /\ handled' = handled \union {rfm69Data.data}
      /\ UNCHANGED <<mode, lock, fifo, ackSem, rfm69Data, owes, origin, alone>>
  BY DEF Handle, Threads, Timely, RadioAssumption, Shape, PlaceOK
<1>1. /\ th' \in [Threads -> ThreadState] /\ th'[Reader].kind = "req"
      /\ th'[Reader].res = "none"
      /\ \A u \in Threads \ {Reader} : Same(u)
      /\ \/ th'[Reader].pc = "idle" /\ th'[Reader].to = Nobody
         \/ /\ th'[Reader].pc = "lock" /\ th'[Reader].to \in Nodes
            /\ th'[Reader].peer = th'[Reader].to
  <2>1. CASE Ended(Reader, "none")
    BY <1>0, <2>1, EndedFields DEF Shape
  <2>2. CASE /\ rfm69Data.sender # Nobody
             /\ th' = [th EXCEPT ![Reader] = Call(Reader, rfm69Data.sender)]
    <3>1. rfm69Data.sender \in Nodes
      BY <2>2 DEF Shape
    <3>2. RadioAssumption /\ th \in [Threads -> ThreadState]
      BY DEF Timely, Shape
    <3>3. PICK n \in Nodes : th' = [th EXCEPT ![Reader] = Call(Reader, n)]
      BY <2>2, <3>1
    <3> QED
      BY <1>0, <3>2, <3>3, CallFields
  <2> QED
    BY <2>1, <2>2 DEF Handle
<1>2. /\ got' \in [Threads -> BOOLEAN]
      /\ \A u \in Threads \ {Reader} : got'[u] = got[u]
  BY DEF Handle, Shape
<1>3. Shape'
  <2>1. PlaceOK(Reader)'
    BY <1>0, <1>1 DEF PlaceOK, Timely, RadioAssumption
  <2>2. ASSUME NEW u \in Threads \ {Reader} PROVE PlaceOK(u)'
    BY <1>1, <2>2 DEF Shape, PlaceOK
  <2> QED
    BY <1>0, <1>1, <1>2, <2>1, <2>2 DEF Shape
<1>4. Locked'
  <2> SUFFICES ASSUME NEW u \in Threads, th'[u].pc \in {"csma", "sent"}
               PROVE  /\ lock = u
                      /\ th'[u].pc = "sent" /\ mode \in Sending
                           => mode = IF th'[u].kind = "ack" THEN "TX_ACK" ELSE "TX_WAIT_ACK"
    BY <1>0 DEF Locked
  <2>1. u # Reader
    BY <1>1
  <2> QED
    BY <1>1, <2>1 DEF Locked
<1>5. Alone'
  BY <1>0, <1>1 DEF Alone
<1>6. OwesGot'
  <2> SUFFICES ASSUME NEW n \in owes
               PROVE  \E u \in Threads : th'[u].to = n /\ got'[u]
                        /\ (Waiting(u) \/ Acking(u) \/ th[u].pc = "judge")'
    BY <1>0 DEF OwesGot
  <2>1. PICK u \in Threads : th[u].to = n /\ got[u]
                              /\ (Waiting(u) \/ Acking(u) \/ th[u].pc = "judge")
    BY DEF OwesGot
  <2>2. u # Reader
    BY <1>0, <2>1 DEF Waiting, Acking
  <2> QED
    BY <1>1, <1>2, <2>1, <2>2 DEF Waiting, Acking
<1>7. AckAwaited'
  BY <1>0, <1>1 DEF AckAwaited, Awaits
<1>8. Answers'
  <2> SUFFICES ASSUME NEW u \in Threads PROVE Answer(u)'
    BY DEF Answers
  <2>1. CASE u = Reader
    BY <1>1, <2>1 DEF Answer, Waiting, Acking
  <2>2. CASE u # Reader
    <3>1. Answer(u)
      BY DEF Answers
    <3> QED
      BY <1>0, <1>1, <1>2, <2>2, <3>1 DEF Answer, Waiting, Acking, IsAnswer
  <2> QED
    BY <2>1, <2>2
<1>9. OkGot'
  BY <1>0, <1>1, <1>2 DEF OkGot
<1>10. Numbered'
  BY <1>0 DEF Numbered
<1>11. Whole'
  BY <1>1, <1>0 DEF Whole, Acking, Timely, RadioAssumption
<1> QED
  BY <1>3, <1>4, <1>5, <1>6, <1>7, <1>8, <1>9, <1>10, <1>11

LEMMA SendKeeps ==
  ASSUME NEW CONSTANT t \in Senders, NEW CONSTANT n \in Nodes, Timely, IInv, Send(t, n)
  PROVE  IInv'
<1> USE DEF IInv, Same
<1>0. /\ t \in Threads /\ t # Reader /\ th[t].pc = "idle" /\ n # Nobody
      /\ UNCHANGED <<mode, lock, fifo, ackSem, rfm69Data, owes, origin, handled>>
  BY DEF Send, Threads, Timely, RadioAssumption
<1>1. /\ th' \in [Threads -> ThreadState]
      /\ th'[t].pc = "lock" /\ th'[t].to = n /\ th'[t].peer = n
      /\ th'[t].kind = "req" /\ th'[t].res = "none"
      /\ \A u \in Threads \ {t} : Same(u)
  BY <1>0, CallFields DEF Send, Shape, Timely
<1>2. /\ alone' \in [Threads -> BOOLEAN]
      /\ alone'[t] => Quiet
      /\ \A u \in Threads \ {t} : alone'[u] <=> alone[u] /\ th[u].pc = "idle"
  BY <1>0 DEF Send, ComesIn, Shape, Quiet
<1>3. /\ got' \in [Threads -> BOOLEAN]
      /\ \A u \in Threads \ {t} : got'[u] = got[u]
  BY DEF Send, Shape
<1>4. Shape'
  <2>1. PlaceOK(t)'
    BY <1>0, <1>1 DEF PlaceOK
  <2>2. ASSUME NEW u \in Threads \ {t} PROVE PlaceOK(u)'
    BY <1>1, <2>2 DEF Shape, PlaceOK
  <2> QED
    BY <1>0, <1>1, <1>2, <1>3, <2>1, <2>2 DEF Shape
<1>5. Locked'
  <2> SUFFICES ASSUME NEW u \in Threads, th'[u].pc \in {"csma", "sent"}
               PROVE  /\ lock = u
                      /\ th'[u].pc = "sent" /\ mode \in Sending
                           => mode = IF th'[u].kind = "ack" THEN "TX_ACK" ELSE "TX_WAIT_ACK"
    BY <1>0 DEF Locked
  <2>1. u # t
    BY <1>1
  <2> QED
    BY <1>1, <2>1 DEF Locked
<1>6. Alone'
  <2> SUFFICES ASSUME NEW u \in Threads, NEW v \in Threads, v # u,
                      alone'[u], th'[u].pc # "idle"
               PROVE  th'[v].pc = "idle"
    BY DEF Alone
  <2>1. CASE u = t
    BY <1>1, <1>2, <2>1 DEF Quiet
  <2>2. CASE u # t
    BY <1>1, <1>2, <2>2
  <2> QED
    BY <2>1, <2>2
<1>7. OwesGot'
  <2> SUFFICES ASSUME NEW m \in owes
               PROVE  \E u \in Threads : th'[u].to = m /\ got'[u]
                        /\ (Waiting(u) \/ Acking(u) \/ th[u].pc = "judge")'
    BY <1>0 DEF OwesGot
  <2>1. PICK u \in Threads : th[u].to = m /\ got[u]
                              /\ (Waiting(u) \/ Acking(u) \/ th[u].pc = "judge")
    BY DEF OwesGot
  <2>2. u # t
    BY <1>0, <2>1 DEF Waiting, Acking
  <2> QED
    BY <1>1, <1>3, <2>1, <2>2 DEF Waiting, Acking
<1>8. AckAwaited'
  BY <1>0, <1>1 DEF AckAwaited, Awaits
<1>9. Answers'
  <2> SUFFICES ASSUME NEW u \in Threads PROVE Answer(u)'
    BY DEF Answers
  <2>1. CASE u = t
    BY <1>1, <2>1 DEF Answer, Waiting, Acking
  <2>2. CASE u # t
    BY <1>0, <1>1, <1>2, <2>2 DEF Answer, Waiting, Acking
  <2> QED
    BY <2>1, <2>2
<1>10. OkGot'
  BY <1>0, <1>1, <1>2, <1>3 DEF OkGot
<1>11. Numbered'
  BY <1>0 DEF Numbered
<1>12. Whole'
  BY <1>0, <1>1, <1>2 DEF Whole, Acking, Threads
<1> QED
  BY <1>4, <1>5, <1>6, <1>7, <1>8, <1>9, <1>10, <1>11, <1>12

------------------------------------------------------------------------------
(* The nodes.                                                              *)

LEMMA NodeSendsKeeps ==
  ASSUME NEW CONSTANT n \in Nodes, Timely, IInv, NodeSends(n)
  PROVE  IInv'
<1> USE DEF IInv
<1>0. /\ fifo = Nobody /\ Len(origin) < MaxFrames /\ origin \in Seq(Nodes)
      /\ origin' = Append(origin, n)
      /\ ackSem' = (ackSem \/ mode = "RX_WAIT_ACK")
      /\ UNCHANGED <<mode, lock, rfm69Data, th, owes, handled, got, alone>>
  BY DEF NodeSends, Arrive, Shape
<1>1. /\ Len(origin') = Len(origin) + 1 /\ origin'[Len(origin) + 1] = n
      /\ \A i \in 1 .. Len(origin) : origin'[i] = origin[i]
      /\ origin' \in Seq(Nodes) /\ Len(origin) \in Nat
  BY <1>0
<1>2. /\ fifo' \in Frames /\ fifo'.from = n /\ ~fifo'.ack /\ fifo'.data = Len(origin) + 1
  <2>1. Len(origin) + 1 \in 0 .. MaxFrames
    BY <1>0, <1>1 DEF Timely, RadioAssumption
  <2>2. PICK us \in BOOLEAN, req \in BOOLEAN :
          fifo' = [from |-> n, us |-> us, ack |-> FALSE, req |-> req, data |-> Len(origin) + 1]
    BY DEF NodeSends, Arrive
  <2> QED
    BY <2>1, <2>2 DEF Frames
<1>3. Shape'
  BY <1>0, <1>1, <1>2 DEF Shape, PlaceOK
<1>4. Locked'
  BY <1>0 DEF Locked
<1>5. Alone'
  BY <1>0 DEF Alone
<1>6. OwesGot'
  BY <1>0 DEF OwesGot, Waiting, Acking
<1>7. fifo' # Nobody
  BY <1>2 DEF Timely, RadioAssumption
<1>8. AckAwaited'
  BY <1>0, <1>2, <1>7 DEF AckAwaited, Awaits
<1>9. Answers'
  BY <1>0, <1>2, <1>7 DEF Answers, Answer, Waiting, Acking, IsAnswer
<1>10. OkGot'
  BY <1>0 DEF OkGot
<1>11. Numbered'
  BY <1>0, <1>1, <1>2 DEF Numbered, Shape
<1>12. Whole'
  BY <1>0, <1>1 DEF Whole, Acking
<1> QED
  BY <1>3, <1>4, <1>5, <1>6, <1>8, <1>9, <1>10, <1>11, <1>12

LEMMA NodeAcksKeeps ==
  ASSUME NEW CONSTANT n \in Nodes, Timely, IInv, NodeAcks(n)
  PROVE  IInv'
<1> USE DEF IInv
<1>0. /\ n \in owes /\ owes' = owes \ {n}
      /\ UNCHANGED <<mode, lock, rfm69Data, th, origin, handled, got, alone>>
  BY DEF NodeAcks
<1>1. \/ UNCHANGED <<fifo, ackSem>>
      \/ /\ mode = "RX_WAIT_ACK" /\ fifo = Nobody /\ fifo' # Nobody
         /\ fifo' \in Frames /\ fifo'.from = n /\ fifo'.ack
  <2>1. CASE UNCHANGED <<fifo, dataSem, ackSem>>
    BY <2>1
  <2>2. CASE /\ mode = "RX_WAIT_ACK"
             /\ Arrive([from |-> n, us |-> TRUE, ack |-> TRUE, req |-> FALSE, data |-> 0])
    <3>1. 0 \in 0 .. MaxFrames
      BY DEF Timely, RadioAssumption
    <3>2. fifo' = [from |-> n, us |-> TRUE, ack |-> TRUE, req |-> FALSE, data |-> 0]
      BY <2>2 DEF Arrive
    <3>3. fifo' \in Frames /\ fifo'.from = n /\ fifo'.ack
      BY <3>1, <3>2 DEF Frames
    <3>4. fifo' # Nobody
      BY <3>3 DEF Timely, RadioAssumption
    <3> QED
      BY <2>2, <3>3, <3>4 DEF Arrive
  <2> QED
    BY <2>1, <2>2 DEF NodeAcks, Timely
<1>2. Shape'
  BY <1>0, <1>1 DEF Shape, PlaceOK
<1>3. Locked'
  BY <1>0 DEF Locked
<1>4. Alone'
  BY <1>0 DEF Alone
<1>5. OwesGot'
  BY <1>0 DEF OwesGot, Waiting, Acking
<1>6. AckAwaited'
  BY <1>0, <1>1 DEF AckAwaited, Awaits
<1>7. Answers'
  <2> SUFFICES ASSUME NEW u \in Threads PROVE Answer(u)'
    BY DEF Answers
  <2>0. Answer(u)
    BY DEF Answers
  <2>1. CASE UNCHANGED <<fifo, ackSem>>
    BY <1>0, <2>0, <2>1 DEF Answer, Waiting, Acking, IsAnswer
  <2>2. CASE fifo' # Nobody /\ fifo'.from = n
    <3>1. ASSUME alone[u], Waiting(u), th[u].to = n PROVE got[u]
      <4>1. PICK v \in Threads : th[v].to = n /\ got[v] /\ th[v].pc # "idle"
        BY <1>0 DEF OwesGot, Waiting, Acking
      <4> QED
        BY <3>1, <4>1 DEF Alone, Waiting
    <3> QED
      BY <1>0, <2>0, <2>2, <3>1 DEF Answer, Waiting, Acking, IsAnswer
  <2> QED
    BY <1>1, <2>1, <2>2
<1>8. OkGot'
  BY <1>0 DEF OkGot
<1>9. Numbered'
  BY <1>0, <1>1 DEF Numbered
<1>10. Whole'
  BY <1>0 DEF Whole, Acking
<1> QED
  BY <1>2, <1>3, <1>4, <1>5, <1>6, <1>7, <1>8, <1>9, <1>10

------------------------------------------------------------------------------
(* The invariant, and what it gives.                                       *)

LEMMA InitInv == RadioAssumption /\ Init => IInv
<1> SUFFICES ASSUME RadioAssumption, Init PROVE IInv
  OBVIOUS
<1>1. th = [t \in Threads |-> [pc |-> "idle", to |-> Nobody, peer |-> Nobody, kind |-> "req",
                               tries |-> 0, res |-> "none"]]
  BY DEF Init, Idle
<1>2. Shape
  BY <1>1 DEF Init, Shape, PlaceOK, ThreadState, Pcs
<1>3. Locked /\ Alone /\ OwesGot /\ AckAwaited /\ Answers /\ OkGot /\ Whole
  BY <1>1 DEF Init, Locked, Alone, OwesGot, AckAwaited, Answers, Answer, Waiting, Acking, OkGot,
              Whole, Threads
<1>4. Numbered
  BY DEF Init, Numbered
<1> QED
  BY <1>2, <1>3, <1>4 DEF IInv

LEMMA NextInv == ASSUME Timely, IInv, [Next]_vars PROVE IInv'
<1>1. CASE UNCHANGED vars
  BY <1>1 DEF vars, IInv, Shape, PlaceOK, Locked, Alone, OwesGot, AckAwaited, Awaits, Answers,
              Answer, Waiting, Acking, IsAnswer, OkGot, Numbered, Whole
<1>2. ASSUME NEW CONSTANT t \in Senders, NEW CONSTANT n \in Nodes, Send(t, n) PROVE IInv'
  BY <1>2, SendKeeps
<1>3. ASSUME NEW CONSTANT t \in Threads, ThreadStep(t) PROVE IInv'
  BY <1>3, ListenKeeps, BusyKeepsInv, TransmitKeeps, PacketSentKeeps, ResetKeeps, AnsweredKeeps,
     TimeoutKeeps, LookKeeps, ReadKeeps, JudgeKeeps DEF ThreadStep
<1>4. ASSUME NEW CONSTANT n \in Nodes, NodeSends(n) \/ NodeAcks(n) PROVE IInv'
  BY <1>4, NodeSendsKeeps, NodeAcksKeeps
<1> QED
  BY <1>1, <1>2, <1>3, <1>4, WakeKeeps, HandleKeeps DEF Next

LEMMA RadioInvariant == ~LateAcks => (Spec => []IInv)
<1>1. ~LateAcks /\ IInv /\ [Next]_vars => IInv'
  BY NextInv, RadioAssumption DEF Timely
<1>2. Init => IInv
  BY InitInv, RadioAssumption
<1> SUFFICES ASSUME ~LateAcks PROVE Spec => []IInv
  OBVIOUS
<1>3. IInv /\ [Next]_vars => IInv'
  BY <1>1
<1> QED
  BY <1>2, <1>3, PTL DEF Spec

\* rfm69Send reports an acknowledged frame only when the node addressed got a
\* frame of that call, for any number of threads, attempts and frames: an
\* answer that an earlier call left behind is never taken for its own.
THEOREM OkIsTrue == ~LateAcks => (Spec => []OkMeansReceived)
<1>1. IInv => OkMeansReceived
  BY DEF IInv, OkGot, OkMeansReceived
<1> QED
  BY <1>1, RadioInvariant, PTL

\* The radio thread handles each data frame as it was sent and once, when no
\* other call goes on meanwhile: rfm69Data is still that frame's when the
\* thread has sent its acknowledgement and looks at it.
THEOREM FrameIsWhole == ~LateAcks => (Spec => []FrameIntact)
<1>1. IInv => FrameIntact
  <2> SUFFICES ASSUME IInv, th[Reader].pc = "handle", alone[Reader] PROVE FrameIntact
    BY DEF FrameIntact
  <2>1. th[Reader].to = Nobody
    BY DEF IInv, Shape, PlaceOK, Threads
  <2>2. DOMAIN origin = 1 .. Len(origin)
    BY DEF IInv, Shape
  <2> QED
    BY <2>1, <2>2 DEF IInv, Whole, FrameIntact
<1> QED
  BY <1>1, RadioInvariant, PTL

------------------------------------------------------------------------------
(* When all calls are over.                                                *)

(* Who the chip is in standby for, who it transmits for, and who has been  *)
(* told of the frame that it has ready.                                    *)
StandsBy == mode = "STANDBY" => \E t \in Threads : th[t].pc = "lock" /\ th[t].kind = "ack"
Transmits == mode \in Sending => \E t \in Threads : th[t].pc = "sent"
ReaderLooks == th[Reader].pc \in {"get", "getlock"}
Told == mode = "RX" /\ fifo # Nobody => dataSem \/ ReaderLooks
HeardInv ==
  /\ mode \in Receiving \union Sending \union {"STANDBY"}
  /\ StandsBy /\ Transmits /\ Told

(* A step that leaves the chip to the thread that it works for.            *)
LEMMA NextHeard == ASSUME Timely, IInv, HeardInv, [Next]_vars PROVE HeardInv'
<1> DEFINE Goes(t) == \A u \in Threads \ {t} : th'[u] = th[u]
<1> USE DEF HeardInv, Timely
<1>0. th \in [Threads -> ThreadState] /\ Reader \in Threads
  BY DEF IInv, Shape, Threads
<1>1. CASE UNCHANGED vars
  BY <1>1 DEF vars, StandsBy, Transmits, Told, ReaderLooks
<1>2. ASSUME NEW t \in Senders, NEW n \in Nodes, Send(t, n) PROVE HeardInv'
  <2>1. t \in Threads /\ t # Reader /\ Goes(t) /\ th[t].pc = "idle"
    BY <1>0, <1>2 DEF Send, RadioAssumption, Threads
  <2> QED
    BY <1>0, <1>2, <2>1 DEF Send, StandsBy, Transmits, Told, ReaderLooks
<1>3. ASSUME NEW t \in Threads, Listen(t) PROVE HeardInv'
  <2>1. Goes(t) /\ th[t].pc = "lock" /\ mode' = "RX" /\ (fifo' # Nobody => fifo' = fifo /\ mode = "RX")
    BY <1>0, <1>3 DEF Listen, SetMode, Step, Receiving
  <2> QED
    BY <1>0, <1>3, <2>1 DEF Listen, StandsBy, Transmits, Told, ReaderLooks, Receiving, Sending
<1>4. ASSUME NEW t \in Threads, Busy(t) PROVE HeardInv'
  <2>1. Goes(t) /\ th[t].pc = "csma"
    BY <1>0, <1>4 DEF Busy, Again, Ended, Step
  <2> QED
    BY <1>0, <1>4, <2>1 DEF Busy, StandsBy, Transmits, Told, ReaderLooks
<1>5. ASSUME NEW t \in Threads, Transmit(t) PROVE HeardInv'
  <2>1. th'[t].pc = "sent"
    BY <1>0, <1>5 DEF Transmit, Step, ThreadState
  <2> QED
    BY <1>0, <1>5, <2>1 DEF Transmit, StandsBy, Transmits, Told, Sending
<1>6. ASSUME NEW t \in Threads, PacketSent(t) PROVE HeardInv'
  BY <1>6 DEF PacketSent, SetMode, AfterSent, StandsBy, Transmits, Told, Receiving, Sending
<1>7. ASSUME NEW t \in Threads, Reset(t) PROVE HeardInv'
  <2>1. \A u \in Threads : th[u].pc \notin {"reset", "wait"} => th'[u] = th[u]
    BY <1>0, <1>7 DEF Reset
  <2> QED
    BY <1>0, <1>7, <2>1 DEF Reset, StandsBy, Transmits, Told, ReaderLooks
<1>8. ASSUME NEW t \in Threads, Answered(t) PROVE HeardInv'
  <2>1. Goes(t) /\ th[t].pc = "wait"
    BY <1>0, <1>8 DEF Answered, Step
  <2> QED
    BY <1>0, <1>8, <2>1 DEF Answered, StandsBy, Transmits, Told, ReaderLooks
<1>9. ASSUME NEW t \in Threads, Timeout(t) PROVE HeardInv'
  <2>1. Goes(t) /\ th[t].pc \in {"wait", "woken"} /\ mode' = "RX"
        /\ (fifo' # Nobody => fifo' = fifo /\ mode = "RX")
    BY <1>0, <1>9 DEF Timeout, SetMode, Again, Ended, Receiving
  <2> QED
    BY <1>0, <1>9, <2>1 DEF Timeout, StandsBy, Transmits, Told, ReaderLooks, Receiving, Sending
<1>10. ASSUME NEW t \in Threads, Look(t) PROVE HeardInv'
  <2>1. Goes(t) /\ th[t].pc = "get" /\ (fifo # Nobody => th'[t].pc = "getlock")
    BY <1>0, <1>10 DEF Look, Step, ThreadState
  <2> QED
    BY <1>0, <1>10, <2>1 DEF Look, StandsBy, Transmits, Told, ReaderLooks
<1>11. ASSUME NEW t \in Threads, Read(t) PROVE HeardInv'
  <2>1. CASE mode' = "STANDBY"
    <3>1. th'[t].pc = "lock" /\ th'[t].kind = "ack"
      <4> PICK f \in {fifo} : /\ ~NotForUs(f) /\ f.req
            /\ th' = [th EXCEPT ![t].pc = "lock", ![t].kind = "ack", ![t].peer = f.from]
        BY <1>11, <2>1 DEF Read
      <4>1. th'[t] = [th[t] EXCEPT !.pc = "lock", !.kind = "ack", !.peer = f.from]
        BY <1>0
      <4> QED
        BY <1>0, <4>1 DEF ThreadState
    <3> QED
      BY <1>11, <2>1, <3>1 DEF Read, StandsBy, Transmits, Told, Sending
  <2>2. CASE mode' = "RX"
    BY <1>11, <2>2 DEF Read, StandsBy, Transmits, Told, Sending, Receiving
  <2> QED
    BY <1>11, <2>1, <2>2 DEF Read
<1>12. ASSUME NEW t \in Threads, Judge(t) PROVE HeardInv'
  <2>1. Goes(t) /\ th[t].pc = "judge"
    BY <1>0, <1>12 DEF Judge, Again, Ended
  <2> QED
    BY <1>0, <1>12, <2>1 DEF Judge, StandsBy, Transmits, Told, ReaderLooks
<1>13. CASE Wake
  <2>1. Goes(Reader) /\ th[Reader].pc = "idle" /\ th'[Reader].pc = "get"
    BY <1>0, <1>13 DEF Wake, Idle
  <2> QED
    BY <1>0, <1>13, <2>1 DEF Wake, StandsBy, Transmits, Told, ReaderLooks
<1>14. CASE Handle
  <2>1. Goes(Reader) /\ th[Reader].pc = "handle"
    BY <1>0, <1>14 DEF Handle, Ended
  <2> QED
    BY <1>0, <1>14, <2>1 DEF Handle, StandsBy, Transmits, Told, ReaderLooks
<1>15. ASSUME NEW n \in Nodes, NodeSends(n) \/ NodeAcks(n) PROVE HeardInv'
  BY <1>15 DEF NodeSends, NodeAcks, Arrive, StandsBy, Transmits, Told, ReaderLooks
<1> QED
  BY <1>1, <1>2, <1>3, <1>4, <1>5, <1>6, <1>7, <1>8, <1>9, <1>10, <1>11, <1>12, <1>13, <1>14, <1>15
  DEF Next, ThreadStep

\* When no thread is in a call the chip receives, and a frame that it has
\* ready has been announced to the radio thread: no mode change made without
\* rfm69Lock, no time-out and no frame left over between two calls makes the
\* gateway deaf.  It takes no account of how the waits for an answer and the
\* lock meet (Polite), only of answers that come in time.
THEOREM NeverDeaf == ~LateAcks => (Spec => []NotDeaf)
<1> SUFFICES ASSUME ~LateAcks PROVE Spec => []NotDeaf
  OBVIOUS
<1>1. Init => HeardInv
  BY DEF Init, HeardInv, StandsBy, Transmits, Told, Receiving, Sending
<1>2. IInv /\ HeardInv /\ [Next]_vars => HeardInv'
  BY NextHeard, RadioAssumption DEF Timely
<1>3. IInv /\ HeardInv => NotDeaf
  BY DEF IInv, Shape, AckAwaited, Awaits, HeardInv, StandsBy, Transmits, Told, ReaderLooks, NotDeaf,
         Quiet, Receiving, Sending, Threads
<1> QED
  BY <1>1, <1>2, <1>3, RadioInvariant, PTL DEF Spec
=============================================================================
