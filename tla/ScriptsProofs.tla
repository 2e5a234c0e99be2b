--------------------------- MODULE ScriptsProofs ----------------------------
(***************************************************************************)
(* Proofs about the evaluation of scripts, for every number of threads     *)
(* that evaluate, of events, scripts and texts, and whatever the page does *)
(* meanwhile: no event is doubled, only a script that is not in the list   *)
(* loses one, and a result is that of the script it was asked of unless a  *)
(* late callback interferes.                                               *)
(***************************************************************************)
EXTENDS Scripts, SequencesExt, SequenceTheorems, FiniteSetTheorems, WellFoundedInduction, TLAPS

------------------------------------------------------------------------------
(* Mailboxes in which every object is at most once, and least numbers.     *)

(***************************************************************************)
(* Fetching the head of a mailbox without repetitions takes just the head  *)
(* from its elements.                                                      *)
(***************************************************************************)
LEMMA TailOfInjective ==
  ASSUME NEW S, NEW s \in Seq(S), s # <<>>, IsInjective(s)
  PROVE  /\ Head(s) \in ToSet(s) /\ IsInjective(Tail(s))
         /\ ToSet(Tail(s)) = ToSet(s) \ {Head(s)}
<1>1. /\ DOMAIN s = 1 .. Len(s) /\ Len(s) \in Nat /\ Len(s) >= 1 /\ Head(s) = s[1]
      /\ Tail(s) \in Seq(S) /\ Len(Tail(s)) = Len(s) - 1
      /\ \A i \in 1 .. Len(Tail(s)) : Tail(s)[i] = s[i + 1]
  BY HeadTailProperties, LenProperties
<1>2. DOMAIN Tail(s) = 1 .. Len(s) - 1
  BY <1>1, LenProperties
<1>3. IsInjective(Tail(s))
  BY <1>1, <1>2 DEF IsInjective
<1>4. Head(s) \in ToSet(s)
  BY <1>1 DEF ToSet
<1>5. ToSet(Tail(s)) \subseteq ToSet(s) \ {Head(s)}
  BY <1>1, <1>2 DEF ToSet, IsInjective
<1>6. ASSUME NEW x \in ToSet(s) \ {Head(s)} PROVE x \in ToSet(Tail(s))
  <2>1. PICK i \in 1 .. Len(s) : x = s[i]
    BY <1>1 DEF ToSet
  <2>2. i # 1 /\ i - 1 \in 1 .. Len(s) - 1
    BY <1>1, <1>6, <2>1
  <2>3. x = Tail(s)[i - 1]
    BY <1>1, <2>1, <2>2
  <2> QED
    BY <1>2, <2>2, <2>3 DEF ToSet
<1> QED
  BY <1>3, <1>4, <1>5, <1>6

(***************************************************************************)
(* A mailbox without repetitions to which a new object is appended.        *)
(***************************************************************************)
LEMMA AppendToInjective ==
  ASSUME NEW S, NEW s \in Seq(S), NEW e \in S, IsInjective(s), e \notin ToSet(s)
  PROVE  IsInjective(Append(s, e)) /\ ToSet(Append(s, e)) = ToSet(s) \union {e}
<1> DEFINE t == Append(s, e)
<1>1. /\ Len(s) \in Nat /\ DOMAIN s = 1 .. Len(s) /\ DOMAIN t = 1 .. Len(s) + 1
      /\ \A i \in 1 .. Len(s) : t[i] = s[i]
      /\ t[Len(s) + 1] = e
  BY AppendProperties, LenProperties
<1>2. \A i \in 1 .. Len(s) + 1 : i \in 1 .. Len(s) \/ i = Len(s) + 1
  BY <1>1
<1>3. \A i \in 1 .. Len(s) : s[i] # e
  BY <1>1 DEF ToSet
<1> HIDE DEF t
<1>4. IsInjective(t)
  BY <1>1, <1>2, <1>3 DEF IsInjective
<1>5. ToSet(t) \subseteq ToSet(s) \union {e}
  BY <1>1, <1>2 DEF ToSet
<1>6. ToSet(s) \union {e} \subseteq ToSet(t)
  BY <1>1, <1>2 DEF ToSet
<1> QED
  BY <1>4, <1>5, <1>6 DEF t

(***************************************************************************)
(* A sequence without repetitions is no longer than the set it draws from. *)
(***************************************************************************)
LEMMA InjectiveLength ==
  ASSUME NEW S, IsFiniteSet(S), NEW s, NEW R, s \in Seq(R), IsInjective(s),
         ToSet(s) \subseteq S
  PROVE  Len(s) <= Cardinality(S)
<1>1. Len(s) \in Nat /\ DOMAIN s = 1 .. Len(s) /\ s \in [1 .. Len(s) -> R]
  BY LenProperties
<1>2. s \in [1 .. Len(s) -> S]
  BY <1>1 DEF ToSet
<1>3. s \in Injection(1 .. Len(s), S)
  BY <1>2 DEF Injection
<1>4. Cardinality(1 .. Len(s)) <= Cardinality(S)
  BY <1>3, FS_Injection
<1>5. Cardinality(1 .. Len(s)) = Len(s)
  BY <1>1, FS_Interval
<1> QED
  BY <1>4, <1>5

(***************************************************************************)
(* It has room for an object that is not in it, if it has as many slots as *)
(* there are objects.                                                      *)
(***************************************************************************)
LEMMA RoomForOneMore ==
  ASSUME NEW S, IsFiniteSet(S), NEW s \in Seq(S), IsInjective(s),
         NEW e \in S, e \notin ToSet(s)
  PROVE  Len(s) < Cardinality(S)
<1>1. IsFiniteSet(S \ {e}) /\ Cardinality(S \ {e}) = Cardinality(S) - 1
  BY FS_RemoveElement
<1>2. ToSet(s) \subseteq S \ {e}
  BY LenProperties DEF ToSet
<1>3. Len(s) <= Cardinality(S \ {e})
  BY <1>1, <1>2, InjectiveLength
<1>4. Len(s) \in Nat /\ Cardinality(S) \in Nat
  BY FS_CardinalityType, LenProperties
<1> QED
  BY <1>1, <1>3, <1>4

(***************************************************************************)
(* It is without repetitions just when it is as long as its set is large.  *)
(***************************************************************************)
LEMMA InjectiveCardinality ==
  ASSUME NEW S, NEW s \in Seq(S)
  PROVE  Cardinality(ToSet(s)) = Len(s) <=> IsInjective(s)
<1>1. Len(s) \in Nat /\ DOMAIN s = 1 .. Len(s) /\ s \in [1 .. Len(s) -> S]
  BY LenProperties
<1>2. s \in Surjection(1 .. Len(s), ToSet(s))
  BY <1>1 DEF Surjection, ToSet
<1>3. IsFiniteSet(1 .. Len(s)) /\ Cardinality(1 .. Len(s)) = Len(s)
  BY <1>1, FS_Interval
<1>4. Cardinality(ToSet(s)) = Len(s) <=> s \in Injection(1 .. Len(s), ToSet(s))
  BY <1>2, <1>3, FS_Surjection
<1>5. s \in [1 .. Len(s) -> ToSet(s)]
  BY <1>1 DEF ToSet
<1> QED
  BY <1>1, <1>4, <1>5 DEF Injection, IsInjective

(***************************************************************************)
(* What a search for the smallest finds.                                   *)
(***************************************************************************)
LEMMA LeastExists ==
  ASSUME NEW S, S \subseteq Nat, S # {}
  PROVE  \E x \in S : \A y \in S : x <= y
<1> DEFINE R == OpToRel(<, Nat)
<1>1. IsWellFoundedOn(R, Nat)
  BY NatLessThanWellFounded
<1>2. PICK x \in S : \A y \in S : ~(<<y, x>> \in R)
  <2> HIDE DEF R
  <2> QED
    BY <1>1, WFMin
<1>3. \A y \in S : x <= y
  <2> SUFFICES ASSUME NEW y \in S, y < x PROVE FALSE
    OBVIOUS
  <2>1. <<y, x>> \in R
    BY DEF OpToRel
  <2> QED
    BY <1>2, <2>1
<1> QED
  BY <1>3

------------------------------------------------------------------------------

----------------------------------------------------------------------------
(* The inductive invariant.                                                *)

\* The part of TypeOK that concerns the events.  The record tcl is spelled
\* out for the sake of EXCEPT.
Typed ==
  /\ pool \subseteq Events /\ mbox \in Seq(Events)
  /\ ev \in [Events -> Waiters \union {Nobody}]
  /\ sem \in [Waiters -> BOOLEAN]
  /\ pResult \in [Waiters -> Events \union {NoEvent}]
  /\ waiter \in [Waiters -> [pc : {"idle", "wait"}, event : Events \union {NoEvent},
                             late : BOOLEAN]]
  /\ tcl = [pc |-> tcl.pc, event |-> tcl.event, place |-> tcl.place]
  /\ tcl.pc \in {"load", "fetch", "eval", "callback", "free"}
  /\ tcl.event \in Events \union {NoEvent}
  /\ tcl.pc \in {"load", "fetch"} <=> tcl.event = NoEvent

\* EventsConserved, with the cardinality replaced.
OnePlace ==
  /\ \A e \in pool : e \notin ToSet(mbox) /\ e # tcl.event
  /\ tcl.event \notin ToSet(mbox)
  /\ IsInjective(mbox)

\* What a thread that nobody is late for relies on: it has no other event
\* under way, and the result is there before the callback.
OnlyItsOwn(w) ==
  waiter[w].pc = "wait" /\ ~waiter[w].late =>
    /\ \A e \in Outstanding(w) : e = waiter[w].event
    /\ sem[w] => pResult[w] = waiter[w].event
    /\ tcl.pc = "callback" /\ ev[tcl.event] = w => pResult[w] = tcl.event

IInv == Typed /\ OnePlace /\ \A w \in Waiters : OnlyItsOwn(w)

----------------------------------------------------------------------------
(* What a step may do to the events.                                       *)

(***************************************************************************)
(* The invariant in terms of the sets of places.                           *)
(***************************************************************************)
LEMMA WhereEventsAre ==
  ASSUME Typed
  PROVE  /\ Queued = ToSet(mbox) /\ ToSet(mbox) \subseteq Events
         /\ NoEvent \notin Events /\ (tcl.event # NoEvent => tcl.event \in Events)
         /\ OnePlace <=> EventsConserved
<1>1. NoEvent \notin Events
  BY ScriptsAssumption DEF ScriptsAssumption
<1>2. Queued = ToSet(mbox)
  BY DEF Queued, ToSet
<1>3. mbox \in Seq(Events) /\ pool \subseteq Events /\ tcl.event \in Events \union {NoEvent}
  BY DEF Typed
<1>4. ToSet(mbox) \subseteq Events
  BY <1>3, LenProperties DEF ToSet
<1>5. Cardinality(Queued) = Len(mbox) <=> IsInjective(mbox)
  BY <1>2, <1>3, InjectiveCardinality
<1>6. OnePlace <=> EventsConserved
  BY <1>1, <1>2, <1>3, <1>4, <1>5 DEF OnePlace, EventsConserved, Held
<1> QED
  BY <1>1, <1>2, <1>3, <1>4, <1>6

(***************************************************************************)
(* The post of a free event succeeds: the mailbox has a slot for each.     *)
(***************************************************************************)
LEMMA PostSucceeds ==
  ASSUME Typed, OnePlace, NEW e \in pool, Put(e)
  PROVE  mbox' = Append(mbox, e)
<1>1. IsFiniteSet(Events) /\ MailboxSize \in Nat /\ Cardinality(Events) <= MailboxSize
  BY ScriptsAssumption DEF ScriptsAssumption
<1>2. e \in Events /\ mbox \in Seq(Events) /\ IsInjective(mbox) /\ e \notin ToSet(mbox)
  BY DEF Typed, OnePlace
<1>3. Len(mbox) < Cardinality(Events)
  BY <1>1, <1>2, RoomForOneMore
<1>4. Len(mbox) \in Nat /\ Cardinality(Events) \in Nat
  BY <1>1, <1>2, FS_CardinalityType, LenProperties
<1>5. Len(mbox) < MailboxSize
  BY <1>1, <1>3, <1>4
<1> QED
  BY <1>5 DEF Put

(***************************************************************************)
(* A free event is posted.                                                 *)
(***************************************************************************)
LEMMA Posted ==
  ASSUME Typed, OnePlace, NEW e \in pool, pool' = pool \ {e}, Put(e), tcl' = tcl
  PROVE  /\ OnePlace' /\ Leaked' = Leaked
         /\ mbox' \in Seq(Events) /\ ToSet(mbox') = ToSet(mbox) \union {e}
<1>1. mbox' = Append(mbox, e)
  BY PostSucceeds
<1>2. /\ e \in Events /\ mbox \in Seq(Events) /\ IsInjective(mbox) /\ e \notin ToSet(mbox)
      /\ e # tcl.event
  BY DEF Typed, OnePlace
<1>3. IsInjective(mbox') /\ ToSet(mbox') = ToSet(mbox) \union {e}
  BY <1>1, <1>2, AppendToInjective
<1>4. mbox' \in Seq(Events)
  BY <1>1, <1>2, AppendProperties
<1>5. OnePlace'
  BY <1>2, <1>3 DEF OnePlace
<1>6. Queued = ToSet(mbox) /\ Queued' = ToSet(mbox')
  BY DEF Queued, ToSet
<1>7. Leaked' = Leaked
  BY <1>2, <1>3, <1>6 DEF Leaked, Held
<1> QED
  BY <1>3, <1>4, <1>5, <1>7

(***************************************************************************)
(* The tcl thread fetches an event.                                        *)
(***************************************************************************)
LEMMA Fetched ==
  ASSUME Typed, OnePlace, tcl.event = NoEvent, mbox # <<>>, mbox' = Tail(mbox),
         pool' = pool, tcl'.event = Head(mbox)
  PROVE  /\ OnePlace' /\ Leaked' = Leaked
         /\ mbox' \in Seq(Events) /\ Head(mbox) \in Events
         /\ Head(mbox) \in ToSet(mbox) /\ ToSet(mbox') \subseteq ToSet(mbox)
<1>1. mbox \in Seq(Events) /\ IsInjective(mbox)
  BY DEF Typed, OnePlace
<1>2. /\ Head(mbox) \in ToSet(mbox) /\ IsInjective(mbox')
      /\ ToSet(mbox') = ToSet(mbox) \ {Head(mbox)}
  BY <1>1, TailOfInjective
<1>3. mbox' \in Seq(Events) /\ Head(mbox) \in Events
  BY <1>1, HeadTailProperties
<1>4. OnePlace'
  BY <1>2 DEF OnePlace
<1>5. /\ Queued = ToSet(mbox) /\ Queued' = ToSet(mbox')
      /\ ToSet(mbox) \subseteq Events /\ NoEvent \notin Events
  BY WhereEventsAre DEF Queued, ToSet
<1>6. Held = {} /\ Held' = {Head(mbox)}
  BY <1>3, <1>5 DEF Held
<1>7. Leaked' = Leaked
  BY <1>2, <1>5, <1>6 DEF Leaked
<1> QED
  BY <1>2, <1>3, <1>4, <1>7

(***************************************************************************)
(* The tcl thread gives its event back.                                    *)
(***************************************************************************)
LEMMA Freed ==
  ASSUME Typed, OnePlace, tcl.event # NoEvent, mbox' = mbox,
         pool' = pool \union {tcl.event}, tcl'.event = NoEvent
  PROVE  OnePlace' /\ Leaked' = Leaked
<1>1. /\ Queued = ToSet(mbox) /\ Queued' = ToSet(mbox) /\ ToSet(mbox) \subseteq Events
      /\ NoEvent \notin Events /\ tcl.event \in Events /\ pool \subseteq Events
  BY WhereEventsAre DEF Queued, ToSet, Typed
<1>2. OnePlace'
  BY <1>1 DEF OnePlace
<1>3. Held = {tcl.event} /\ Held' = {}
  BY DEF Held
<1>4. Leaked' = Leaked
  BY <1>1, <1>3 DEF Leaked
<1> QED
  BY <1>2, <1>4

(***************************************************************************)
(* Nothing moves.                                                          *)
(***************************************************************************)
LEMMA Unmoved ==
  ASSUME mbox' = mbox, pool' = pool, tcl'.event = tcl.event
  PROVE  (OnePlace => OnePlace') /\ Leaked' = Leaked
  BY DEF OnePlace, Leaked, Queued, Held

----------------------------------------------------------------------------
(* One lemma per kind of step.                                             *)

(***************************************************************************)
(* Steps that touch neither the events nor what the threads wait for: the  *)
(* loading of scripts, and all of the page but Run.                        *)
(***************************************************************************)
LEMMA Untouched ==
  ASSUME IInv, UNCHANGED events,
         \/ tcl' = tcl
         \/ /\ tcl.pc = "load" /\ tcl'.pc \in {"load", "fetch"} /\ tcl'.event = tcl.event
            /\ tcl' = [pc |-> tcl'.pc, event |-> tcl'.event, place |-> tcl'.place]
  PROVE  IInv' /\ Leaked' = Leaked
<1>1. /\ UNCHANGED <<pool, mbox, ev, sem, pResult, waiter>>
      /\ tcl'.event = tcl.event
      /\ tcl'.pc = tcl.pc \/ (tcl.pc = "load" /\ tcl'.pc \in {"load", "fetch"})
  BY DEF events
<1>2. Typed'
  <2>1. CASE tcl' = tcl
    BY <1>1, <2>1 DEF Typed, IInv
  <2>2. CASE tcl' # tcl
    <3>1. /\ tcl.pc = "load" /\ tcl.event = NoEvent
          /\ tcl'.pc \in {"load", "fetch"} /\ tcl'.event = NoEvent
          /\ tcl' = [pc |-> tcl'.pc, event |-> tcl'.event, place |-> tcl'.place]
      BY <2>2 DEF Typed, IInv
    <3> QED
      BY <1>1, <3>1 DEF Typed, IInv
  <2> QED
    BY <2>1, <2>2
<1>3. OnePlace' /\ Leaked' = Leaked
  BY <1>1, Unmoved DEF IInv
<1>4. ASSUME NEW w \in Waiters PROVE OnlyItsOwn(w)'
  <2>1. OnlyItsOwn(w)
    BY DEF IInv
  <2>2. Outstanding(w)' = Outstanding(w)
    BY <1>1 DEF Outstanding
  <2> QED
    BY <1>1, <2>1, <2>2 DEF OnlyItsOwn
<1> QED
  BY <1>2, <1>3, <1>4 DEF IInv

(***************************************************************************)
(* The events outstanding, in terms of the set of the mailbox.             *)
(***************************************************************************)
LEMMA WhatIsOutstanding ==
  /\ \A v \in Waiters, d \in Events :
       d \in Outstanding(v) <=>
         ev[d] = v /\ (d \in ToSet(mbox) \/ (d = tcl.event /\ tcl.pc \in {"eval", "callback"}))
  /\ \A v \in Waiters, d \in Events :
       d \in Outstanding(v)' <=>
         ev'[d] = v /\ (d \in ToSet(mbox') \/ (d = tcl'.event /\ tcl'.pc \in {"eval", "callback"}))
  /\ \A v \in Waiters : Outstanding(v) \subseteq Events /\ Outstanding(v)' \subseteq Events
<1>1. /\ \A d : d \in ToSet(mbox) <=> \E i \in DOMAIN mbox : mbox[i] = d
      /\ \A d : d \in ToSet(mbox') <=> \E i \in DOMAIN mbox' : mbox'[i] = d
  BY DEF ToSet
<1> QED
  BY <1>1 DEF Outstanding

(***************************************************************************)
(* A thread posts an event that calls it back.                             *)
(***************************************************************************)
LEMMA Posts ==
  ASSUME IInv, NEW w \in Waiters, NEW e \in pool, pool' = pool \ {e},
         ev' = [ev EXCEPT ![e] = w], pResult' = [pResult EXCEPT ![w] = NoEvent],
         sem' = [sem EXCEPT ![w] = FALSE], Put(e),
         waiter' = [waiter EXCEPT ![w] = WaitsFor(w, e)], tcl' = tcl
  PROVE  IInv' /\ Leaked' = Leaked
<1>1. Typed /\ OnePlace /\ e \in Events /\ e # tcl.event /\ e \notin ToSet(mbox)
  BY DEF IInv, Typed, OnePlace
<1>2. /\ OnePlace' /\ Leaked' = Leaked /\ mbox' \in Seq(Events)
      /\ ToSet(mbox') = ToSet(mbox) \union {e}
  BY <1>1, Posted
<1>3. WaitsFor(w, e) \in [pc : {"idle", "wait"}, event : Events \union {NoEvent},
                          late : BOOLEAN]
  BY <1>1 DEF WaitsFor
<1>4. /\ ev' \in [Events -> Waiters \union {Nobody}]
      /\ sem' \in [Waiters -> BOOLEAN]
      /\ pResult' \in [Waiters -> Events \union {NoEvent}]
  BY <1>1 DEF Typed
<1>5. waiter' \in [Waiters -> [pc : {"idle", "wait"}, event : Events \union {NoEvent},
                               late : BOOLEAN]]
  BY <1>1, <1>3 DEF Typed
<1>6. Typed'
  BY <1>1, <1>2, <1>4, <1>5 DEF Typed
<1>7. \A v \in Waiters, d \in Events :
        d \in Outstanding(v) <=>
          ev[d] = v /\ (d \in ToSet(mbox) \/ (d = tcl.event /\ tcl.pc \in {"eval", "callback"}))
  BY WhatIsOutstanding
<1>8. \A v \in Waiters, d \in Events :
        d \in Outstanding(v)' <=>
          ev'[d] = v /\ (d \in ToSet(mbox') \/ (d = tcl'.event /\ tcl'.pc \in {"eval", "callback"}))
  BY WhatIsOutstanding
<1>9. \A v \in Waiters : Outstanding(v) \subseteq Events /\ Outstanding(v)' \subseteq Events
  BY WhatIsOutstanding
<1>10. ev'[e] = w /\ \A d \in Events \ {e} : ev'[d] = ev[d]
  BY <1>1 DEF Typed
<1>11. OnlyItsOwn(w)'
  <2>1. sem'[w] = FALSE /\ waiter'[w] = WaitsFor(w, e)
    BY <1>1 DEF Typed
  <2>2. CASE Outstanding(w) = {}
    <3>1. Outstanding(w)' \subseteq {e}
      BY <1>2, <1>7, <1>8, <1>9, <1>10, <2>2
    <3>2. ~(tcl.pc = "callback" /\ ev'[tcl.event] = w)
      <4>1. tcl.pc = "callback" => tcl.event \in Events
        BY <1>1 DEF Typed
      <4> QED
        BY <1>1, <1>7, <1>10, <2>2, <4>1
    <3> QED
      BY <2>1, <3>1, <3>2 DEF OnlyItsOwn, WaitsFor
  <2>3. CASE Outstanding(w) # {}
    <3>1. waiter'[w].late = (Outstanding(w) # {})
      BY <2>1 DEF WaitsFor
    <3>2. waiter'[w].late
      BY <2>3, <3>1
    <3> QED
      BY <3>2 DEF OnlyItsOwn
  <2> QED
    BY <2>2, <2>3
<1>12. ASSUME NEW v \in Waiters \ {w} PROVE OnlyItsOwn(v)'
  <2>1. OnlyItsOwn(v)
    BY DEF IInv
  <2>2. waiter'[v] = waiter[v] /\ sem'[v] = sem[v] /\ pResult'[v] = pResult[v]
    BY <1>1 DEF Typed
  <2>3. Outstanding(v)' \subseteq Outstanding(v)
    BY <1>2, <1>7, <1>8, <1>9, <1>10
  <2>4. tcl.pc = "callback" => tcl.event \in Events \ {e}
    BY <1>1 DEF Typed
  <2> QED
    BY <1>10, <2>1, <2>2, <2>3, <2>4 DEF OnlyItsOwn
<1> QED
  BY <1>2, <1>6, <1>11, <1>12 DEF IInv

(***************************************************************************)
(* An evaluation keeps the invariant, and loses an event only when its     *)
(* script is not in the list.                                              *)
(***************************************************************************)
LEMMA Evaluates ==
  ASSUME IInv, NEW w \in Waiters, Evaluate(w)
  PROVE  IInv' /\ (Find(Uses[w]) # 0 => Leaked' = Leaked)
<1>1. CASE UNCHANGED <<pool, mbox, ev, sem, pResult, waiter, tcl>>
  BY <1>1, Untouched DEF events
<1>2. ASSUME NEW e \in pool, pool' = pool \ {e}, Find(Uses[w]) = 0,
             UNCHANGED <<mbox, ev, sem, pResult, waiter, tcl>>
      PROVE  IInv'
  <2>1. Typed' /\ OnePlace'
    BY <1>2 DEF IInv, Typed, OnePlace
  <2>2. ASSUME NEW v \in Waiters PROVE OnlyItsOwn(v)'
    <3>1. OnlyItsOwn(v) /\ Outstanding(v)' = Outstanding(v)
      BY <1>2 DEF IInv, Outstanding
    <3> QED
      BY <1>2, <3>1 DEF OnlyItsOwn
  <2> QED
    BY <2>1, <2>2 DEF IInv
<1>3. ASSUME NEW e \in pool, pool' = pool \ {e}, Find(Uses[w]) # 0,
             ev' = [ev EXCEPT ![e] = w], pResult' = [pResult EXCEPT ![w] = NoEvent],
             sem' = [sem EXCEPT ![w] = FALSE], Put(e),
             waiter' = [waiter EXCEPT ![w] = WaitsFor(w, e)], tcl' = tcl
      PROVE  IInv' /\ Leaked' = Leaked
  BY <1>3, Posts
<1> QED
  BY <1>1, <1>2, <1>3 DEF Evaluate

(***************************************************************************)
(* A thread reads its result, or gives up.                                 *)
(***************************************************************************)
LEMMA WaitEnds ==
  ASSUME IInv, NEW w \in Waiters, TakeResult(w) \/ TimeOut(w)
  PROVE  IInv' /\ Leaked' = Leaked
<1>1. /\ UNCHANGED <<pool, mbox, ev, pResult, tcl>>
      /\ waiter' = [waiter EXCEPT ![w] = NotWaiting]
      /\ sem' = sem \/ sem' = [sem EXCEPT ![w] = FALSE]
  BY DEF TakeResult, TimeOut
<1>2. Typed
  BY DEF IInv
<1>3. sem' \in [Waiters -> BOOLEAN] /\ \A v \in Waiters \ {w} : sem'[v] = sem[v]
  <2>1. CASE sem' = sem
    BY <1>2, <2>1 DEF Typed
  <2>2. CASE sem' = [sem EXCEPT ![w] = FALSE]
    BY <1>2, <2>2 DEF Typed
  <2> QED
    BY <1>1, <2>1, <2>2
<1>4. NotWaiting \in [pc : {"idle", "wait"}, event : Events \union {NoEvent}, late : BOOLEAN]
  BY DEF NotWaiting
<1>5. /\ waiter' \in [Waiters -> [pc : {"idle", "wait"}, event : Events \union {NoEvent},
                                  late : BOOLEAN]]
      /\ waiter'[w] = NotWaiting /\ \A v \in Waiters \ {w} : waiter'[v] = waiter[v]
  BY <1>1, <1>2, <1>4 DEF Typed
<1>6. Typed'
  BY <1>1, <1>2, <1>3, <1>5 DEF Typed
<1>7. OnePlace' /\ Leaked' = Leaked
  BY <1>1, Unmoved DEF IInv
<1>8. OnlyItsOwn(w)'
  BY <1>5 DEF OnlyItsOwn, NotWaiting
<1>9. ASSUME NEW v \in Waiters \ {w} PROVE OnlyItsOwn(v)'
  <2>1. OnlyItsOwn(v) /\ Outstanding(v)' = Outstanding(v)
    BY <1>1 DEF IInv, Outstanding
  <2> QED
    BY <1>1, <1>3, <1>5, <2>1 DEF OnlyItsOwn
<1> QED
  BY <1>6, <1>7, <1>8, <1>9 DEF IInv

(***************************************************************************)
(* The page posts an event that calls nobody back.                         *)
(***************************************************************************)
LEMMA Runs ==
  ASSUME IInv, Run
  PROVE  IInv' /\ Leaked' = Leaked
<1>1. CASE UNCHANGED <<pool, mbox, ev>>
  BY <1>1, Untouched DEF Run, events
<1>2. ASSUME NEW e \in pool, pool' = pool \ {e}, ev' = [ev EXCEPT ![e] = Nobody], Put(e),
             UNCHANGED <<sem, pResult, waiter, tcl>>
      PROVE  IInv' /\ Leaked' = Leaked
  <2>1. Typed /\ OnePlace /\ e \in Events /\ e # tcl.event /\ Nobody \notin Waiters
    BY ScriptsAssumption DEF IInv, Typed, OnePlace, ScriptsAssumption
  <2>2. /\ OnePlace' /\ Leaked' = Leaked /\ mbox' \in Seq(Events)
        /\ ToSet(mbox') = ToSet(mbox) \union {e}
    BY <1>2, <2>1, Posted
  <2>3. ev'[e] = Nobody /\ \A d \in Events \ {e} : ev'[d] = ev[d]
    BY <1>2, <2>1 DEF Typed
  <2>4. Typed'
    BY <1>2, <2>1, <2>2 DEF Typed
  <2>5. ASSUME NEW w \in Waiters PROVE OnlyItsOwn(w)'
    <3>1. OnlyItsOwn(w)
      BY DEF IInv
    <3>2. Outstanding(w)' \subseteq Outstanding(w)
      BY <1>2, <2>1, <2>2, <2>3, WhatIsOutstanding
    <3>3. tcl.pc = "callback" => tcl.event \in Events \ {e}
      BY <2>1 DEF Typed
    <3> QED
      BY <1>2, <2>3, <3>1, <3>2, <3>3 DEF OnlyItsOwn
  <2> QED
    BY <2>2, <2>4, <2>5 DEF IInv
<1> QED
  BY <1>1, <1>2 DEF Run

(***************************************************************************)
(* The tcl thread fetches an event.                                        *)
(***************************************************************************)
LEMMA TclFetches ==
  ASSUME IInv, TclFetch
  PROVE  IInv' /\ Leaked' = Leaked
<1>1. /\ tcl.pc = "fetch" /\ mbox # <<>> /\ mbox' = Tail(mbox)
      /\ tcl' = [tcl EXCEPT !.pc = "eval", !.event = Head(mbox)]
      /\ UNCHANGED <<pool, ev, sem, pResult, waiter>>
  BY DEF TclFetch
<1>2. Typed /\ OnePlace /\ tcl.event = NoEvent
  BY <1>1 DEF IInv, Typed
<1>3. tcl = [pc |-> tcl.pc, event |-> tcl.event, place |-> tcl.place]
  BY <1>2 DEF Typed
<1>4. tcl' = [pc |-> "eval", event |-> Head(mbox), place |-> tcl.place]
  BY <1>1, <1>3
<1>5. tcl'.pc = "eval" /\ tcl'.event = Head(mbox) /\ tcl'.place = tcl.place
  BY <1>4
<1>6. /\ OnePlace' /\ Leaked' = Leaked
      /\ mbox' \in Seq(Events) /\ Head(mbox) \in Events
      /\ Head(mbox) \in ToSet(mbox) /\ ToSet(mbox') \subseteq ToSet(mbox)
  BY <1>1, <1>2, <1>5, Fetched
<1>7. NoEvent \notin Events
  BY ScriptsAssumption DEF ScriptsAssumption
<1>8. Typed'
  BY <1>1, <1>2, <1>4, <1>5, <1>6, <1>7 DEF Typed
<1>9. ASSUME NEW w \in Waiters PROVE OnlyItsOwn(w)'
  <2>1. OnlyItsOwn(w)
    BY DEF IInv
  <2>2. Outstanding(w)' \subseteq Outstanding(w)
    BY <1>1, <1>5, <1>6, WhatIsOutstanding
  <2> QED
    BY <1>1, <1>5, <2>1, <2>2 DEF OnlyItsOwn
<1> QED
  BY <1>6, <1>8, <1>9 DEF IInv

(***************************************************************************)
(* The result is written through the pointer of the thread called back.    *)
(***************************************************************************)
LEMMA TclEvaluates ==
  ASSUME IInv, TclEval
  PROVE  IInv' /\ Leaked' = Leaked
<1> DEFINE to == ev[tcl.event]
<1>1. /\ tcl.pc = "eval" /\ tcl' = [tcl EXCEPT !.pc = "callback"]
      /\ UNCHANGED <<pool, mbox, ev, sem, waiter>>
      /\ pResult' = IF to = Nobody THEN pResult ELSE [pResult EXCEPT ![to] = tcl.event]
  BY DEF TclEval
<1>2. /\ Typed /\ OnePlace /\ tcl.event \in Events /\ to \in Waiters \union {Nobody}
      /\ Nobody \notin Waiters
  BY <1>1, ScriptsAssumption DEF IInv, Typed, ScriptsAssumption
<1>3. /\ tcl'.pc = "callback" /\ tcl'.event = tcl.event
      /\ tcl' = [pc |-> tcl'.pc, event |-> tcl'.event, place |-> tcl'.place]
  BY <1>1, <1>2 DEF Typed
<1>4. /\ pResult' \in [Waiters -> Events \union {NoEvent}]
      /\ \A w \in Waiters : pResult'[w] = IF w = to THEN tcl.event ELSE pResult[w]
  <2>1. CASE to = Nobody
    BY <1>1, <1>2, <2>1 DEF Typed
  <2>2. CASE to # Nobody
    BY <1>1, <1>2, <2>2 DEF Typed
  <2> QED
    BY <2>1, <2>2
<1>5. tcl.event # NoEvent
  BY <1>2, ScriptsAssumption DEF ScriptsAssumption
<1>6. Typed'
  BY <1>1, <1>2, <1>3, <1>4, <1>5 DEF Typed
<1>7. OnePlace' /\ Leaked' = Leaked
  BY <1>1, <1>2, <1>3, Unmoved
<1>8. ASSUME NEW w \in Waiters PROVE OnlyItsOwn(w)'
  <2>1. OnlyItsOwn(w)
    BY DEF IInv
  <2>2. Outstanding(w)' = Outstanding(w)
    BY <1>1, <1>3, WhatIsOutstanding
  <2>3. w = to => tcl.event \in Outstanding(w)
    BY <1>1, <1>2, WhatIsOutstanding
  <2> QED
    BY <1>1, <1>3, <1>4, <2>1, <2>2, <2>3 DEF OnlyItsOwn
<1> QED
  BY <1>6, <1>7, <1>8 DEF IInv

(***************************************************************************)
(* The callback signals the semaphore: the result is there.                *)
(***************************************************************************)
LEMMA TclCallsBack ==
  ASSUME IInv, TclCallback
  PROVE  IInv' /\ Leaked' = Leaked
<1> DEFINE to == ev[tcl.event]
<1>1. /\ tcl.pc = "callback" /\ tcl' = [tcl EXCEPT !.pc = "free"]
      /\ UNCHANGED <<pool, mbox, ev, pResult, waiter>>
      /\ sem' = IF to = Nobody THEN sem ELSE [sem EXCEPT ![to] = TRUE]
  BY DEF TclCallback
<1>2. /\ Typed /\ OnePlace /\ tcl.event \in Events /\ to \in Waiters \union {Nobody}
      /\ Nobody \notin Waiters
  BY <1>1, ScriptsAssumption DEF IInv, Typed, ScriptsAssumption
<1>3. /\ tcl'.pc = "free" /\ tcl'.event = tcl.event
      /\ tcl' = [pc |-> tcl'.pc, event |-> tcl'.event, place |-> tcl'.place]
  BY <1>1, <1>2 DEF Typed
<1>4. sem' \in [Waiters -> BOOLEAN] /\ \A w \in Waiters : w # to => sem'[w] = sem[w]
  <2>1. CASE to = Nobody
    BY <1>1, <1>2, <2>1 DEF Typed
  <2>2. CASE to # Nobody
    BY <1>1, <1>2, <2>2 DEF Typed
  <2> QED
    BY <2>1, <2>2
<1>5. tcl.event # NoEvent
  BY <1>2, ScriptsAssumption DEF ScriptsAssumption
<1>6. Typed'
  BY <1>1, <1>2, <1>3, <1>4, <1>5 DEF Typed
<1>7. OnePlace' /\ Leaked' = Leaked
  BY <1>1, <1>2, <1>3, Unmoved
<1>8. ASSUME NEW w \in Waiters PROVE OnlyItsOwn(w)'
  <2>1. OnlyItsOwn(w)
    BY DEF IInv
  <2>2. Outstanding(w)' \subseteq Outstanding(w)
    BY <1>1, <1>3, WhatIsOutstanding
  <2>3. CASE w = to
    <3>1. tcl.event \in Outstanding(w)
      BY <1>1, <1>2, <2>3, WhatIsOutstanding
    <3> QED
      BY <1>1, <1>3, <2>1, <2>2, <2>3, <3>1 DEF OnlyItsOwn
  <2>4. CASE w # to
    BY <1>1, <1>3, <1>4, <2>1, <2>2, <2>4 DEF OnlyItsOwn
  <2> QED
    BY <2>3, <2>4
<1> QED
  BY <1>6, <1>7, <1>8 DEF IInv

(***************************************************************************)
(* The event is given back.                                                *)
(***************************************************************************)
LEMMA TclFrees ==
  ASSUME IInv, TclFree
  PROVE  IInv' /\ Leaked' = Leaked
<1>1. /\ tcl.pc = "free" /\ pool' = pool \union {tcl.event}
      /\ ev' = [ev EXCEPT ![tcl.event] = Nobody]
      /\ tcl' = [tcl EXCEPT !.pc = "fetch", !.event = NoEvent]
      /\ UNCHANGED <<mbox, sem, pResult, waiter>>
  BY DEF TclFree
<1>2. /\ Typed /\ OnePlace /\ tcl.event \in Events /\ tcl.event # NoEvent
      /\ Nobody \notin Waiters
  BY <1>1, ScriptsAssumption DEF IInv, Typed, ScriptsAssumption
<1>3. tcl = [pc |-> tcl.pc, event |-> tcl.event, place |-> tcl.place]
  BY <1>2 DEF Typed
<1>4. tcl' = [pc |-> "fetch", event |-> NoEvent, place |-> tcl.place]
  BY <1>1, <1>3
<1>5. tcl'.pc = "fetch" /\ tcl'.event = NoEvent /\ tcl'.place = tcl.place
  BY <1>4
<1>6. OnePlace' /\ Leaked' = Leaked
  BY <1>1, <1>2, <1>5, Freed
<1>7. /\ ev' \in [Events -> Waiters \union {Nobody}]
      /\ ev'[tcl.event] = Nobody /\ \A d \in Events \ {tcl.event} : ev'[d] = ev[d]
  BY <1>1, <1>2 DEF Typed
<1>8. Typed'
  BY <1>1, <1>2, <1>4, <1>5, <1>7 DEF Typed
<1>9. ASSUME NEW w \in Waiters PROVE OnlyItsOwn(w)'
  <2>1. OnlyItsOwn(w)
    BY DEF IInv
  <2>2. Outstanding(w)' \subseteq Outstanding(w)
    BY <1>1, <1>2, <1>5, <1>7, WhatIsOutstanding
  <2> QED
    BY <1>1, <1>5, <2>1, <2>2 DEF OnlyItsOwn
<1> QED
  BY <1>6, <1>8, <1>9 DEF IInv

----------------------------------------------------------------------------
(* The theorems.                                                           *)

(***************************************************************************)
(* Every step keeps the invariant, and every step but the evaluation of a  *)
(* script that is not in the list leaves no event leaked.                  *)
(***************************************************************************)
LEMMA EveryStep ==
  ASSUME IInv, [Next]_vars
  PROVE  /\ IInv'
         /\ Leaked' # Leaked => \E w \in Waiters : Find(Uses[w]) = 0 /\ Evaluate(w)
<1>1. ASSUME NEW w \in Waiters, Evaluate(w)
      PROVE  IInv' /\ (Find(Uses[w]) # 0 => Leaked' = Leaked)
  BY <1>1, Evaluates
<1>2. ASSUME NEW w \in Waiters, TakeResult(w) \/ TimeOut(w)
      PROVE  IInv' /\ Leaked' = Leaked
  BY <1>2, WaitEnds
<1>3. CASE LoadScript
  <2>1. tcl.pc = "load" /\ UNCHANGED events
    BY <1>3 DEF LoadScript
  <2>2. tcl = [pc |-> tcl.pc, event |-> tcl.event, place |-> tcl.place]
    BY DEF IInv, Typed
  <2>3. \/ tcl' = [pc |-> "fetch", event |-> tcl.event, place |-> -1]
        \/ \E p : tcl' = [pc |-> "load", event |-> tcl.event, place |-> p]
    BY <1>3, <2>1, <2>2 DEF LoadScript, Loaded
  <2>4. /\ tcl'.pc \in {"load", "fetch"} /\ tcl'.event = tcl.event
        /\ tcl' = [pc |-> tcl'.pc, event |-> tcl'.event, place |-> tcl'.place]
    BY <2>3
  <2> QED
    BY <2>1, <2>4, Untouched
<1>4. CASE TclFetch \/ TclEval \/ TclCallback \/ TclFree
  BY <1>4, TclFetches, TclEvaluates, TclCallsBack, TclFrees
<1>5. CASE \/ \E k \in 0 .. Len(scriptLL) : Select(k)
           \/ \E text \in Texts, n \in Names \union {NoName},
                 button \in {"none", "run", "save"} : Submit(text, n, button)
           \/ Named \/ Renamed \/ Apply \/ SaveNew \/ SaveOld \/ Stored
  <2>1. UNCHANGED events /\ tcl' = tcl
    BY <1>5 DEF Select, Submit, Named, Renamed, Apply, SaveNew, SaveOld, Stored
  <2> QED
    BY <2>1, Untouched
<1>6. CASE Run
  BY <1>6, Runs
<1>7. CASE UNCHANGED vars
  BY <1>7, Untouched DEF vars
<1> QED
  BY <1>1, <1>2, <1>3, <1>4, <1>5, <1>6, <1>7 DEF Next, Waiting, TclThread, Requests

(***************************************************************************)
(* The invariant holds at the start: the semaphores are signalled, but no  *)
(* thread waits.                                                           *)
(***************************************************************************)
LEMMA AtTheStart ==
  ASSUME Init
  PROVE  IInv
<1>1. /\ pool = Events /\ mbox = <<>> /\ ev = [e \in Events |-> Nobody]
      /\ sem = [w \in Waiters |-> TRUE] /\ pResult = [w \in Waiters |-> NoEvent]
      /\ waiter = [w \in Waiters |-> NotWaiting]
      /\ tcl = [pc |-> "load", event |-> NoEvent, place |-> -1]
  BY DEF Init
<1>2. NoEvent \notin Events
  BY ScriptsAssumption DEF ScriptsAssumption
<1>3. Typed
  <2>1. NotWaiting \in [pc : {"idle", "wait"}, event : Events \union {NoEvent}, late : BOOLEAN]
    BY DEF NotWaiting
  <2>2. mbox \in Seq(Events)
    BY <1>1, EmptySeq
  <2>3. /\ sem \in [Waiters -> BOOLEAN]
        /\ waiter \in [Waiters -> [pc : {"idle", "wait"}, event : Events \union {NoEvent},
                                   late : BOOLEAN]]
    BY <1>1, <2>1
  <2> QED
    BY <1>1, <2>2, <2>3 DEF Typed
<1>4. OnePlace
  BY <1>1, <1>2 DEF OnePlace, ToSet, IsInjective
<1>5. ASSUME NEW w \in Waiters PROVE OnlyItsOwn(w)
  BY <1>1 DEF OnlyItsOwn, NotWaiting
<1> QED
  BY <1>3, <1>4, <1>5 DEF IInv

(***************************************************************************)
(* The invariant holds always.                                             *)
(***************************************************************************)
LEMMA Always == Spec => []IInv
<1>1. Init => IInv
  BY AtTheStart
<1>2. IInv /\ [Next]_vars => IInv'
  BY EveryStep
<1> QED
  BY <1>1, <1>2, PTL DEF Spec

(***************************************************************************)
(* No script event is in two places: neither the thread's time-out, nor a  *)
(* late callback, nor the page doubles one (script_pool and script_mb,     *)
(* ohs_th_tcl.h).                                                          *)
(***************************************************************************)
THEOREM EventsAreConserved == Spec => []EventsConserved
<1>1. IInv => EventsConserved
  BY WhereEventsAre DEF IInv
<1> QED
  BY <1>1, Always, PTL

(***************************************************************************)
(* A result that a thread reads is the one of the script it waits for,     *)
(* unless an earlier script of the thread was still under way when it      *)
(* posted this one (ohs_th_trigger.h, ohs_th_service.h).                   *)
(***************************************************************************)
THEOREM ResultIsOwn == Spec => []OwnResult
<1>1. IInv => OwnResult
  BY DEF IInv, OnlyItsOwn, OwnResult
<1> QED
  BY <1>1, Always, PTL

(***************************************************************************)
(* Only the evaluation of a script that is not in the list loses an event: *)
(* a post never fails, as the mailbox has a slot for every event.          *)
(***************************************************************************)
THEOREM OnlyMissingNamesLose == Spec => LostWithTheName
<1>1. IInv /\ [Next]_vars =>
        [Leaked' # Leaked => \E w \in Waiters : Find(Uses[w]) = 0 /\ Evaluate(w)]_vars
  BY EveryStep
<1> QED
  BY <1>1, Always, PTL DEF Spec, LostWithTheName

----------------------------------------------------------------------------
(* The list of scripts and the block store, as long as there was no error. *)

Doc == [name : Names, text : Texts]
Pages == [pc : {"idle", "naming", "renaming", "button", "storing"}, script : Nat,
          name : Names \union {NoName}, to : Names \union {NoName},
          button : {"none", "run", "save"}]

ListTyped ==
  /\ scriptLL \in Seq(Entry) /\ tclCmd \in Texts
  /\ stored \in [Places -> Doc \union {NoScript}]
  /\ page \in Pages /\ page.script \in 0 .. Len(scriptLL)

NamedOnce ==
  /\ \A j, k \in DOMAIN scriptLL : j # k => scriptLL[j].name # scriptLL[k].name
  /\ \A p, q \in Places : p # q /\ Used(p) /\ Used(q) => stored[p].name # stored[q].name

\* The entry that the page works on, or has just put in front, and the rest.
Chosen == IF page.script = 0 THEN 1 ELSE page.script
Pair(d) == <<d.name, d.text>>
Others == {Pair(scriptLL[k]) : k \in DOMAIN scriptLL \ {Chosen}}

\* While the scripts are loaded, the list has those up to the place reached.
KeptTo(l) == {Pair(stored[p]) : p \in {q \in Places : Used(q) /\ q <= l}}

LoadInv ==
  tcl.pc = "load" =>
    /\ page.pc = "idle" /\ page.script = 0 /\ tcl.place \in Int
    /\ Running = KeptTo(tcl.place)

\* Between two changes list and store agree; the page's name is the list's.
EvenInv ==
  page.pc \in {"idle", "button"} =>
    /\ Running = Kept
    /\ page.script # 0 => page.name = scriptLL[page.script].name

\* While an entry is renamed, the store has it under its old name.
RenameInv ==
  page.pc \in {"naming", "renaming"} =>
    /\ page.script # 0 /\ page.to \in Names /\ page.name \in Names
    /\ Kept = Others \union {<<page.name, scriptLL[Chosen].text>>}
    /\ \A k \in DOMAIN scriptLL \ {Chosen} : scriptLL[k].name \notin {page.to, page.name}
    /\ scriptLL[Chosen].name = IF page.pc = "naming" THEN NoName ELSE page.to

\* While an entry is saved, the store has it with its old text, or not at all.
SaveInv ==
  page.pc = "storing" =>
    /\ page.name \in Names /\ scriptLL # <<>>
    /\ scriptLL[Chosen] = [name |-> page.name, text |-> tclCmd]
    /\ \/ page.script = 0 /\ Kept = Others
       \/ page.script # 0 /\ \E t \in Texts : Kept = Others \union {<<page.name, t>>}

PageInv == tcl.pc # "load" => EvenInv /\ RenameInv /\ SaveInv

ListInv == ListTyped /\ NamedOnce /\ LoadInv /\ PageInv

(***************************************************************************)
(* The list, taken apart at an entry.                                      *)
(***************************************************************************)
LEMMA ListParts ==
  ASSUME ListTyped
  PROVE  /\ DOMAIN scriptLL = 1 .. Len(scriptLL) /\ Len(scriptLL) \in Nat
         /\ \A k \in DOMAIN scriptLL : scriptLL[k] \in Entry
         /\ Running = {Pair(scriptLL[k]) : k \in DOMAIN scriptLL}
         /\ Kept = {Pair(stored[p]) : p \in {q \in Places : Used(q)}}
         /\ Chosen \in DOMAIN scriptLL => Running = Others \union {Pair(scriptLL[Chosen])}
         /\ \A p \in Places : Used(p) => stored[p] \in Doc
         /\ \A x \in Kept : x[1] \in Names /\ x[2] \in Texts
<1>1. DOMAIN scriptLL = 1 .. Len(scriptLL) /\ Len(scriptLL) \in Nat
  BY LenProperties DEF ListTyped
<1>2. \A k \in DOMAIN scriptLL : scriptLL[k] \in Entry
  BY <1>1 DEF ListTyped
<1>3. /\ Running = {Pair(scriptLL[k]) : k \in DOMAIN scriptLL}
      /\ Kept = {Pair(stored[p]) : p \in {q \in Places : Used(q)}}
  BY DEF Running, Kept, Pair
<1>4. Chosen \in DOMAIN scriptLL => Running = Others \union {Pair(scriptLL[Chosen])}
  <2> HIDE DEF Chosen
  <2> QED
    BY <1>3 DEF Others
<1>5. \A p \in Places : Used(p) => stored[p] \in Doc
  BY DEF ListTyped, Used
<1>6. \A x \in Kept : x[1] \in Names /\ x[2] \in Texts
  BY <1>3, <1>5 DEF Pair, Doc
<1> QED
  BY <1>1, <1>2, <1>3, <1>4, <1>5, <1>6

(***************************************************************************)
(* A script's place is found by its name.                                  *)
(***************************************************************************)
LEMMA FirstIs ==
  /\ \A S \in SUBSET Places : S # {} => First(S) \in S /\ \A q \in S : First(S) <= q
  /\ \A p \in Places : First({p}) = p
<1>0. Places \subseteq Nat
  BY ScriptsAssumption DEF ScriptsAssumption
<1>1. ASSUME NEW S \in SUBSET Places, S # {} PROVE First(S) \in S /\ \A q \in S : First(S) <= q
  <2>1. \E p \in S : \A q \in S : p <= q
    <3>1. S \subseteq Nat
      BY <1>0
    <3> QED
      BY <1>1, <3>1, LeastExists
  <2> QED
    BY <2>1 DEF First
<1>2. ASSUME NEW p \in Places PROVE First({p}) = p
  BY <1>1
<1> QED
  BY <1>1, <1>2

LEMMA PlaceIs ==
  ASSUME NamedOnce, NEW p \in Places, Used(p)
  PROVE  Place(stored[p].name) = {p} /\ First(Place(stored[p].name)) = p
<1>1. Place(stored[p].name) = {p}
  BY DEF Place, NamedOnce
<1> QED
  BY <1>1, FirstIs

(***************************************************************************)
(* One place of the store is written.                                      *)
(***************************************************************************)
Elsewhere(p) == {Pair(stored[q]) : q \in {r \in Places \ {p} : Used(r)}}

LEMMA PlaceWritten ==
  ASSUME ListTyped, NamedOnce, NEW p \in Places, NEW d \in Doc, stored' = [stored EXCEPT ![p] = d],
         \A x \in Elsewhere(p) : x[1] # d.name
  PROVE  /\ stored' \in [Places -> Doc \union {NoScript}]
         /\ Kept' = Elsewhere(p) \union {Pair(d)}
         /\ \A q, r \in Places : q # r /\ Used(q)' /\ Used(r)' => stored'[q].name # stored'[r].name
<1>1. NoScript \notin Doc /\ stored \in [Places -> Doc \union {NoScript}]
  BY ScriptsAssumption DEF ScriptsAssumption, Doc, ListTyped
<1>2. /\ stored' \in [Places -> Doc \union {NoScript}]
      /\ stored'[p] = d /\ \A q \in Places \ {p} : stored'[q] = stored[q]
  BY <1>1
<1>3. Used(p)' /\ \A q \in Places \ {p} : Used(q)' <=> Used(q)
  BY <1>1, <1>2 DEF Used
<1>4. Kept' = {Pair(stored'[q]) : q \in {r \in Places : Used(r)'}}
  BY DEF Kept, Pair
<1>5. Kept' = Elsewhere(p) \union {Pair(d)}
  BY <1>2, <1>3, <1>4 DEF Elsewhere
<1>6. ASSUME NEW q \in Places \ {p}, Used(q) PROVE stored[q].name # d.name
  <2>1. Pair(stored[q]) \in Elsewhere(p)
    BY <1>6 DEF Elsewhere
  <2>2. Pair(stored[q])[1] # d.name
    BY <2>1
  <2> QED
    BY <2>2 DEF Pair
<1> QED
  BY <1>2, <1>3, <1>5, <1>6 DEF NamedOnce

(***************************************************************************)
(* When the store is a set of pairs and one more of another name, that is  *)
(* at one place, and the set elsewhere.                                    *)
(***************************************************************************)
LEMMA PlaceOfOne ==
  ASSUME ListTyped, NamedOnce, NEW O, NEW n, NEW t, Kept = O \union {<<n, t>>}, \A x \in O : x[1] # n
  PROVE  /\ Place(n) # {} /\ First(Place(n)) \in Places /\ Used(First(Place(n)))
         /\ stored[First(Place(n))].name = n
         /\ Elsewhere(First(Place(n))) = O
<1>0. PICK p : p = First(Place(n))
  OBVIOUS
<1>1. PICK q \in Places : Used(q) /\ Pair(stored[q]) = <<n, t>>
  BY ListParts
<1>2. stored[q].name = n /\ stored[q].text = t
  BY <1>1 DEF Pair
<1>3. p = q /\ Place(n) = {q}
  BY <1>0, <1>1, <1>2, PlaceIs
<1>4. \A r \in Places \ {p} : Used(r) => Pair(stored[r]) \in O
  <2> SUFFICES ASSUME NEW r \in Places \ {p}, Used(r) PROVE Pair(stored[r]) \in O
    OBVIOUS
  <2>1. Pair(stored[r]) \in Kept
    BY ListParts
  <2>2. stored[r].name # n
    BY <1>1, <1>2, <1>3 DEF NamedOnce
  <2> QED
    BY <2>1, <2>2 DEF Pair
<1>5. \A x \in O : x \in Elsewhere(p)
  <2> SUFFICES ASSUME NEW x \in O PROVE x \in Elsewhere(p)
    OBVIOUS
  <2>1. PICK r \in Places : Used(r) /\ Pair(stored[r]) = x
    BY ListParts
  <2>2. r # p
    BY <1>2, <1>3, <2>1 DEF Pair
  <2> QED
    BY <2>1, <2>2 DEF Elsewhere
<1>6. Elsewhere(p) = O
  BY <1>4, <1>5 DEF Elsewhere
<1> QED
  BY <1>0, <1>1, <1>2, <1>3, <1>6

(***************************************************************************)
(* An entry is put in front of the list.                                   *)
(***************************************************************************)
LEMMA Prepended ==
  ASSUME ListTyped, NamedOnce, NEW e \in Entry, scriptLL' = <<e>> \o scriptLL, e.name \notin Listed
  PROVE  /\ scriptLL' \in Seq(Entry) /\ Len(scriptLL') = Len(scriptLL) + 1 /\ scriptLL'[1] = e
         /\ {Pair(scriptLL'[k]) : k \in DOMAIN scriptLL' \ {1}} = Running
         /\ Running' = Running \union {Pair(e)}
         /\ \A j, k \in DOMAIN scriptLL' : j # k => scriptLL'[j].name # scriptLL'[k].name
<1>1. /\ scriptLL' \in Seq(Entry) /\ Len(scriptLL') = Len(scriptLL) + 1
      /\ \A i \in 1 .. Len(scriptLL) + 1 : scriptLL'[i] = IF i <= 1 THEN e ELSE scriptLL[i - 1]
  <2>1. <<e>> \in Seq(Entry) /\ Len(<<e>>) = 1 /\ <<e>>[1] = e /\ scriptLL \in Seq(Entry)
    BY DEF ListTyped
  <2>2. /\ <<e>> \o scriptLL \in Seq(Entry)
        /\ Len(<<e>> \o scriptLL) = Len(<<e>>) + Len(scriptLL)
        /\ \A i \in 1 .. Len(<<e>>) + Len(scriptLL) :
             (<<e>> \o scriptLL)[i] = IF i <= Len(<<e>>) THEN <<e>>[i] ELSE scriptLL[i - Len(<<e>>)]
    BY <2>1, ConcatProperties
  <2>3. Len(scriptLL) \in Nat
    BY ListParts
  <2> QED
    BY <2>1, <2>2, <2>3
<1>2. /\ DOMAIN scriptLL = 1 .. Len(scriptLL) /\ Len(scriptLL) \in Nat
      /\ DOMAIN scriptLL' = 1 .. Len(scriptLL) + 1
      /\ Running = {Pair(scriptLL[k]) : k \in DOMAIN scriptLL}
  BY <1>1, ListParts, LenProperties
<1>3. /\ scriptLL'[1] = e /\ 1 \in DOMAIN scriptLL'
      /\ \A k \in DOMAIN scriptLL' \ {1} : k - 1 \in DOMAIN scriptLL /\ scriptLL'[k] = scriptLL[k - 1]
      /\ \A k \in DOMAIN scriptLL : k + 1 \in DOMAIN scriptLL' \ {1} /\ scriptLL'[k + 1] = scriptLL[k]
  BY <1>1, <1>2
<1>4. {Pair(scriptLL'[k]) : k \in DOMAIN scriptLL' \ {1}} = Running
  <2>1. ASSUME NEW x \in Running PROVE \E k \in DOMAIN scriptLL' \ {1} : x = Pair(scriptLL'[k])
    <3>1. PICK k \in DOMAIN scriptLL : x = Pair(scriptLL[k])
      BY <1>2
    <3> QED
      BY <1>3, <3>1
  <2>2. ASSUME NEW k \in DOMAIN scriptLL' \ {1} PROVE Pair(scriptLL'[k]) \in Running
    BY <1>2, <1>3
  <2> QED
    BY <2>1, <2>2
<1>5. Running' = {Pair(scriptLL'[k]) : k \in DOMAIN scriptLL'}
  BY DEF Running, Pair
<1>6. Running' = Running \union {Pair(e)}
  BY <1>3, <1>4, <1>5
<1>7. \A k \in DOMAIN scriptLL' \ {1} : scriptLL'[k].name # e.name
  BY <1>3 DEF Listed
<1>8. ASSUME NEW j \in DOMAIN scriptLL', NEW k \in DOMAIN scriptLL', j # k
      PROVE  scriptLL'[j].name # scriptLL'[k].name
  <2>1. CASE j = 1 \/ k = 1
    BY <1>3, <1>7, <1>8, <2>1
  <2>2. CASE j # 1 /\ k # 1
    <3>1. j - 1 # k - 1
      BY <1>2, <1>8
    <3> QED
      BY <1>3, <2>2, <3>1 DEF NamedOnce
  <2> QED
    BY <2>1, <2>2
<1> QED
  BY <1>1, <1>3, <1>4, <1>6, <1>8

(***************************************************************************)
(* The chosen entry is written.                                            *)
(***************************************************************************)
LEMMA EntryWritten ==
  ASSUME ListTyped, NamedOnce, Chosen \in DOMAIN scriptLL, NEW e \in Entry,
         scriptLL' = [scriptLL EXCEPT ![Chosen] = e], Chosen' = Chosen,
         \A k \in DOMAIN scriptLL \ {Chosen} : scriptLL[k].name # e.name
  PROVE  /\ scriptLL' \in Seq(Entry) /\ Len(scriptLL') = Len(scriptLL)
         /\ DOMAIN scriptLL' = DOMAIN scriptLL
         /\ scriptLL'[Chosen] = e /\ \A k \in DOMAIN scriptLL \ {Chosen} : scriptLL'[k] = scriptLL[k]
         /\ Others' = Others /\ Running' = Others \union {Pair(e)}
         /\ \A j, k \in DOMAIN scriptLL' : j # k => scriptLL'[j].name # scriptLL'[k].name
<1> DEFINE c == Chosen
<1> HIDE DEF c
<1>0. c = Chosen
  BY DEF c
<1>1. DOMAIN scriptLL = 1 .. Len(scriptLL) /\ scriptLL \in Seq(Entry)
  BY ListParts DEF ListTyped
<1>2. /\ scriptLL' \in Seq(Entry) /\ Len(scriptLL') = Len(scriptLL)
      /\ \A j \in 1 .. Len(scriptLL) : scriptLL'[j] = IF j = c THEN e ELSE scriptLL[j]
  BY <1>0, <1>1, ExceptSeq
<1>3. DOMAIN scriptLL' = DOMAIN scriptLL
  BY <1>1, <1>2, LenProperties
<1>4. scriptLL'[c] = e /\ \A k \in DOMAIN scriptLL \ {c} : scriptLL'[k] = scriptLL[k]
  BY <1>0, <1>1, <1>2
<1>5. Others = {Pair(scriptLL[k]) : k \in DOMAIN scriptLL \ {c}}
  BY <1>0 DEF Others
<1>6. Others' = {Pair(scriptLL'[k]) : k \in DOMAIN scriptLL' \ {c}}
  BY <1>0 DEF Others
<1>7. Others' = Others
  BY <1>3, <1>4, <1>5, <1>6
<1>8. Running' = {Pair(scriptLL'[k]) : k \in DOMAIN scriptLL'}
  BY DEF Running, Pair
<1>9. Running' = Others \union {Pair(e)}
  BY <1>0, <1>3, <1>4, <1>6, <1>7, <1>8
<1> QED
  BY <1>0, <1>2, <1>3, <1>4, <1>7, <1>9 DEF NamedOnce

(***************************************************************************)
(* What the page's record is, for the sake of EXCEPT.                      *)
(***************************************************************************)
LEMMA PageIs ==
  ASSUME page \in Pages
  PROVE  page = [pc |-> page.pc, script |-> page.script, name |-> page.name, to |-> page.to,
                 button |-> page.button]
BY DEF Pages

LEMMA AnsweredIs ==
  ASSUME page \in Pages
  PROVE  Answered = [pc |-> "idle", script |-> page.script, name |-> page.name, to |-> NoName,
                     button |-> "none"]
<1>1. page = [pc |-> page.pc, script |-> page.script, name |-> page.name, to |-> page.to,
              button |-> page.button]
  BY PageIs
<1>2. PICK x : x = Answered
  OBVIOUS
<1>3. x = [page EXCEPT !.pc = "idle", !.to = NoName, !.button = "none"]
  BY <1>2 DEF Answered
<1>4. x = [pc |-> "idle", script |-> page.script, name |-> page.name, to |-> NoName,
           button |-> "none"]
  BY <1>1, <1>3
<1> QED
  BY <1>2, <1>4

(***************************************************************************)
(* A script is loaded.                                                     *)
(***************************************************************************)
LEMMA LoadKeepsList ==
  ASSUME IInv, ListInv, LoadScript, errors = 0, errors' = 0
  PROVE  ListInv'
<1>1. /\ tcl.pc = "load" /\ UNCHANGED <<stored, page>>
      /\ page.pc = "idle" /\ page.script = 0 /\ tcl.place \in Int /\ Running = KeptTo(tcl.place)
      /\ tcl = [pc |-> tcl.pc, event |-> tcl.event, place |-> tcl.place]
  BY DEF LoadScript, ListInv, LoadInv, IInv, Typed
<1>2. ListTyped /\ NamedOnce
  BY DEF ListInv
<1>3. Places \subseteq Nat /\ Empty \in Texts
  BY ScriptsAssumption DEF ScriptsAssumption
<1> DEFINE rest == {p \in Places : p > tcl.place /\ Used(p)}
<1>4. CASE rest = {} /\ Loaded /\ scriptLL' = scriptLL
  <2>1. tcl'.pc = "fetch" /\ tclCmd' = Empty
    BY <1>1, <1>4 DEF Loaded
  <2>2. ListTyped' /\ NamedOnce'
    BY <1>1, <1>2, <1>3, <1>4, <2>1 DEF ListTyped, NamedOnce, Used
  <2>3. {q \in Places : Used(q) /\ q <= tcl.place} = {q \in Places : Used(q)}
    BY <1>1, <1>3, <1>4
  <2>4. Running = Kept
    BY <1>1, <1>2, <2>3, ListParts DEF KeptTo
  <2>5. Running' = Running /\ Kept' = Kept
    BY <1>1, <1>4 DEF Running, Kept, Used
  <2> QED
    BY <1>1, <2>1, <2>2, <2>4, <2>5 DEF ListInv, LoadInv, PageInv, EvenInv, RenameInv, SaveInv
<1>5. CASE /\ rest # {} /\ tcl' = [tcl EXCEPT !.place = First(rest)]
           /\ LET n    == stored[First(rest)].name
                  text == stored[First(Place(n))].text
              IN  tclCmd' = text /\ scriptLL' = <<[name |-> n, text |-> text]>> \o scriptLL
  <2>0. PICK p : p = First(rest)
    OBVIOUS
  <2> DEFINE e == [name |-> stored[p].name, text |-> stored[p].text]
  <2>1. p \in Places /\ p > tcl.place /\ Used(p) /\ \A q \in rest : p <= q
    <3>1. rest \in SUBSET Places /\ rest # {}
      BY <1>5
    <3>2. First(rest) \in rest /\ \A q \in rest : First(rest) <= q
      BY <3>1, FirstIs
    <3> QED
      BY <2>0, <3>2
  <2>2. tcl'.pc = "load" /\ tcl'.place = p
    <3>1. tcl' = [pc |-> "load", event |-> tcl.event, place |-> p]
      BY <1>1, <1>5, <2>0
    <3> QED
      BY <3>1
  <2>3. tclCmd' = stored[p].text /\ scriptLL' = <<e>> \o scriptLL
    BY <1>2, <1>5, <2>0, <2>1, PlaceIs
  <2>4. stored[p] \in Doc /\ e \in Entry /\ Pair(e) = Pair(stored[p])
    BY <1>2, <2>1, ListParts DEF Doc, Entry, Pair
  <2>5. e.name \notin Listed
    <3> SUFFICES ASSUME NEW k \in DOMAIN scriptLL, scriptLL[k].name = stored[p].name PROVE FALSE
      BY DEF Listed
    <3>1. Pair(scriptLL[k]) \in KeptTo(tcl.place)
      BY <1>1, <1>2, ListParts
    <3>2. PICK q \in Places : Used(q) /\ q <= tcl.place /\ Pair(stored[q]) = Pair(scriptLL[k])
      BY <3>1 DEF KeptTo
    <3>3. stored[q].name = stored[p].name /\ q # p
      BY <1>1, <1>3, <2>1, <3>2 DEF Pair
    <3> QED
      BY <1>2, <2>1, <3>2, <3>3 DEF NamedOnce
  <2>6. /\ scriptLL' \in Seq(Entry) /\ Len(scriptLL') = Len(scriptLL) + 1
        /\ Running' = Running \union {Pair(e)}
        /\ \A j, k \in DOMAIN scriptLL' : j # k => scriptLL'[j].name # scriptLL'[k].name
    <3> HIDE DEF e
    <3> QED
      BY <1>2, <2>3, <2>4, <2>5, Prepended
  <2>7. KeptTo(p)' = KeptTo(tcl.place) \union {Pair(stored[p])}
    <3>1. \A q \in Places : Used(q)' <=> Used(q)
      BY <1>1 DEF Used
    <3>2. \A q \in Places : Used(q) /\ q <= p <=> (Used(q) /\ q <= tcl.place) \/ q = p
      <4>1. \A q \in Places : Used(q) /\ ~(q <= tcl.place) => p <= q
        BY <1>1, <1>3, <2>1
      <4> QED
        BY <1>1, <1>3, <2>1, <4>1
    <3>3. KeptTo(p)' = {Pair(stored'[q]) : q \in {r \in Places : Used(r)' /\ r <= p}}
      BY DEF KeptTo
    <3>4. {r \in Places : Used(r)' /\ r <= p} = {r \in Places : Used(r) /\ r <= tcl.place} \union {p}
      BY <2>1, <3>1, <3>2
    <3> QED
      BY <1>1, <3>3, <3>4 DEF KeptTo
  <2>8. ListTyped'
    <3>1. Len(scriptLL) \in Nat
      BY <1>2, ListParts
    <3> QED
      BY <1>1, <1>2, <2>3, <2>4, <2>6, <3>1 DEF ListTyped, Doc
  <2>9. NamedOnce'
    BY <1>1, <1>2, <2>6 DEF NamedOnce, Used
  <2>10. KeptTo(tcl.place)' = KeptTo(p)'
    BY <2>2 DEF KeptTo
  <2>11. Running' = KeptTo(tcl.place)'
    <3> HIDE DEF e
    <3> QED
      BY <1>1, <2>4, <2>6, <2>7, <2>10
  <2>12. page' = page /\ tcl'.place \in Int
    BY <1>1, <1>3, <2>1, <2>2
  <2>13. LoadInv'
    BY <1>1, <2>11, <2>12 DEF LoadInv
  <2>14. PageInv'
    BY <2>2 DEF PageInv
  <2> HIDE DEF rest
  <2> QED
    BY <2>8, <2>9, <2>13, <2>14 DEF ListInv
<1>6. errors' # errors + 1
  OBVIOUS
<1> QED
  BY <1>4, <1>5, <1>6, Zenon DEF LoadScript

(***************************************************************************)
(* The steps of others leave list and store alone.                         *)
(***************************************************************************)
LEMMA OthersKeepList ==
  ASSUME ListInv, UNCHANGED scripts, tcl' = tcl \/ (tcl.pc # "load" /\ tcl'.pc # "load")
  PROVE  ListInv'
<1>1. UNCHANGED <<scriptLL, tclCmd, stored, page, errors>>
  BY DEF scripts
<1>2. ListTyped' /\ NamedOnce' /\ Running' = Running /\ Kept' = Kept /\ Others' = Others
      /\ Chosen' = Chosen
  BY <1>1 DEF ListInv, ListTyped, NamedOnce, Running, Kept, Others, Chosen, Used
<1>3. tcl' = tcl => KeptTo(tcl.place)' = KeptTo(tcl.place)
  BY <1>1 DEF KeptTo, Used
<1> QED
  BY <1>1, <1>2, <1>3 DEF ListInv, LoadInv, PageInv, EvenInv, RenameInv, SaveInv

(***************************************************************************)
(* A request comes.                                                        *)
(***************************************************************************)
LEMMA SelectKeepsList ==
  ASSUME ListInv, NEW k \in 0 .. Len(scriptLL), Select(k)
  PROVE  ListInv'
<1>1. /\ page.pc = "idle" /\ tcl.pc # "load" /\ UNCHANGED <<tcl, scriptLL, stored>>
      /\ ListTyped /\ NamedOnce /\ Running = Kept
  BY DEF Select, PageStarts, ListInv, PageInv, EvenInv
<1>2. k # 0 => scriptLL[k] \in Entry
  BY <1>1, ListParts
<1>3. page' = [pc |-> "idle", script |-> k, name |-> IF k = 0 THEN NoName ELSE scriptLL[k].name,
               to |-> page.to, button |-> page.button]
  BY <1>1, PageIs DEF Select, ListTyped
<1>4. tclCmd' \in Texts
  BY <1>2, ScriptsAssumption DEF Select, Entry, ScriptsAssumption
<1>5. ListTyped' /\ NamedOnce'
  BY <1>1, <1>2, <1>3, <1>4 DEF ListTyped, NamedOnce, Used, Pages, Entry
<1>6. Running' = Kept'
  BY <1>1 DEF Running, Kept, Used
<1> QED
  BY <1>1, <1>3, <1>5, <1>6 DEF ListInv, LoadInv, PageInv, EvenInv, RenameInv, SaveInv

LEMMA SubmitKeepsList ==
  ASSUME ListInv, errors = 0, errors' = 0, NEW text \in Texts, NEW n \in Names \union {NoName},
         NEW button \in {"none", "run", "save"}, Submit(text, n, button)
  PROVE  ListInv'
<1>1. /\ page.pc = "idle" /\ tcl.pc # "load" /\ UNCHANGED <<tcl, stored>> /\ tclCmd' = text
      /\ ListTyped /\ NamedOnce /\ Running = Kept
      /\ page.script # 0 => page.name = scriptLL[page.script].name
  BY DEF Submit, PageStarts, ListInv, PageInv, EvenInv
<1>2. Kept' = Kept /\ \A p \in Places : Used(p)' <=> Used(p)
  BY <1>1 DEF Kept, Used
<1>3. CASE /\ page.script # 0 /\ n # NoName
           /\ page' = [page EXCEPT !.pc = "naming", !.to = n, !.button = button]
           /\ scriptLL' = [scriptLL EXCEPT ![page.script].name = NoName]
           /\ n \notin Listed
  <2> DEFINE c == page.script
             e == [name |-> NoName, text |-> scriptLL[c].text]
  <2>1. page' = [pc |-> "naming", script |-> c, name |-> page.name, to |-> n, button |-> button]
    BY <1>1, <1>3, PageIs DEF ListTyped
  <2>2. Chosen = c /\ Chosen' = c /\ c \in DOMAIN scriptLL /\ scriptLL[c] \in Entry
    BY <1>1, <1>3, <2>1, ListParts DEF Chosen, ListTyped
  <2>3. e \in Entry /\ scriptLL' = [scriptLL EXCEPT ![Chosen] = e]
    <3>1. [scriptLL[c] EXCEPT !.name = NoName] = e
      BY <2>2 DEF Entry
    <3> QED
      BY <1>3, <2>2, <3>1 DEF Entry
  <2>4. \A x \in Running : x[1] \in Names
    BY <1>1, ListParts
  <2>5. ASSUME NEW k \in DOMAIN scriptLL PROVE scriptLL[k].name \in Names
    <3>1. Pair(scriptLL[k]) \in Running
      BY <1>1, ListParts
    <3>2. Pair(scriptLL[k])[1] \in Names
      BY <2>4, <3>1
    <3> QED
      BY <3>2 DEF Pair
  <2>6. NoName \notin Names
    BY ScriptsAssumption DEF ScriptsAssumption
  <2>7. /\ scriptLL' \in Seq(Entry) /\ Len(scriptLL') = Len(scriptLL)
        /\ DOMAIN scriptLL' = DOMAIN scriptLL
        /\ scriptLL'[c] = e /\ \A k \in DOMAIN scriptLL \ {c} : scriptLL'[k] = scriptLL[k]
        /\ Others' = Others
        /\ \A j, k \in DOMAIN scriptLL' : j # k => scriptLL'[j].name # scriptLL'[k].name
    <3>1. \A k \in DOMAIN scriptLL \ {Chosen} : scriptLL[k].name # e.name
      BY <2>5, <2>6
    <3>2. Chosen' = Chosen /\ Chosen \in DOMAIN scriptLL
      BY <2>2
    <3> HIDE DEF e
    <3> QED
      BY <1>1, <2>2, <2>3, <3>1, <3>2, EntryWritten
  <2>8. Kept = Others \union {<<page.name, scriptLL[c].text>>}
    BY <1>1, <2>2, <1>3, ListParts DEF Pair
  <2>9. \A k \in DOMAIN scriptLL \ {c} : scriptLL[k].name \notin {n, page.name}
    BY <1>1, <1>3, <2>2 DEF NamedOnce, Listed
  <2>10. page.name \in Names
    BY <1>1, <1>3, <2>2, <2>5
  <2>11. ListTyped' /\ NamedOnce'
    BY <1>1, <1>2, <2>1, <2>7, <2>10 DEF ListTyped, NamedOnce, Pages
  <2> QED
    BY <1>1, <1>2, <1>3, <2>1, <2>2, <2>7, <2>8, <2>9, <2>10, <2>11
    DEF ListInv, LoadInv, PageInv, EvenInv, RenameInv, SaveInv
<1>4. CASE /\ scriptLL' = scriptLL
           /\ \/ page' = [page EXCEPT !.pc = "button", !.button = button]
              \/ /\ ~(n # page.name /\ page.script # 0)
                 /\ page' = [page EXCEPT !.pc = "button", !.name = n, !.button = button]
  <2>1. \E m \in Names \union {NoName} :
          /\ page' = [pc |-> "button", script |-> page.script, name |-> m, to |-> page.to,
                      button |-> button]
          /\ page.script # 0 => m = page.name
    <3>1. CASE page' = [page EXCEPT !.pc = "button", !.button = button]
      BY <1>1, <3>1, PageIs DEF ListTyped, Pages
    <3>2. CASE /\ ~(n # page.name /\ page.script # 0)
               /\ page' = [page EXCEPT !.pc = "button", !.name = n, !.button = button]
      BY <1>1, <3>2, PageIs DEF ListTyped, Pages
    <3> QED
      BY <1>4, <3>1, <3>2
  <2>2. ListTyped' /\ NamedOnce'
    BY <1>1, <1>2, <1>4, <2>1 DEF ListTyped, NamedOnce, Pages
  <2>3. Running' = Running
    BY <1>4 DEF Running
  <2> QED
    BY <1>1, <1>2, <1>4, <2>1, <2>2, <2>3 DEF ListInv, LoadInv, PageInv, EvenInv, RenameInv, SaveInv
<1>5. errors' = errors + (IF n \in Listed THEN 1 ELSE 0) => n \notin Listed
  OBVIOUS
<1> QED
  BY <1>3, <1>4, <1>5 DEF Submit

(***************************************************************************)
(* A request that leaves list and store as they are is answered.           *)
(***************************************************************************)
LEMMA AnswerKeepsList ==
  ASSUME ListInv, page.pc = "button", page' = Answered, UNCHANGED <<tcl, scriptLL, tclCmd, stored>>
  PROVE  ListInv'
<1>1. ListTyped /\ NamedOnce /\ tcl.pc # "load" /\ EvenInv
  BY DEF ListInv, LoadInv, PageInv
<1>2. page' = [pc |-> "idle", script |-> page.script, name |-> page.name, to |-> NoName,
               button |-> "none"]
  BY <1>1, AnsweredIs DEF ListTyped
<1>3. ListTyped' /\ NamedOnce' /\ Running' = Running /\ Kept' = Kept
  BY <1>1, <1>2 DEF ListTyped, NamedOnce, Used, Running, Kept, Pages
<1> QED
  BY <1>1, <1>2, <1>3 DEF ListInv, LoadInv, PageInv, EvenInv, RenameInv, SaveInv

(***************************************************************************)
(* The two halves of a renaming: in the list, and in the store.            *)
(***************************************************************************)
LEMMA NamedKeepsList ==
  ASSUME ListInv, Named
  PROVE  ListInv'
<1>1. /\ page.pc = "naming" /\ UNCHANGED <<tcl, tclCmd, stored>> /\ tcl.pc # "load"
      /\ ListTyped /\ NamedOnce /\ RenameInv
  BY DEF Named, ListInv, PageInv, LoadInv
<1> DEFINE c == page.script
           e == [name |-> page.to, text |-> scriptLL[c].text]
<1>2. page' = [pc |-> "renaming", script |-> c, name |-> page.name, to |-> page.to,
               button |-> page.button]
  BY <1>1, PageIs DEF Named, ListTyped
<1>3. Chosen = c /\ Chosen' = c /\ c \in DOMAIN scriptLL /\ scriptLL[c] \in Entry /\ page.to \in Names
  BY <1>1, <1>2, ListParts DEF Chosen, ListTyped, RenameInv
<1>4. e \in Entry /\ scriptLL' = [scriptLL EXCEPT ![Chosen] = e]
  <2>1. [scriptLL[c] EXCEPT !.name = page.to] = e
    BY <1>3 DEF Entry
  <2> QED
    BY <1>3, <2>1 DEF Named, Entry
<1>5. /\ scriptLL' \in Seq(Entry) /\ Len(scriptLL') = Len(scriptLL)
      /\ DOMAIN scriptLL' = DOMAIN scriptLL
      /\ scriptLL'[c] = e /\ \A k \in DOMAIN scriptLL \ {c} : scriptLL'[k] = scriptLL[k]
      /\ Others' = Others
      /\ \A j, k \in DOMAIN scriptLL' : j # k => scriptLL'[j].name # scriptLL'[k].name
  <2>1. \A k \in DOMAIN scriptLL \ {Chosen} : scriptLL[k].name # e.name
    BY <1>1 DEF RenameInv
  <2> HIDE DEF e
  <2> QED
    BY <1>1, <1>3, <1>4, <2>1, EntryWritten
<1>6. ListTyped' /\ NamedOnce' /\ Kept' = Kept
  BY <1>1, <1>2, <1>5 DEF ListTyped, NamedOnce, Used, Kept, Pages
<1> QED
  BY <1>1, <1>2, <1>3, <1>5, <1>6 DEF ListInv, LoadInv, PageInv, EvenInv, RenameInv, SaveInv

LEMMA RenamedKeepsList ==
  ASSUME ListInv, Renamed, errors = 0, errors' = 0
  PROVE  ListInv'
<1>1. /\ page.pc = "renaming" /\ UNCHANGED <<tcl, tclCmd, scriptLL>> /\ tcl.pc # "load"
      /\ ListTyped /\ NamedOnce /\ RenameInv
  BY DEF Renamed, ListInv, PageInv, LoadInv
<1> DEFINE c == page.script
           p == First(Place(page.name))
           d == [name |-> page.to, text |-> scriptLL[c].text]
<1>2. /\ stored' = [stored EXCEPT ![p].name = page.to]
      /\ page' = [page EXCEPT !.pc = "button", !.name = page.to, !.to = NoName]
  BY DEF Renamed
<1>3. page' = [pc |-> "button", script |-> c, name |-> page.to, to |-> NoName,
               button |-> page.button]
  BY <1>1, <1>2, PageIs DEF ListTyped
<1>4. /\ Chosen = c /\ c \in DOMAIN scriptLL /\ scriptLL[c] \in Entry
      /\ page.to \in Names /\ page.name \in Names /\ scriptLL[c].name = page.to
      /\ Kept = Others \union {<<page.name, scriptLL[c].text>>}
      /\ \A k \in DOMAIN scriptLL \ {c} : scriptLL[k].name \notin {page.to, page.name}
  BY <1>1, ListParts DEF Chosen, ListTyped, RenameInv
<1>5. \A x \in Others : x[1] \notin {page.to, page.name}
  BY <1>4 DEF Others, Pair
<1>6. /\ p \in Places /\ Used(p) /\ stored[p].name = page.name /\ stored[p].text = scriptLL[c].text
      /\ Elsewhere(p) = Others
  <2>1. \A x \in Others : x[1] # page.name
    BY <1>5
  <2>2. p \in Places /\ Used(p) /\ stored[p].name = page.name /\ Elsewhere(p) = Others
    BY <1>1, <1>4, <2>1, PlaceOfOne
  <2>3. Pair(stored[p]) \in Kept
    BY <1>1, <2>2, ListParts
  <2>4. Pair(stored[p]) = <<page.name, scriptLL[c].text>>
    BY <1>4, <2>1, <2>2, <2>3 DEF Pair
  <2> QED
    BY <2>2, <2>4 DEF Pair
<1>7. d \in Doc /\ stored' = [stored EXCEPT ![p] = d]
  <2>1. stored[p] \in Doc
    BY <1>1, <1>6, ListParts
  <2>2. [stored[p] EXCEPT !.name = page.to] = d /\ d \in Doc
    BY <1>4, <1>6, <2>1 DEF Doc
  <2> QED
    BY <1>2, <2>2 DEF Doc
<1>8. /\ stored' \in [Places -> Doc \union {NoScript}]
      /\ Kept' = Others \union {Pair(d)}
      /\ \A q, r \in Places : q # r /\ Used(q)' /\ Used(r)' => stored'[q].name # stored'[r].name
  <2>1. \A x \in Elsewhere(p) : x[1] # d.name
    BY <1>5, <1>6
  <2> HIDE DEF p, d
  <2> QED
    BY <1>1, <1>6, <1>7, <2>1, PlaceWritten
<1>9. Running' = Kept'
  <2>1. Running' = Running /\ Running = Others \union {Pair(scriptLL[c])}
    BY <1>1, <1>4, ListParts DEF Running
  <2> QED
    BY <1>4, <1>8, <2>1 DEF Pair
<1>10. ListTyped' /\ NamedOnce'
  BY <1>1, <1>3, <1>4, <1>8 DEF ListTyped, NamedOnce, Pages
<1> QED
  BY <1>1, <1>3, <1>4, <1>9, <1>10 DEF ListInv, LoadInv, PageInv, EvenInv, RenameInv, SaveInv

(***************************************************************************)
(* A script is saved: the list first, then the store.                      *)
(***************************************************************************)
LEMMA SaveNewKeepsList ==
  ASSUME ListInv, SaveNew, errors = 0, errors' = 0
  PROVE  ListInv'
<1>1. /\ page.pc = "button" /\ page.script = 0 /\ UNCHANGED <<tcl, tclCmd, stored>> /\ tcl.pc # "load"
      /\ ListTyped /\ NamedOnce /\ Running = Kept
  BY DEF SaveNew, ListInv, PageInv, LoadInv, EvenInv
<1>2. CASE page' = Answered /\ scriptLL' = scriptLL
  BY <1>1, <1>2, AnswerKeepsList
<1>3. CASE /\ page.name # NoName /\ page.name \notin Listed
           /\ scriptLL' = <<[name |-> page.name, text |-> tclCmd]>> \o scriptLL
           /\ page' = [page EXCEPT !.pc = "storing"]
  <2> DEFINE e == [name |-> page.name, text |-> tclCmd]
  <2>1. page' = [pc |-> "storing", script |-> 0, name |-> page.name, to |-> page.to,
                 button |-> page.button]
    BY <1>1, <1>3, PageIs DEF ListTyped
  <2>2. page.name \in Names /\ e \in Entry
    BY <1>1, <1>3 DEF ListTyped, Pages, Entry
  <2>3. /\ scriptLL' \in Seq(Entry) /\ Len(scriptLL') = Len(scriptLL) + 1 /\ scriptLL'[1] = e
        /\ {Pair(scriptLL'[k]) : k \in DOMAIN scriptLL' \ {1}} = Running
        /\ \A j, k \in DOMAIN scriptLL' : j # k => scriptLL'[j].name # scriptLL'[k].name
    <3>1. e.name \notin Listed /\ scriptLL' = <<e>> \o scriptLL
      BY <1>3
    <3> HIDE DEF e
    <3> QED
      BY <1>1, <2>2, <3>1, Prepended
  <2>4. Chosen' = 1
    BY <2>1 DEF Chosen
  <2>5. Others' = Kept'
    <3>1. Others' = {Pair(scriptLL'[k]) : k \in DOMAIN scriptLL' \ {1}}
      BY <2>4 DEF Others
    <3>2. Kept' = Kept
      BY <1>1 DEF Kept, Used
    <3> QED
      BY <1>1, <2>3, <3>1, <3>2
  <2>6. Len(scriptLL) \in Nat
    BY <1>1, ListParts
  <2>7. ListTyped' /\ NamedOnce' /\ scriptLL' # <<>>
    BY <1>1, <2>1, <2>2, <2>3, <2>6 DEF ListTyped, NamedOnce, Used, Pages
  <2> QED
    BY <1>1, <2>1, <2>2, <2>3, <2>4, <2>5, <2>7
    DEF ListInv, LoadInv, PageInv, EvenInv, RenameInv, SaveInv
<1>4. errors' = errors + (IF page.name \in Listed THEN 1 ELSE 0) => page.name \notin Listed
  OBVIOUS
<1> QED
  BY <1>2, <1>3, <1>4 DEF SaveNew

LEMMA SaveOldKeepsList ==
  ASSUME ListInv, SaveOld, errors = 0, errors' = 0
  PROVE  ListInv'
<1>1. /\ page.pc = "button" /\ page.script # 0 /\ UNCHANGED <<tcl, tclCmd, stored>> /\ tcl.pc # "load"
      /\ ListTyped /\ NamedOnce /\ Running = Kept /\ page.name = scriptLL[page.script].name
      /\ scriptLL' = [scriptLL EXCEPT ![page.script].text = tclCmd]
      /\ page' = [page EXCEPT !.pc = "storing"]
  BY DEF SaveOld, ListInv, PageInv, LoadInv, EvenInv
<1> DEFINE c == page.script
           e == [name |-> page.name, text |-> tclCmd]
<1>2. page' = [pc |-> "storing", script |-> c, name |-> page.name, to |-> page.to,
               button |-> page.button]
  BY <1>1, PageIs DEF ListTyped
<1>3. Chosen = c /\ Chosen' = c /\ c \in DOMAIN scriptLL /\ scriptLL[c] \in Entry
  BY <1>1, <1>2, ListParts DEF Chosen, ListTyped
<1>4. e \in Entry /\ scriptLL' = [scriptLL EXCEPT ![Chosen] = e]
  <2>1. [scriptLL[c] EXCEPT !.text = tclCmd] = e
    BY <1>1, <1>3 DEF Entry
  <2> QED
    BY <1>1, <1>3, <2>1 DEF ListTyped, Pages, Entry
<1>5. /\ scriptLL' \in Seq(Entry) /\ Len(scriptLL') = Len(scriptLL)
      /\ DOMAIN scriptLL' = DOMAIN scriptLL
      /\ scriptLL'[c] = e /\ Others' = Others
      /\ \A j, k \in DOMAIN scriptLL' : j # k => scriptLL'[j].name # scriptLL'[k].name
  <2>1. \A k \in DOMAIN scriptLL \ {Chosen} : scriptLL[k].name # e.name
    BY <1>1, <1>3 DEF NamedOnce
  <2> HIDE DEF e
  <2> QED
    BY <1>1, <1>3, <1>4, <2>1, EntryWritten
<1>6. ListTyped' /\ NamedOnce' /\ Kept' = Kept
  <2>1. page' \in Pages /\ page'.script = page.script
    BY <1>1, <1>2 DEF ListTyped, Pages
  <2>2. ListTyped'
    BY <1>1, <1>5, <2>1 DEF ListTyped
  <2>3. NamedOnce' /\ Kept' = Kept
    BY <1>1, <1>5 DEF NamedOnce, Used, Kept
  <2> QED
    BY <2>2, <2>3
<1>7. Kept = Others \union {<<page.name, scriptLL[c].text>>}
  BY <1>1, <1>3, ListParts DEF Pair
<1>8. page.name \in Names /\ scriptLL[c].text \in Texts
  <2>1. <<page.name, scriptLL[c].text>> \in Kept
    BY <1>7
  <2> QED
    BY <1>1, <2>1, ListParts
<1>9. scriptLL' # <<>>
  BY <1>3, <1>5
<1> QED
  BY <1>1, <1>2, <1>3, <1>5, <1>6, <1>7, <1>8, <1>9
  DEF ListInv, LoadInv, PageInv, EvenInv, RenameInv, SaveInv

LEMMA StoredKeepsList ==
  ASSUME ListInv, Stored, errors = 0, errors' = 0
  PROVE  ListInv'
<1> DEFINE d == [name |-> page.name, text |-> tclCmd]
           p == IF Place(page.name) # {} THEN First(Place(page.name))
                ELSE First({q \in Places : ~Used(q)})
<1>1. /\ page.pc = "storing" /\ UNCHANGED <<tcl, tclCmd, scriptLL>> /\ tcl.pc # "load"
      /\ ListTyped /\ NamedOnce /\ SaveInv
      /\ Place(page.name) # {} \/ \E q \in Places : ~Used(q)
      /\ stored' = [stored EXCEPT ![p] = d]
  BY DEF Stored, ListInv, PageInv, LoadInv
<1>2. page' = [pc |-> "idle", script |-> Chosen, name |-> page.name, to |-> NoName, button |-> "none"]
  BY <1>1, AnsweredIs DEF Stored, Chosen, ListTyped
<1>3. /\ page.name \in Names /\ d \in Doc
      /\ Chosen \in DOMAIN scriptLL /\ scriptLL[Chosen] = d
      /\ Running = Others \union {Pair(d)}
  <2>1. Len(scriptLL) # 0
    BY <1>1, EmptySeq DEF SaveInv, ListTyped
  <2>2. Chosen \in DOMAIN scriptLL
    BY <1>1, <2>1, ListParts DEF ListTyped, Chosen
  <2> QED
    BY <1>1, <2>2, ListParts DEF SaveInv, ListTyped, Doc
<1>4. \A x \in Others : x[1] # page.name
  BY <1>1, <1>3 DEF Others, Pair, NamedOnce
<1>5. p \in Places /\ Elsewhere(p) = Others
  <2>1. CASE Kept = Others
    <3>1. Place(page.name) = {}
      <4> SUFFICES ASSUME NEW q \in Places, Used(q), stored[q].name = page.name PROVE FALSE
        BY DEF Place
      <4>1. Pair(stored[q]) \in Others
        BY <1>1, <2>1, ListParts
      <4> QED
        BY <1>4, <4>1 DEF Pair
    <3>2. p \in {q \in Places : ~Used(q)}
      <4>1. {q \in Places : ~Used(q)} # {} /\ {q \in Places : ~Used(q)} \in SUBSET Places
        BY <1>1, <3>1
      <4> QED
        BY <3>1, <4>1, FirstIs
    <3>3. Elsewhere(p) = Kept
      <4> HIDE DEF p
      <4>1. {r \in Places \ {p} : Used(r)} = {r \in Places : Used(r)}
        BY <3>2
      <4> QED
        BY <1>1, <4>1, ListParts DEF Elsewhere
    <3> QED
      BY <2>1, <3>2, <3>3
  <2>2. ASSUME NEW t \in Texts, Kept = Others \union {<<page.name, t>>}
        PROVE  p \in Places /\ Elsewhere(p) = Others
    <3>1. First(Place(page.name)) \in Places /\ Place(page.name) # {}
          /\ Elsewhere(First(Place(page.name))) = Others
      BY <1>1, <1>4, <2>2, PlaceOfOne
    <3> QED
      BY <3>1
  <2> QED
    BY <1>1, <2>1, <2>2 DEF SaveInv
<1>6. /\ stored' \in [Places -> Doc \union {NoScript}]
      /\ Kept' = Others \union {Pair(d)}
      /\ \A q, r \in Places : q # r /\ Used(q)' /\ Used(r)' => stored'[q].name # stored'[r].name
  <2>1. \A x \in Elsewhere(p) : x[1] # d.name
    BY <1>4, <1>5
  <2> HIDE DEF p, d
  <2> QED
    BY <1>1, <1>3, <1>5, <2>1, PlaceWritten
<1>7. Running' = Running
  BY <1>1 DEF Running
<1>8. Chosen \in 1 .. Len(scriptLL) /\ Chosen \in Nat
  BY <1>1, <1>3, ListParts
<1>9. ListTyped' /\ NamedOnce'
  BY <1>1, <1>2, <1>6, <1>8 DEF ListTyped, NamedOnce, Pages
<1>10. page'.script # 0 => page'.name = scriptLL'[page'.script].name
  BY <1>1, <1>2, <1>3
<1> QED
  BY <1>1, <1>2, <1>3, <1>6, <1>7, <1>9, <1>10 DEF ListInv, LoadInv, PageInv, EvenInv, RenameInv, SaveInv

(***************************************************************************)
(* The list and the store, always.                                         *)
(***************************************************************************)
ErrorInv == errors \in Nat /\ (errors = 0 => ListInv)

LEMMA NextErrors ==
  ASSUME IInv, ErrorInv, [Next]_vars
  PROVE  ErrorInv'
<1>1. errors' \in Nat /\ (errors' = 0 => errors = 0)
  <2>1. errors' = errors \/ errors' = errors + 1
    <3>1. CASE Waiting \/ UNCHANGED vars \/ LoadScript
      BY <3>1 DEF ErrorInv, Waiting, Evaluate, TakeResult, TimeOut, LoadScript, vars, scripts
    <3>2. CASE TclFetch \/ TclEval \/ TclCallback \/ TclFree
      BY <3>2 DEF TclFetch, TclEval, TclCallback, TclFree, scripts
    <3>3. ASSUME NEW text, NEW n, NEW button, Submit(text, n, button)
          PROVE  errors' = errors \/ errors' = errors + 1
      BY <3>3 DEF Submit, ErrorInv
    <3>4. CASE (\E k \in 0 .. Len(scriptLL) : Select(k)) \/ Named \/ Renamed \/ Apply \/ Run
      BY <3>4 DEF Select, Named, Renamed, Apply, Run
    <3>5. CASE SaveNew \/ SaveOld \/ Stored
      BY <3>5 DEF SaveNew, SaveOld, Stored, ErrorInv
    <3> QED
      BY <3>1, <3>2, <3>3, <3>4, <3>5 DEF Next, TclThread, Requests
  <2> QED
    BY <2>1 DEF ErrorInv
<1> SUFFICES ASSUME errors = 0, errors' = 0, ListInv PROVE ListInv'
  BY <1>1 DEF ErrorInv
<1>2. CASE Waiting \/ TclFetch \/ TclEval \/ TclCallback \/ TclFree \/ UNCHANGED vars
  <2>1. UNCHANGED scripts
    BY <1>2 DEF Waiting, Evaluate, TakeResult, TimeOut, TclFetch, TclEval, TclCallback, TclFree, vars
  <2>2. tcl' = tcl \/ (tcl.pc # "load" /\ tcl'.pc # "load")
    <3>1. tcl = [pc |-> tcl.pc, event |-> tcl.event, place |-> tcl.place]
      BY DEF IInv, Typed
    <3>2. CASE TclFetch \/ TclEval \/ TclCallback \/ TclFree
      <4>1. tcl.pc # "load"
        BY <3>2 DEF TclFetch, TclEval, TclCallback, TclFree
      <4>2. \E e : \/ tcl' = [pc |-> "eval", event |-> e, place |-> tcl.place]
                   \/ tcl' = [pc |-> "callback", event |-> e, place |-> tcl.place]
                   \/ tcl' = [pc |-> "free", event |-> e, place |-> tcl.place]
                   \/ tcl' = [pc |-> "fetch", event |-> e, place |-> tcl.place]
        BY <3>1, <3>2 DEF TclFetch, TclEval, TclCallback, TclFree
      <4> QED
        BY <4>1, <4>2
    <3> QED
      BY <1>2, <3>2 DEF Waiting, Evaluate, TakeResult, TimeOut, vars
  <2> QED
    BY <2>1, <2>2, OthersKeepList
<1>3. CASE Apply \/ Run
  BY <1>3, AnswerKeepsList DEF Apply, Run
<1> QED
  BY <1>2, <1>3, LoadKeepsList, SelectKeepsList, SubmitKeepsList, NamedKeepsList, RenamedKeepsList,
     SaveNewKeepsList, SaveOldKeepsList, StoredKeepsList DEF Next, TclThread, Requests

LEMMA InitErrors ==
  ASSUME Init
  PROVE  ErrorInv
<1>1. /\ tcl = [pc |-> "load", event |-> NoEvent, place |-> -1] /\ scriptLL = <<>> /\ tclCmd = Empty
      /\ stored \in [Places -> Doc \union {NoScript}]
      /\ page = [pc |-> "idle", script |-> 0, name |-> NoName, to |-> NoName, button |-> "none"]
      /\ errors \in Nat
      /\ errors = 0 => \A p, q \in Places : p # q /\ Used(p) /\ Used(q) => stored[p].name # stored[q].name
  BY DEF Init, Doc
<1>2. Places \subseteq Nat /\ Empty \in Texts
  BY ScriptsAssumption DEF ScriptsAssumption
<1>3. ListTyped
  BY <1>1, <1>2 DEF ListTyped, Pages
<1>4. Running = KeptTo(-1)
  BY <1>1, <1>2 DEF Running, KeptTo
<1> QED
  BY <1>1, <1>3, <1>4 DEF ErrorInv, ListInv, NamedOnce, LoadInv, PageInv

(***************************************************************************)
(* As long as no error was shown and no name given twice, the scripts that *)
(* run are those that a restart will load: for any number of scripts and   *)
(* places, whatever is renamed, saved, run or timed out, and although list *)
(* and store are written in different steps (httpd_handler_tcl.h).         *)
(***************************************************************************)
THEOREM ListAndStoreAgree == Spec => []ListIsStored
<1>1. Init => ErrorInv
  BY InitErrors
<1>2. IInv /\ ErrorInv /\ [Next]_vars => ErrorInv'
  BY NextErrors
<1>3. ErrorInv => ListIsStored
  BY DEF ErrorInv, ListInv, PageInv, EvenInv, ListIsStored
<1> QED
  BY <1>1, <1>2, <1>3, Always, PTL DEF Spec
=============================================================================
