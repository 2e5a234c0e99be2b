------------------------------ MODULE Scripts -------------------------------
(***************************************************************************)
(* How scripts are run and edited.  The trigger thread and the service     *)
(* thread (for timers) hand a script to the tcl thread and wait up to 300  *)
(* ms for a callback that signals their semaphore (ohs_th_trigger.h,       *)
(* ohs_th_service.h, ohs_th_tcl.h).  The script page runs, renames and     *)
(* saves scripts in a linked list and in the block store                   *)
(* (httpd_handler_tcl.h).                                                  *)
(*                                                                         *)
(* The waiting threads have a higher priority than the page (tcpip         *)
(* thread), and that a higher one than the tcl thread.                     *)
(***************************************************************************)
EXTENDS Integers, Sequences, FiniteSets, TLC

CONSTANTS
  Waiters,          \* the threads that evaluate scripts
  Uses,             \* the name of the script that a thread is configured with
  Events,           \* the objects of script_pool
  MailboxSize,      \* the slots of script_mb
  Names, Texts,     \* of scripts
  Places,           \* the places of scripts in the block store, by address
  MaxListed,        \* bound: scripts in the list
  MaxErrors,        \* bound: the page is used until there were more errors
  NoName, Empty,    \* the empty name and the empty text
  NoText,           \* the text of a script whose memory could not be got
  NoScript,         \* a free place
  NoEvent, Nobody

ASSUME ScriptsAssumption ==
  /\ Events # {} /\ IsFiniteSet(Events) /\ NoEvent \notin Events
  /\ MailboxSize \in Nat /\ Cardinality(Events) <= MailboxSize
  /\ Uses \in [Waiters -> Names]
  /\ Nobody \notin Waiters /\ Places \subseteq Nat /\ MaxListed \in Nat
  /\ MaxErrors \in Nat
  /\ NoName \notin Names /\ Empty \in Texts /\ NoText \notin Texts
  /\ NoScript \notin [name : Names, text : Texts]

VARIABLES
  pool, mbox,       \* script_pool and script_mb
  ev,               \* the thread that each event calls back
  sem,              \* cbTriggerSem, cbTimerSem: signalled?
  pResult,          \* what the pResult of each thread points to
  waiter,           \* the waiting threads
  tcl,              \* the tcl thread
  scriptLL,         \* the list of scripts, newest first
  tclCmd,           \* the text on the page
  stored,           \* the scripts in the block store
  page,             \* webScript, scriptName and the request under way
  errors            \* not in the code: errors shown, and names given twice

events  == <<pool, mbox, ev, sem, pResult, waiter>>
scripts == <<scriptLL, tclCmd, stored, page, errors>>
vars    == <<events, tcl, scripts>>

Entry == [name : Names \union {NoName}, text : Texts \union {NoText}]

----------------------------------------------------------------------------
(* The scheduler.                                                          *)

\* A thread whose semaphore is signalled runs before the page and tcl.
WaiterReady == \E w \in Waiters : waiter[w].pc = "wait" /\ sem[w]

PageMayRun == ~WaiterReady

\* The page blocks in the SPI transfers of the block store only.
TclMayRun == ~WaiterReady /\ page.pc \in {"idle", "renaming", "storing"}

----------------------------------------------------------------------------
(* A trigger or a timer evaluates its script.                              *)

\* The first entry of the list with the name; 0 if there is none.
Find(n) ==
  LET found == {k \in DOMAIN scriptLL : scriptLL[k].name = n}
  IN  IF found = {} THEN 0 ELSE CHOOSE k \in found : \A j \in found : k <= j

Put(e) == mbox' = IF Len(mbox) < MailboxSize THEN Append(mbox, e) ELSE mbox

\* The events of a thread whose callback is still to come.
Outstanding(w) ==
  {e \in Events : ev[e] = w /\ \/ \E i \in DOMAIN mbox : mbox[i] = e
                               \/ e = tcl.event /\ tcl.pc \in {"eval", "callback"}}

\* event and late are not in the code: the event posted, and whether an
\* earlier one of the thread is outstanding.
WaitsFor(w, e) == [pc |-> "wait", event |-> e, late |-> Outstanding(w) # {}]

\* Mutant: the semaphore is not reset.
EvaluateUnreset(w) ==
  LET k == Find(Uses[w]) IN
  /\ waiter[w].pc = "idle"
  /\ \E e \in pool :
       /\ pool' = pool \ {e}
       /\ \/ k = 0 /\ UNCHANGED <<mbox, ev, pResult, waiter>>
          \/ /\ k # 0
             /\ ev' = [ev EXCEPT ![e] = w]
             /\ pResult' = [pResult EXCEPT ![w] = NoEvent]
             /\ Put(e)
             /\ waiter' = [waiter EXCEPT ![w] = WaitsFor(w, e)]
  /\ UNCHANGED <<sem, tcl, scripts>>

\* With an empty pool nothing happens.  An event whose script is not in the
\* list is not given back.
Evaluate(w) ==
  LET k == Find(Uses[w]) IN
  /\ waiter[w].pc = "idle"
  /\ \/ /\ pool = {}
        /\ UNCHANGED <<pool, mbox, ev, sem, pResult, waiter>>
     \/ \E e \in pool :
          /\ pool' = pool \ {e}
          /\ \/ k = 0 /\ UNCHANGED <<mbox, ev, sem, pResult, waiter>>
             \/ /\ k # 0
                /\ ev' = [ev EXCEPT ![e] = w]
                /\ pResult' = [pResult EXCEPT ![w] = NoEvent]
                /\ sem' = [sem EXCEPT ![w] = FALSE]
                /\ Put(e)
                /\ waiter' = [waiter EXCEPT ![w] = WaitsFor(w, e)]
  /\ UNCHANGED <<tcl, scripts>>

NotWaiting == [pc |-> "idle", event |-> NoEvent, late |-> FALSE]

\* The callback has come, and the result is read.
TakeResult(w) ==
  /\ waiter[w].pc = "wait" /\ sem[w]
  /\ sem' = [sem EXCEPT ![w] = FALSE]
  /\ waiter' = [waiter EXCEPT ![w] = NotWaiting]
  /\ UNCHANGED <<pool, mbox, ev, pResult, tcl, scripts>>

\* 300 ms have passed.
TimeOut(w) ==
  /\ waiter[w].pc = "wait" /\ ~sem[w]
  /\ waiter' = [waiter EXCEPT ![w] = NotWaiting]
  /\ UNCHANGED <<pool, mbox, ev, sem, pResult, tcl, scripts>>

----------------------------------------------------------------------------
(* The tcl thread.                                                         *)

Used(p)  == stored[p] # NoScript
Place(n) == {p \in Places : Used(p) /\ stored[p].name = n}
First(S) == CHOOSE p \in S : \A q \in S : p <= q

Loaded == tcl' = [tcl EXCEPT !.pc = "fetch", !.place = -1] /\ tclCmd' = Empty

\* One round of initScripts: the next script of the store is linked, or the
\* heap is full, or it cannot be read and the rest is not loaded.  uBSRead
\* finds the text by the name.
LoadScript ==
  LET rest == {p \in Places : p > tcl.place /\ Used(p)} IN
  /\ tcl.pc = "load" /\ TclMayRun
  /\ \/ /\ rest = {} /\ Loaded
        /\ UNCHANGED <<scriptLL, errors>>
     \/ /\ rest # {} /\ Loaded
        /\ errors' = errors + 1
        /\ UNCHANGED scriptLL
     \/ /\ rest # {}
        /\ tcl' = [tcl EXCEPT !.place = First(rest)]
        /\ LET n    == stored[First(rest)].name
               text == stored[First(Place(n))].text
           IN  /\ tclCmd' = text
               /\ \/ /\ scriptLL' = <<[name |-> n, text |-> text]>> \o scriptLL
                     /\ UNCHANGED errors
                  \/ /\ errors' = errors + 1
                     /\ UNCHANGED scriptLL
  /\ UNCHANGED <<events, stored, page>>

\* Mutant: the event is given back before the script has run.
TclFetchFreed ==
  /\ tcl.pc = "fetch" /\ TclMayRun /\ mbox # <<>>
  /\ mbox' = Tail(mbox)
  /\ pool' = pool \union {Head(mbox)}
  /\ tcl' = [tcl EXCEPT !.pc = "eval", !.event = Head(mbox)]
  /\ UNCHANGED <<ev, sem, pResult, waiter, scripts>>

TclFetch ==
  /\ tcl.pc = "fetch" /\ TclMayRun /\ mbox # <<>>
  /\ mbox' = Tail(mbox)
  /\ tcl' = [tcl EXCEPT !.pc = "eval", !.event = Head(mbox)]
  /\ UNCHANGED <<pool, ev, sem, pResult, waiter, scripts>>

\* The script is evaluated and its result passed.
TclEval ==
  LET to == ev[tcl.event] IN
  /\ tcl.pc = "eval" /\ TclMayRun
  /\ pResult' = IF to = Nobody THEN pResult ELSE [pResult EXCEPT ![to] = tcl.event]
  /\ tcl' = [tcl EXCEPT !.pc = "callback"]
  /\ UNCHANGED <<pool, mbox, ev, sem, waiter, scripts>>

TclCallback ==
  LET to == ev[tcl.event] IN
  /\ tcl.pc = "callback" /\ TclMayRun
  /\ sem' = IF to = Nobody THEN sem ELSE [sem EXCEPT ![to] = TRUE]
  /\ tcl' = [tcl EXCEPT !.pc = "free"]
  /\ UNCHANGED <<pool, mbox, ev, pResult, waiter, scripts>>

\* Mutant: only the events of the page are given back.
TclFreePages ==
  /\ tcl.pc = "free" /\ TclMayRun
  /\ pool' = IF ev[tcl.event] = Nobody THEN pool \union {tcl.event} ELSE pool
  /\ ev' = [ev EXCEPT ![tcl.event] = Nobody]
  /\ tcl' = [tcl EXCEPT !.pc = "fetch", !.event = NoEvent]
  /\ UNCHANGED <<mbox, sem, pResult, waiter, scripts>>

TclFree ==
  /\ tcl.pc = "free" /\ TclMayRun
  /\ pool' = pool \union {tcl.event}
  /\ ev' = [ev EXCEPT ![tcl.event] = Nobody]
  /\ tcl' = [tcl EXCEPT !.pc = "fetch", !.event = NoEvent]
  /\ UNCHANGED <<mbox, sem, pResult, waiter, scripts>>

----------------------------------------------------------------------------
(* The script page.  A request carries the text, the name and a button, in *)
(* this order; requests come after the scripts are loaded.  Bound: there   *)
(* are no further ones after MaxErrors errors, or names given twice.       *)

PageStarts == page.pc = "idle" /\ PageMayRun /\ tcl.pc # "load" /\ errors <= MaxErrors

\* The request is answered; webScript and scriptName stay.
Answered == [page EXCEPT !.pc = "idle", !.to = NoName, !.button = "none"]

Listed == {scriptLL[k].name : k \in DOMAIN scriptLL}

\* Another script is selected: its name and text are shown.
Select(k) ==
  /\ PageStarts /\ k # page.script
  /\ page' = [page EXCEPT !.script = k, !.name = IF k = 0 THEN NoName ELSE scriptLL[k].name]
  /\ tclCmd' = IF k = 0 \/ scriptLL[k].text = NoText THEN Empty ELSE scriptLL[k].text
  /\ UNCHANGED <<events, tcl, scriptLL, stored, errors>>

\* A listed script that comes with a new name is renamed, unless the name is
\* empty; its old name is erased first.
Submit(text, n, button) ==
  LET rename == n # page.name /\ page.script # 0 IN
  /\ PageStarts
  /\ tclCmd' = text
  /\ \/ /\ rename /\ n # NoName
        /\ page' = [page EXCEPT !.pc = "naming", !.to = n, !.button = button]
        /\ scriptLL' = [scriptLL EXCEPT ![page.script].name = NoName]
        /\ errors' = errors + (IF n \in Listed THEN 1 ELSE 0)
     \/ /\ rename /\ n = NoName
        /\ page' = [page EXCEPT !.pc = "button", !.button = button]
        /\ UNCHANGED <<scriptLL, errors>>
     \/ /\ ~rename
        /\ page' = [page EXCEPT !.pc = "button", !.name = n, !.button = button]
        /\ UNCHANGED <<scriptLL, errors>>
  /\ UNCHANGED <<events, tcl, stored>>

\* The new name is in the list, and uBSRename begins.
Named ==
  /\ page.pc = "naming" /\ PageMayRun
  /\ scriptLL' = [scriptLL EXCEPT ![page.script].name = page.to]
  /\ page' = [page EXCEPT !.pc = "renaming"]
  /\ UNCHANGED <<events, tcl, tclCmd, stored, errors>>

\* Mutant: the block store is not told of the new name.
RenamedInList ==
  /\ page.pc = "renaming" /\ PageMayRun
  /\ page' = [page EXCEPT !.pc = "button", !.name = page.to, !.to = NoName]
  /\ UNCHANGED <<events, tcl, scriptLL, tclCmd, stored, errors>>

\* uBSRename ends; if it fails, the rest of the request is not looked at.
Renamed ==
  /\ page.pc = "renaming" /\ PageMayRun
  /\ \/ /\ Place(page.name) # {}
        /\ stored' = [stored EXCEPT ![First(Place(page.name))].name = page.to]
        /\ page' = [page EXCEPT !.pc = "button", !.name = page.to, !.to = NoName]
        /\ UNCHANGED errors
     \/ /\ Place(page.name) = {}
        /\ page' = Answered
        /\ errors' = errors + 1
        /\ UNCHANGED stored
  /\ UNCHANGED <<events, tcl, scriptLL, tclCmd>>

Apply ==
  /\ page.pc = "button" /\ page.button = "none" /\ PageMayRun
  /\ page' = Answered
  /\ UNCHANGED <<events, tcl, scriptLL, tclCmd, stored, errors>>

\* The text of the page is run where it stands.
Run ==
  /\ page.pc = "button" /\ page.button = "run" /\ PageMayRun
  /\ \/ pool = {} /\ UNCHANGED <<pool, mbox, ev>>
     \/ \E e \in pool :
          /\ pool' = pool \ {e}
          /\ ev' = [ev EXCEPT ![e] = Nobody]
          /\ Put(e)
  /\ page' = Answered
  /\ UNCHANGED <<sem, pResult, waiter, tcl, scriptLL, tclCmd, stored, errors>>

\* Mutant: the store is written although the heap is full.
SaveNewUnchecked ==
  /\ page.pc = "button" /\ page.button = "save" /\ page.script = 0 /\ PageMayRun
  /\ page' = [page EXCEPT !.pc = "storing"]
  /\ UNCHANGED <<events, tcl, tclCmd, scriptLL, stored, errors>>

\* A new script is put in front of the list, if the heap has room.
SaveNew ==
  /\ page.pc = "button" /\ page.button = "save" /\ page.script = 0 /\ PageMayRun
  /\ \/ /\ page.name # NoName /\ Len(scriptLL) < MaxListed
        /\ scriptLL' = <<[name |-> page.name, text |-> tclCmd]>> \o scriptLL
        /\ errors' = errors + (IF page.name \in Listed THEN 1 ELSE 0)
        /\ page' = [page EXCEPT !.pc = "storing"]
     \/ /\ page' = Answered
        /\ UNCHANGED <<scriptLL, errors>>
  /\ UNCHANGED <<events, tcl, tclCmd, stored>>

\* umm_realloc finds room, or the script is left without memory.
SaveOld ==
  /\ page.pc = "button" /\ page.button = "save" /\ page.script # 0 /\ PageMayRun
  /\ \/ /\ scriptLL' = [scriptLL EXCEPT ![page.script].text = tclCmd]
        /\ page' = [page EXCEPT !.pc = "storing"]
        /\ UNCHANGED errors
     \/ /\ scriptLL' = [scriptLL EXCEPT ![page.script].text = NoText]
        /\ page' = Answered
        /\ errors' = errors + 1
  /\ UNCHANGED <<events, tcl, tclCmd, stored>>

\* uBSWrite ends: the text is at the place of the name, or at the first free
\* one, or does not fit.  A new script is now the first of the list.
Stored ==
  /\ page.pc = "storing" /\ PageMayRun
  /\ \/ /\ Place(page.name) # {} \/ \E p \in Places : ~Used(p)
        /\ LET p == IF Place(page.name) # {} THEN First(Place(page.name))
                    ELSE First({q \in Places : ~Used(q)})
           IN  stored' = [stored EXCEPT ![p] = [name |-> page.name, text |-> tclCmd]]
        /\ UNCHANGED errors
     \/ /\ errors' = errors + 1
        /\ UNCHANGED stored
  /\ page' = [Answered EXCEPT !.script = IF @ = 0 THEN 1 ELSE @]
  /\ UNCHANGED <<events, tcl, scriptLL, tclCmd>>

----------------------------------------------------------------------------
Init ==
  /\ pool = Events /\ mbox = <<>> /\ ev = [e \in Events |-> Nobody]
  /\ sem = [w \in Waiters |-> TRUE] /\ pResult = [w \in Waiters |-> NoEvent]
  /\ waiter = [w \in Waiters |-> NotWaiting]
  /\ tcl = [pc |-> "load", event |-> NoEvent, place |-> -1]
  /\ scriptLL = <<>>
  /\ tclCmd = Empty
  /\ stored \in [Places -> [name : Names, text : Texts] \union {NoScript}]
  /\ page = [pc |-> "idle", script |-> 0, name |-> NoName, to |-> NoName,
             button |-> "none"]
  /\ errors = IF \E p, q \in Places : p # q /\ Used(p) /\ Used(q) /\ stored[p].name = stored[q].name
              THEN 1 ELSE 0

Waiting == \E w \in Waiters : Evaluate(w) \/ TakeResult(w) \/ TimeOut(w)

TclThread == LoadScript \/ TclFetch \/ TclEval \/ TclCallback \/ TclFree

Requests ==
  \/ \E k \in 0 .. Len(scriptLL) : Select(k)
  \/ \E text \in Texts, n \in Names \union {NoName}, button \in {"none", "run", "save"} :
       Submit(text, n, button)
  \/ Named \/ Renamed \/ Apply \/ Run \/ SaveNew \/ SaveOld \/ Stored

Next == Waiting \/ TclThread \/ Requests

Spec == Init /\ [][Next]_vars

----------------------------------------------------------------------------
(* Properties.                                                             *)

TypeOK ==
  /\ pool \subseteq Events /\ mbox \in Seq(Events)
  /\ ev \in [Events -> Waiters \union {Nobody}]
  /\ sem \in [Waiters -> BOOLEAN]
  /\ pResult \in [Waiters -> Events \union {NoEvent}]
  /\ waiter \in [Waiters -> [pc : {"idle", "wait"}, event : Events \union {NoEvent},
                             late : BOOLEAN]]
  /\ tcl.pc \in {"load", "fetch", "eval", "callback", "free"}
  /\ tcl.event \in Events \union {NoEvent}
  /\ tcl.pc \in {"load", "fetch"} <=> tcl.event = NoEvent
  /\ scriptLL \in Seq(Entry) /\ Len(scriptLL) <= MaxListed
  /\ tclCmd \in Texts
  /\ stored \in [Places -> [name : Names, text : Texts] \union {NoScript}]
  /\ page.script \in 0 .. Len(scriptLL)

\* A result that a thread reads is the one of the script it waits for, unless
\* an earlier script of the thread, given up after 300 ms, was still under
\* way when it posted this one.
OwnResult ==
  \A w \in Waiters :
    waiter[w].pc = "wait" /\ sem[w] /\ ~waiter[w].late => pResult[w] = waiter[w].event

\* Where each script event is; an event is leaked when it is nowhere.
Queued == {mbox[i] : i \in DOMAIN mbox}
Held   == {tcl.event} \ {NoEvent}
Leaked == Events \ (pool \union Queued \union Held)

\* No event is in two places, and only an evaluation whose script is not in
\* the list loses one: not a time-out, not a late callback, not the page.
EventsConserved ==
  /\ pool \cap Queued = {} /\ pool \cap Held = {} /\ Queued \cap Held = {}
  /\ Cardinality(Queued) = Len(mbox)

LostWithTheName ==
  [][Leaked' # Leaked =>
       \E w \in Waiters : Find(Uses[w]) = 0 /\ Evaluate(w)]_vars

\* As long as the page has shown no error and no name was given twice, the
\* scripts that run are the scripts that a restart will load.
Running == {<<scriptLL[k].name, scriptLL[k].text>> : k \in DOMAIN scriptLL}
Kept    == {<<stored[p].name, stored[p].text>> : p \in {q \in Places : Used(q)}}

ListIsStored ==
  page.pc = "idle" /\ tcl.pc # "load" /\ errors = 0 => Running = Kept
=============================================================================
