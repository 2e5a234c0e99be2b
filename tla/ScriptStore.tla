---------------------------- MODULE ScriptStore ----------------------------
(***************************************************************************)
(* What the block store promises its callers: a call changes the one       *)
(* script it names, all at once, or refuses and changes nothing; a reset   *)
(* spoils at most the script of the call it cuts.                          *)
(***************************************************************************)
CONSTANTS Files,     \* the places a script can be at
          Names,
          NoName, NoEntry

VARIABLES store,     \* of each place: name and text of a script, or NoEntry
          result     \* the name the last call was for, and what it returned

vars == <<store, result>>

Used == {f \in Files : store[f] # NoEntry}

Init == store = [f \in Files |-> NoEntry] /\ result = [name |-> NoName, is |-> "none"]

\* At most the script at f changes.
Only(f) == LET before == store
               after  == store'
           IN  \A g \in Files \ {f} : after[g] = before[g]

\* A script is replaced where it is, or gets a place of its own.
Save(f) ==
  /\ result'.is = "OK"
  /\ Only(f)
  /\ store'[f] # NoEntry /\ store'[f].name = result'.name
  /\ LET old == {g \in Used : store[g].name = result'.name}
     IN  IF old = {} THEN f \notin Used ELSE f \in old

Remove(f) ==
  /\ result'.is = "OK"
  /\ Only(f)
  /\ f \in Used /\ store[f].name = result'.name
  /\ store'[f] = NoEntry

Rename(f) ==
  /\ result'.is = "OK"
  /\ Only(f)
  /\ f \in Used /\ store[f].name = result'.name
  /\ store'[f] # NoEntry /\ store'[f].name \in Names /\ store'[f].text = store[f].text

Refuse ==
  /\ result'.is \in {"TOO_LARGE", "NOT_FOUND", "NOK"}
  /\ UNCHANGED store

Clear ==
  /\ store' = [f \in Files |-> NoEntry]
  /\ UNCHANGED result

Crash(f) ==
  /\ result'.is = "none"
  /\ Only(f)

Next ==
  \/ \E f \in Files : Save(f) \/ Remove(f) \/ Rename(f) \/ Crash(f)
  \/ Refuse
  \/ Clear

Spec == Init /\ [][Next]_vars
=============================================================================
