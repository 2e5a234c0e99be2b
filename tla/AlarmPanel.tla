----------------------------- MODULE AlarmPanel -----------------------------
(***************************************************************************)
(* What the alarm core promises of each group, without threads, events or  *)
(* relays: the states of docs/alarm_state_machine.d2 and the transitions   *)
(* between them.  A group is armed only after its arm delay, waits for     *)
(* authentication only while armed, and comes to an alarm from there; only *)
(* a group with a tamper input may come to an alarm from any state.        *)
(***************************************************************************)
CONSTANTS Groups,        \* the alarm groups
          TamperGroups   \* those with a zone that can report a tamper

VARIABLES mode,      \* of each group: disarmed, arming or armed, away or home
          pending,   \* it waits for authentication
          alarm      \* it is in alarm

vars == <<mode, pending, alarm>>

Modes == {"disarmed", "armingAway", "armingHome", "armedAway", "armedHome"}
Armed == {"armedAway", "armedHome"}

PanelTypeOK ==
  /\ mode \in [Groups -> Modes]
  /\ pending \in [Groups -> BOOLEAN]
  /\ alarm \in [Groups -> BOOLEAN]

Init ==
  /\ mode = [g \in Groups |-> "disarmed"]
  /\ pending = [g \in Groups |-> FALSE]
  /\ alarm = [g \in Groups |-> FALSE]

Arm(g, to) ==
  /\ \/ mode[g] = "disarmed" /\ to \in {"armingAway", "armingHome"}
     \/ mode[g] = "armingAway" /\ to = "armingHome"
  /\ mode' = [mode EXCEPT ![g] = to]
  /\ UNCHANGED <<pending, alarm>>

\* The arm delay is over.
Leave(g) ==
  /\ \/ mode[g] = "armingAway" /\ mode' = [mode EXCEPT ![g] = "armedAway"]
     \/ mode[g] = "armingHome" /\ mode' = [mode EXCEPT ![g] = "armedHome"]
  /\ UNCHANGED <<pending, alarm>>

\* A zone was triggered, and the group waits for a key.
Enter(g) ==
  /\ mode[g] \in Armed
  /\ pending' = [pending EXCEPT ![g] = TRUE]
  /\ UNCHANGED <<mode, alarm>>

Raise(g) ==
  /\ ~alarm[g]
  /\ mode[g] \in Armed \/ g \in TamperGroups
  /\ pending' = [pending EXCEPT ![g] = TRUE]
  /\ alarm' = [alarm EXCEPT ![g] = TRUE]
  /\ UNCHANGED mode

Silence(g) ==
  /\ alarm' = [alarm EXCEPT ![g] = FALSE]
  /\ UNCHANGED <<mode, pending>>

Disarm(g) ==
  /\ mode' = [mode EXCEPT ![g] = "disarmed"]
  /\ pending' = [pending EXCEPT ![g] = FALSE]
  /\ UNCHANGED alarm

Next == \E g \in Groups :
  \/ \E to \in Modes : Arm(g, to)
  \/ Leave(g) \/ Enter(g) \/ Raise(g) \/ Silence(g) \/ Disarm(g)

Spec == Init /\ [][Next]_vars
=============================================================================
