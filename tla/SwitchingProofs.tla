---------------------------- MODULE SwitchingProofs ----------------------------
(***************************************************************************)
(* Proofs that a node has one slot of the table, that the table tells the  *)
(* truth about outputs, that no output is left on and that a timer is set  *)
(* to its next start, for any nodes, addresses, settings and sizes.        *)
(*                                                                         *)
(* All threads but one leave the names in the table alone or clear them;   *)
(* the registration thread looks a name up before it writes it.  A value   *)
(* is written into the slot of an output by who has sent it, and the       *)
(* others write into slots that cannot be an output's: a key that waits in *)
(* checkKey() keeps its slot, as it was heard in this second.              *)
(*                                                                         *)
(* What is said of an output is said while the table knows it: a node that *)
(* registers again has its output off.  Only the trigger thread writes     *)
(* "trigger" into its history, only the service thread "timer", and each   *)
(* holds the index it works on while it waits for a send or for a script.  *)
(***************************************************************************)
EXTENDS Switching, SequencesExt, SequenceTheorems, FiniteSetTheorems, WellFoundedInduction, TLAPS

------------------------------------------------------------------------------
(* Least numbers and division.                                             *)

(***************************************************************************)
(* What a search for the smallest finds.                                   *)
(***************************************************************************)
LEMMA LeastExists ==
  ASSUME NEW S, S \subseteq Nat, S # {}
  PROVE  \E x \in S : \A y \in S : x <= y
<1> DEFINE R == OpToRel(<, Nat)
<1>1. IsWellFoundedOn(R, Nat)
  BY NatLessThanWellFounded
<1>2. PICK x \in S : \A y \in S : ~(<<y, x>> \in R)
  <2> HIDE DEF R
  <2> QED
    BY <1>1, WFMin
<1>3. \A y \in S : x <= y
  <2> SUFFICES ASSUME NEW y \in S, y < x PROVE FALSE
    OBVIOUS
  <2>1. <<y, x>> \in R
    BY DEF OpToRel
  <2> QED
    BY <1>2, <2>1
<1> QED
  BY <1>3

(***************************************************************************)
(* Quotient and remainder of naturals, in the form products are used in.   *)
(***************************************************************************)
LEMMA Division ==
  ASSUME NEW a \in Nat, NEW b \in Nat \ {0}
  PROVE  a \div b \in Nat /\ a % b \in 0..(b - 1) /\ a = (a \div b) * b + (a % b)
<1>1. a % b \in 0..(b - 1)
  OBVIOUS
<1>2. a \div b \in Int
  OBVIOUS
<1>3. a = b * (a \div b) + (a % b)
  OBVIOUS
<1>4. a \div b >= 0
  <2> DEFINE p == a \div b
  <2> SUFFICES ASSUME p < 0 PROVE FALSE
    BY <1>2
  <2> HIDE DEF p
  <2>1. p * b + b <= 0
    <3>1. PICK d \in Nat : p = -1 - d
      <4>1. -1 - p \in Nat /\ p = -1 - (-1 - p)
        BY <1>2 DEF p
      <4> QED
        BY <4>1
    <3>2. p * b = -b - d * b /\ d * b >= 0
      BY <3>1
    <3> QED
      BY <3>2
  <2> QED
    BY <1>1, <1>3, <2>1 DEF p
<1> QED
  BY <1>1, <1>2, <1>3, <1>4

(***************************************************************************)
(* A larger factor makes the product larger by the other factor or more.   *)
(***************************************************************************)
LEMMA Times ==
  ASSUME NEW p \in Int, NEW q \in Int, NEW b \in Nat \ {0}, p < q
  PROVE  p * b + b <= q * b
<1>1. PICK d \in Nat : q = p + 1 + d
  <2>1. q - p - 1 \in Nat /\ q = p + 1 + (q - p - 1)
    OBVIOUS
  <2> QED
    BY <2>1
<1>2. q * b = p * b + b + d * b
  BY <1>1
<1>3. d * b >= 0
  OBVIOUS
<1> QED
  BY <1>2, <1>3

(***************************************************************************)
(* A number is taken apart in one way.                                     *)
(***************************************************************************)
LEMMA Parts ==
  ASSUME NEW q \in Nat, NEW b \in Nat \ {0}, NEW r \in 0..(b - 1), NEW a, a = q * b + r
  PROVE  a \div b = q /\ a % b = r
<1>1. a \in Nat
  OBVIOUS
<1> DEFINE p == a \div b
<1>2. p \in Nat /\ a % b \in 0..(b - 1) /\ a = p * b + (a % b)
  BY <1>1, Division
<1> HIDE DEF p
<1>3. ~(p < q)
  BY <1>2, Times
<1>4. ~(q < p)
  <2>1. SUFFICES ASSUME q < p PROVE FALSE
    OBVIOUS
  <2>2. q * b + b <= p * b
    BY <1>2, <2>1, Times
  <2> QED
    BY <1>2, <2>2
<1> QED
  BY <1>2, <1>3, <1>4 DEF p

------------------------------------------------------------------------------

(* A table: what is stored in a slot has a name, a value and a time.       *)
IsTable(t) == DOMAIN t = Slots /\ \A s \in Slots : {"id", "value", "lastOK"} \subseteq DOMAIN t[s]

(* A table with the names of node[], or without some of them, but with all *)
(* that were heard of in this second.                                      *)
NamesKept(t) ==
  /\ IsTable(t)
  /\ \A s \in Slots :
       /\ t[s].id \in {node[s].id, None}
       /\ node[s].id # None /\ node[s].lastOK = now => t[s].id = node[s].id /\ t[s].lastOK = now

(* A table with the values that node[] has for outputs.                    *)
ValuesKept(t) == \A s \in Slots : t[s].id \in Outputs => t[s].value = node[s].value

TableInv == IsTable(node) /\ OneSlotPerNode

(* The nodes and the clock.                                                *)
WorldInv ==
  /\ now \in Nat
  /\ DOMAIN dev = Alive /\ \A x \in Alive : "out" \in DOMAIN dev[x]
  /\ DOMAIN last = Outputs

(* What waits for the sensor thread is from sensors.                       *)
Readouts == [id : Sensors, value : Readings]
MailInv ==
  /\ "sensor" \in DOMAIN pool /\ pool.sensor \in Nat
  /\ sensor_mb \in Seq(Readouts)

(* A thread that waits in checkKey() has the slot of a key, heard of in    *)
(* this second.                                                            *)
KeyHeld(t, n, time) ==
  t.pc = "checkKey" => t.slot \in Slots /\ n[t.slot].id \in Keys /\ n[t.slot].lastOK = time
KeysInv == KeyHeld(radio, node, now) /\ KeyHeld(rs485, node, now)

(* Who sends has a slot.                                                   *)
SlotInv ==
  /\ "pc" \in DOMAIN trig /\ (trig.pc \in {"on", "off"} => trig.slot \in Slots)
  /\ "pc" \in DOMAIN svc /\ (svc.pc \in {"on", "timerOff", "triggerOff"} => svc.slot \in Slots)
  /\ sub # Idle => sub.slot \in Slots

(* Agree, of every slot that has the output's name.                        *)
Trusted(x) == last[x][1] \notin {"none", "failed", "moved", "page"}
Shown(x, s) == node[s].id = x /\ Trusted(x) => node[s].value = dev[x].out
AgreeAll == \A x \in Outputs \intersect Alive, s \in Slots : Shown(x, s)

StateInv == WorldInv /\ MailInv /\ KeysInv /\ SlotInv
IInv == TableInv /\ StateInv /\ AgreeAll

------------------------------------------------------------------------------
(* Looking up.                                                             *)

LEMMA LeastOf ==
  ASSUME NEW S, S \subseteq Nat, S # {}
  PROVE  Min(S) \in S
BY LeastExists DEF Min

(* The look-up finds one of the slots that satisfy the test, if any does;  *)
(* "none" is no slot.                                                      *)
LEMMA FirstSlotFound ==
  ASSUME NEW hits, hits \subseteq Slots
  PROVE  /\ hits # {} => FirstSlot(hits) \in hits
         /\ hits = {} => FirstSlot(hits) = Dummy
         /\ Dummy \notin hits
<1>1. hits \subseteq Nat /\ Dummy \notin Slots
  BY NodesAssumption DEF Slots, Dummy
<1>2. hits # {} => Min(hits) \in hits
  BY <1>1, LeastOf
<1> QED
  BY <1>1, <1>2 DEF FirstSlot

LEMMA IndexFound ==
  ASSUME NEW x, getNodeIndex(x) # Dummy
  PROVE  getNodeIndex(x) \in Slots /\ node[getNodeIndex(x)].id = x
<1> DEFINE hits == {s \in Slots : node[s].id = x}
<1>1. hits # {} /\ FirstSlot(hits) \in hits
  BY FirstSlotFound DEF getNodeIndex
<1> QED
  BY <1>1 DEF getNodeIndex

------------------------------------------------------------------------------
(* Writing anything but a name.                                            *)

LEMMA OneFieldWritten ==
  ASSUME IsTable(node), NEW s, NEW v
  PROVE  /\ NamesKept([node EXCEPT ![s].value = v])
         /\ NamesKept([node EXCEPT ![s].lastOK = now]) /\ ValuesKept([node EXCEPT ![s].lastOK = now])
         /\ NamesKept([node EXCEPT ![s].setting = v]) /\ ValuesKept([node EXCEPT ![s].setting = v])
         /\ NamesKept([node EXCEPT ![s].queue = v]) /\ ValuesKept([node EXCEPT ![s].queue = v])
<1>1. NamesKept([node EXCEPT ![s].value = v])
  BY DEF IsTable, NamesKept
<1>2. NamesKept([node EXCEPT ![s].lastOK = now]) /\ ValuesKept([node EXCEPT ![s].lastOK = now])
  BY DEF IsTable, NamesKept, ValuesKept
<1>3. NamesKept([node EXCEPT ![s].setting = v]) /\ ValuesKept([node EXCEPT ![s].setting = v])
  BY DEF IsTable, NamesKept, ValuesKept
<1>4. NamesKept([node EXCEPT ![s].queue = v]) /\ ValuesKept([node EXCEPT ![s].queue = v])
  BY DEF IsTable, NamesKept, ValuesKept
<1> QED
  BY <1>1, <1>2, <1>3, <1>4

LEMMA ValueWritten ==
  ASSUME IsTable(node), NEW s, NEW v
  PROVE  /\ NamesKept(Written(s, v))
         /\ s \in Slots => Written(s, v)[s].value = v
         /\ \A q \in Slots \ {s} : Written(s, v)[q] = node[q]
         /\ s \in Slots /\ node[s].id \notin Outputs =>
              ValuesKept(Written(s, v)) /\ ValuesKept([node EXCEPT ![s].value = v])
<1>1. PICK t : t = [node EXCEPT ![s].value = v]
  OBVIOUS
<1>2. Written(s, v) = [t EXCEPT ![s].lastOK = now]
  BY <1>1 DEF Written
<1>3. /\ IsTable(t) /\ \A q \in Slots : t[q].id = node[q].id /\ t[q].lastOK = node[q].lastOK
      /\ s \in Slots => t[s].value = v
      /\ \A q \in Slots \ {s} : t[q] = node[q]
  BY <1>1 DEF IsTable
<1>4. NamesKept(Written(s, v))
  BY <1>2, <1>3 DEF IsTable, NamesKept
<1>5. /\ s \in Slots => Written(s, v)[s].value = v /\ Written(s, v)[s].id = node[s].id
      /\ \A q \in Slots \ {s} : Written(s, v)[q] = node[q]
  BY <1>2, <1>3 DEF IsTable
<1> QED
  BY <1>1, <1>3, <1>4, <1>5 DEF ValuesKept

LEMMA AllKept ==
  ASSUME IsTable(node), now \in Nat
  PROVE  /\ NamesKept(node) /\ ValuesKept(node)
         /\ NamesKept(WithoutZombies) /\ ValuesKept(WithoutZombies)
         /\ \A a : NamesKept(Kept(a)) /\ ValuesKept(Kept(a))
<1>1. NamesKept(node) /\ ValuesKept(node)
  BY DEF NamesKept, ValuesKept
<1>2. NamesKept(WithoutZombies) /\ ValuesKept(WithoutZombies)
  <2>1. \A s \in Zombies : node[s].lastOK # now
    BY NodesAssumption DEF Zombies
  <2>2. None \notin Outputs
    BY NodesAssumption DEF Ids
  <2> QED
    BY <2>1, <2>2 DEF NamesKept, ValuesKept, IsTable, WithoutZombies, Free, Zombies
<1>3. ASSUME NEW a PROVE NamesKept(Kept(a)) /\ ValuesKept(Kept(a))
  BY DEF NamesKept, ValuesKept, IsTable, Kept, Held
<1> QED
  BY <1>1, <1>2, <1>3

LEMMA KeptIsEnough ==
  ASSUME TableInv, NamesKept(node')
  PROVE  TableInv'
<1>1. IsTable(node)'
  BY DEF NamesKept, IsTable, Slots
<1>2. OneSlotPerNode'
  BY DEF TableInv, NamesKept, OneSlotPerNode, Slots
<1> QED
  BY <1>1, <1>2 DEF TableInv

------------------------------------------------------------------------------
(* The registration thread: a name that is in the table is written where   *)
(* it is, a new one where there is none.                                   *)
LEMMA RegistrationKeeps ==
  ASSUME TableInv, RegistrationThread
  PROVE  TableInv'
<1> DEFINE m == Head(registration_mb)
           s == SlotFor(m)
           had == {q \in Slots : node[q].id = m.id}
           empty == {q \in Slots : node[q].id = None}
<1>1. CASE s = Dummy
  <2>1. node' = node
    BY <1>1 DEF RegistrationThread
  <2> QED
    BY <2>1 DEF TableInv, IsTable, OneSlotPerNode, Slots
<1>2. CASE s # Dummy
  <2>1. node' = Renewed(s, m)
    BY <1>2 DEF RegistrationThread
  <2>2. s \in Slots /\ (node[s].id = m.id \/ had = {})
    <3>1. had # {} => getNodeIndex(m.id) \in had /\ getNodeIndex(m.id) # Dummy
      BY FirstSlotFound DEF getNodeIndex
    <3>2. had = {} => getNodeIndex(m.id) = Dummy
      BY FirstSlotFound DEF getNodeIndex
    <3>3. getNodeFreeIndex # Dummy => getNodeFreeIndex \in empty
      BY FirstSlotFound DEF getNodeFreeIndex
    <3> QED
      BY <1>2, <3>1, <3>2, <3>3 DEF SlotFor
  <2>3. /\ IsTable(node')
        /\ node'[s].id = m.id
        /\ \A q \in Slots \ {s} : node'[q] = node[q]
    <3> DEFINE value == IF m.id \in Keys THEN Dummy ELSE 0
    <3> HIDE DEF m, s, value
    <3>1. IsTable(node)
      BY DEF TableInv
    <3>2. PICK x : x = [node EXCEPT ![s].id = m.id]
      OBVIOUS
    <3>3. IsTable(x) /\ x[s].id = m.id /\ \A q \in Slots \ {s} : x[q] = node[q]
      BY <2>2, <3>1, <3>2 DEF IsTable
    <3>4. PICK y : y = [x EXCEPT ![s].setting = m.setting]
      OBVIOUS
    <3>5. IsTable(y) /\ y[s].id = m.id /\ \A q \in Slots \ {s} : y[q] = node[q]
      BY <2>2, <3>3, <3>4 DEF IsTable
    <3>6. PICK z : z = [y EXCEPT ![s].lastOK = now]
      OBVIOUS
    <3>7. IsTable(z) /\ z[s].id = m.id /\ \A q \in Slots \ {s} : z[q] = node[q]
      BY <2>2, <3>5, <3>6 DEF IsTable
    <3>8. node' = [z EXCEPT ![s].value = value]
      BY <2>1, <3>2, <3>4, <3>6 DEF Renewed, value
    <3> QED
      BY <2>2, <3>7, <3>8 DEF IsTable
  <2> HIDE DEF m, s
  <2>4. OneSlotPerNode'
    BY <2>2, <2>3 DEF TableInv, OneSlotPerNode, had, Slots
  <2> QED
    BY <2>3, <2>4 DEF TableInv, IsTable, Slots
<1> QED
  BY <1>1, <1>2

------------------------------------------------------------------------------
(* Steps that switch no output: the names, the values of outputs and the   *)
(* outputs themselves stay, or the output is not trusted any more.         *)
SameWorld ==
  /\ conf' = conf /\ now' \in Nat
  /\ DOMAIN dev' = Alive /\ DOMAIN last' = Outputs
  /\ \A x \in Alive : "out" \in DOMAIN dev'[x]
  /\ \A x \in Outputs \intersect Alive :
       ~Trusted(x)' \/ (last'[x] = last[x] /\ dev'[x].out = dev[x].out)
Calm == SameWorld /\ NamesKept(node') /\ ValuesKept(node')

(* Steps that end a send to an output x.                                   *)
Ended(x, who, v, s, o) ==
  /\ s \in Slots /\ o \in Outcomes
  /\ Switched(x, s, v, o, who)
  /\ node' = Written(s, v) \/ (~o.acked /\ node' = node)
Sent ==
  /\ conf' = conf /\ now' = now
  /\ \E x, who, v, s, o : Ended(x, who, v, s, o)

LEMMA CalmKeeps ==
  ASSUME TableInv, WorldInv, AgreeAll, Calm
  PROVE  TableInv' /\ WorldInv' /\ AgreeAll'
<1>1. TableInv'
  BY KeptIsEnough DEF Calm
<1>2. Alive' = Alive
  BY DEF Calm, SameWorld, Alive
<1>3. WorldInv'
  BY <1>2 DEF Calm, SameWorld, WorldInv
<1>4. AgreeAll'
  <2> SUFFICES ASSUME NEW x \in Outputs \intersect Alive, NEW s \in Slots,
                      node'[s].id = x, Trusted(x)'
               PROVE  node'[s].value = dev'[x].out
    BY <1>2 DEF AgreeAll, Shown, Slots
  <2>1. node[s].id = x /\ node'[s].value = node[s].value
    BY NodesAssumption DEF Calm, NamesKept, ValuesKept, Ids
  <2>2. Trusted(x) /\ dev'[x].out = dev[x].out
    BY DEF Calm, SameWorld, Trusted
  <2> QED
    BY <2>1, <2>2 DEF AgreeAll, Shown
<1> QED
  BY <1>1, <1>3, <1>4

LEMMA SentKeeps ==
  ASSUME TableInv, WorldInv, AgreeAll, Sent
  PROVE  NamesKept(node') /\ TableInv' /\ WorldInv' /\ AgreeAll'
<1>1. PICK x, who, v, s, o : Ended(x, who, v, s, o)
  BY DEF Sent
<1>9. \A p \in Slots \ {s} : Written(s, v)[p] = node[p]
  <2>1. IsTable(node)
    BY DEF TableInv
  <2> QED
    BY <2>1 DEF Written, IsTable
<1> USE <1>1 DEF Ended
<1>2. NamesKept(node')
  <2>1. CASE node' = Written(s, v)
    BY <2>1, ValueWritten DEF TableInv
  <2>2. CASE node' = node
    BY <2>2, AllKept DEF TableInv, WorldInv
  <2> QED
    BY <2>1, <2>2
<1>3. TableInv'
  BY <1>2, KeptIsEnough
<1>4. Alive' = Alive /\ Slots' = Slots
  BY DEF Sent, Alive, Slots
<1>5. /\ DOMAIN dev' = Alive
      /\ \A y \in Alive : "out" \in DOMAIN dev'[y]
      /\ \A y \in Alive \ {x} : dev'[y].out = dev[y].out
      /\ x \in Alive /\ o.got => dev'[x].out = v
  BY <1>1 DEF WorldInv, Switched
<1>6. /\ DOMAIN last' = Outputs
      /\ \A y \in Outputs \ {x} : last'[y] = IF y = node[s].id THEN By("moved") ELSE last[y]
      /\ x \in Outputs => \/ ~o.acked /\ last'[x] = By("failed")
                          \/ node[s].id # x /\ last'[x] = By("moved")
                          \/ node[s].id = x /\ o.acked
  BY <1>1 DEF Switched
<1>7. WorldInv'
  BY <1>4, <1>5, <1>6 DEF WorldInv, Sent
<1>8. AgreeAll'
  <2> SUFFICES ASSUME NEW y \in Outputs \intersect Alive, NEW q \in Slots,
                      node'[q].id = y, Trusted(y)'
               PROVE  node'[q].value = dev'[y].out
    BY <1>4 DEF AgreeAll, Shown
  <2>1. node[q].id = y
    BY <1>2, NodesAssumption DEF NamesKept, Ids
  <2>2. CASE y = x
    <3>1. node[s].id = x /\ o.acked
      BY <1>6, <2>2 DEF Trusted, By
    <3>2. q = s
      BY <2>1, <2>2, <3>1, NodesAssumption DEF TableInv, OneSlotPerNode, Ids
    <3>3. o.got /\ node' = Written(s, v)
      BY <1>1, <3>1 DEF Outcomes
    <3>4. node'[s].value = v
      BY <3>3, ValueWritten DEF TableInv
    <3> QED
      BY <1>5, <2>2, <3>2, <3>3, <3>4
  <2>3. CASE y # x
    <3>1. y # node[s].id /\ last'[y] = last[y]
      BY <1>6, <2>3 DEF Trusted, By
    <3>2. node'[q] = node[q]
      <4>1. q # s
        BY <2>1, <3>1
      <4>2. CASE node' = Written(s, v)
        BY <1>9, <4>1, <4>2
      <4> QED
        BY <4>2
    <3>3. Trusted(y)
      BY <3>1 DEF Trusted
    <3> QED
      BY <1>5, <2>1, <2>3, <3>2, <3>3 DEF AgreeAll, Shown
  <2> QED
    BY <2>2, <2>3
<1> QED
  BY <1>2, <1>3, <1>7, <1>8

LEMMA RegistrationAgrees ==
  ASSUME TableInv, WorldInv, AgreeAll, RegistrationThread
  PROVE  WorldInv' /\ AgreeAll'
<1> DEFINE m == Head(registration_mb)
           s == SlotFor(m)
<1>1. conf' = conf /\ now' = now /\ dev' = dev /\ Alive' = Alive /\ Slots' = Slots
  BY DEF RegistrationThread, Alive, Slots
<1>2. CASE s = Dummy
  <2>1. node' = node /\ last' = last
    BY <1>2 DEF RegistrationThread
  <2> QED
    BY <1>1, <2>1 DEF WorldInv, AgreeAll, Shown, Trusted
<1>3. CASE s # Dummy
  <2>1. /\ node' = Renewed(s, m)
        /\ last' = IF m.id \in Outputs THEN [last EXCEPT ![m.id] = By("none")] ELSE last
    BY <1>3 DEF RegistrationThread
  <2> HIDE DEF m, s
  <2>2. \A q \in Slots \ {s} : node'[q] = node[q]
    BY <2>1 DEF Renewed, TableInv, IsTable
  <2>3. s \in Slots => node'[s].id = m.id
    <3>1. IsTable(node)
      BY DEF TableInv
    <3>2. PICK a : a = [node EXCEPT ![s].id = m.id]
      OBVIOUS
    <3>3. IsTable(a) /\ (s \in Slots => a[s].id = m.id)
      BY <3>1, <3>2 DEF IsTable
    <3>4. PICK b : b = [a EXCEPT ![s].setting = m.setting]
      OBVIOUS
    <3>5. IsTable(b) /\ (s \in Slots => b[s].id = m.id)
      BY <3>3, <3>4 DEF IsTable
    <3>6. PICK c : c = [b EXCEPT ![s].lastOK = now]
      OBVIOUS
    <3>7. IsTable(c) /\ (s \in Slots => c[s].id = m.id)
      BY <3>5, <3>6 DEF IsTable
    <3>8. PICK value : value = IF m.id \in Keys THEN Dummy ELSE 0
      OBVIOUS
    <3>9. node' = [c EXCEPT ![s].value = value]
      BY <2>1, <3>2, <3>4, <3>6, <3>8 DEF Renewed
    <3> QED
      BY <3>7, <3>9 DEF IsTable
  <2>4. WorldInv'
    BY <1>1, <2>1 DEF WorldInv
  <2>5. AgreeAll'
    <3> SUFFICES ASSUME NEW x \in Outputs \intersect Alive, NEW q \in Slots,
                        node'[q].id = x, Trusted(x)'
                 PROVE  node'[q].value = dev'[x].out
      BY <1>1 DEF AgreeAll, Shown
    <3>1. x # m.id
      BY <2>1 DEF Trusted, By, WorldInv
    <3>2. q # s /\ Trusted(x)
      BY <2>1, <2>3, <3>1 DEF Trusted
    <3> QED
      BY <1>1, <2>2, <3>2 DEF AgreeAll, Shown
  <2> QED
    BY <2>4, <2>5
<1> QED
  BY <1>2, <1>3

------------------------------------------------------------------------------
(* What each thread does to the table and the outputs.                     *)

LEMMA UnchangedIsCalm ==
  ASSUME WorldInv, IsTable(node), UNCHANGED <<conf, now, node, dev, last>>
  PROVE  Calm
BY AllKept DEF WorldInv, Calm, SameWorld

LEMMA TableIsCalm ==
  ASSUME WorldInv, UNCHANGED <<conf, now, dev, last>>, NamesKept(node'), ValuesKept(node')
  PROVE  Calm
BY DEF WorldInv, Calm, SameWorld

(* A node has got a setting.                                               *)
LEMMA SettingIsCalm ==
  ASSUME WorldInv, UNCHANGED <<conf, now, last>>, NamesKept(node'), ValuesKept(node'),
         NEW x, NEW v, dev' = dev \/ dev' = [dev EXCEPT ![x].setting = v]
  PROVE  Calm
BY DEF WorldInv, Calm, SameWorld

LEMMA RegistersIsCalm ==
  ASSUME WorldInv, IsTable(node), NEW a, Registers(a)
  PROVE  Calm
<1>1. NamesKept(node') /\ ValuesKept(node') /\ conf' = conf /\ now' = now
  BY AllKept DEF Registers, WorldInv
<1>2. CASE UNCHANGED <<dev, last>>
  BY <1>1, <1>2 DEF WorldInv, Calm, SameWorld
<1>3. CASE /\ dev' = [x \in Alive |-> IF x \in At(a) THEN [dev[x] EXCEPT !.out = 0] ELSE dev[x]]
           /\ last' = [x \in Outputs |-> IF x \in At(a) THEN By("none") ELSE last[x]]
  BY <1>1, <1>3 DEF WorldInv, Calm, SameWorld, Trusted, By
<1> QED
  BY <1>2, <1>3 DEF Registers

LEMMA RadioIsCalm ==
  ASSUME WorldInv, KeysInv, IsTable(node), RadioThread
  PROVE  Calm
<1>1. ASSUME NEW a \in Radio, RadioRegistration(a)
      PROVE  Calm
  BY <1>1, RegistersIsCalm DEF RadioRegistration
<1>2. ASSUME NEW a \in Radio, RadioPing(a)
      PROVE  Calm
  BY <1>2, AllKept, TableIsCalm DEF RadioPing, WorldInv
<1>3. ASSUME NEW x, NEW v, RadioReading(x, v)
      PROVE  Calm
  BY <1>3, UnchangedIsCalm DEF RadioReading, Reports
<1>4. ASSUME NEW x, RadioKey(x)
      PROVE  Calm
  <2>1. CASE node' = node
    BY <1>4, <2>1, UnchangedIsCalm DEF RadioKey
  <2>2. CASE node' = [node EXCEPT ![getNodeIndex(x)].lastOK = now]
    BY <1>4, <2>2, OneFieldWritten, TableIsCalm DEF RadioKey
  <2> QED
    BY <1>4, <2>1, <2>2 DEF RadioKey
<1>5. CASE RadioKeyDone
  <2>1. radio.slot \in Slots /\ node[radio.slot].id \notin Outputs
    BY <1>5, NodesAssumption DEF RadioKeyDone, KeysInv, KeyHeld
  <2> QED
    BY <1>5, <2>1, OneFieldWritten, ValueWritten, TableIsCalm DEF RadioKeyDone
<1>6. CASE RadioCall
  BY <1>6, UnchangedIsCalm DEF RadioCall
<1>7. CASE RadioQueueSent
  <2>1. PICK o \in Outcomes :
          /\ node' = IF o.acked THEN [node EXCEPT ![radio.slot].queue = <<>>] ELSE node
          /\ dev' = IF o.got /\ radio.copy.id \in Alive
                    THEN [dev EXCEPT ![radio.copy.id].setting = radio.copy.setting] ELSE dev
    BY <1>7 DEF RadioQueueSent
  <2>2. NamesKept(node') /\ ValuesKept(node')
    BY <2>1, OneFieldWritten, AllKept DEF WorldInv
  <2> QED
    BY <1>7, <2>1, <2>2, SettingIsCalm DEF RadioQueueSent
<1> QED
  BY <1>1, <1>2, <1>3, <1>4, <1>5, <1>6, <1>7 DEF RadioThread

LEMMA RS485IsCalm ==
  ASSUME WorldInv, KeysInv, IsTable(node), RS485Thread
  PROVE  Calm
<1>1. ASSUME NEW a \in Wired, WiredRegistration(a)
      PROVE  Calm
  BY <1>1, RegistersIsCalm DEF WiredRegistration
<1>2. ASSUME NEW a \in Wired, WiredPing(a)
      PROVE  Calm
  BY <1>2, AllKept, TableIsCalm DEF WiredPing, WorldInv
<1>3. ASSUME NEW x, NEW v, WiredReading(x, v)
      PROVE  Calm
  BY <1>3, UnchangedIsCalm DEF WiredReading, Reports
<1>4. ASSUME NEW x, WiredKey(x)
      PROVE  Calm
  <2>1. CASE node' = node
    BY <1>4, <2>1, UnchangedIsCalm DEF WiredKey
  <2>2. CASE node' = [node EXCEPT ![getNodeIndex(x)].lastOK = now]
    BY <1>4, <2>2, OneFieldWritten, TableIsCalm DEF WiredKey
  <2> QED
    BY <1>4, <2>1, <2>2 DEF WiredKey
<1>5. CASE WiredKeyDone
  <2>1. rs485.slot \in Slots /\ node[rs485.slot].id \notin Outputs
    BY <1>5, NodesAssumption DEF WiredKeyDone, KeysInv, KeyHeld
  <2> QED
    BY <1>5, <2>1, OneFieldWritten, ValueWritten, TableIsCalm DEF WiredKeyDone
<1>6. CASE WiredCall
  BY <1>6, UnchangedIsCalm DEF WiredCall
<1> QED
  BY <1>1, <1>2, <1>3, <1>4, <1>5, <1>6 DEF RS485Thread

LEMMA OthersAreCalm ==
  ASSUME WorldInv, MailInv, IsTable(node), SensorThread \/ Page
  PROVE  Calm
<1>1. CASE SensorReading
  <2> DEFINE m == Head(sensor_mb)
             s == getNodeIndex(m.id)
  <2>1. m.id \in Sensors
    <3>1. Head(sensor_mb) \in Readouts
      BY <1>1, HeadTailProperties DEF SensorReading, MailInv
    <3> QED
      BY <3>1 DEF Readouts
  <2>2. node' = node \/ (s # Dummy /\ node' = Written(s, m.value))
    BY <1>1 DEF SensorReading
  <2>3. s # Dummy => s \in Slots /\ node[s].id \notin Outputs
    BY <2>1, IndexFound, NodesAssumption
  <2>4. NamesKept(node') /\ ValuesKept(node')
    <3>1. CASE node' = node
      BY <3>1, AllKept DEF WorldInv
    <3>2. CASE s # Dummy /\ node' = Written(s, m.value)
      <4> HIDE DEF m, s
      <4> QED
        BY <2>3, <3>2, ValueWritten
    <3> QED
      BY <2>2, <3>1, <3>2
  <2> QED
    BY <1>1, <2>4, TableIsCalm DEF SensorReading
<1>2. CASE SensorCall
  BY <1>2, UnchangedIsCalm DEF SensorCall
<1>3. ASSUME NEW s \in Slots, PageSelect(s)
      PROVE  Calm
  BY <1>3, UnchangedIsCalm DEF PageSelect
<1>4. ASSUME NEW v \in BOOLEAN, PageApply(v)
      PROVE  Calm
  BY <1>4, OneFieldWritten, TableIsCalm DEF PageApply
<1>5. CASE PageApplied
  <2>1. PICK o \in Outcomes :
          /\ dev' = IF o.got THEN [dev EXCEPT ![web.message.id].setting = web.message.setting] ELSE dev
          /\ node' = IF o.acked THEN node ELSE [node EXCEPT ![webNode].queue = <<web.message>>]
    BY <1>5 DEF PageApplied
  <2>2. NamesKept(node') /\ ValuesKept(node')
    BY <2>1, OneFieldWritten, AllKept DEF WorldInv
  <2> QED
    BY <1>5, <2>1, <2>2, SettingIsCalm DEF PageApplied
<1> QED
  BY <1>1, <1>2, <1>3, <1>4, <1>5 DEF SensorThread, Page

LEMMA TriggerIsCalmOrSends ==
  ASSUME WorldInv, SlotInv, IsTable(node), TriggerThread
  PROVE  Calm \/ Sent
<1>1. CASE TriggerOnSent
  <2>1. trig.slot \in Slots
    BY <1>1 DEF TriggerOnSent, SlotInv
  <2>2. PICK o \in Outcomes :
          /\ Switched(Trigger[trig.i].to, trig.slot, OnValue(Trigger[trig.i], trig.event), o,
                      <<IF trg[trig.i].triggered THEN "trigger" ELSE "raced", trig.i>>)
          /\ node' = Written(trig.slot, OnValue(Trigger[trig.i], trig.event)) \/ (~o.acked /\ node' = node)
    BY <1>1 DEF TriggerOnSent
  <2>3. \E x, who, v, s : Ended(x, who, v, s, o)
    BY <2>1, <2>2 DEF Ended
  <2> QED
    BY <1>1, <2>3 DEF TriggerOnSent, Sent, quiet
<1>2. CASE TriggerOffSent
  <2>1. trig.slot \in Slots
    BY <1>2 DEF TriggerOffSent, SlotInv
  <2>2. PICK o \in Outcomes :
          /\ Switched(Trigger[trig.i].to, trig.slot, OffValue(Trigger[trig.i], trig.event), o,
                      By("off"))
          /\ node' = Written(trig.slot, OffValue(Trigger[trig.i], trig.event)) \/ (~o.acked /\ node' = node)
    BY <1>2 DEF TriggerOffSent
  <2>3. \E x, who, v, s : Ended(x, who, v, s, o)
    BY <2>1, <2>2 DEF Ended
  <2> QED
    BY <1>2, <2>3 DEF TriggerOffSent, Sent, quiet
<1>3. CASE TriggerFetch \/ TriggerOther \/ TriggerOn \/ TriggerScript \/ TriggerOff
  BY <1>3, UnchangedIsCalm DEF TriggerFetch, TriggerOther, TriggerOn, TriggerScript, TriggerOff, quiet
<1> QED
  BY <1>1, <1>2, <1>3 DEF TriggerThread

LEMMA ServiceIsCalmOrSends ==
  ASSUME WorldInv, SlotInv, IsTable(node), ServiceThread
  PROVE  Calm \/ Sent
<1>1. CASE ServiceZombies
  BY <1>1, AllKept, TableIsCalm DEF ServiceZombies, quiet, WorldInv
<1>2. CASE TimerOnSent
  <2>1. svc.slot \in Slots
    BY <1>2 DEF TimerOnSent, SlotInv
  <2>2. PICK o \in Outcomes :
          /\ Switched(Timer[svc.i].to, svc.slot, Timer[svc.i].on, o,
                      <<IF tmr[svc.i].triggered THEN "timer" ELSE "raced", svc.i>>)
          /\ node' = Written(svc.slot, Timer[svc.i].on) \/ (~o.acked /\ node' = node)
    BY <1>2 DEF TimerOnSent
  <2>3. \E x, who, v, s : Ended(x, who, v, s, o)
    BY <2>1, <2>2 DEF Ended
  <2> QED
    BY <1>2, <2>3 DEF TimerOnSent, Sent, quiet
<1>3. CASE TimerOffSent
  <2>1. svc.slot \in Slots
    BY <1>3 DEF TimerOffSent, SlotInv
  <2>2. PICK o \in Outcomes :
          /\ Switched(Timer[svc.i].to, svc.slot, Timer[svc.i].off, o,
                      By("off"))
          /\ node' = Written(svc.slot, Timer[svc.i].off) \/ (~o.acked /\ node' = node)
    BY <1>3 DEF TimerOffSent
  <2>3. \E x, who, v, s : Ended(x, who, v, s, o)
    BY <2>1, <2>2 DEF Ended
  <2> QED
    BY <1>3, <2>3 DEF TimerOffSent, Sent, quiet
<1>4. CASE TriggerOffTimeSent
  <2>1. svc.slot \in Slots
    BY <1>4 DEF TriggerOffTimeSent, SlotInv
  <2>2. PICK o \in Outcomes :
          /\ Switched(Trigger[svc.i].to, svc.slot, Trigger[svc.i].off, o,
                      By("off"))
          /\ node' = Written(svc.slot, Trigger[svc.i].off) \/ (~o.acked /\ node' = node)
    BY <1>4 DEF TriggerOffTimeSent
  <2>3. \E x, who, v, s : Ended(x, who, v, s, o)
    BY <2>1, <2>2 DEF Ended
  <2> QED
    BY <1>4, <2>3 DEF TriggerOffTimeSent, Sent, quiet
<1>5. CASE TimerStart \/ TimerScript \/ TimerEnd \/ TriggerOffTime
  BY <1>5, UnchangedIsCalm DEF TimerStart, TimerScript, TimerEnd, TriggerOffTime, quiet
<1> QED
  BY <1>1, <1>2, <1>3, <1>4, <1>5 DEF ServiceThread

LEMMA RestIsCalmOrSends ==
  ASSUME WorldInv, SlotInv, IsTable(node), Subscriber \/ Tick \/ \E i \in DOMAIN Timer : PageTimer(i)
  PROVE  Calm \/ Sent
<1>1. ASSUME NEW x, NEW v, SubSensor(x, v)
      PROVE  Calm
  BY <1>1, UnchangedIsCalm DEF SubSensor
<1>2. CASE SubSensorSent
  <2>1. sub.slot \in Slots
    BY <1>2 DEF SubSensorSent, SlotInv
  <2>2. PICK o \in Outcomes :
          /\ Switched(sub.id, sub.slot, sub.value, o,
                      By("mqtt"))
          /\ node' = Written(sub.slot, sub.value) \/ (~o.acked /\ node' = node)
    BY <1>2 DEF SubSensorSent
  <2>3. \E x, who, v, s : Ended(x, who, v, s, o)
    BY <2>1, <2>2 DEF Ended
  <2> QED
    BY <1>2, <2>3 DEF SubSensorSent, Sent, quiet
<1>3. CASE Tick
  BY <1>3, AllKept DEF Tick, quiet, WorldInv, Calm, SameWorld
<1>4. ASSUME NEW i \in DOMAIN Timer, PageTimer(i)
      PROVE  Calm
  <2>1. NamesKept(node') /\ ValuesKept(node') /\ UNCHANGED <<conf, now, dev>>
    BY <1>4, AllKept DEF PageTimer, WorldInv
  <2>2. last' = [last EXCEPT ![Timer[i].to] = By("page")]
    BY <1>4 DEF PageTimer
  <2> QED
    BY <2>1, <2>2 DEF WorldInv, Calm, SameWorld, Trusted, By
<1> QED
  BY <1>1, <1>2, <1>3, <1>4 DEF Subscriber

------------------------------------------------------------------------------
(* The mailbox of the sensor thread.                                       *)

LEMMA RoomForOne ==
  ASSUME NEW S, NEW x \in S, NEW free \in Nat
  PROVE  Room(free, <<x>>) \in Seq(S) /\ Len(Room(free, <<x>>)) \in 0..free
<1> DEFINE n == Min({free, Len(<<x>>)})
<1>1. Len(<<x>>) = 1 /\ <<x>> \in Seq(S)
  OBVIOUS
<1>2. n \in {free, 1} /\ n =< free /\ n =< 1
  <2>1. CASE free = 0
    <3>1. \A y \in {0, 1} : 0 =< y
      OBVIOUS
    <3>2. \A z \in {0, 1} : (\A y \in {0, 1} : z =< y) => z = 0
      OBVIOUS
    <3> QED
      BY <1>1, <2>1, <3>1, <3>2 DEF Min
  <2>2. CASE free # 0
    <3>1. \A y \in {free, 1} : 1 =< y
      BY <2>2
    <3>2. \A z \in {free, 1} : (\A y \in {free, 1} : z =< y) => z = 1
      BY <2>2
    <3> QED
      BY <1>1, <2>2, <3>1, <3>2 DEF Min
  <2> QED
    BY <2>1, <2>2
<1>3. n \in 0..1 /\ Room(free, <<x>>) = SubSeq(<<x>>, 1, n)
  BY <1>2 DEF Room
<1> HIDE DEF n
<1>4. SubSeq(<<x>>, 1, n) \in Seq(S) /\ Len(SubSeq(<<x>>, 1, n)) = n
  BY <1>1, <1>3, SubSeqProperties
<1> QED
  BY <1>2, <1>3, <1>4

LEMMA ReadingPosted ==
  ASSUME MailInv, NEW x \in Sensors, NEW v \in Readings, PostReading(x, v)
  PROVE  MailInv'
<1> DEFINE m == [id |-> x, value |-> v]
           msgs == Room(pool.sensor, <<m>>)
<1>1. m \in Readouts
  BY DEF Readouts
<1>2. msgs \in Seq(Readouts) /\ Len(msgs) \in 0..pool.sensor
  BY <1>1, RoomForOne DEF MailInv
<1>3. sensor_mb' = sensor_mb \o msgs /\ pool' = [pool EXCEPT !.sensor = @ - Len(msgs)]
  BY DEF PostReading
<1> HIDE DEF msgs
<1>4. sensor_mb' \in Seq(Readouts)
  BY <1>2, <1>3, ConcatProperties DEF MailInv
<1>5. "sensor" \in DOMAIN pool' /\ pool'.sensor \in Nat
  BY <1>2, <1>3 DEF MailInv
<1> QED
  BY <1>4, <1>5 DEF MailInv

LEMMA MailKept ==
  ASSUME MailInv, Next
  PROVE  MailInv'
<1>1. ASSUME sensor_mb' = sensor_mb, "sensor" \in DOMAIN pool', pool'.sensor = pool.sensor
      PROVE  MailInv'
  BY <1>1 DEF MailInv
<1>2. CASE UNCHANGED <<sensor_mb, pool>>
  BY <1>1, <1>2 DEF MailInv
<1>3. ASSUME NEW a, Registers(a)
      PROVE  MailInv'
  <2>1. PICK n : pool' = [pool EXCEPT !.registration = n]
    BY <1>3 DEF Registers, PostRegistrations
  <2>2. sensor_mb' = sensor_mb
    BY <1>3 DEF Registers
  <2> QED
    BY <1>1, <2>1, <2>2 DEF MailInv
<1>4. ASSUME NEW x \in Sensors \intersect Alive, NEW v \in Readings, Reports(x, v)
      PROVE  MailInv'
  BY <1>4, ReadingPosted DEF Reports
<1>5. CASE RadioThread
  <2>1. ASSUME NEW a, RadioPing(a) PROVE MailInv'
    BY <2>1, <1>2 DEF RadioPing, tables
  <2>2. ASSUME NEW x, RadioKey(x) PROVE MailInv'
    BY <2>2, <1>2 DEF RadioKey, tables
  <2>3. CASE RadioKeyDone \/ RadioCall \/ RadioQueueSent
    BY <2>3, <1>2 DEF RadioKeyDone, RadioCall, RadioQueueSent, tables
  <2> QED
    BY <1>3, <1>4, <1>5, <2>1, <2>2, <2>3 DEF RadioThread, RadioRegistration, RadioReading
<1>6. CASE RS485Thread
  <2>1. ASSUME NEW a, WiredPing(a) PROVE MailInv'
    BY <2>1, <1>2 DEF WiredPing, tables
  <2>2. ASSUME NEW x, WiredKey(x) PROVE MailInv'
    BY <2>2, <1>2 DEF WiredKey, tables
  <2>3. CASE WiredKeyDone \/ WiredCall
    BY <2>3, <1>2 DEF WiredKeyDone, WiredCall, tables
  <2> QED
    BY <1>3, <1>4, <1>6, <2>1, <2>2, <2>3 DEF RS485Thread, WiredRegistration, WiredReading
<1>7. CASE RegistrationThread
  <2>1. pool' = [pool EXCEPT !.registration = @ + 1] /\ sensor_mb' = sensor_mb
    BY <1>7 DEF RegistrationThread
  <2> QED
    BY <1>1, <2>1 DEF MailInv
<1>8. CASE SensorReading
  <2>1. PICK n, b : pool' = [pool EXCEPT !.trigger = n, !.sensor = IF b THEN @ ELSE @ + 1]
    BY <1>8 DEF SensorReading
  <2>2. "sensor" \in DOMAIN pool' /\ pool'.sensor \in Nat
    <3>1. PICK p : p = [pool EXCEPT !.trigger = n]
      OBVIOUS
    <3>2. "sensor" \in DOMAIN p /\ p.sensor \in Nat
      BY <3>1 DEF MailInv
    <3>3. pool' = [p EXCEPT !.sensor = IF b THEN @ ELSE @ + 1]
      BY <2>1, <3>1
    <3> QED
      BY <3>2, <3>3
  <2>3. sensor_mb' \in Seq(Readouts)
    BY <1>8, HeadTailProperties DEF SensorReading, MailInv
  <2> QED
    BY <2>2, <2>3 DEF MailInv
<1>9. CASE SensorCall
  <2>1. pool' = [pool EXCEPT !.sensor = @ + 1] /\ sensor_mb' = sensor_mb
    BY <1>9 DEF SensorCall
  <2> QED
    BY <2>1 DEF MailInv
<1>10. CASE Page
  BY <1>2, <1>10 DEF Page, PageSelect, PageApply, PageApplied, tables
<1>11. ASSUME pool' = pool \/ pool' = [pool EXCEPT !.trigger = @ + 1], sensor_mb' = sensor_mb
       PROVE  MailInv'
  BY <1>1, <1>11 DEF MailInv
<1>12. CASE TriggerThread
  BY <1>11, <1>12 DEF TriggerThread, TriggerFetch, TriggerOther, TriggerOn, TriggerScript, TriggerOnSent,
                      TriggerOff, TriggerOffSent, Pass, Done, quiet
<1>13. CASE ServiceThread
  BY <1>2, <1>13 DEF ServiceThread, ServiceZombies, TimerStart, TimerScript, TimerOnSent, TimerEnd,
                     TimerOffSent, TriggerOffTime, TriggerOffTimeSent, quiet
<1>14. CASE Subscriber \/ Tick \/ \E i \in DOMAIN Timer : PageTimer(i)
  BY <1>2, <1>14 DEF Subscriber, SubSensor, SubSensorSent, Tick, PageTimer, quiet, tables
<1> QED
  BY <1>5, <1>6, <1>7, <1>8, <1>9, <1>10, <1>12, <1>13, <1>14 DEF Next, NodesNext, SensorThread

------------------------------------------------------------------------------
(* Keys in hand.                                                           *)

LEMMA NextIsNoKey ==
  ASSUME NEW t, NEW a, NEW n
  PROVE  NextQueued(t, a, n).pc # "checkKey"
BY DEF NextQueued, Idle

LEMMA HeldKept ==
  ASSUME NEW t, KeyHeld(t, node, now), NamesKept(node'), now' = now
  PROVE  KeyHeld(t, node', now')
<1>1. None \notin Keys
  BY NodesAssumption DEF Ids
<1> QED
  BY <1>1 DEF KeyHeld, NamesKept

LEMMA KeyTaken ==
  ASSUME NEW x \in Keys, IsTable(node), getNodeIndex(x) # Dummy, now' = now,
         node' = [node EXCEPT ![getNodeIndex(x)].lastOK = now],
         NEW t, t.slot = getNodeIndex(x)
  PROVE  KeyHeld(t, node', now')
<1>1. getNodeIndex(x) \in Slots /\ node[getNodeIndex(x)].id = x
  BY IndexFound
<1> QED
  BY <1>1 DEF KeyHeld, IsTable

LEMMA RegistrationKeepsKeys ==
  ASSUME IsTable(node), KeysInv, RegistrationThread
  PROVE  KeysInv'
<1> DEFINE m == Head(registration_mb)
           s == SlotFor(m)
<1>1. now' = now /\ radio' = radio /\ rs485' = rs485
  BY DEF RegistrationThread
<1>2. ASSUME NEW t, KeyHeld(t, node, now)
      PROVE  KeyHeld(t, node', now')
  <2>1. CASE s = Dummy
    <3>1. node' = node
      BY <2>1 DEF RegistrationThread
    <3> QED
      BY <1>1, <1>2, <3>1 DEF KeyHeld
  <2>2. CASE s # Dummy
    <3>1. node' = Renewed(s, m)
      BY <2>2 DEF RegistrationThread
    <3>2. s \in Slots /\ node[s].id \in {m.id, None}
      <4>1. getNodeFreeIndex = getNodeIndex(None)
        BY DEF getNodeFreeIndex, getNodeIndex
      <4> QED
        BY <2>2, <4>1, IndexFound DEF SlotFor
    <3> HIDE DEF m, s
    <3>3. /\ node'[s].id = m.id /\ node'[s].lastOK = now
          /\ \A q \in Slots \ {s} : node'[q] = node[q]
      <4>1. PICK a : a = [node EXCEPT ![s].id = m.id]
        OBVIOUS
      <4>2. IsTable(a) /\ a[s].id = m.id /\ \A q \in Slots \ {s} : a[q] = node[q]
        BY <3>2, <4>1 DEF IsTable
      <4>3. PICK b : b = [a EXCEPT ![s].setting = m.setting]
        OBVIOUS
      <4>4. IsTable(b) /\ b[s].id = m.id /\ \A q \in Slots \ {s} : b[q] = node[q]
        BY <3>2, <4>2, <4>3 DEF IsTable
      <4>5. PICK c : c = [b EXCEPT ![s].lastOK = now]
        OBVIOUS
      <4>6. IsTable(c) /\ c[s].id = m.id /\ c[s].lastOK = now /\ \A q \in Slots \ {s} : c[q] = node[q]
        BY <3>2, <4>4, <4>5 DEF IsTable
      <4>7. PICK value : value = IF m.id \in Keys THEN Dummy ELSE 0
        OBVIOUS
      <4>8. node' = [c EXCEPT ![s].value = value]
        BY <3>1, <4>1, <4>3, <4>5, <4>7 DEF Renewed
      <4> QED
        BY <3>2, <4>6, <4>8 DEF IsTable
    <3>4. None \notin Keys
      BY NodesAssumption DEF Ids
    <3> QED
      BY <1>1, <1>2, <3>2, <3>3, <3>4 DEF KeyHeld
  <2> QED
    BY <2>1, <2>2
<1> QED
  BY <1>1, <1>2 DEF KeysInv

LEMMA KeysKept ==
  ASSUME IsTable(node), KeysInv, RegistrationThread \/ NamesKept(node'), Next
  PROVE  KeysInv'
<1> SUFFICES ASSUME NamesKept(node') PROVE KeysInv'
  BY RegistrationKeepsKeys
<1>1. CASE now' = now /\ UNCHANGED <<radio, rs485>>
  BY <1>1, HeldKept DEF KeysInv
<1>2. ASSUME now' = now, rs485' = rs485, radio'.pc # "checkKey"
      PROVE  KeysInv'
  BY <1>2, HeldKept DEF KeysInv, KeyHeld
<1>3. ASSUME now' = now, radio' = radio, rs485'.pc # "checkKey"
      PROVE  KeysInv'
  BY <1>3, HeldKept DEF KeysInv, KeyHeld
<1>4. CASE RadioThread
  <2>1. ASSUME NEW a, RadioRegistration(a) \/ RadioPing(a) PROVE KeysInv'
    BY <1>2, <2>1, NextIsNoKey DEF RadioRegistration, Registers, RadioPing
  <2>2. ASSUME NEW x, NEW v, RadioReading(x, v) PROVE KeysInv'
    BY <1>2, <2>2, NextIsNoKey DEF RadioReading, Reports
  <2>3. ASSUME NEW x \in Keys, RadioKey(x) PROVE KeysInv'
    <3>1. rs485' = rs485 /\ now' = now
      BY <2>3 DEF RadioKey
    <3>2. CASE radio'.pc # "checkKey"
      BY <1>2, <3>1, <3>2
    <3>3. CASE /\ getNodeIndex(x) # Dummy
               /\ node' = [node EXCEPT ![getNodeIndex(x)].lastOK = now]
               /\ radio' = [pc |-> "checkKey", from |-> conf.addr[x], slot |-> getNodeIndex(x)]
      <4>1. KeyHeld(radio', node', now')
        BY <3>1, <3>3, KeyTaken
      <4> QED
        BY <3>1, <4>1, HeldKept DEF KeysInv
    <3> QED
      BY <2>3, <3>2, <3>3, NextIsNoKey DEF RadioKey
  <2>4. CASE RadioKeyDone \/ RadioCall
    BY <1>2, <2>4, NextIsNoKey DEF RadioKeyDone, RadioCall
  <2>5. CASE RadioQueueSent
    BY <1>2, <2>5, NextIsNoKey DEF RadioQueueSent
  <2> QED
    BY <1>4, <2>1, <2>2, <2>3, <2>4, <2>5 DEF RadioThread
<1>5. CASE RS485Thread
  <2>1. ASSUME NEW a, WiredRegistration(a) \/ WiredPing(a) PROVE KeysInv'
    BY <1>1, <1>3, <2>1 DEF WiredRegistration, Registers, WiredPing, Idle
  <2>2. ASSUME NEW x, NEW v, WiredReading(x, v) PROVE KeysInv'
    BY <1>1, <2>2 DEF WiredReading, Reports
  <2>3. ASSUME NEW x \in Keys, WiredKey(x) PROVE KeysInv'
    <3>1. radio' = radio /\ now' = now
      BY <2>3 DEF WiredKey
    <3>2. CASE rs485'.pc # "checkKey"
      BY <1>3, <3>1, <3>2
    <3>3. CASE /\ getNodeIndex(x) # Dummy
               /\ node' = [node EXCEPT ![getNodeIndex(x)].lastOK = now]
               /\ rs485' = [pc |-> "checkKey", slot |-> getNodeIndex(x)]
      <4>1. KeyHeld(rs485', node', now')
        BY <3>1, <3>3, KeyTaken
      <4> QED
        BY <3>1, <4>1, HeldKept DEF KeysInv
    <3> QED
      BY <2>3, <3>2, <3>3 DEF WiredKey, Idle
  <2>4. CASE WiredKeyDone \/ WiredCall
    BY <1>3, <2>4 DEF WiredKeyDone, WiredCall, Idle
  <2> QED
    BY <1>5, <2>1, <2>2, <2>3, <2>4 DEF RS485Thread
<1>6. CASE RegistrationThread
  BY <1>6, RegistrationKeepsKeys
<1>7. CASE SensorThread \/ Page
  BY <1>1, <1>7 DEF SensorThread, SensorReading, SensorCall, Page, PageSelect, PageApply, PageApplied
<1>8. CASE TriggerThread
  BY <1>1, <1>8 DEF TriggerThread, TriggerFetch, TriggerOther, TriggerOn, TriggerScript, TriggerOnSent,
                    TriggerOff, TriggerOffSent, quiet
<1>9. CASE ServiceThread
  BY <1>1, <1>9 DEF ServiceThread, ServiceZombies, TimerStart, TimerScript, TimerOnSent, TimerEnd,
                    TimerOffSent, TriggerOffTime, TriggerOffTimeSent, quiet
<1>10. CASE Subscriber \/ \E i \in DOMAIN Timer : PageTimer(i)
  BY <1>1, <1>10 DEF Subscriber, SubSensor, SubSensorSent, PageTimer, quiet
<1>11. CASE Tick
  BY <1>11 DEF Tick, KeysInv, KeyHeld, Idle, quiet
<1> QED
  BY <1>4, <1>5, <1>6, <1>7, <1>8, <1>9, <1>10, <1>11 DEF Next, NodesNext

------------------------------------------------------------------------------
(* The slots of who sends.                                                 *)

LEMMA SlotsKept ==
  ASSUME SlotInv, Next
  PROVE  SlotInv'
<1> USE IndexFound
<1>1. Slots' = Slots
  BY DEF Slots
<1>2. CASE NodesNext /\ UNCHANGED switchVars
  BY <1>1, <1>2 DEF SlotInv, switchVars
<1>3. ASSUME NEW i
      PROVE  /\ "pc" \in DOMAIN AfterTrigger(i) /\ AfterTrigger(i).pc \notin {"on", "off"}
             /\ "pc" \in DOMAIN AfterTimer(i) /\ AfterTimer(i).pc \notin {"on", "timerOff", "triggerOff"}
             /\ "pc" \in DOMAIN AfterOff(i) /\ AfterOff(i).pc \notin {"on", "timerOff", "triggerOff"}
             /\ "pc" \in DOMAIN ToTimers /\ ToTimers.pc \notin {"on", "timerOff", "triggerOff"}
  BY DEF AfterTrigger, AfterTimer, AfterOff, ToTimers, ToTriggers, At1, Trying, Idle
<1>4. CASE TriggerThread
  <2>1. UNCHANGED <<svc, sub>>
    BY <1>4 DEF TriggerThread, TriggerFetch, TriggerOther, TriggerOn, TriggerScript, TriggerOnSent,
                TriggerOff, TriggerOffSent
  <2>2. ASSUME "pc" \in DOMAIN trig', trig'.pc \in {"on", "off"} => trig'.slot \in Slots
        PROVE  SlotInv'
    BY <1>1, <2>1, <2>2 DEF SlotInv
  <2>3. CASE TriggerFetch
    BY <2>2, <2>3 DEF TriggerFetch, Trying, SlotInv
  <2>4. CASE TriggerOther \/ TriggerOnSent \/ TriggerOffSent
    BY <1>3, <2>2, <2>4 DEF TriggerOther, TriggerOnSent, TriggerOffSent, Done
  <2>5. ASSUME NEW i, NEW t, Pass(i, t)
        PROVE  SlotInv'
    BY <1>3, <2>2, <2>5 DEF Pass, Done, Sending
  <2>6. CASE TriggerOn
    <3>1. \/ trig' = [trig EXCEPT !.pc = "script"]
          \/ \E i, t : Pass(i, t)
      BY <2>6 DEF TriggerOn
    <3> QED
      BY <2>2, <2>5, <3>1 DEF SlotInv
  <2>7. CASE TriggerScript
    BY <2>5, <2>7 DEF TriggerScript
  <2>8. CASE TriggerOff
    BY <1>3, <2>2, <2>8 DEF TriggerOff, Done, Sending
  <2> QED
    BY <1>4, <2>3, <2>4, <2>6, <2>7, <2>8 DEF TriggerThread
<1>5. CASE ServiceThread
  <2>1. UNCHANGED <<trig, sub>>
    BY <1>5 DEF ServiceThread, ServiceZombies, TimerStart, TimerScript, TimerOnSent, TimerEnd,
                TimerOffSent, TriggerOffTime, TriggerOffTimeSent
  <2>2. ASSUME "pc" \in DOMAIN svc', svc'.pc \in {"on", "timerOff", "triggerOff"} => svc'.slot \in Slots
        PROVE  SlotInv'
    BY <1>1, <2>1, <2>2 DEF SlotInv
  <2>3. CASE ServiceZombies \/ TimerOffSent \/ TriggerOffTimeSent \/ TimerOnSent
    <3>1. \/ svc' = ToTimers \/ svc' = AfterTimer(svc.i) \/ svc' = AfterOff(svc.i)
          \/ svc' = [pc |-> "end", i |-> svc.i]
      BY <2>3 DEF ServiceZombies, TimerOffSent, TriggerOffTimeSent, TimerOnSent
    <3> QED
      BY <1>3, <2>2, <3>1
  <2>4. ASSUME NEW pc, NEW i, TimerSend(pc, i), getNodeIndex(Timer[i].to) # Dummy
        PROVE  SlotInv'
    BY <2>2, <2>4 DEF TimerSend
  <2>5. ASSUME svc' = [svc EXCEPT !.pc = "end"] \/ svc' = [svc EXCEPT !.pc = "script"]
        PROVE  SlotInv'
    BY <2>2, <2>5 DEF SlotInv
  <2>6. CASE TimerStart
    BY <2>4, <2>5, <2>6 DEF TimerStart, TimerSends
  <2>7. CASE TimerScript
    BY <2>4, <2>5, <2>7 DEF TimerScript, TimerSends
  <2>8. CASE TimerEnd
    BY <1>3, <2>2, <2>4, <2>8 DEF TimerEnd, TimerSends
  <2>9. CASE TriggerOffTime
    BY <1>3, <2>2, <2>9 DEF TriggerOffTime, OffSlot
  <2> QED
    BY <1>5, <2>3, <2>6, <2>7, <2>8, <2>9 DEF ServiceThread
<1>6. ASSUME NEW x, NEW v, SubSensor(x, v)
      PROVE  SlotInv'
  BY <1>1, <1>6 DEF SubSensor, SlotInv
<1>7. CASE SubSensorSent
  BY <1>1, <1>7 DEF SubSensorSent, SlotInv
<1>8. CASE Tick
  BY <1>1, <1>8 DEF Tick, SlotInv
<1>9. ASSUME NEW i \in DOMAIN Timer, PageTimer(i)
      PROVE  SlotInv'
  BY <1>1, <1>9 DEF PageTimer, SlotInv
<1> QED
  BY <1>2, <1>4, <1>5, <1>6, <1>7, <1>8, <1>9 DEF Next, Subscriber

------------------------------------------------------------------------------
LEMMA InitIInv == Init => IInv
<1> SUFFICES ASSUME Init PROVE IInv
  OBVIOUS
<1>1. node = [s \in Slots |-> Free]
  BY DEF Init, NodesInit
<1>2. IsTable(node) /\ \A s \in Slots : node[s].id = None
  BY <1>1 DEF Free, IsTable
<1>3. TableInv
  BY <1>2 DEF TableInv, OneSlotPerNode
<1>4. WorldInv
  BY DEF Init, NodesInit, WorldInv
<1>5. MailInv
  <2>1. <<>> \in Seq(Readouts)
    OBVIOUS
  <2> QED
    BY <2>1, NodesAssumption DEF Init, NodesInit, MailInv
<1>6. KeysInv /\ SlotInv
  BY DEF Init, NodesInit, KeysInv, KeyHeld, SlotInv, Idle
<1>7. AgreeAll
  BY <1>2, NodesAssumption DEF AgreeAll, Shown, Ids
<1> QED
  BY <1>3, <1>4, <1>5, <1>6, <1>7 DEF IInv, StateInv

LEMMA NextIInv == IInv /\ [Next]_vars => IInv'
<1> SUFFICES ASSUME IInv, [Next]_vars PROVE IInv'
  OBVIOUS
<1>1. TableInv /\ WorldInv /\ MailInv /\ KeysInv /\ SlotInv /\ AgreeAll /\ IsTable(node)
  BY DEF IInv, StateInv, TableInv
<1>2. CASE Next
  <2>1. RegistrationThread \/ Calm \/ Sent
    BY <1>1, <1>2, RadioIsCalm, RS485IsCalm, OthersAreCalm, TriggerIsCalmOrSends, ServiceIsCalmOrSends,
       RestIsCalmOrSends DEF Next, NodesNext
  <2>2. TableInv' /\ WorldInv' /\ AgreeAll' /\ (RegistrationThread \/ NamesKept(node'))
    <3>1. CASE RegistrationThread
      BY <1>1, <3>1, RegistrationKeeps, RegistrationAgrees
    <3>2. CASE Calm
      BY <1>1, <3>2, CalmKeeps DEF Calm
    <3>3. CASE Sent
      BY <1>1, <3>3, SentKeeps
    <3> QED
      BY <2>1, <3>1, <3>2, <3>3
  <2>3. MailInv' /\ KeysInv' /\ SlotInv'
    BY <1>1, <1>2, <2>2, MailKept, KeysKept, SlotsKept
  <2> QED
    BY <2>2, <2>3 DEF IInv, StateInv
<1>3. CASE UNCHANGED vars
  <2>1. UNCHANGED <<conf, now, node, dev, last, pool, sensor_mb, radio, rs485, trig, svc, sub>>
    BY <1>3 DEF vars, nodeVars, switchVars, tables
  <2>2. TableInv' /\ WorldInv' /\ AgreeAll'
    BY <1>1, <2>1, UnchangedIsCalm, CalmKeeps
  <2>3. MailInv' /\ KeysInv' /\ SlotInv'
    BY <1>1, <2>1 DEF MailInv, KeysInv, KeyHeld, SlotInv, Slots
  <2> QED
    BY <2>2, <2>3 DEF IInv, StateInv
<1> QED
  BY <1>2, <1>3

(* A node has one slot in the table, whatever order it registers in, is    *)
(* forgotten in and has its slot given away in (registrationThread of      *)
(* ohs_th_registration.h with getNodeIndex and getNodeFreeIndex).          *)
THEOREM OneSlot == Spec => []OneSlotPerNode
<1>1. IInv => OneSlotPerNode
  BY DEF IInv, TableInv
<1> QED
  BY InitIInv, NextIInv, <1>1, PTL DEF Spec

(* The table tells the truth about an output that was last switched by an  *)
(* acknowledged send, by the trigger thread, a timer, an off-time or MQTT, *)
(* whatever the other threads write in between (ohs_th_trigger.h,          *)
(* ohs_th_service.h, ohs_mqtt_functions.h).                                *)
THEOREM TableIsTrue == Spec => []Agree
<1>1. IInv => Agree
  <2> SUFFICES ASSUME IInv, NEW x \in Outputs \intersect Alive, Known(x), Trusted(x)
               PROVE  node[getNodeIndex(x)].value = dev[x].out
    BY DEF Agree, Trusted
  <2>1. getNodeIndex(x) \in Slots /\ node[getNodeIndex(x)].id = x
    BY IndexFound DEF Known
  <2> QED
    BY <2>1 DEF IInv, AgreeAll, Shown
<1> QED
  BY InitIInv, NextIInv, <1>1, PTL DEF Spec

----------------------------------------------------------------------------
(* The settings never change; the flags and times have their types.        *)
TriggerFlags == [triggered : BOOLEAN, passed : BOOLEAN, result : BOOLEAN, nextOff : Nat]
TimerFlags == [nextOn : Nat, nextOff : Nat, triggered : BOOLEAN, result : BOOLEAN]
FlagInv ==
  /\ conf \in Confs
  /\ trg \in [DOMAIN Trigger -> TriggerFlags]
  /\ tmr \in [DOMAIN Timer -> TimerFlags]

(* The output that a trigger or a timer has switched is its own.           *)
AimInv ==
  \A x \in Outputs \intersect Alive :
    /\ \A i \in DOMAIN Trigger : last[x] = <<"trigger", i>> => x = Trigger[i].to
    /\ \A i \in DOMAIN Timer : last[x] = <<"timer", i>> => x = Timer[i].to

(* The times: an off-time is set at most its length ahead, a run ends its  *)
(* length after its start.                                                 *)
TimesInv ==
  /\ \A i \in DOMAIN Trigger : Trigger[i].passOff = "timer" => trg[i].nextOff <= now + Trigger[i].offTime
  /\ \A i \in DOMAIN Timer : tmr[i].nextOff = tmr[i].nextOn + Timer[i].run

(* Only a trigger that switches off by value is switched off by it.        *)
OffInv == trig.pc = "off" /\ trig.i \in DOMAIN Trigger => Trigger[trig.i].passOff = "yes"

OnBy(x, by) == Known(x) /\ last[x] = by
Agreed(i) == tmr[i].result \/ ~Timer[i].script

(* The service thread holds a timer whose start is due, unless the page    *)
(* sets it anew; while its script runs it has nothing on.                  *)
StartInv ==
  LET i == svc.i IN
    svc.pc \in {"script", "on"} /\ i \in DOMAIN Timer =>
      /\ tmr[i].triggered => tmr[i].nextOn <= now
      /\ svc.pc = "on" => Agreed(i)
      /\ svc.pc = "script" => \A x \in Outputs \intersect Alive : ~OnBy(x, <<"timer", i>>)

OnTrigger ==
  \A x \in Outputs \intersect Alive, i \in DOMAIN Trigger :
    /\ OnBy(x, <<"trigger", i>>)
    /\ Trigger[i].passOff = "timer" /\ Trigger[i].timersNumber /\ ~Trigger[i].script
    => trg[i].triggered
OnTimer ==
  \A x \in Outputs \intersect Alive, i \in DOMAIN Timer :
    OnBy(x, <<"timer", i>>) => tmr[i].triggered /\ tmr[i].nextOn <= now /\ Agreed(i)

OnInv == FlagInv /\ AimInv /\ TimesInv /\ OffInv /\ StartInv /\ OnTrigger /\ OnTimer

(* The off-time of a trigger looks its output up by the number of a timer. *)
NumbersAgree ==
  \A c \in Confs : \A i \in DOMAIN c.trigger : c.trigger[i].passOff = "timer" => c.trigger[i].timersNumber

(* A run of a period timer is over when the next one begins.               *)
RunsFit ==
  \A c \in Confs : \A i \in DOMAIN c.timer : ~c.timer[i].calendar => c.timer[i].run <= c.timer[i].period

(* The service thread has yet to look at timer i in this second.           *)
AtTimer == svc.pc \in {"start", "script", "on", "end", "timerOff"}
ToCome(i) == svc.pc = "housekeeping" \/ (AtTimer /\ svc.i <= i)

(* A period timer that has started once is never more than a period late,  *)
(* and on time when the service thread has looked at it.                   *)
InPeriod ==
  \A i \in DOMAIN Timer :
    LET next == tmr[i].nextOn + Timer[i].period IN
      ~Timer[i].calendar /\ tmr[i].nextOn > 0 =>
        Timer[i].period # 0 /\ (now < next \/ (now = next /\ ToCome(i)))

(* The service thread is at one of the timers; one that it switches off    *)
(* has started.                                                            *)
PlaceInv ==
  /\ AtTimer => svc.i \in DOMAIN Timer
  /\ svc.pc = "timerOff" /\ ~Timer[svc.i].calendar => now > 0 /\ tmr[svc.i].nextOn > 0

PeriodInv == PlaceInv /\ InPeriod

(* Timer c starts k days from today.                                       *)
Hit(c, k) == Weekday(now + k * Day) \in c.days /\ ~(k = 0 /\ (now % Day) > c.start)

(***************************************************************************)
(* The search for the day: the first of the next eight on which a calendar *)
(* timer starts, 8 when there is none.                                     *)
(***************************************************************************)
LEMMA DaysAheadFound ==
  ASSUME NEW c
  PROVE  LET n == DaysAhead(c) IN
           n \in 0..8 /\ (\A k \in 0..(n - 1) : ~Hit(c, k)) /\ (n # 8 => Hit(c, n))
<1> DEFINE F(h) == [k \in 0..8 |-> IF k = 8 THEN 8
                                   ELSE IF Weekday(now + k * Day) \in c.days /\ ~(k = 0 /\ (now % Day) > c.start)
                                   THEN k ELSE h[k + 1]]
           scan == CHOOSE h : h = F(h)
           First(k, n) == n \in k..8 /\ (n = 8 \/ Hit(c, n)) /\ \A j \in k..(n - 1) : ~Hit(c, j)
<1>1. DaysAhead(c) = scan[0]
  BY DEF DaysAhead
<1>2. \A k \in 0..8 : \E n : First(k, n)
  <2> TAKE k \in 0..8
  <2> DEFINE N == {n \in k..8 : n = 8 \/ Hit(c, n)}
  <2>1. N \subseteq Nat /\ 8 \in N
    OBVIOUS
  <2>2. PICK n \in N : \A m \in N : n <= m
    BY <2>1, LeastExists
  <2>3. \A j \in k..(n - 1) : ~Hit(c, j)
    BY <2>2
  <2> QED
    BY <2>2, <2>3
<1>3. \E h : h = F(h)
  <2> DEFINE h == [k \in 0..8 |-> CHOOSE n : First(k, n)]
  <2>1. \A k \in 0..8 : First(k, h[k])
    BY <1>2
  <2> HIDE DEF h
  <2>2. ASSUME NEW k \in 0..7 PROVE h[k] = IF Hit(c, k) THEN k ELSE h[k + 1]
    <3>1. First(k, h[k]) /\ First(k + 1, h[k + 1])
      BY <2>1
    <3> QED
      BY <3>1
  <2>3. h[8] = 8
    BY <2>1
  <2>4. h = [k \in 0..8 |-> h[k]]
    BY DEF h
  <2>5. h = F(h)
    BY <2>2, <2>3, <2>4 DEF Hit
  <2> QED
    BY <2>5
<1>4. scan = F(scan)
  BY <1>3
<1> HIDE DEF scan
<1>5. \A k \in 0..7 : scan[k] = IF Hit(c, k) THEN k ELSE scan[k + 1]
  BY <1>4 DEF Hit
<1>6. scan[8] = 8
  BY <1>4
<1>7. ASSUME NEW k \in 0..7, First(k + 1, scan[k + 1]) PROVE First(k, scan[k])
  BY <1>5, <1>7
<1>8. First(8, scan[8])
  BY <1>6
<1>9. First(0, scan[0])
  BY <1>7, <1>8
<1> QED
  BY <1>1, <1>9

(***************************************************************************)
(* A calendar timer is set to the first of its starts that is not over.    *)
(***************************************************************************)
LEMMA CalendarIsNext ==
  ASSUME now \in Nat, NEW c \in Timers
  PROVE  /\ CalendarOn(c) \in Nat
         /\ CalendarOn(c) = IF Starts(c) = {} THEN 0 ELSE Min(Starts(c))
<1> DEFINE q == now \div Day
           r == now % Day
           n == DaysAhead(c)
           start(k) == (q + k) * Day + c.start
<1>1. Day \in Nat \ {0} /\ c.start \in 0..(Day - 1)
  BY SwitchingAssumption DEF Timers
<1>2. q \in Nat /\ r \in 0..(Day - 1) /\ now = q * Day + r
  BY <1>1, Division
<1>3. Midnight = q * Day
  <2> HIDE DEF q
  <2>1. q * Day \in Nat
    BY <1>1, <1>2
  <2> QED
    BY <1>1, <1>2, <2>1 DEF Midnight, r
<1>4. n \in 0..8 /\ (\A k \in 0..(n - 1) : ~Hit(c, k)) /\ (n # 8 => Hit(c, n))
  BY DaysAheadFound
<1>5. CalendarOn(c) = IF n = 8 THEN 0 ELSE Midnight + c.start + n * Day
  BY DEF CalendarOn
<1> HIDE DEF q, r, n
<1>6. \A k \in Nat : (q + k) * Day = q * Day + k * Day /\ k * Day \in Nat
  BY <1>1, <1>2
<1>7. q * Day \in Nat
  BY <1>1, <1>2
<1>8. CalendarOn(c) = IF n = 8 THEN 0 ELSE start(n)
  BY <1>1, <1>3, <1>4, <1>5, <1>6, <1>7
<1>9. ASSUME NEW k \in Nat
      PROVE  /\ start(k) \in Nat
             /\ start(k) \div Day = q + k /\ start(k) % Day = c.start
             /\ Weekday(start(k)) = Weekday(now + k * Day)
  <2>0. q + k \in Nat
    BY <1>2
  <2>1. start(k) \div Day = q + k /\ start(k) % Day = c.start
    <3> DEFINE p == q + k
    <3> HIDE DEF p
    <3>1. (p * Day + c.start) \div Day = p /\ (p * Day + c.start) % Day = c.start
      BY <1>1, <2>0, Parts DEF p
    <3> QED
      BY <3>1 DEF p
  <2>2. now + k * Day = (q + k) * Day + r
    BY <1>1, <1>2, <1>6, <1>7
  <2>3. (now + k * Day) \div Day = q + k
    <3> DEFINE p == q + k
    <3> HIDE DEF p
    <3>1. (p * Day + r) \div Day = p
      BY <1>1, <1>2, <2>0, Parts DEF p
    <3> QED
      BY <2>2, <3>1 DEF p
  <2>4. start(k) \in Nat
    <3>1. (q + k) * Day \in Nat
      BY <1>1, <2>0
    <3> QED
      BY <1>1, <3>1
  <2>5. Weekday(start(k)) = Weekday(now + k * Day)
    <3> HIDE DEF start
    <3> QED
      BY <2>1, <2>3 DEF Weekday
  <2> QED
    BY <2>1, <2>4, <2>5
<1>10. ASSUME NEW k \in 0..7, Hit(c, k)
       PROVE  start(k) \in Starts(c)
  <2>1. Weekday(start(k)) \in c.days
    BY <1>9, <1>10 DEF Hit
  <2>2. start(k) >= now
    <3>1. CASE k = 0
      BY <1>1, <1>2, <1>7, <1>10, <3>1 DEF Hit, r
    <3>2. CASE k # 0
      <4>1. q * Day + Day <= (q + k) * Day
        BY <1>1, <1>2, <3>2, Times
      <4> QED
        BY <1>1, <1>2, <1>6, <1>7, <4>1
    <3> QED
      BY <3>1, <3>2
  <2>3. start(k) <= now + 8 * Day
    <3>1. (q + k) * Day + Day <= (q + 8) * Day
      BY <1>1, <1>2, Times
    <3> QED
      BY <1>1, <1>2, <1>6, <1>7, <3>1
  <2> QED
    BY <1>1, <1>2, <1>9, <2>1, <2>2, <2>3 DEF Starts
<1>11. ASSUME NEW t \in Starts(c)
       PROVE  \E k \in 0..7 : Hit(c, k) /\ start(k) <= t
  <2> DEFINE p == t \div Day
  <2>1. t \in Nat /\ now <= t /\ t <= now + 8 * Day /\ t % Day = c.start /\ Weekday(t) \in c.days
    BY <1>1, <1>2, <1>7 DEF Starts
  <2>2. p \in Nat /\ t = p * Day + c.start
    BY <1>1, <2>1, Division
  <2> HIDE DEF p
  <2>3. q <= p
    <3> SUFFICES ASSUME p < q PROVE FALSE
      BY <1>2, <2>2
    <3>1. p * Day + Day <= q * Day
      BY <1>1, <1>2, <2>2, Times
    <3> QED
      BY <1>1, <1>2, <2>1, <2>2, <3>1
  <2>4. p <= q + 8
    <3> SUFFICES ASSUME q + 8 < p PROVE FALSE
      BY <1>2, <2>2
    <3>1. (q + 8) * Day + Day <= p * Day
      BY <1>1, <1>2, <2>2, Times
    <3> QED
      BY <1>1, <1>2, <1>6, <1>7, <2>1, <2>2, <3>1
  <2>5. PICK k \in 0..8 : p = q + k
    <3>1. p - q \in 0..8 /\ p = q + (p - q)
      BY <1>2, <2>2, <2>3, <2>4
    <3> QED
      BY <3>1
  <2>6. t = start(k)
    BY <2>2, <2>5
  <2>7. Weekday(now + k * Day) \in c.days
    BY <1>9, <2>1, <2>6
  <2>8. CASE k # 8
    <3>1. k = 0 => r <= c.start
      BY <1>1, <1>2, <1>7, <2>1, <2>6
    <3>2. Hit(c, k)
      BY <1>1, <1>2, <2>7, <3>1 DEF Hit, r
    <3> QED
      BY <1>9, <2>6, <2>8, <3>2
  <2>9. CASE k = 8
    <3>1. Weekday(start(1)) = Weekday(start(8))
      <4> DEFINE a == (q + 1) \div 7
                 b == (q + 1) % 7
      <4>1. a \in Nat /\ b \in 0..6 /\ q + 1 = a * 7 + b
        BY <1>2, Division
      <4> HIDE DEF a, b
      <4>2. q + 8 = (a + 1) * 7 + b
        BY <1>2, <4>1
      <4>3. (q + 1) % 7 = b /\ (q + 8) % 7 = b
        <5>1. (q + 1) % 7 = b
          BY <1>2, <4>1
        <5>2. (q + 8) % 7 = b
          BY <1>2, <4>1, <4>2
        <5> QED
          BY <5>1, <5>2
      <4> QED
        BY <1>9, <4>3 DEF Weekday
    <3>2. Hit(c, 1)
      BY <1>9, <2>7, <2>9, <3>1 DEF Hit
    <3>3. start(1) <= t
      <4>1. (q + 1) * Day + Day <= (q + 8) * Day
        BY <1>1, <1>2, Times
      <4> QED
        BY <1>1, <1>6, <1>7, <2>6, <2>9, <4>1
    <3> QED
      BY <3>2, <3>3
  <2> QED
    BY <2>8, <2>9
<1>12. CASE n = 8
  <2>1. Starts(c) = {}
    BY <1>4, <1>11, <1>12
  <2> QED
    BY <1>8, <1>12, <2>1
<1>13. CASE n # 8
  <2>1. start(n) \in Starts(c) /\ start(n) \in Nat
    BY <1>4, <1>9, <1>10, <1>13
  <2>2. ASSUME NEW t \in Starts(c)
        PROVE  start(n) <= t
    <3>1. PICK k \in 0..7 : Hit(c, k) /\ start(k) <= t
      BY <1>11
    <3>2. n <= k
      BY <1>4, <3>1
    <3>3. start(n) <= start(k)
      <4>1. CASE n = k
        BY <1>9, <4>1
      <4>2. CASE n # k
        <5>1. (q + n) * Day + Day <= (q + k) * Day
          BY <1>1, <1>2, <1>4, <3>2, <4>2, Times
        <5> QED
          BY <1>1, <1>4, <1>6, <1>7, <5>1
      <4> QED
        BY <4>1, <4>2
    <3>4. t \in Nat /\ start(k) \in Nat
      BY <1>1, <1>2, <1>7, <1>9 DEF Starts
    <3> QED
      BY <1>4, <1>9, <3>1, <3>3, <3>4
  <2>3. Starts(c) \subseteq Nat
    BY <1>1, <1>2, <1>7 DEF Starts
  <2>4. Min(Starts(c)) = start(n)
    <3> HIDE DEF start
    <3> QED
      BY <2>1, <2>2, <2>3 DEF Min
  <2> QED
    BY <1>8, <1>13, <2>1, <2>4
<1> QED
  BY <1>12, <1>13

(***************************************************************************)
(* A period timer that is started afresh begins in its period, not before  *)
(* now.                                                                    *)
(***************************************************************************)
LEMMA PeriodIsKept ==
  ASSUME now \in Nat, NEW c \in Timers, c.period # 0, NEW t
  PROVE  LET on == PeriodOn(c, t, TRUE) IN
           on \in Nat /\ on >= now /\ (on - (Midnight + c.start)) % c.period = 0
<1> DEFINE first == Midnight + c.start
           p == c.period
           on == PeriodOn(c, t, TRUE)
<1>1. c.start \in Nat /\ p \in Nat \ {0} /\ Day \in Nat \ {0}
  BY SwitchingAssumption DEF Timers
<1>2. first \in Nat
  <2> DEFINE q == now \div Day
             r == now % Day
  <2>1. q \in Nat /\ r \in 0..(Day - 1) /\ now = q * Day + r
    BY <1>1, Division
  <2>2. q * Day \in Nat
    <3> HIDE DEF q
    <3> QED
      BY <1>1, <2>1
  <2> HIDE DEF q
  <2>3. Midnight \in Nat
    BY <2>1, <2>2 DEF Midnight
  <2> QED
    BY <1>1, <2>3
<1>3. on = IF now > first THEN first + ((now - first) \div p + 1) * p ELSE first
  BY DEF PeriodOn
<1> HIDE DEF first, p, on
<1>4. CASE now > first
  <2> DEFINE d == now - first
             k == d \div p
  <2>1. d \in Nat /\ now = first + d
    BY <1>2, <1>4
  <2>2. k \in Nat /\ d % p \in 0..(p - 1) /\ d = k * p + (d % p)
    BY <1>1, <2>1, Division
  <2>3. on = first + (k + 1) * p
    BY <1>3, <1>4
  <2> HIDE DEF d, k
  <2>4. k + 1 \in Nat /\ (k + 1) * p = k * p + p /\ k * p \in Nat
    BY <1>1, <2>2
  <2>5. on - first = (k + 1) * p + 0 /\ on \in Nat /\ on >= now
    BY <1>1, <1>2, <2>1, <2>2, <2>3, <2>4
  <2>6. (on - first) % p = 0
    <3> DEFINE m == k + 1
    <3>1. 0 \in 0..(p - 1)
      BY <1>1
    <3> HIDE DEF m
    <3>2. (m * p + 0) % p = 0
      BY <1>1, <2>4, <3>1, Parts DEF m
    <3> QED
      BY <2>5, <3>2 DEF m
  <2> QED
    BY <2>5, <2>6 DEF on, first, p
<1>5. CASE ~(now > first)
  <2>1. on = first /\ on \in Nat /\ on >= now
    BY <1>2, <1>3, <1>5
  <2>2. (on - first) % p = 0
    <3>1. on - first = 0
      BY <1>2, <2>1
    <3>2. 0 \in 0..(p - 1) /\ 0 \in Nat /\ 0 = 0 * p + 0
      BY <1>1
    <3> QED
      BY <1>1, <3>1, <3>2, Parts
  <2> QED
    BY <2>1, <2>2 DEF on, first, p
<1> QED
  BY <1>4, <1>5

(***************************************************************************)
(* A timer that is set has its next start, the end of that run, and what   *)
(* its script said last.                                                   *)
(***************************************************************************)
LEMMA TimerIsSet ==
  ASSUME now \in Nat, NEW c \in Timers, NEW t \in TimerFlags, NEW restart \in BOOLEAN
  PROVE  LET s == setTimer(c, t, restart) IN
           /\ s \in TimerFlags
           /\ ~s.triggered /\ s.result = t.result /\ s.nextOff = s.nextOn + c.run
           /\ c.calendar => s.nextOn = IF Starts(c) = {} THEN 0 ELSE Min(Starts(c))
           /\ ~c.calendar /\ c.period = 0 => s.nextOn = t.nextOn
           /\ ~c.calendar /\ c.period # 0 =>
                IF restart THEN s.nextOn >= now /\ (s.nextOn - (Midnight + c.start)) % c.period = 0
                           ELSE s.nextOn = t.nextOn + c.period
<1> DEFINE on == IF c.calendar THEN CalendarOn(c) ELSE PeriodOn(c, t, restart)
<1>1. c.run \in Nat /\ c.period \in Nat /\ t.nextOn \in Nat /\ t.result \in BOOLEAN
  BY DEF Timers, TimerFlags
<1>2. CASE c.calendar
  <2>1. on \in Nat /\ on = IF Starts(c) = {} THEN 0 ELSE Min(Starts(c))
    BY <1>2, CalendarIsNext
  <2>2. PICK n : n = on
    OBVIOUS
  <2> HIDE DEF on
  <2>3. setTimer(c, t, restart) = [t EXCEPT !.nextOn = n, !.nextOff = n + c.run, !.triggered = FALSE]
    BY <2>2 DEF setTimer, on
  <2>4. setTimer(c, t, restart) = [nextOn |-> n, nextOff |-> n + c.run, triggered |-> FALSE, result |-> t.result]
    BY <2>3 DEF TimerFlags
  <2> QED
    BY <1>1, <1>2, <2>1, <2>2, <2>4 DEF TimerFlags
<1>3. CASE ~c.calendar
  <2>1. /\ on \in Nat
        /\ c.period = 0 => on = t.nextOn
        /\ c.period # 0 /\ restart => on >= now /\ (on - (Midnight + c.start)) % c.period = 0
        /\ c.period # 0 /\ ~restart => on = t.nextOn + c.period
    <3>1. on = PeriodOn(c, t, restart)
      BY <1>3
    <3>2. CASE c.period # 0 /\ restart
      BY <3>1, <3>2, PeriodIsKept
    <3>3. CASE ~(c.period # 0 /\ restart)
      BY <1>1, <3>1, <3>3 DEF PeriodOn
    <3> QED
      BY <3>2, <3>3
  <2>2. PICK n : n = on
    OBVIOUS
  <2> HIDE DEF on
  <2>3. setTimer(c, t, restart) = [t EXCEPT !.nextOn = n, !.nextOff = n + c.run, !.triggered = FALSE]
    BY <2>2 DEF setTimer, on
  <2>4. setTimer(c, t, restart) = [nextOn |-> n, nextOff |-> n + c.run, triggered |-> FALSE, result |-> t.result]
    BY <2>3 DEF TimerFlags
  <2> QED
    BY <1>1, <1>3, <2>1, <2>2, <2>4 DEF TimerFlags
<1> QED
  BY <1>2, <1>3

(***************************************************************************)
(* Writing an object to a slot brings no other identity into the table.    *)
(***************************************************************************)
LEMMA OnlyRenamed ==
  ASSUME IsTable(node), NEW s, NEW m
  PROVE  \A p \in Slots : Renewed(s, m)[p].id \in {m.id, node[p].id}
<1>1. PICK a : a = [node EXCEPT ![s].id = m.id]
  OBVIOUS
<1>2. IsTable(a) /\ \A p \in Slots : a[p].id \in {m.id, node[p].id}
  BY <1>1 DEF IsTable
<1>3. PICK b : b = [a EXCEPT ![s].setting = m.setting]
  OBVIOUS
<1>4. IsTable(b) /\ \A p \in Slots : b[p].id = a[p].id
  BY <1>2, <1>3 DEF IsTable
<1>5. PICK c : c = [b EXCEPT ![s].lastOK = now]
  OBVIOUS
<1>6. IsTable(c) /\ \A p \in Slots : c[p].id = a[p].id
  BY <1>4, <1>5 DEF IsTable
<1>7. PICK value : value = IF m.id \in Keys THEN Dummy ELSE 0
  OBVIOUS
<1>8. Renewed(s, m) = [c EXCEPT ![s].value = value]
  BY <1>1, <1>3, <1>5, <1>7 DEF Renewed
<1>9. \A p \in Slots : Renewed(s, m)[p].id = c[p].id
  BY <1>6, <1>8 DEF IsTable
<1> QED
  BY <1>2, <1>6, <1>9

------------------------------------------------------------------------------
(* What every step leaves.                                                 *)

(***************************************************************************)
(* The settings in use have their types.                                   *)
(***************************************************************************)
LEMMA SettingsTyped ==
  ASSUME FlagInv
  PROVE  /\ \A i \in DOMAIN Trigger : Trigger[i] \in Triggers
         /\ \A i \in DOMAIN Timer : Timer[i] \in Timers
BY SwitchingAssumption DEF FlagInv, Trigger, Timer

(* An output comes to be known only by registering.                        *)
KnownBefore == \A x \in Outputs \intersect Alive : Known(x)' => Known(x) \/ last'[x] = By("none")

(***************************************************************************)
(* No step changes the settings; the registration apart, no step of the    *)
(* node table brings an output into it.                                    *)
(***************************************************************************)
LEMMA StepFacts ==
  ASSUME IInv, Next
  PROVE  /\ conf' = conf /\ now \in Nat /\ now' \in Nat
         /\ Alive' = Alive /\ Trigger' = Trigger /\ Timer' = Timer
         /\ KnownBefore
         /\ NodesNext => RegistrationThread \/ Calm
<1>1. TableInv /\ WorldInv /\ MailInv /\ KeysInv /\ SlotInv /\ AgreeAll /\ IsTable(node)
  BY DEF IInv, StateInv, TableInv
<1>2. NodesNext => RegistrationThread \/ Calm
  BY <1>1, RadioIsCalm, RS485IsCalm, OthersAreCalm DEF NodesNext
<1>3. RegistrationThread \/ Calm \/ Sent
  BY <1>1, <1>2, TriggerIsCalmOrSends, ServiceIsCalmOrSends, RestIsCalmOrSends DEF Next
<1>4. conf' = conf /\ now' \in Nat /\ (RegistrationThread \/ NamesKept(node'))
  BY <1>1, <1>3, SentKeeps DEF RegistrationThread, Calm, SameWorld, Sent, WorldInv
<1>5. ASSUME NEW x \in Outputs \intersect Alive, Known(x)'
      PROVE  Known(x) \/ last'[x] = By("none")
  <2> DEFINE hits == {s \in Slots : node[s].id = x}
             after == {s \in Slots : node'[s].id = x}
  <2>1. after # {}
    <3>1. FirstSlot(after) # Dummy
      BY <1>5 DEF Known, getNodeIndex, Dummy, Slots
    <3> QED
      BY <3>1, FirstSlotFound
  <2>2. hits # {} => Known(x)
    <3>1. hits # {} => FirstSlot(hits) \in hits /\ Dummy \notin hits
      BY FirstSlotFound
    <3> QED
      BY <3>1 DEF Known, getNodeIndex
  <2>3. PICK s \in Slots : node'[s].id = x
    BY <2>1
  <2>4. CASE NamesKept(node')
    <3>1. x # None
      BY NodesAssumption DEF Ids
    <3> QED
      BY <2>2, <2>3, <2>4, <3>1 DEF NamesKept
  <2>5. CASE RegistrationThread
    <3> DEFINE m == Head(registration_mb)
               q == SlotFor(m)
    <3>1. CASE q = Dummy
      BY <2>2, <2>3, <2>5, <3>1 DEF RegistrationThread
    <3>2. CASE q # Dummy
      <4>1. /\ node' = Renewed(q, m)
            /\ last' = IF m.id \in Outputs THEN [last EXCEPT ![m.id] = By("none")] ELSE last
        BY <2>5, <3>2 DEF RegistrationThread
      <4> HIDE DEF m, q
      <4>2. CASE m.id = x
        BY <1>1, <4>1, <4>2 DEF WorldInv
      <4>3. CASE m.id # x
        <5>1. \A p \in Slots : node'[p].id \in {m.id, node[p].id}
          BY <1>1, <4>1, OnlyRenamed
        <5> QED
          BY <2>2, <2>3, <4>3, <5>1
      <4> QED
        BY <4>2, <4>3
    <3> QED
      BY <3>1, <3>2
  <2> QED
    BY <1>4, <2>4, <2>5
<1> QED
  BY <1>1, <1>2, <1>4, <1>5 DEF KnownBefore, WorldInv, Alive, Trigger, Timer

------------------------------------------------------------------------------
(* Steps that leave the timers and the service thread alone: every output  *)
(* keeps its history, or is not on any more, or has been switched on by a  *)
(* trigger that is marked.                                                 *)
NotOn(x) == last'[x][1] \notin {"trigger", "timer"}

LEMMA TriggerSide ==
  ASSUME OnInv, IInv, Next, now' = now, UNCHANGED <<tmr, svc>>, OffInv',
         trg' \in [DOMAIN Trigger -> TriggerFlags],
         \A i \in DOMAIN Trigger :
           Trigger[i].passOff = "timer" =>
             /\ trg'[i].nextOff <= now + Trigger[i].offTime
             /\ trg[i].triggered => trg'[i].triggered,
         \A x \in Outputs \intersect Alive :
           \/ last'[x] = last[x] \/ NotOn(x)
           \/ \E i : last'[x] = <<"trigger", i>> /\ x = Trigger[i].to /\ trg'[i].triggered
  PROVE  OnInv'
<1>1. /\ conf' = conf /\ now \in Nat /\ Alive' = Alive /\ Trigger' = Trigger /\ Timer' = Timer
      /\ KnownBefore
  BY StepFacts
<1>2. FlagInv'
  BY <1>1 DEF OnInv, FlagInv
<1>3. TimesInv'
  BY <1>1 DEF OnInv, TimesInv
<1>4. AimInv'
  <2> SUFFICES ASSUME NEW x \in Outputs \intersect Alive
               PROVE  /\ \A i \in DOMAIN Trigger : last'[x] = <<"trigger", i>> => x = Trigger[i].to
                      /\ \A i \in DOMAIN Timer : last'[x] = <<"timer", i>> => x = Timer[i].to
    BY <1>1 DEF AimInv
  <2>1. CASE last'[x] = last[x]
    BY <2>1 DEF OnInv, AimInv
  <2>2. CASE NotOn(x)
    BY <2>2 DEF NotOn
  <2>3. CASE \E i : last'[x] = <<"trigger", i>> /\ x = Trigger[i].to
    BY <2>3
  <2> QED
    BY <2>1, <2>2, <2>3
<1>5. ASSUME NEW x \in Outputs \intersect Alive, NEW i, OnBy(x, <<"timer", i>>)'
      PROVE  OnBy(x, <<"timer", i>>)
  BY <1>1, <1>5 DEF OnBy, NotOn, KnownBefore, By
<1>6. OnTimer'
  BY <1>1, <1>5 DEF OnInv, OnTimer, Agreed
<1>7. StartInv'
  BY <1>1, <1>5 DEF OnInv, StartInv, Agreed
<1>8. OnTrigger'
  <2> SUFFICES ASSUME NEW x \in Outputs \intersect Alive, NEW i \in DOMAIN Trigger,
                      OnBy(x, <<"trigger", i>>)', Trigger[i].passOff = "timer", Trigger[i].timersNumber,
                    ~Trigger[i].script
               PROVE  trg'[i].triggered
    BY <1>1 DEF OnTrigger
  <2>1. Known(x)' /\ last'[x] = <<"trigger", i>> /\ (Known(x) \/ last'[x] = By("none"))
    BY <1>1 DEF OnBy, KnownBefore
  <2>2. CASE last'[x] = last[x]
    BY <2>1, <2>2 DEF OnInv, OnTrigger, OnBy, By
  <2>3. CASE \E j : last'[x] = <<"trigger", j>> /\ trg'[j].triggered
    BY <2>1, <2>3
  <2> QED
    BY <2>1, <2>2, <2>3 DEF NotOn
<1> QED
  BY <1>2, <1>3, <1>4, <1>6, <1>7, <1>8 DEF OnInv

(***************************************************************************)
(* The same when the triggers stay as they are as well.                    *)
(***************************************************************************)
LEMMA OthersKeepOn ==
  ASSUME OnInv, IInv, Next, (NodesNext /\ UNCHANGED switchVars) \/ Subscriber
  PROVE  OnInv'
<1>1. /\ IsTable(node) /\ WorldInv /\ SlotInv /\ Trigger' = Trigger
      /\ NodesNext => RegistrationThread \/ Calm
  BY StepFacts DEF IInv, StateInv, TableInv
<1>2. UNCHANGED <<trg, trig, tmr, svc>>
  BY DEF switchVars, Subscriber, SubSensor, SubSensorSent
<1>3. now' = now /\ \A x \in Outputs \intersect Alive : last'[x] = last[x] \/ NotOn(x)
  <2>1. CASE RegistrationThread
    BY <1>1, <2>1 DEF RegistrationThread, WorldInv, NotOn, By
  <2>2. CASE NodesNext /\ Calm
    <3>1. now' = now
      BY <2>2 DEF NodesNext, RadioThread, RadioRegistration, RadioPing, RadioReading, RadioKey, RadioKeyDone,
                  RadioCall, RadioQueueSent, RS485Thread, WiredRegistration, WiredPing, WiredReading, WiredKey,
                  WiredKeyDone, WiredCall, RegistrationThread, SensorThread, SensorReading, SensorCall, Page,
                  PageSelect, PageApply, PageApplied, Registers, Reports
    <3> QED
      BY <2>2, <3>1 DEF Calm, SameWorld, Trusted, NotOn
  <2>3. ASSUME NEW x, NEW v, SubSensor(x, v)
        PROVE  now' = now /\ last' = last
    BY <2>3 DEF SubSensor
  <2>4. CASE SubSensorSent
    BY <2>4 DEF SubSensorSent, Switched, quiet, NotOn, By
  <2> QED
    BY <1>1, <2>1, <2>2, <2>3, <2>4 DEF Subscriber
<1>4. OffInv'
  BY <1>1, <1>2 DEF OnInv, OffInv
<1> QED
  BY <1>2, <1>3, <1>4, TriggerSide DEF OnInv, FlagInv, TimesInv

(* The trigger thread.                                                     *)

(***************************************************************************)
(* A trigger that is done is not switching off.                            *)
(***************************************************************************)
LEMMA DoneIsNoOff ==
  ASSUME NEW i, Done(i), Trigger' = Trigger
  PROVE  OffInv'
BY DEF Done, AfterTrigger, Trying, Idle, OffInv

(***************************************************************************)
(* Passing the value on: the trigger is marked when it has switched on.    *)
(***************************************************************************)
LEMMA PassKeepsOn ==
  ASSUME OnInv, IInv, Next, now' = now, UNCHANGED <<last, tmr, svc>>, NEW i, NEW t, Pass(i, t),
         i \in DOMAIN Trigger =>
           /\ t \in TriggerFlags /\ t.nextOff = trg[i].nextOff /\ (trg[i].triggered => t.triggered)
  PROVE  OnInv'
<1> DEFINE c == Trigger[i]
<1>1. now \in Nat /\ Trigger' = Trigger /\ FlagInv /\ TimesInv
  BY StepFacts DEF OnInv
<1>2. OffInv'
  <2>1. Done(i) \/ \E s : trig' = Sending("on", i, s)
    BY DEF Pass
  <2> QED
    BY <1>1, <2>1, DoneIsNoOff DEF Sending, OffInv
<1>3. PICK n : n = now + c.offTime
  OBVIOUS
<1>4. PICK u : u = [t EXCEPT !.nextOff = n]
  OBVIOUS
<1>5. trg' = [trg EXCEPT ![i] = t] \/ trg' = [trg EXCEPT ![i] = u]
  BY <1>3, <1>4 DEF Pass
<1>6. i \in DOMAIN Trigger => c \in Triggers /\ n \in Nat /\ u \in TriggerFlags /\ u.nextOff = n
                              /\ u.triggered = t.triggered
  <2> SUFFICES ASSUME i \in DOMAIN Trigger
               PROVE  c \in Triggers /\ n \in Nat /\ u \in TriggerFlags /\ u.nextOff = n
                      /\ u.triggered = t.triggered
    OBVIOUS
  <2>1. c \in Triggers
    BY <1>1, SettingsTyped
  <2>2. n \in Nat
    BY <1>1, <1>3, <2>1 DEF Triggers
  <2> QED
    BY <1>4, <2>1, <2>2 DEF TriggerFlags
<1>7. trg' \in [DOMAIN Trigger -> TriggerFlags]
  BY <1>1, <1>5, <1>6 DEF FlagInv
<1>8. \A j \in DOMAIN Trigger \ {i} : trg'[j] = trg[j]
  BY <1>1, <1>5 DEF FlagInv
<1>9. i \in DOMAIN Trigger => trg'[i] \in {t, u}
  BY <1>1, <1>5 DEF FlagInv
<1>10. ASSUME NEW j \in DOMAIN Trigger, Trigger[j].passOff = "timer"
       PROVE  /\ trg'[j].nextOff <= now + Trigger[j].offTime
              /\ trg[j].triggered => trg'[j].triggered
  <2>1. CASE j = i
    <3>1. n <= n /\ t.nextOff <= n
      BY <1>1, <1>3, <1>6, <1>10, <2>1 DEF TimesInv
    <3> QED
      BY <1>3, <1>6, <1>9, <2>1, <3>1
  <2>2. CASE j # i
    BY <1>1, <1>8, <1>10, <2>2 DEF TimesInv
  <2> QED
    BY <2>1, <2>2
<1> QED
  BY <1>2, <1>7, <1>10, TriggerSide

(***************************************************************************)
(* A trigger without an off-time loses its marks.                          *)
(***************************************************************************)
LEMMA FlagsTaken ==
  ASSUME FlagInv, TimesInv, NEW i, i \in DOMAIN Trigger => Trigger[i].passOff # "timer",
         trg' = [trg EXCEPT ![i].triggered = FALSE, ![i].passed = FALSE]
  PROVE  /\ trg' \in [DOMAIN Trigger -> TriggerFlags]
         /\ \A j \in DOMAIN Trigger :
              Trigger[j].passOff = "timer" =>
                /\ trg'[j].nextOff <= now + Trigger[j].offTime
                /\ trg[j].triggered => trg'[j].triggered
<1>1. PICK a : a = [trg EXCEPT ![i].triggered = FALSE]
  OBVIOUS
<1>2. a \in [DOMAIN Trigger -> TriggerFlags] /\ \A j \in DOMAIN Trigger \ {i} : a[j] = trg[j]
  BY <1>1 DEF FlagInv, TriggerFlags
<1>3. trg' = [a EXCEPT ![i].passed = FALSE]
  BY <1>1
<1>4. trg' \in [DOMAIN Trigger -> TriggerFlags] /\ \A j \in DOMAIN Trigger \ {i} : trg'[j] = trg[j]
  <2>1. ASSUME NEW f \in TriggerFlags PROVE [f EXCEPT !.passed = FALSE] \in TriggerFlags
    BY DEF TriggerFlags
  <2>2. trg' = [a EXCEPT ![i] = [a[i] EXCEPT !.passed = FALSE]]
    BY <1>3
  <2>3. CASE i \in DOMAIN Trigger
    <3>1. [a[i] EXCEPT !.passed = FALSE] \in TriggerFlags
      BY <1>2, <2>1, <2>3
    <3> QED
      BY <1>2, <2>2, <2>3, <3>1
  <2>4. CASE i \notin DOMAIN Trigger
    BY <1>2, <2>2, <2>4
  <2> QED
    BY <2>3, <2>4
<1> QED
  BY <1>4 DEF TimesInv

(***************************************************************************)
(* Every step of the trigger thread.                                       *)
(***************************************************************************)
LEMMA TriggerKeepsOn ==
  ASSUME OnInv, IInv, Next, TriggerThread
  PROVE  OnInv'
<1>1. Trigger' = Trigger /\ FlagInv /\ TimesInv /\ now \in Nat
  BY StepFacts DEF OnInv
<1>2. now' = now /\ UNCHANGED <<tmr, svc>>
  BY DEF TriggerThread, TriggerFetch, TriggerOther, TriggerOn, TriggerScript, TriggerOnSent, TriggerOff,
         TriggerOffSent, quiet
<1> DEFINE i == trig.i
           c == Trigger[i]
<1>3. ASSUME UNCHANGED <<trg, last>>, OffInv'
      PROVE  OnInv'
  BY <1>1, <1>2, <1>3, TriggerSide DEF FlagInv, TimesInv
<1>4. i \in DOMAIN Trigger => trg[i] \in TriggerFlags
  BY <1>1 DEF FlagInv
<1>5. CASE TriggerFetch
  <2>1. OffInv'
    BY <1>1, <1>5 DEF TriggerFetch, Trying, Idle, OffInv
  <2> QED
    BY <1>3, <1>5, <2>1 DEF TriggerFetch
<1>6. CASE TriggerOther
  BY <1>1, <1>3, <1>6, DoneIsNoOff DEF TriggerOther
<1>7. CASE TriggerOn
  <2> DEFINE t == [trg[i] EXCEPT !.triggered = TRUE]
  <2>1. i \in DOMAIN Trigger => t \in TriggerFlags /\ t.nextOff = trg[i].nextOff /\ t.triggered
    BY <1>4 DEF TriggerFlags
  <2>2. last' = last
    BY <1>7 DEF TriggerOn
  <2>3. CASE Pass(i, t)
    BY <1>2, <2>1, <2>2, <2>3, PassKeepsOn
  <2>4. CASE /\ trg' = [trg EXCEPT ![i] = [t EXCEPT !.result = FALSE]]
             /\ trig' = [trig EXCEPT !.pc = "script"]
    <3> DEFINE u == [t EXCEPT !.result = FALSE]
    <3>1. i \in DOMAIN Trigger => u \in TriggerFlags /\ u.nextOff = trg[i].nextOff /\ u.triggered
      <4> HIDE DEF t
      <4> QED
        BY <2>1 DEF TriggerFlags
    <3> HIDE DEF u
    <3>2. trg' = [trg EXCEPT ![i] = u]
      BY <2>4 DEF u
    <3>3. trg' \in [DOMAIN Trigger -> TriggerFlags]
      BY <1>1, <3>1, <3>2 DEF FlagInv
    <3>4. OffInv'
      <4>1. trig.pc = "match"
        BY <1>7 DEF TriggerOn
      <4>2. "pc" \in DOMAIN trig
        BY DEF IInv, StateInv, SlotInv
      <4>3. trig'.pc = "script"
        BY <2>4, <4>2
      <4> QED
        BY <4>3 DEF OffInv
    <3>5. ASSUME NEW j \in DOMAIN Trigger, Trigger[j].passOff = "timer"
          PROVE  /\ trg'[j].nextOff <= now + Trigger[j].offTime
                 /\ trg[j].triggered => trg'[j].triggered
      BY <1>1, <3>1, <3>2, <3>5 DEF FlagInv, TimesInv
    <3> QED
      BY <1>2, <2>2, <3>3, <3>4, <3>5, TriggerSide
  <2> QED
    BY <1>7, <2>3, <2>4 DEF TriggerOn
<1>8. CASE TriggerScript
  <2>1. PICK yes \in BOOLEAN : Pass(i, [trg[i] EXCEPT !.result = yes])
    BY <1>8 DEF TriggerScript
  <2> DEFINE t == [trg[i] EXCEPT !.result = yes]
  <2>2. i \in DOMAIN Trigger => t \in TriggerFlags /\ t.nextOff = trg[i].nextOff
                                /\ (trg[i].triggered => t.triggered)
    BY <1>4 DEF TriggerFlags
  <2>3. last' = last
    BY <1>8 DEF TriggerScript
  <2> QED
    BY <1>2, <2>1, <2>2, <2>3, PassKeepsOn
<1>9. CASE TriggerOnSent
  <2>1. /\ \E o : Switched(c.to, trig.slot, OnValue(c, trig.event), o,
                           <<IF trg[i].triggered THEN "trigger" ELSE "raced", i>>)
        /\ trg' = [trg EXCEPT ![i].passed = @ \/ c.pass = "once"]
        /\ Done(i)
    BY <1>9 DEF TriggerOnSent
  <2>2. OffInv'
    BY <1>1, <2>1, DoneIsNoOff
  <2>3. /\ trg' \in [DOMAIN Trigger -> TriggerFlags]
        /\ \A j \in DOMAIN Trigger : trg'[j].nextOff = trg[j].nextOff /\ trg'[j].triggered = trg[j].triggered
    BY <1>1, <1>4, <2>1 DEF FlagInv, TriggerFlags
  <2>4. \A x \in Outputs \intersect Alive :
          \/ last'[x] = last[x] \/ NotOn(x)
          \/ last'[x] = <<"trigger", i>> /\ x = c.to /\ trg[i].triggered
    BY <2>1 DEF Switched, NotOn, By
  <2>5. ASSUME NEW x \in Outputs \intersect Alive, i \in DOMAIN Trigger
        PROVE  \/ last'[x] = last[x] \/ NotOn(x)
               \/ \E j : last'[x] = <<"trigger", j>> /\ x = Trigger[j].to /\ trg'[j].triggered
    BY <2>3, <2>4, <2>5
  <2>6. i \notin DOMAIN Trigger => trg' = trg
    BY <1>1, <2>1 DEF FlagInv
  <2>7. ASSUME NEW x \in Outputs \intersect Alive
        PROVE  \/ last'[x] = last[x] \/ NotOn(x)
               \/ \E j : last'[x] = <<"trigger", j>> /\ x = Trigger[j].to /\ trg'[j].triggered
    BY <2>4, <2>5, <2>6
  <2> QED
    BY <1>1, <1>2, <2>2, <2>3, <2>7, TriggerSide DEF TimesInv
<1>10. CASE TriggerOff
  <2>1. /\ trg' = trg \/ (c.passOff = "no" /\ trg' = [trg EXCEPT ![i].triggered = FALSE, ![i].passed = FALSE])
        /\ last' = last
        /\ Done(i) \/ (c.passOff = "yes" /\ \E s : trig' = Sending("off", i, s))
    <3>1. /\ trg' = IF c.passOff = "no" /\ trg[i].triggered
                    THEN [trg EXCEPT ![i].triggered = FALSE, ![i].passed = FALSE] ELSE trg
          /\ last' = last
      BY <1>10 DEF TriggerOff
    <3>2. Done(i) \/ (c.passOff = "yes" /\ \E s : trig' = Sending("off", i, s))
      <4>1. PICK s : s = getNodeIndex(conf.namesake[trig.event.id])
        OBVIOUS
      <4>2. IF c.passOff = "yes" /\ trg[i].triggered /\ s # Dummy
            THEN trig' = Sending("off", i, s) /\ UNCHANGED pool ELSE Done(i)
        BY <1>10, <4>1 DEF TriggerOff
      <4> QED
        BY <4>2
    <3> QED
      BY <3>1, <3>2
  <2>2. OffInv'
    <3>1. CASE Done(i)
      BY <1>1, <3>1, DoneIsNoOff
    <3>2. CASE c.passOff = "yes" /\ \E s : trig' = Sending("off", i, s)
      BY <1>1, <3>2 DEF OffInv, Sending
    <3> QED
      BY <2>1, <3>1, <3>2
  <2>3. CASE trg' = trg
    BY <1>3, <2>1, <2>2, <2>3
  <2>4. CASE c.passOff = "no" /\ trg' = [trg EXCEPT ![i].triggered = FALSE, ![i].passed = FALSE]
    BY <1>1, <1>2, <2>1, <2>2, <2>4, FlagsTaken, TriggerSide
  <2> QED
    BY <2>1, <2>3, <2>4
<1>11. CASE TriggerOffSent
  <2>1. /\ \E o : Switched(c.to, trig.slot, OffValue(c, trig.event), o, By("off"))
        /\ trg' = [trg EXCEPT ![i].triggered = FALSE, ![i].passed = FALSE]
        /\ Done(i)
        /\ i \in DOMAIN Trigger => c.passOff = "yes"
    BY <1>11 DEF TriggerOffSent, OnInv, OffInv
  <2>2. OffInv'
    BY <1>1, <2>1, DoneIsNoOff
  <2>3. \A x \in Outputs \intersect Alive : last'[x] = last[x] \/ NotOn(x)
    BY <2>1 DEF Switched, NotOn, By
  <2> QED
    BY <1>1, <1>2, <2>1, <2>2, <2>3, FlagsTaken, TriggerSide
<1> QED
  BY <1>5, <1>6, <1>7, <1>8, <1>9, <1>10, <1>11 DEF TriggerThread

------------------------------------------------------------------------------
(* Steps of the service thread, of the clock and of the page: every output *)
(* keeps its history, or is not on any more, or has been switched on by    *)
(* its timer.                                                              *)
StaysOrTimer(x) ==
  last'[x] = last[x] \/ NotOn(x) \/ \E i : last'[x] = <<"timer", i>> /\ x = Timer[i].to

LEMMA ServiceSide ==
  ASSUME OnInv, IInv, Next, trig' = trig, now' >= now,
         trg' \in [DOMAIN Trigger -> TriggerFlags],
         \A i \in DOMAIN Trigger : trg'[i].nextOff = trg[i].nextOff,
         tmr' \in [DOMAIN Timer -> TimerFlags],
         \A i \in DOMAIN Timer : tmr'[i].nextOff = tmr'[i].nextOn + Timer[i].run,
         StartInv', OnTrigger', OnTimer', \A x \in Outputs \intersect Alive : StaysOrTimer(x)
  PROVE  OnInv'
<1>1. /\ conf' = conf /\ now \in Nat /\ now' \in Nat
      /\ Alive' = Alive /\ Trigger' = Trigger /\ Timer' = Timer
  BY StepFacts
<1>2. FlagInv'
  BY <1>1 DEF OnInv, FlagInv
<1>3. AimInv'
  <2> SUFFICES ASSUME NEW x \in Outputs \intersect Alive
               PROVE  /\ \A i \in DOMAIN Trigger : last'[x] = <<"trigger", i>> => x = Trigger[i].to
                      /\ \A i \in DOMAIN Timer : last'[x] = <<"timer", i>> => x = Timer[i].to
    BY <1>1 DEF AimInv
  <2>1. CASE last'[x] = last[x]
    BY <2>1 DEF OnInv, AimInv
  <2>2. CASE NotOn(x)
    BY <2>2 DEF NotOn
  <2>3. CASE \E i : last'[x] = <<"timer", i>> /\ x = Timer[i].to
    BY <2>3
  <2> QED
    BY <2>1, <2>2, <2>3 DEF StaysOrTimer
<1>4. TimesInv'
  <2>1. ASSUME NEW i \in DOMAIN Trigger, Trigger[i].passOff = "timer"
        PROVE  trg'[i].nextOff <= now' + Trigger[i].offTime
    <3>1. trg[i].nextOff <= now + Trigger[i].offTime /\ trg[i].nextOff \in Nat
      BY <2>1 DEF OnInv, TimesInv, FlagInv, TriggerFlags
    <3>2. Trigger[i].offTime \in Nat
      BY SettingsTyped DEF OnInv, Triggers
    <3> QED
      BY <1>1, <3>1, <3>2
  <2> QED
    BY <1>1, <2>1 DEF TimesInv
<1>5. OffInv'
  BY <1>1 DEF OnInv, OffInv
<1> QED
  BY <1>2, <1>3, <1>4, <1>5 DEF OnInv

(***************************************************************************)
(* What is on after a step was on before it, or is what the step has       *)
(* switched on.                                                            *)
(***************************************************************************)
LEMMA StillOn ==
  ASSUME IInv, Next, NEW x \in Outputs \intersect Alive, StaysOrTimer(x), NEW by, OnBy(x, by)',
         by[1] \in {"trigger", "timer"}
  PROVE  OnBy(x, by) \/ (by[1] = "timer" /\ last'[x] = by)
<1>1. Known(x)' /\ last'[x] = by
  BY DEF OnBy
<1>2. Known(x)
  BY <1>1, StepFacts DEF KnownBefore, By
<1>3. CASE last'[x] = last[x]
  BY <1>1, <1>2, <1>3 DEF OnBy
<1>4. CASE \E i : last'[x] = <<"timer", i>>
  BY <1>1, <1>4
<1> QED
  BY <1>1, <1>3, <1>4 DEF StaysOrTimer, NotOn

(***************************************************************************)
(* While no trigger loses its mark, what they have switched on stays       *)
(* marked.                                                                 *)
(***************************************************************************)
LEMMA TriggersStayOn ==
  ASSUME OnInv, IInv, Next, trg' = trg, \A x \in Outputs \intersect Alive : StaysOrTimer(x)
  PROVE  OnTrigger'
<1>1. Trigger' = Trigger /\ Alive' = Alive
  BY StepFacts
<1> SUFFICES ASSUME NEW x \in Outputs \intersect Alive, NEW i \in DOMAIN Trigger,
                    OnBy(x, <<"trigger", i>>)', Trigger[i].passOff = "timer", Trigger[i].timersNumber,
                    ~Trigger[i].script
             PROVE  trg[i].triggered
  BY <1>1 DEF OnTrigger
<1>2. PICK by : by = <<"trigger", i>>
  OBVIOUS
<1>3. OnBy(x, by)
  <2>1. OnBy(x, by)' /\ by[1] = "trigger"
    BY <1>2
  <2> QED
    BY <2>1, StillOn
<1> QED
  BY <1>2, <1>3 DEF OnInv, OnTrigger

(***************************************************************************)
(* A step that changes one timer, and no history.                          *)
(***************************************************************************)
LEMMA OneTimer ==
  ASSUME OnInv, IInv, Next, UNCHANGED <<trg, trig, last>>, now' = now, NEW i, NEW t,
         tmr' = [tmr EXCEPT ![i] = t],
         i \in DOMAIN Timer =>
           /\ t \in TimerFlags /\ t.nextOff = t.nextOn + Timer[i].run
           /\ \A x \in Outputs \intersect Alive : ~OnBy(x, <<"timer", i>>),
         svc'.pc \in {"script", "on"} /\ svc'.i \in DOMAIN Timer =>
           /\ svc'.i = i /\ (t.triggered => t.nextOn <= now)
           /\ svc'.pc = "on" => t.result \/ ~Timer[i].script
  PROVE  OnInv'
<1>1. /\ now \in Nat /\ Alive' = Alive /\ Trigger' = Trigger /\ Timer' = Timer
      /\ FlagInv /\ TimesInv /\ OnTimer
  BY StepFacts DEF OnInv
<1>2. \A x \in Outputs \intersect Alive : StaysOrTimer(x)
  BY DEF StaysOrTimer
<1>3. /\ \A j \in DOMAIN Timer \ {i} : tmr'[j] = tmr[j]
      /\ i \in DOMAIN Timer => tmr'[i] = t
      /\ tmr' \in [DOMAIN Timer -> TimerFlags]
  BY <1>1 DEF FlagInv
<1>4. \A j \in DOMAIN Timer : tmr'[j].nextOff = tmr'[j].nextOn + Timer[j].run
  BY <1>1, <1>3 DEF TimesInv
<1>5. ASSUME NEW x \in Outputs \intersect Alive, NEW j \in DOMAIN Timer, OnBy(x, <<"timer", j>>)'
      PROVE  OnBy(x, <<"timer", j>>) /\ j # i
  <2>1. Known(x) /\ last[x] = <<"timer", j>>
    BY <1>5, StepFacts DEF OnBy, KnownBefore, By
  <2> QED
    BY <2>1 DEF OnBy
<1>6. OnTimer'
  BY <1>1, <1>3, <1>5 DEF OnTimer, Agreed
<1>7. StartInv'
  BY <1>1, <1>3, <1>5 DEF StartInv, Agreed
<1>8. OnTrigger' /\ trg' \in [DOMAIN Trigger -> TriggerFlags]
  BY <1>1, <1>2, TriggersStayOn DEF FlagInv
<1> QED
  BY <1>1, <1>2, <1>3, <1>4, <1>6, <1>7, <1>8, ServiceSide

(***************************************************************************)
(* A step that changes no timer and does not go on to switch one on.       *)
(***************************************************************************)
LEMMA NoTimer ==
  ASSUME OnInv, IInv, Next, UNCHANGED <<trig, tmr>>, now' >= now,
         trg' \in [DOMAIN Trigger -> TriggerFlags],
         \A i \in DOMAIN Trigger : trg'[i].nextOff = trg[i].nextOff,
         OnTrigger', svc'.pc \notin {"script", "on"},
         \A x \in Outputs \intersect Alive : last'[x] = last[x] \/ NotOn(x)
  PROVE  OnInv'
<1>1. /\ now \in Nat /\ now' \in Nat /\ Alive' = Alive /\ Timer' = Timer
      /\ FlagInv /\ TimesInv /\ OnTimer
  BY StepFacts DEF OnInv
<1>2. \A x \in Outputs \intersect Alive : StaysOrTimer(x)
  BY DEF StaysOrTimer
<1>3. StartInv'
  BY DEF StartInv
<1>4. OnTimer'
  <2> SUFFICES ASSUME NEW x \in Outputs \intersect Alive, NEW i \in DOMAIN Timer, OnBy(x, <<"timer", i>>)'
               PROVE  tmr[i].triggered /\ tmr[i].nextOn <= now' /\ Agreed(i)
    BY <1>1 DEF OnTimer, Agreed
  <2>1. Known(x) /\ last[x] = <<"timer", i>>
    BY StepFacts DEF OnBy, KnownBefore, By, NotOn
  <2>2. tmr[i].triggered /\ tmr[i].nextOn <= now /\ Agreed(i)
    BY <1>1, <2>1 DEF OnTimer, OnBy
  <2> QED
    BY <1>1, <2>2 DEF FlagInv, TimerFlags
<1> QED
  BY <1>1, <1>2, <1>3, <1>4, ServiceSide DEF TimesInv, FlagInv

(***************************************************************************)
(* Going on with the next timer leaves none half done.                     *)
(***************************************************************************)
LEMMA NotWaiting ==
  ASSUME NEW i
  PROVE  /\ AfterTimer(i).pc \notin {"script", "on"} /\ AfterOff(i).pc \notin {"script", "on"}
         /\ ToTimers.pc \notin {"script", "on"}
BY DEF AfterTimer, AfterOff, ToTimers, ToTriggers, At1, Idle

(***************************************************************************)
(* The service thread with the timers.                                     *)
(***************************************************************************)
LEMMA TimersKeepOn ==
  ASSUME OnInv, IInv, Next, ServiceThread, ~(TriggerOffTime \/ TriggerOffTimeSent)
  PROVE  OnInv'
<1> DEFINE i == svc.i
           c == Timer[i]
<1>1. /\ Timer' = Timer /\ Trigger' = Trigger /\ Alive' = Alive /\ now \in Nat
      /\ FlagInv /\ TimesInv /\ OnTimer /\ StartInv /\ AimInv
  BY StepFacts DEF OnInv
<1>2. now' = now /\ UNCHANGED <<trg, trig>>
  BY DEF ServiceThread, ServiceZombies, TimerStart, TimerScript, TimerOnSent, TimerEnd, TimerOffSent,
         TriggerOffTime, TriggerOffTimeSent, quiet
<1>3. "pc" \in DOMAIN svc
  BY DEF IInv, StateInv, SlotInv
<1>4. i \in DOMAIN Timer => c \in Timers /\ tmr[i] \in TimerFlags
  BY <1>1, SettingsTyped DEF FlagInv
<1>5. ASSUME tmr' = tmr, svc'.pc \notin {"script", "on"},
             \A x \in Outputs \intersect Alive : last'[x] = last[x] \/ NotOn(x)
      PROVE  OnInv'
  <2>1. OnTrigger'
    BY <1>2, <1>5, TriggersStayOn DEF StaysOrTimer
  <2> QED
    BY <1>1, <1>2, <1>5, <2>1, NoTimer DEF FlagInv
<1>6. CASE ServiceZombies
  BY <1>5, <1>6, NotWaiting DEF ServiceZombies
<1>7. CASE TimerStart
  <2> DEFINE t == [tmr[i] EXCEPT !.triggered = TRUE]
             due == tmr[i].nextOn > 0 /\ now >= tmr[i].nextOn /\ ~tmr[i].triggered
  <2>1. last' = last /\ svc.pc = "start"
    BY <1>7 DEF TimerStart
  <2>2. CASE ~due
    <3>1. svc' = [svc EXCEPT !.pc = "end"] /\ tmr' = tmr
      BY <1>7, <2>2 DEF TimerStart
    <3> QED
      BY <1>3, <1>5, <2>1, <3>1
  <2>3. CASE due /\ c.script
    <3> DEFINE u == [t EXCEPT !.result = FALSE]
    <3>1. svc' = [svc EXCEPT !.pc = "script"] /\ tmr' = [tmr EXCEPT ![i] = u]
      BY <1>7, <2>3 DEF TimerStart
    <3>2. svc'.pc = "script" /\ svc'.i = i
      BY <1>3, <3>1
    <3>3. i \in DOMAIN Timer =>
            /\ u \in TimerFlags /\ u.nextOff = u.nextOn + c.run /\ u.nextOn = tmr[i].nextOn
            /\ \A x \in Outputs \intersect Alive : ~OnBy(x, <<"timer", i>>)
      BY <1>1, <1>4, <2>3 DEF TimerFlags, TimesInv, OnTimer
    <3> HIDE DEF u
    <3> QED
      BY <1>2, <2>1, <2>3, <3>1, <3>2, <3>3, OneTimer
  <2>4. CASE due /\ ~c.script
    <3>1. /\ tmr' = [tmr EXCEPT ![i] = t]
          /\ TimerSend("on", i) \/ svc' = [svc EXCEPT !.pc = "end"]
      BY <1>7, <2>4 DEF TimerStart
    <3>2. svc'.pc \in {"script", "on"} => svc'.i = i
      BY <1>3, <3>1 DEF TimerSend
    <3>3. i \in DOMAIN Timer =>
            /\ t \in TimerFlags /\ t.nextOff = t.nextOn + c.run /\ t.nextOn = tmr[i].nextOn
            /\ \A x \in Outputs \intersect Alive : ~OnBy(x, <<"timer", i>>)
      BY <1>1, <1>4, <2>4 DEF TimerFlags, TimesInv, OnTimer
    <3> HIDE DEF t
    <3> QED
      BY <1>2, <2>1, <2>4, <3>1, <3>2, <3>3, OneTimer
  <2> QED
    BY <2>2, <2>3, <2>4
<1>8. CASE TimerScript
  <2>1. PICK yes \in BOOLEAN :
          LET t == [tmr[i] EXCEPT !.result = yes] IN
            /\ tmr' = [tmr EXCEPT ![i] = t]
            /\ IF TimerSends(c, t) THEN TimerSend("on", i) ELSE svc' = [svc EXCEPT !.pc = "end"]
    BY <1>8 DEF TimerScript
  <2> DEFINE t == [tmr[i] EXCEPT !.result = yes]
  <2>2. last' = last /\ svc.pc = "script"
    BY <1>8 DEF TimerScript
  <2>3. CASE i \in DOMAIN Timer /\ tmr[i].triggered
    <3>1. /\ t \in TimerFlags /\ t.nextOff = t.nextOn + c.run /\ t.nextOn = tmr[i].nextOn
          /\ \A x \in Outputs \intersect Alive : ~OnBy(x, <<"timer", i>>)
          /\ tmr[i].nextOn <= now
      BY <1>1, <1>4, <2>2, <2>3 DEF TimerFlags, TimesInv, StartInv
    <3>2. svc'.pc \in {"script", "on"} => svc'.i = i /\ (t.result \/ ~c.script)
      BY <1>3, <2>1 DEF TimerSend, TimerSends
    <3> HIDE DEF t
    <3>3. tmr' = [tmr EXCEPT ![i] = t]
      BY <2>1 DEF t
    <3> QED
      BY <1>2, <2>2, <3>1, <3>2, <3>3, OneTimer
  <2>4. CASE i \in DOMAIN Timer /\ ~tmr[i].triggered
    <3>1. /\ t \in TimerFlags /\ t.nextOff = t.nextOn + c.run /\ ~t.triggered
          /\ \A x \in Outputs \intersect Alive : ~OnBy(x, <<"timer", i>>)
      BY <1>1, <1>4, <2>2, <2>4 DEF TimerFlags, TimesInv, StartInv
    <3>2. svc'.pc \in {"script", "on"} => svc'.i = i /\ svc'.pc = "on" /\ (t.result \/ ~c.script)
      BY <1>3, <2>1 DEF TimerSend, TimerSends
    <3> HIDE DEF t
    <3>3. tmr' = [tmr EXCEPT ![i] = t]
      BY <2>1 DEF t
    <3> QED
      BY <1>2, <2>2, <2>4, <3>1, <3>2, <3>3, OneTimer
  <2>5. CASE i \notin DOMAIN Timer
    <3>1. tmr' = tmr
      BY <1>1, <2>1, <2>5 DEF FlagInv
    <3>2. svc'.pc \in {"script", "on"} => svc'.i = i
      BY <1>3, <2>1 DEF TimerSend
    <3>3. tmr' = [tmr EXCEPT ![i] = t]
      BY <2>1
    <3> QED
      BY <1>2, <2>2, <2>5, <3>2, <3>3, OneTimer
  <2> QED
    BY <2>3, <2>4, <2>5
<1>9. CASE TimerOnSent
  <2>1. /\ \E o : Switched(c.to, svc.slot, c.on, o, <<IF tmr[i].triggered THEN "timer" ELSE "raced", i>>)
        /\ tmr' = tmr /\ svc' = [pc |-> "end", i |-> i] /\ svc.pc = "on"
    BY <1>9 DEF TimerOnSent
  <2>2. ASSUME NEW x \in Outputs \intersect Alive
        PROVE  \/ last'[x] = last[x] \/ NotOn(x)
               \/ last'[x] = <<"timer", i>> /\ x = c.to /\ tmr[i].triggered
    BY <2>1 DEF Switched, NotOn, By
  <2>3. \A x \in Outputs \intersect Alive : StaysOrTimer(x)
    BY <2>2 DEF StaysOrTimer
  <2>4. OnTimer'
    <3> SUFFICES ASSUME NEW x \in Outputs \intersect Alive, NEW j \in DOMAIN Timer, OnBy(x, <<"timer", j>>)'
                 PROVE  tmr[j].triggered /\ tmr[j].nextOn <= now /\ Agreed(j)
      BY <1>1, <1>2, <2>1 DEF OnTimer, Agreed
    <3>1. Known(x) /\ last'[x] = <<"timer", j>>
      BY StepFacts DEF OnBy, KnownBefore, By
    <3>2. CASE last'[x] = last[x]
      BY <1>1, <3>1, <3>2 DEF OnTimer, OnBy
    <3>3. CASE last'[x] = <<"timer", i>> /\ tmr[i].triggered
      BY <1>1, <2>1, <3>1, <3>3 DEF StartInv
    <3> QED
      BY <2>2, <3>1, <3>2, <3>3 DEF NotOn
  <2>5. StartInv'
    BY <2>1 DEF StartInv
  <2>6. OnTrigger'
    BY <1>2, <2>3, TriggersStayOn
  <2> QED
    BY <1>1, <1>2, <2>1, <2>3, <2>4, <2>5, <2>6, ServiceSide DEF FlagInv, TimesInv
<1>10. CASE TimerEnd
  <2> DEFINE over == tmr[i].nextOn > 0 /\ now >= tmr[i].nextOff
             t == setTimer(c, tmr[i], FALSE)
  <2>1. last' = last
    BY <1>10 DEF TimerEnd
  <2>2. CASE over /\ tmr[i].triggered /\ TimerSends(c, tmr[i])
    <3>1. svc'.pc = "timerOff" /\ tmr' = tmr
      BY <1>10, <2>2 DEF TimerEnd, TimerSend
    <3> QED
      BY <1>5, <2>1, <3>1
  <2>3. CASE ~(over /\ tmr[i].triggered /\ TimerSends(c, tmr[i]))
    <3>1. svc' = AfterTimer(i) /\ tmr' = IF over THEN [tmr EXCEPT ![i] = t] ELSE tmr
      BY <1>10, <2>3 DEF TimerEnd
    <3>2. CASE ~over
      BY <1>5, <2>1, <3>1, <3>2, NotWaiting
    <3>3. CASE over
      <4>1. i \in DOMAIN Timer => t \in TimerFlags /\ t.nextOff = t.nextOn + c.run
        BY <1>1, <1>4, TimerIsSet
      <4>2. ASSUME i \in DOMAIN Timer, NEW x \in Outputs \intersect Alive, OnBy(x, <<"timer", i>>)
            PROVE  FALSE
        <5>1. tmr[i].triggered /\ Agreed(i) /\ x = c.to /\ Known(x)
          BY <1>1, <4>2 DEF OnTimer, AimInv, OnBy
        <5> QED
          BY <2>3, <3>3, <5>1 DEF TimerSends, Agreed, Known
      <4> HIDE DEF t
      <4> QED
        BY <1>2, <2>1, <3>1, <3>3, <4>1, <4>2, NotWaiting, OneTimer
    <3> QED
      BY <3>2, <3>3
  <2> QED
    BY <2>2, <2>3
<1>11. CASE TimerOffSent
  <2> DEFINE t == setTimer(c, tmr[i], FALSE)
  <2>1. /\ \E o : Switched(c.to, svc.slot, c.off, o, By("off"))
        /\ tmr' = [tmr EXCEPT ![i] = t] /\ svc' = AfterTimer(i)
    BY <1>11 DEF TimerOffSent
  <2>2. i \in DOMAIN Timer => t \in TimerFlags /\ t.nextOff = t.nextOn + c.run
    BY <1>1, <1>4, TimerIsSet
  <2>3. ASSUME NEW x \in Outputs \intersect Alive
        PROVE  (last'[x] = last[x] \/ NotOn(x)) /\ (x = c.to => NotOn(x))
    BY <2>1 DEF Switched, NotOn, By
  <2> HIDE DEF t
  <2>4. /\ tmr' \in [DOMAIN Timer -> TimerFlags]
        /\ \A j \in DOMAIN Timer \ {i} : tmr'[j] = tmr[j]
        /\ i \in DOMAIN Timer => tmr'[i] = t
    BY <1>1, <2>1, <2>2 DEF FlagInv
  <2>5. \A j \in DOMAIN Timer : tmr'[j].nextOff = tmr'[j].nextOn + Timer[j].run
    BY <1>1, <2>2, <2>4 DEF TimesInv
  <2>6. OnTimer'
    <3> SUFFICES ASSUME NEW x \in Outputs \intersect Alive, NEW j \in DOMAIN Timer, OnBy(x, <<"timer", j>>)'
                 PROVE  tmr'[j].triggered /\ tmr'[j].nextOn <= now /\ Agreed(j)'
      BY <1>1, <1>2 DEF OnTimer
    <3>1. Known(x) /\ last'[x] = <<"timer", j>>
      BY StepFacts DEF OnBy, KnownBefore, By
    <3>2. OnBy(x, <<"timer", j>>)
      BY <2>3, <3>1 DEF OnBy, NotOn
    <3>3. j # i
      BY <1>1, <2>3, <3>1, <3>2 DEF AimInv, OnBy, NotOn
    <3> QED
      BY <1>1, <2>4, <3>2, <3>3 DEF OnTimer, Agreed
  <2>7. StartInv'
    BY <2>1, NotWaiting DEF StartInv
  <2>8. \A x \in Outputs \intersect Alive : StaysOrTimer(x)
    BY <2>3 DEF StaysOrTimer
  <2>9. OnTrigger'
    BY <1>2, <2>8, TriggersStayOn
  <2> QED
    BY <1>1, <1>2, <2>4, <2>5, <2>6, <2>7, <2>8, <2>9, ServiceSide DEF FlagInv
<1> QED
  BY <1>6, <1>7, <1>8, <1>9, <1>10, <1>11 DEF ServiceThread

(***************************************************************************)
(* The service thread with the off-times.                                  *)
(***************************************************************************)
LEMMA OffTimesKeepOn ==
  ASSUME OnInv, IInv, Next, TriggerOffTime \/ TriggerOffTimeSent
  PROVE  OnInv'
<1> DEFINE i == svc.i
           c == Trigger[i]
           cleared == [trg EXCEPT ![i].triggered = FALSE]
<1>1. /\ Trigger' = Trigger /\ Alive' = Alive /\ now \in Nat
      /\ FlagInv /\ TimesInv /\ OnTrigger /\ AimInv
  BY StepFacts DEF OnInv
<1>2. now' = now /\ UNCHANGED <<trig, tmr>>
  BY DEF TriggerOffTime, TriggerOffTimeSent, quiet
<1>3. /\ cleared \in [DOMAIN Trigger -> TriggerFlags]
      /\ \A j \in DOMAIN Trigger : cleared[j].nextOff = trg[j].nextOff
      /\ \A j \in DOMAIN Trigger \ {i} : cleared[j] = trg[j]
  BY <1>1 DEF FlagInv, TriggerFlags
<1> HIDE DEF cleared
<1>4. CASE TriggerOffTime
  <2> DEFINE over == c.passOff = "timer" /\ now >= trg[i].nextOff /\ trg[i].triggered
             sends == over /\ (trg[i].result \/ ~c.script) /\ OffSlot(i) # Dummy
  <2>1. last' = last /\ svc'.pc \notin {"script", "on"}
    <3>1. CASE sends
      BY <1>4, <3>1 DEF TriggerOffTime
    <3>2. CASE ~sends
      BY <1>4, <3>2, NotWaiting DEF TriggerOffTime
    <3> QED
      BY <1>4, <3>1, <3>2 DEF TriggerOffTime
  <2>2. CASE trg' = trg
    <3>1. OnTrigger'
      BY <2>1, <2>2, TriggersStayOn DEF StaysOrTimer
    <3> QED
      BY <1>1, <1>2, <2>1, <2>2, <3>1, NoTimer DEF FlagInv
  <2>3. CASE trg' # trg
    <3>1. trg' = cleared /\ over /\ ~sends
      BY <1>4, <2>3 DEF TriggerOffTime, cleared
    <3>2. OnTrigger'
      <4> SUFFICES ASSUME NEW x \in Outputs \intersect Alive, NEW j \in DOMAIN Trigger,
                          OnBy(x, <<"trigger", j>>)', Trigger[j].passOff = "timer", Trigger[j].timersNumber,
                    ~Trigger[j].script
                   PROVE  cleared[j].triggered
        BY <1>1, <3>1 DEF OnTrigger
      <4>1. Known(x) /\ last[x] = <<"trigger", j>>
        BY <2>1, StepFacts DEF OnBy, KnownBefore, By
      <4>2. trg[j].triggered /\ x = Trigger[j].to
        BY <1>1, <4>1 DEF OnTrigger, OnBy, AimInv
      <4>3. j # i
        <5> SUFFICES ASSUME j = i PROVE FALSE
          OBVIOUS
        <5>1. OffSlot(i) # Dummy
          BY <4>1, <4>2 DEF OffSlot, Known
        <5> QED
          BY <3>1, <5>1
      <4> QED
        BY <1>3, <4>2, <4>3
    <3> QED
      BY <1>2, <1>3, <1>1, <2>1, <3>1, <3>2, NoTimer
  <2> QED
    BY <2>2, <2>3
<1>5. CASE TriggerOffTimeSent
  <2>1. /\ \E o : Switched(c.to, svc.slot, c.off, o, By("off"))
        /\ trg' = cleared /\ svc' = AfterOff(i)
    BY <1>5 DEF TriggerOffTimeSent, cleared
  <2>2. ASSUME NEW x \in Outputs \intersect Alive
        PROVE  (last'[x] = last[x] \/ NotOn(x)) /\ (x = c.to => NotOn(x))
    BY <2>1 DEF Switched, NotOn, By
  <2>3. OnTrigger'
    <3> SUFFICES ASSUME NEW x \in Outputs \intersect Alive, NEW j \in DOMAIN Trigger,
                        OnBy(x, <<"trigger", j>>)', Trigger[j].passOff = "timer", Trigger[j].timersNumber,
                    ~Trigger[j].script
                 PROVE  cleared[j].triggered
      BY <1>1, <2>1 DEF OnTrigger
    <3>1. Known(x) /\ last'[x] = <<"trigger", j>>
      BY StepFacts DEF OnBy, KnownBefore, By
    <3>2. last[x] = <<"trigger", j>> /\ x # c.to
      BY <2>2, <3>1 DEF NotOn
    <3>3. trg[j].triggered /\ x = Trigger[j].to
      BY <1>1, <3>1, <3>2 DEF OnTrigger, OnBy, AimInv
    <3> QED
      BY <1>3, <3>2, <3>3
  <2> QED
    BY <1>1, <1>2, <1>3, <2>1, <2>2, <2>3, NotWaiting, NoTimer
<1> QED
  BY <1>4, <1>5

(***************************************************************************)
(* The clock and the page.                                                 *)
(***************************************************************************)
LEMMA TickKeepsOn ==
  ASSUME OnInv, IInv, Next, Tick
  PROVE  OnInv'
<1>1. now \in Nat /\ now' = now + 1 /\ UNCHANGED <<last, trg, trig, tmr>> /\ svc'.pc = "housekeeping"
  BY StepFacts DEF Tick
<1>2. OnTrigger'
  BY <1>1, TriggersStayOn DEF StaysOrTimer
<1> QED
  BY <1>1, <1>2, NoTimer DEF OnInv, FlagInv

LEMMA PageKeepsOn ==
  ASSUME OnInv, IInv, Next, NEW i \in DOMAIN Timer, PageTimer(i)
  PROVE  OnInv'
<1> DEFINE c == Timer[i]
           t == setTimer(c, tmr[i], TRUE)
<1>1. /\ Timer' = Timer /\ Alive' = Alive /\ now \in Nat
      /\ FlagInv /\ TimesInv /\ OnTimer /\ StartInv /\ AimInv
  BY StepFacts DEF OnInv
<1>2. now' = now /\ UNCHANGED <<trg, trig, svc>> /\ tmr' = [tmr EXCEPT ![i] = t]
  BY DEF PageTimer
<1>3. c \in Timers /\ tmr[i] \in TimerFlags
  BY <1>1, SettingsTyped DEF FlagInv
<1>4. t \in TimerFlags /\ t.nextOff = t.nextOn + c.run /\ ~t.triggered /\ t.result = tmr[i].result
  BY <1>1, <1>3, TimerIsSet
<1>5. \A x \in Outputs \intersect Alive : (last'[x] = last[x] \/ NotOn(x)) /\ (x = c.to => NotOn(x))
  BY DEF PageTimer, NotOn, By, IInv, StateInv, WorldInv
<1> HIDE DEF t
<1>6. /\ tmr' \in [DOMAIN Timer -> TimerFlags] /\ tmr'[i] = t
      /\ \A j \in DOMAIN Timer \ {i} : tmr'[j] = tmr[j]
  BY <1>1, <1>2, <1>4 DEF FlagInv
<1>7. \A j \in DOMAIN Timer : tmr'[j].nextOff = tmr'[j].nextOn + Timer[j].run
  BY <1>1, <1>4, <1>6 DEF TimesInv
<1>8. ASSUME NEW x \in Outputs \intersect Alive, NEW j \in DOMAIN Timer, OnBy(x, <<"timer", j>>)'
      PROVE  OnBy(x, <<"timer", j>>) /\ j # i
  <2>1. Known(x) /\ last'[x] = <<"timer", j>>
    BY <1>8, StepFacts DEF OnBy, KnownBefore, By
  <2>2. OnBy(x, <<"timer", j>>)
    BY <1>5, <2>1 DEF OnBy, NotOn
  <2> QED
    BY <1>1, <1>5, <2>1, <2>2 DEF AimInv, OnBy, NotOn
<1>9. OnTimer'
  BY <1>1, <1>2, <1>6, <1>8 DEF OnTimer, Agreed
<1>10. StartInv'
  <2>0. PICK k : k = svc.i
    OBVIOUS
  <2> SUFFICES ASSUME svc.pc \in {"script", "on"}, k \in DOMAIN Timer
               PROVE  /\ tmr'[k].triggered => tmr'[k].nextOn <= now
                      /\ svc.pc = "on" => tmr'[k].result \/ ~Timer[k].script
                      /\ svc.pc = "script" => \A x \in Outputs \intersect Alive : ~OnBy(x, <<"timer", k>>)'
    BY <1>1, <1>2, <2>0 DEF StartInv, Agreed
  <2>1. /\ tmr[k].triggered => tmr[k].nextOn <= now
        /\ svc.pc = "on" => tmr[k].result \/ ~Timer[k].script
        /\ svc.pc = "script" => \A x \in Outputs \intersect Alive : ~OnBy(x, <<"timer", k>>)
    BY <1>1, <2>0 DEF StartInv, Agreed
  <2>2. svc.pc = "script" => \A x \in Outputs \intersect Alive : ~OnBy(x, <<"timer", k>>)'
    BY <1>8, <2>1
  <2>3. CASE k = i
    BY <1>4, <1>6, <2>1, <2>2, <2>3
  <2>4. CASE k # i
    BY <1>6, <2>1, <2>2, <2>4
  <2> QED
    BY <2>3, <2>4
<1>11. \A x \in Outputs \intersect Alive : StaysOrTimer(x)
  BY <1>5 DEF StaysOrTimer
<1>12. OnTrigger'
  BY <1>2, <1>11, TriggersStayOn
<1> QED
  BY <1>1, <1>2, <1>6, <1>7, <1>9, <1>10, <1>11, <1>12, ServiceSide DEF FlagInv

(***************************************************************************)
(* At a start nothing is on.                                               *)
(***************************************************************************)
LEMMA InitOn == Init => OnInv
<1> SUFFICES ASSUME Init PROVE OnInv
  OBVIOUS
<1>1. /\ conf \in Confs /\ now = 0
      /\ trg = [i \in DOMAIN Trigger |-> [triggered |-> FALSE, passed |-> FALSE, result |-> FALSE, nextOff |-> 0]]
      /\ tmr = [i \in DOMAIN Timer |-> setTimer(Timer[i], NoTimes, TRUE)]
      /\ trig = Idle /\ svc = Idle /\ last = [x \in Outputs |-> By("none")]
  BY DEF Init, NodesInit
<1>2. /\ \A i \in DOMAIN Trigger : Trigger[i] \in Triggers
      /\ \A i \in DOMAIN Timer : Timer[i] \in Timers
  BY <1>1, SwitchingAssumption DEF Trigger, Timer
<1>3. NoTimes \in TimerFlags
  BY DEF NoTimes, TimerFlags
<1>4. \A i \in DOMAIN Timer : tmr[i] \in TimerFlags /\ tmr[i].nextOff = tmr[i].nextOn + Timer[i].run
  BY <1>1, <1>2, <1>3, TimerIsSet
<1>5. FlagInv
  BY <1>1, <1>4 DEF FlagInv, TriggerFlags
<1>6. TimesInv
  <2>1. ASSUME NEW i \in DOMAIN Trigger PROVE trg[i].nextOff <= now + Trigger[i].offTime
    <3>1. trg[i].nextOff = 0 /\ Trigger[i].offTime \in Nat
      BY <1>1, <1>2 DEF Triggers
    <3> QED
      BY <1>1, <3>1
  <2> QED
    BY <1>4, <2>1 DEF TimesInv
<1>7. AimInv /\ OffInv /\ StartInv /\ OnTrigger /\ OnTimer
  BY <1>1 DEF AimInv, OffInv, StartInv, OnTrigger, OnTimer, OnBy, By, Idle
<1> QED
  BY <1>5, <1>6, <1>7 DEF OnInv

(***************************************************************************)
(* Every step leaves what is on marked for switching off.                  *)
(***************************************************************************)
LEMMA NextOn == IInv /\ OnInv /\ [Next]_vars => OnInv'
<1> SUFFICES ASSUME IInv, OnInv, [Next]_vars PROVE OnInv'
  OBVIOUS
<1>1. CASE Next
  BY <1>1, OthersKeepOn, TriggerKeepsOn, TimersKeepOn, OffTimesKeepOn, TickKeepsOn, PageKeepsOn DEF Next
<1>2. CASE UNCHANGED vars
  <2>1. UNCHANGED <<conf, now, node, last, trg, trig, tmr, svc>>
    BY <1>2 DEF vars, nodeVars, switchVars
  <2>2. /\ Trigger' = Trigger /\ Timer' = Timer /\ Alive' = Alive
        /\ \A x, by : OnBy(x, by)' = OnBy(x, by)
        /\ \A i : Agreed(i)' = Agreed(i)
    BY <2>1 DEF Trigger, Timer, Alive, OnBy, Known, getNodeIndex, Slots, Agreed, Dummy
  <2>3. FlagInv' /\ AimInv' /\ TimesInv' /\ OffInv'
    BY <2>1, <2>2 DEF OnInv, FlagInv, AimInv, TimesInv, OffInv
  <2>4. StartInv' /\ OnTrigger' /\ OnTimer'
    BY <2>1, <2>2 DEF OnInv, StartInv, OnTrigger, OnTimer
  <2> QED
    BY <2>3, <2>4 DEF OnInv
<1> QED
  BY <1>1, <1>2

(***************************************************************************)
(* No output is left on: one that a timer, or a trigger with an off-time,  *)
(* has switched on is marked for switching off, and its time is at most    *)
(* the length of the run or the off-time away, whatever the other threads, *)
(* MQTT and the page do meanwhile (ohs_th_trigger.h, ohs_th_service.h).    *)
(* The off-time finds the output only if a timer has its number.           *)
(***************************************************************************)
THEOREM NothingStaysOn == NumbersAgree => (Spec => []OnIsArmed)
<1>1. NumbersAgree /\ OnInv /\ now \in Nat => OnIsArmed
  <2> SUFFICES ASSUME NumbersAgree, OnInv, now \in Nat PROVE OnIsArmed
    OBVIOUS
  <2>1. ASSUME NEW x \in Outputs \intersect Alive, NEW i \in DOMAIN Trigger,
               Known(x), last[x] \in {"trigger"} \X {i}, Trigger[i].passOff = "timer",
               Trigger[i].script \in {FALSE}
        PROVE  trg[i].triggered /\ trg[i].nextOff <= now + Trigger[i].offTime
    <3>1. last[x] = <<"trigger", i>> /\ Trigger[i].timersNumber
      BY <2>1 DEF NumbersAgree, OnInv, FlagInv, Trigger
    <3> QED
      BY <2>1, <3>1 DEF OnInv, OnTrigger, OnBy, TimesInv
  <2>2. ASSUME NEW x \in Outputs \intersect Alive, NEW i \in DOMAIN Timer, Known(x), last[x] = <<"timer", i>>
        PROVE  tmr[i].triggered /\ tmr[i].nextOff <= now + Timer[i].run
    <3>1. tmr[i].triggered /\ tmr[i].nextOn <= now /\ tmr[i].nextOff = tmr[i].nextOn + Timer[i].run
      BY <2>2 DEF OnInv, OnTimer, OnBy, TimesInv
    <3>2. tmr[i].nextOn \in Nat /\ Timer[i].run \in Nat
      BY SettingsTyped DEF OnInv, FlagInv, TimerFlags, Timers
    <3> QED
      BY <3>1, <3>2
  <2> QED
    BY <2>1, <2>2 DEF OnIsArmed, OnIsMarked
<1>2. IInv => now \in Nat
  BY DEF IInv, StateInv, WorldInv
<1> SUFFICES ASSUME NumbersAgree PROVE Spec => []OnIsArmed
  OBVIOUS
<1> QED
  BY InitIInv, NextIInv, InitOn, NextOn, <1>1, <1>2, PTL DEF Spec

------------------------------------------------------------------------------
(* The next start of a timer.                                              *)

(***************************************************************************)
(* A step that changes no start and stays at the timer it is at.           *)
(***************************************************************************)
LEMMA SameStarts ==
  ASSUME PeriodInv, now' = now, Timer' = Timer,
         \A j \in DOMAIN Timer : tmr'[j].nextOn = tmr[j].nextOn,
         \/ svc' = svc
         \/ ~AtTimer /\ ~AtTimer' /\ svc.pc # "housekeeping"
         \/ AtTimer /\ AtTimer' /\ svc'.i = svc.i /\ svc'.pc # "timerOff"
  PROVE  PeriodInv'
<1>1. PlaceInv'
  BY DEF PeriodInv, PlaceInv, AtTimer
<1>2. \A j : ToCome(j) => ToCome(j)'
  BY DEF ToCome, AtTimer
<1>3. InPeriod'
  BY <1>2 DEF PeriodInv, InPeriod
<1> QED
  BY <1>1, <1>3 DEF PeriodInv

(***************************************************************************)
(* The thread goes on from a timer that is set, or is not over.            *)
(***************************************************************************)
LEMMA NextTimer ==
  ASSUME PeriodInv, FlagInv, now \in Nat, now' = now, Timer' = Timer, AtTimer, svc' = AfterTimer(svc.i),
         \A j \in DOMAIN Timer \ {svc.i} : tmr'[j].nextOn = tmr[j].nextOn,
         LET i == svc.i IN
           ~Timer[i].calendar /\ tmr'[i].nextOn > 0 =>
             Timer[i].period # 0 /\ now < tmr'[i].nextOn + Timer[i].period
  PROVE  PeriodInv'
<1> DEFINE i == svc.i
<1>1. DOMAIN Timer = 1..Len(Timer) /\ Len(Timer) \in Nat /\ i \in DOMAIN Timer
  BY SwitchingAssumption, LenProperties DEF FlagInv, Timer, PeriodInv, PlaceInv
<1>2. \/ svc'.pc \notin {"housekeeping", "start", "script", "on", "end", "timerOff"} /\ i = Len(Timer)
      \/ svc'.pc = "start" /\ svc'.i = i + 1 /\ i # Len(Timer)
  BY DEF AfterTimer, ToTriggers, At1, Idle
<1>3. PlaceInv'
  BY <1>1, <1>2 DEF PlaceInv, AtTimer
<1>4. ASSUME NEW j \in DOMAIN Timer, j # i, ToCome(j)
      PROVE  ToCome(j)'
  <2>1. i < j
    BY <1>1, <1>4 DEF ToCome, AtTimer
  <2> QED
    BY <1>1, <1>2, <2>1 DEF ToCome, AtTimer
<1>5. InPeriod'
  BY <1>4 DEF PeriodInv, InPeriod
<1> QED
  BY <1>3, <1>5 DEF PeriodInv

(* What every step does to the starts, and that the invariant is kept.     *)
StartsSet == \A i \in DOMAIN Timer : tmr'[i].nextOn # tmr[i].nextOn => NextStart(i)

(***************************************************************************)
(* A timer that is set at its end, or at a start that has passed, is set   *)
(* ahead of now.                                                           *)
(***************************************************************************)
LEMMA TimerSet ==
  ASSUME RunsFit, FlagInv, TimesInv, PeriodInv, now \in Nat, NEW i \in DOMAIN Timer
  PROVE  LET c == Timer[i]
             t == setTimer(c, tmr[i], FALSE)
         IN /\ t \in TimerFlags
            /\ c.calendar => t.nextOn = IF Starts(c) = {} THEN 0 ELSE Min(Starts(c))
            /\ ~c.calendar /\ tmr[i].nextOn > 0 =>
                 /\ c.period # 0 /\ t.nextOn = tmr[i].nextOn + c.period /\ t.nextOn >= now
                 /\ now < t.nextOn + c.period
<1> DEFINE c == Timer[i]
           t == setTimer(c, tmr[i], FALSE)
<1>1. c \in Timers /\ tmr[i] \in TimerFlags
  BY SettingsTyped DEF FlagInv
<1>2. /\ t \in TimerFlags
      /\ c.calendar => t.nextOn = IF Starts(c) = {} THEN 0 ELSE Min(Starts(c))
      /\ ~c.calendar /\ c.period # 0 => t.nextOn = tmr[i].nextOn + c.period
  BY <1>1, TimerIsSet
<1>3. c.period \in Nat /\ tmr[i].nextOn \in Nat
  BY <1>1 DEF Timers, TimerFlags
<1>4. ~c.calendar /\ tmr[i].nextOn > 0 => c.period # 0 /\ now <= tmr[i].nextOn + c.period
  BY <1>3 DEF PeriodInv, InPeriod
<1> HIDE DEF t
<1>5. ~c.calendar /\ tmr[i].nextOn > 0 =>
        /\ c.period # 0 /\ t.nextOn = tmr[i].nextOn + c.period /\ t.nextOn >= now
        /\ now < t.nextOn + c.period
  BY <1>2, <1>3, <1>4
<1> QED
  BY <1>2, <1>5 DEF t

(***************************************************************************)
(* The thread sets the timer it is at and goes on.                         *)
(***************************************************************************)
LEMMA TimerSetIsNext ==
  ASSUME RunsFit, FlagInv, TimesInv, PeriodInv, now \in Nat, now' = now, Timer' = Timer,
         AtTimer, ~Timer[svc.i].calendar => tmr[svc.i].nextOn > 0,
         tmr' = [tmr EXCEPT ![svc.i] = setTimer(Timer[svc.i], @, FALSE)], svc' = AfterTimer(svc.i)
  PROVE  PeriodInv' /\ StartsSet
<1> DEFINE i == svc.i
           c == Timer[i]
<1>1. i \in DOMAIN Timer
  BY DEF PeriodInv, PlaceInv
<1>2. PICK t : t = setTimer(c, tmr[i], FALSE)
  OBVIOUS
<1>3. /\ t \in TimerFlags
      /\ c.calendar => t.nextOn = IF Starts(c) = {} THEN 0 ELSE Min(Starts(c))
      /\ ~c.calendar =>
           /\ c.period # 0 /\ t.nextOn = tmr[i].nextOn + c.period /\ t.nextOn >= now
           /\ now < t.nextOn + c.period
  BY <1>1, <1>2, TimerSet
<1>4. tmr'[i] = t /\ \A j \in DOMAIN Timer \ {i} : tmr'[j] = tmr[j]
  BY <1>1, <1>2 DEF FlagInv
<1>5. PeriodInv'
  BY <1>3, <1>4, NextTimer
<1>6. StartsSet
  BY <1>3, <1>4 DEF StartsSet, NextStart
<1> QED
  BY <1>5, <1>6

(***************************************************************************)
(* The step that ends a run.                                               *)
(***************************************************************************)
LEMMA TimerEndIsNext ==
  ASSUME RunsFit, FlagInv, TimesInv, PeriodInv, now \in Nat, Timer' = Timer, TimerEnd
  PROVE  PeriodInv' /\ StartsSet
<1> DEFINE i == svc.i
           c == Timer[i]
           t == setTimer(c, tmr[i], FALSE)
           over == tmr[i].nextOn > 0 /\ now >= tmr[i].nextOff
<1>1. svc.pc = "end" /\ now' = now /\ AtTimer /\ i \in DOMAIN Timer
  BY DEF TimerEnd, quiet, AtTimer, PeriodInv, PlaceInv
<1>2. c \in Timers /\ tmr[i] \in TimerFlags /\ tmr[i].nextOff = tmr[i].nextOn + c.run
  BY <1>1, SettingsTyped DEF FlagInv, TimesInv
<1>3. c.run \in Nat /\ c.period \in Nat /\ tmr[i].nextOn \in Nat /\ (~c.calendar => c.run <= c.period)
  BY <1>1, <1>2 DEF Timers, TimerFlags, RunsFit, FlagInv, Timer
<1>4. CASE over /\ tmr[i].triggered /\ TimerSends(c, tmr[i])
  <2>1. tmr' = tmr /\ svc' = [pc |-> "timerOff", i |-> i, slot |-> getNodeIndex(c.to)]
    BY <1>4 DEF TimerEnd, TimerSend
  <2>2. now > 0
    BY <1>2, <1>3, <1>4
  <2>3. PlaceInv'
    BY <1>1, <1>4, <2>1, <2>2 DEF PlaceInv
  <2>4. InPeriod'
    BY <1>1, <2>1 DEF PeriodInv, InPeriod, ToCome, AtTimer
  <2> QED
    BY <2>1, <2>3, <2>4 DEF PeriodInv, StartsSet
<1>5. CASE ~(over /\ tmr[i].triggered /\ TimerSends(c, tmr[i])) /\ ~over
  <2>1. tmr' = tmr /\ svc' = AfterTimer(i)
    BY <1>5 DEF TimerEnd
  <2>2. ~c.calendar /\ tmr[i].nextOn > 0 => c.period # 0 /\ now < tmr[i].nextOn + c.period
    <3> SUFFICES ASSUME ~c.calendar, tmr[i].nextOn > 0
                 PROVE  c.period # 0 /\ now < tmr[i].nextOn + c.period
      OBVIOUS
    <3>1. c.period # 0
      BY <1>1 DEF PeriodInv, InPeriod
    <3>2. now < tmr[i].nextOn + c.run
      BY <1>2, <1>3, <1>5
    <3> QED
      BY <1>3, <3>1, <3>2
  <2>3. PeriodInv'
    BY <1>1, <2>1, <2>2, NextTimer
  <2> QED
    BY <2>1, <2>3 DEF StartsSet
<1>6. CASE ~(over /\ tmr[i].triggered /\ TimerSends(c, tmr[i])) /\ over
  <2>1. tmr' = [tmr EXCEPT ![i] = t] /\ svc' = AfterTimer(i)
    BY <1>6 DEF TimerEnd
  <2> QED
    BY <1>1, <1>6, <2>1, TimerSetIsNext
<1> QED
  BY <1>4, <1>5, <1>6

(***************************************************************************)
(* The page sets a timer afresh while the thread may be at it.             *)
(***************************************************************************)
LEMMA PageSetsNext ==
  ASSUME FlagInv, PeriodInv, now \in Nat, Timer' = Timer, NEW i \in DOMAIN Timer, PageTimer(i)
  PROVE  PeriodInv' /\ StartsSet
<1> DEFINE c == Timer[i]
<1>1. PICK t : t = setTimer(c, tmr[i], TRUE)
  OBVIOUS
<1>2. c \in Timers /\ tmr[i] \in TimerFlags
  BY SettingsTyped DEF FlagInv
<1>3. /\ t \in TimerFlags
      /\ c.calendar => t.nextOn = IF Starts(c) = {} THEN 0 ELSE Min(Starts(c))
      /\ ~c.calendar /\ c.period = 0 => t.nextOn = tmr[i].nextOn
      /\ ~c.calendar /\ c.period # 0 => t.nextOn >= now /\ (t.nextOn - (Midnight + c.start)) % c.period = 0
  BY <1>1, <1>2, TimerIsSet
<1>4. now' = now /\ svc' = svc /\ tmr' = [tmr EXCEPT ![i] = t]
  BY <1>1 DEF PageTimer
<1>5. tmr'[i] = t /\ \A j \in DOMAIN Timer \ {i} : tmr'[j] = tmr[j]
  BY <1>4 DEF FlagInv
<1>6. c.period \in Nat /\ t.nextOn \in Nat
  BY <1>2, <1>3 DEF Timers, TimerFlags
<1>7. ~c.calendar /\ t.nextOn > 0 => c.period # 0
  BY <1>3 DEF PeriodInv, InPeriod
<1>8. InPeriod'
  <2> SUFFICES ASSUME NEW j \in DOMAIN Timer, ~Timer[j].calendar, tmr'[j].nextOn > 0
               PROVE  /\ Timer[j].period # 0
                      /\ \/ now < tmr'[j].nextOn + Timer[j].period
                         \/ now = tmr'[j].nextOn + Timer[j].period /\ ToCome(j)'
    BY <1>4 DEF InPeriod
  <2>1. CASE j = i
    <3>1. c.period # 0 /\ t.nextOn >= now
      BY <1>3, <1>5, <1>7, <2>1
    <3>2. now < t.nextOn + c.period
      BY <1>6, <3>1
    <3> QED
      BY <1>5, <2>1, <3>1, <3>2
  <2>2. CASE j # i
    BY <1>4, <1>5, <2>2 DEF PeriodInv, InPeriod, ToCome, AtTimer
  <2> QED
    BY <2>1, <2>2
<1>9. PlaceInv'
  <2>1. CASE svc.pc = "timerOff" /\ svc.i = i /\ ~c.calendar
    <3>1. now > 0 /\ tmr[i].nextOn > 0
      BY <2>1 DEF PeriodInv, PlaceInv
    <3>2. c.period # 0
      BY <2>1, <3>1 DEF PeriodInv, InPeriod
    <3>3. t.nextOn > 0
      BY <1>3, <1>6, <2>1, <3>1, <3>2
    <3> QED
      BY <1>4, <1>5, <2>1, <3>1, <3>3 DEF PeriodInv, PlaceInv, AtTimer
  <2>2. CASE ~(svc.pc = "timerOff" /\ svc.i = i /\ ~c.calendar)
    BY <1>4, <1>5, <2>2 DEF PeriodInv, PlaceInv, AtTimer
  <2> QED
    BY <2>1, <2>2
<1>10. StartsSet
  <2>1. t.nextOn # tmr[i].nextOn => NextStart(i)
    <3>1. CASE c.calendar
      BY <1>3, <1>5, <3>1 DEF NextStart
    <3>2. CASE ~c.calendar /\ c.period # 0
      BY <1>3, <1>5, <3>2 DEF NextStart
    <3> QED
      BY <1>3, <3>1, <3>2
  <2> QED
    BY <1>5, <2>1 DEF StartsSet
<1> QED
  BY <1>8, <1>9, <1>10 DEF PeriodInv

(***************************************************************************)
(* Every step sets timers to their next starts only.                       *)
(***************************************************************************)
LEMMA NextPeriod ==
  ASSUME RunsFit, IInv, OnInv, PeriodInv, Next
  PROVE  PeriodInv' /\ StartsSet
<1>1. now \in Nat /\ Timer' = Timer /\ FlagInv /\ TimesInv
  BY StepFacts DEF OnInv
<1>2. "pc" \in DOMAIN svc
  BY DEF IInv, StateInv, SlotInv
<1>3. ASSUME now' = now, tmr' = tmr, svc' = svc
      PROVE  PeriodInv' /\ StartsSet
  BY <1>1, <1>3, SameStarts DEF StartsSet
<1>4. CASE (NodesNext /\ UNCHANGED switchVars) \/ Subscriber \/ TriggerThread
  <2>1. UNCHANGED <<tmr, svc>>
    BY <1>4 DEF switchVars, Subscriber, SubSensor, SubSensorSent, TriggerThread, TriggerFetch, TriggerOther,
                TriggerOn, TriggerScript, TriggerOnSent, TriggerOff, TriggerOffSent
  <2>2. now' = now
    BY <1>4 DEF NodesNext, RadioThread, RadioRegistration, RadioPing, RadioReading, RadioKey, RadioKeyDone,
                RadioCall, RadioQueueSent, RS485Thread, WiredRegistration, WiredPing, WiredReading, WiredKey,
                WiredKeyDone, WiredCall, RegistrationThread, SensorThread, SensorReading, SensorCall, Page,
                PageSelect, PageApply, PageApplied, Registers, Reports, Subscriber, SubSensor, SubSensorSent,
                TriggerThread, TriggerFetch, TriggerOther, TriggerOn, TriggerScript, TriggerOnSent, TriggerOff,
                TriggerOffSent, quiet
  <2> QED
    BY <1>3, <2>1, <2>2
<1>5. CASE Tick
  <2>1. now' = now + 1 /\ tmr' = tmr /\ svc = Idle /\ svc' = [pc |-> "housekeeping"]
    BY <1>5 DEF Tick
  <2>2. PlaceInv'
    BY <2>1 DEF PlaceInv, AtTimer
  <2>3. ASSUME NEW j \in DOMAIN Timer, ~Timer[j].calendar, tmr[j].nextOn > 0
        PROVE  /\ Timer[j].period # 0 /\ ToCome(j)'
               /\ \/ now' < tmr[j].nextOn + Timer[j].period
                  \/ now' = tmr[j].nextOn + Timer[j].period
    <3>1. Timer[j].period # 0 /\ now < tmr[j].nextOn + Timer[j].period
      BY <2>1, <2>3 DEF PeriodInv, InPeriod, ToCome, AtTimer, Idle
    <3>2. Timer[j].period \in Nat /\ tmr[j].nextOn \in Nat
      BY <1>1, SettingsTyped DEF FlagInv, Timers, TimerFlags
    <3> QED
      BY <1>1, <2>1, <3>1, <3>2 DEF ToCome
  <2>4. InPeriod'
    BY <1>1, <2>1, <2>3 DEF InPeriod
  <2> QED
    BY <2>1, <2>2, <2>4 DEF PeriodInv, StartsSet
<1>6. CASE ServiceZombies
  <2>1. now' = now /\ tmr' = tmr /\ svc.pc = "housekeeping" /\ svc' = ToTimers
    BY <1>6 DEF ServiceZombies, quiet
  <2>2. DOMAIN Timer = 1..Len(Timer) /\ Len(Timer) \in Nat /\ (Timer = <<>> <=> Len(Timer) = 0)
    BY <1>1, SwitchingAssumption, LenProperties, EmptySeq DEF FlagInv, Timer
  <2>3. CASE Timer = <<>>
    <3>1. ~AtTimer' /\ svc'.pc # "timerOff"
      BY <2>1, <2>3 DEF ToTimers, ToTriggers, At1, Idle, AtTimer
    <3>2. DOMAIN Timer = {}
      BY <2>2, <2>3
    <3> QED
      BY <1>1, <2>1, <3>1, <3>2 DEF PeriodInv, PlaceInv, InPeriod, StartsSet
  <2>4. CASE Timer # <<>>
    <3>1. svc'.pc = "start" /\ svc'.i = 1 /\ 1 \in DOMAIN Timer
      BY <2>1, <2>2, <2>4 DEF ToTimers, At1
    <3>2. \A j \in DOMAIN Timer : ToCome(j)'
      BY <2>2, <3>1 DEF ToCome, AtTimer
    <3>3. PlaceInv' /\ InPeriod'
      BY <1>1, <2>1, <3>1, <3>2 DEF PeriodInv, PlaceInv, InPeriod, AtTimer
    <3> QED
      BY <2>1, <3>3 DEF PeriodInv, StartsSet
  <2> QED
    BY <2>3, <2>4
<1>7. CASE TimerStart \/ TimerScript \/ TimerOnSent
  <2>1. /\ now' = now /\ svc.pc \in {"start", "script", "on"}
        /\ svc'.pc \in {"end", "script", "on"} /\ svc'.i = svc.i
    <3>1. now' = now /\ svc.pc \in {"start", "script", "on"}
      BY <1>7 DEF TimerStart, TimerScript, TimerOnSent, quiet
    <3>2. \/ svc' = [svc EXCEPT !.pc = "end"] \/ svc' = [svc EXCEPT !.pc = "script"]
          \/ svc' = [pc |-> "end", i |-> svc.i] \/ TimerSend("on", svc.i)
      <4>1. CASE TimerStart
        BY <4>1 DEF TimerStart
      <4>2. CASE TimerScript \/ TimerOnSent
        BY <4>2 DEF TimerScript, TimerOnSent
      <4> QED
        BY <1>7, <4>1, <4>2
    <3>3. CASE svc' = [svc EXCEPT !.pc = "end"]
      BY <1>2, <3>1, <3>3
    <3>4. CASE svc' = [svc EXCEPT !.pc = "script"]
      BY <1>2, <3>1, <3>4
    <3>5. CASE svc' = [pc |-> "end", i |-> svc.i] \/ TimerSend("on", svc.i)
      BY <3>1, <3>5 DEF TimerSend
    <3> QED
      BY <3>2, <3>3, <3>4, <3>5
  <2>2. AtTimer /\ AtTimer' /\ svc'.pc # "timerOff"
    BY <2>1 DEF AtTimer
  <2>3. ASSUME NEW j \in DOMAIN Timer
        PROVE  tmr'[j].nextOn = tmr[j].nextOn
    <3>1. tmr[j] \in TimerFlags /\ tmr[svc.i] \in TimerFlags /\ DOMAIN tmr = DOMAIN Timer
      BY <1>1, <2>2 DEF FlagInv, PeriodInv, PlaceInv
    <3>2. CASE TimerStart
      <4>1. PICK t : t = [tmr[svc.i] EXCEPT !.triggered = TRUE]
        OBVIOUS
      <4>2. PICK u : u = [t EXCEPT !.result = FALSE]
        OBVIOUS
      <4>3. t.nextOn = tmr[svc.i].nextOn /\ u.nextOn = tmr[svc.i].nextOn
        BY <3>1, <4>1, <4>2 DEF TimerFlags
      <4>4. tmr' \in {tmr, [tmr EXCEPT ![svc.i] = t], [tmr EXCEPT ![svc.i] = u]}
        BY <3>2, <4>1, <4>2 DEF TimerStart
      <4> QED
        BY <3>1, <4>3, <4>4
    <3>3. CASE TimerScript
      <4>1. PICK yes : tmr' = [tmr EXCEPT ![svc.i] = [tmr[svc.i] EXCEPT !.result = yes]]
        BY <3>3 DEF TimerScript
      <4> QED
        BY <3>1, <4>1 DEF TimerFlags
    <3> QED
      BY <1>7, <3>2, <3>3 DEF TimerOnSent
  <2> QED
    BY <1>1, <2>1, <2>2, <2>3, SameStarts DEF StartsSet
<1>8. CASE TimerEnd
  BY <1>1, <1>8, TimerEndIsNext
<1>9. CASE TimerOffSent
  <2>1. /\ now' = now /\ svc.pc = "timerOff" /\ svc' = AfterTimer(svc.i)
        /\ tmr' = [tmr EXCEPT ![svc.i] = setTimer(Timer[svc.i], @, FALSE)]
    BY <1>9 DEF TimerOffSent, quiet
  <2>2. AtTimer /\ (~Timer[svc.i].calendar => tmr[svc.i].nextOn > 0)
    BY <2>1 DEF AtTimer, PeriodInv, PlaceInv
  <2> QED
    BY <1>1, <2>1, <2>2, TimerSetIsNext
<1>10. CASE TriggerOffTime \/ TriggerOffTimeSent
  <2>1. /\ now' = now /\ tmr' = tmr /\ svc.pc \in {"off", "triggerOff"}
        /\ svc'.pc = "triggerOff" \/ svc' = AfterOff(svc.i)
    BY <1>10 DEF TriggerOffTime, TriggerOffTimeSent, quiet
  <2>2. ~AtTimer /\ ~AtTimer' /\ svc.pc # "housekeeping"
    BY <2>1 DEF AtTimer, AfterOff, Idle
  <2> QED
    BY <1>1, <2>1, <2>2, SameStarts DEF StartsSet
<1>11. ASSUME NEW i \in DOMAIN Timer, PageTimer(i)
       PROVE  PeriodInv' /\ StartsSet
  BY <1>1, <1>11, PageSetsNext
<1> QED
  BY <1>4, <1>5, <1>6, <1>7, <1>8, <1>9, <1>10, <1>11 DEF Next, ServiceThread

(***************************************************************************)
(* At a start every timer is set and none is late.                         *)
(***************************************************************************)
LEMMA InitPeriod == Init => PeriodInv
<1> SUFFICES ASSUME Init PROVE PeriodInv
  OBVIOUS
<1>1. /\ conf \in Confs /\ now = 0 /\ svc = Idle
      /\ tmr = [i \in DOMAIN Timer |-> setTimer(Timer[i], NoTimes, TRUE)]
  BY DEF Init, NodesInit
<1>2. NoTimes \in TimerFlags /\ NoTimes.nextOn = 0
  BY DEF NoTimes, TimerFlags
<1>3. ASSUME NEW i \in DOMAIN Timer, ~Timer[i].calendar, tmr[i].nextOn > 0
      PROVE  Timer[i].period # 0 /\ now < tmr[i].nextOn + Timer[i].period
  <2>1. Timer[i] \in Timers
    BY <1>1, SwitchingAssumption DEF Timer
  <2>2. tmr[i] \in TimerFlags /\ (Timer[i].period = 0 => tmr[i].nextOn = 0)
    BY <1>1, <1>2, <1>3, <2>1, TimerIsSet
  <2>3. Timer[i].period \in Nat /\ tmr[i].nextOn \in Nat
    BY <2>1, <2>2 DEF Timers, TimerFlags
  <2>4. Timer[i].period # 0
    BY <1>3, <2>2, <2>3
  <2>5. now = 0
    BY <1>1
  <2> QED
    BY <1>3, <2>3, <2>4, <2>5
<1>4. PlaceInv
  BY <1>1 DEF PlaceInv, AtTimer, Idle
<1> QED
  BY <1>3, <1>4 DEF PeriodInv, InPeriod

(***************************************************************************)
(* Whenever a timer is set, by the end of a run or by the page, it is set  *)
(* to its next start: a calendar timer to the first of its days and times  *)
(* from now on, across midnight, the end of the week and a start that is   *)
(* over today, a period timer on in its period and never back in time      *)
(* (setTimer of ohs_functions.h).  The run of a period timer must be over  *)
(* when its next one begins: the code sets a longer one to a start that    *)
(* has passed.                                                             *)
(***************************************************************************)
THEOREM SetToNextStart == RunsFit => (Spec => NextStartIsSet)
<1> SUFFICES ASSUME RunsFit PROVE Spec => NextStartIsSet
  OBVIOUS
<1> DEFINE Inv == IInv /\ OnInv /\ PeriodInv
<1>1. Init => Inv
  BY InitIInv, InitOn, InitPeriod
<1>2. ASSUME Inv, [Next]_vars PROVE Inv'
  <2>1. IInv' /\ OnInv'
    BY <1>2, NextIInv, NextOn
  <2>2. CASE Next
    BY <1>2, <2>1, <2>2, NextPeriod
  <2>3. CASE UNCHANGED vars
    <3>1. UNCHANGED <<conf, now, tmr, svc>>
      BY <2>3 DEF vars, nodeVars, switchVars
    <3> QED
      BY <1>2, <2>1, <3>1 DEF PeriodInv, PlaceInv, InPeriod, ToCome, AtTimer, Timer
  <2> QED
    BY <1>2, <2>2, <2>3
<1>3. ASSUME Inv, [Next]_vars
      PROVE  [\A i \in DOMAIN Timer : tmr'[i].nextOn # tmr[i].nextOn => NextStart(i)]_vars
  BY <1>3, NextPeriod DEF StartsSet
<1> HIDE DEF Inv
<1> QED
  BY <1>1, <1>2, <1>3, PTL DEF Spec, NextStartIsSet
=============================================================================
