--------------------------- MODULE MessagesProofs ---------------------------
(***************************************************************************)
(* Proofs about the messages: for any contacts, entries, settings, numbers *)
(* of events and sizes of the mailboxes, any slots for SMS and any modem.   *)
(***************************************************************************)
EXTENDS Messages, SequencesExt, SequenceTheorems, FiniteSetTheorems, WellFoundedInduction, TLAPS

------------------------------------------------------------------------------
(* Least numbers and recursion up to a number.                             *)

(***************************************************************************)
(* What a search for the smallest finds.                                   *)
(***************************************************************************)
LEMMA LeastExists ==
  ASSUME NEW S, S \subseteq Nat, S # {}
  PROVE  \E x \in S : \A y \in S : x <= y
<1> DEFINE R == OpToRel(<, Nat)
<1>1. IsWellFoundedOn(R, Nat)
  BY NatLessThanWellFounded
<1>2. PICK x \in S : \A y \in S : ~(<<y, x>> \in R)
  <2> HIDE DEF R
  <2> QED
    BY <1>1, WFMin
<1>3. \A y \in S : x <= y
  <2> SUFFICES ASSUME NEW y \in S, y < x PROVE FALSE
    OBVIOUS
  <2>1. <<y, x>> \in R
    BY DEF OpToRel
  <2> QED
    BY <1>2, <2>1
<1> QED
  BY <1>3

(***************************************************************************)
(* What holds at 0 and is passed on, up to n, holds up to n.               *)
(***************************************************************************)
LEMMA Upward ==
  ASSUME NEW n \in Nat, NEW P, 0 \in P, \A k \in 0..(n - 1) : k \in P => k + 1 \in P
  PROVE  0..n \subseteq P
<1> SUFFICES ASSUME (0..n) \ P # {} PROVE FALSE
  OBVIOUS
<1> DEFINE S == (0..n) \ P
<1>1. PICK x \in S : \A y \in S : x <= y
  <2>1. S \subseteq Nat /\ S # {}
    OBVIOUS
  <2> HIDE DEF S
  <2> QED
    BY <2>1, LeastExists
<1>2. x \in 1..n /\ x - 1 \in 0..(n - 1) /\ x - 1 \in 0..n /\ ~(x <= x - 1) /\ x - 1 + 1 = x
  BY <1>1
<1>3. x - 1 \in P
  BY <1>1, <1>2
<1> QED
  BY <1>1, <1>2, <1>3

(***************************************************************************)
(* A function may be given by its value at 0 and a rule for the next.      *)
(***************************************************************************)
ByRule(f, n, S, x, rule) ==
  f \in [0..n -> S] /\ f[0] = x /\ \A k \in 1..n : f[k] = rule[k][f[k - 1]]
HasFunction(n, S, x, rule) == \E f : ByRule(f, n, S, x, rule)

LEMMA Recursion ==
  ASSUME NEW n \in Nat, NEW S, NEW x \in S, NEW rule \in [1..n -> [S -> S]]
  PROVE  HasFunction(n, S, x, rule)
<1> DEFINE Upto(f, m) == f \in [0..m -> S] /\ f[0] = x /\ \A k \in 1..m : f[k] = rule[k][f[k - 1]]
           P == {m \in 0..n : \E f : Upto(f, m)}
<1>1. 0 \in P
  <2> DEFINE g == [k \in 0..0 |-> x]
  <2>1. g \in [0..0 -> S] /\ g[0] = x /\ 1..0 = {}
    OBVIOUS
  <2>2. Upto(g, 0)
    BY <2>1
  <2>3. \E f : Upto(f, 0)
    BY <2>2
  <2> QED
    BY <2>3
<1>2. ASSUME NEW m \in 0..(n - 1), m \in P PROVE m + 1 \in P
  <2>1. PICK f : Upto(f, m)
    BY <1>2
  <2> DEFINE g == [k \in 0..(m + 1) |-> IF k <= m THEN f[k] ELSE rule[m + 1][f[m]]]
  <2>2. f[m] \in S /\ rule[m + 1][f[m]] \in S
    BY <2>1
  <2>3. g \in [0..(m + 1) -> S] /\ g[0] = x
    BY <2>1, <2>2
  <2>4. ASSUME NEW k \in 1..(m + 1) PROVE g[k] = rule[k][g[k - 1]]
    <3>1. k - 1 \in 0..m /\ g[k - 1] = f[k - 1]
      OBVIOUS
    <3>2. CASE k <= m
      BY <2>1, <3>1, <3>2
    <3>3. CASE k = m + 1
      <4>1. k - 1 = m /\ ~(k <= m) /\ g[k] = rule[m + 1][f[m]]
        BY <3>3
      <4> QED
        BY <3>1, <3>3, <4>1
    <3> QED
      BY <3>2, <3>3
  <2>5. Upto(g, m + 1)
    BY <2>3, <2>4
  <2>6. \E h : Upto(h, m + 1)
    BY <2>5
  <2> QED
    BY <2>6
<1>3. 0..n \subseteq P
  <2> HIDE DEF P
  <2> QED
    BY <1>1, <1>2, Upward
<1>4. \E f : Upto(f, n)
  BY <1>3
<1> QED
  BY <1>4 DEF HasFunction, ByRule

------------------------------------------------------------------------------

LineKind == {"echo", "answer", "data", "ok", "header", "body", "cmgs", "error", "blank", "notice"}
Command == {"none", "AT", "CMGF", "CNMI", "CGMM", "CVHU", "CREG", "CSQ", "CPSI", "CMGS", "text",
            "CMGR", "CMGD", "ATD", "ATH"}

(* The lines of the serial line; what an announcement and the text of an    *)
(* SMS are of is a slot.                                                    *)
Lines == {l \in [kind : LineKind, name : Command \union {""}, number : Slots \union {0}] :
            l.kind \in {"notice", "body"} => l.number \in Slots}

(* What a line announces, and that lines announce nothing twice.           *)
Announced(l) == IF l.kind = "notice" THEN {l.number} ELSE {}

Once(lines) ==
  \A i, j \in DOMAIN lines :
    lines[i].kind = "notice" /\ lines[j].kind = "notice" /\ lines[i].number = lines[j].number => i = j

(* Lines without announcements.                                            *)
Plain == {lines \in Seq(Lines) : Notices(lines) = {}}

------------------------------------------------------------------------------
(* Announcements in sequences of lines.                                    *)

LEMMA NoticesAre ==
  ASSUME NEW s \in Seq(Lines), NEW x
  PROVE  x \in Notices(s) <=> \E i \in 1 .. Len(s) : s[i].kind = "notice" /\ s[i].number = x
BY LenProperties DEF Notices

LEMMA NoticesAreSlots ==
  ASSUME NEW s \in Seq(Lines)
  PROVE  Notices(s) \subseteq Slots
<1> SUFFICES ASSUME NEW x \in Notices(s) PROVE x \in Slots
  OBVIOUS
<1>1. PICK i \in 1 .. Len(s) : s[i].kind = "notice" /\ s[i].number = x
  BY NoticesAre
<1>2. s[i] \in Lines
  BY ElementOfSeq
<1> QED
  BY <1>1, <1>2 DEF Lines

LEMMA PlainOnce ==
  ASSUME NEW s \in Plain
  PROVE  s \in Seq(Lines) /\ Notices(s) = {} /\ Once(s)
<1>1. s \in Seq(Lines) /\ Notices(s) = {}
  BY DEF Plain
<1>2. \A i \in 1 .. Len(s) : s[i].kind # "notice"
  BY <1>1, NoticesAre
<1>3. DOMAIN s = 1 .. Len(s)
  BY <1>1, LenProperties
<1> QED
  BY <1>1, <1>2, <1>3 DEF Once

LEMMA NoticesOfConcat ==
  ASSUME NEW s \in Seq(Lines), NEW t \in Seq(Lines)
  PROVE  /\ s \o t \in Seq(Lines)
         /\ Notices(s \o t) = Notices(s) \union Notices(t)
<1>1. PICK st \in Seq(Lines) : st = s \o t
  BY ConcatProperties
<1>2. /\ Len(s) \in Nat /\ Len(t) \in Nat /\ Len(st) = Len(s) + Len(t)
      /\ \A i \in 1 .. Len(s) + Len(t) : st[i] = IF i <= Len(s) THEN s[i] ELSE t[i - Len(s)]
  BY <1>1, ConcatProperties, LenProperties
<1>3. ASSUME NEW x \in Notices(st) PROVE x \in Notices(s) \union Notices(t)
  <2>1. PICK i \in 1 .. Len(st) : st[i].kind = "notice" /\ st[i].number = x
    BY <1>1, <1>3, NoticesAre
  <2>2. CASE i <= Len(s)
    <3>1. i \in 1 .. Len(s) /\ st[i] = s[i]
      BY <1>2, <2>2
    <3> QED
      BY <2>1, <3>1, NoticesAre
  <2>3. CASE ~(i <= Len(s))
    <3>1. i - Len(s) \in 1 .. Len(t) /\ st[i] = t[i - Len(s)]
      BY <1>2, <2>3
    <3> QED
      BY <2>1, <3>1, NoticesAre
  <2> QED
    BY <2>2, <2>3
<1>4. ASSUME NEW x \in Notices(s) PROVE x \in Notices(st)
  <2>1. PICK i \in 1 .. Len(s) : s[i].kind = "notice" /\ s[i].number = x
    BY <1>4, NoticesAre
  <2>2. i \in 1 .. Len(st) /\ st[i] = s[i]
    BY <1>2
  <2> QED
    BY <2>1, <2>2, NoticesAre
<1>5. ASSUME NEW x \in Notices(t) PROVE x \in Notices(st)
  <2>1. PICK i \in 1 .. Len(t) : t[i].kind = "notice" /\ t[i].number = x
    BY <1>5, NoticesAre
  <2>2. PICK k \in Nat : k = Len(s) + i
    BY <1>2
  <2>3. k \in 1 .. Len(s) + Len(t) /\ ~(k <= Len(s)) /\ k - Len(s) = i
    BY <1>2, <2>2
  <2>4. k \in 1 .. Len(st) /\ st[k] = t[i]
    BY <1>2, <2>3
  <2> QED
    BY <2>1, <2>4, NoticesAre
<1> QED
  BY <1>1, <1>3, <1>4, <1>5

LEMMA OnceInConcat ==
  ASSUME NEW s \in Seq(Lines), NEW t \in Seq(Lines),
         Once(s), Once(t), Notices(s) \intersect Notices(t) = {}
  PROVE  Once(s \o t)
<1>1. PICK st \in Seq(Lines) : st = s \o t
  BY ConcatProperties
<1>2. /\ Len(s) \in Nat /\ Len(t) \in Nat /\ Len(st) = Len(s) + Len(t)
      /\ DOMAIN st = 1 .. Len(st) /\ DOMAIN s = 1 .. Len(s) /\ DOMAIN t = 1 .. Len(t)
      /\ \A i \in 1 .. Len(s) + Len(t) : st[i] = IF i <= Len(s) THEN s[i] ELSE t[i - Len(s)]
  BY <1>1, ConcatProperties, LenProperties
<1> DEFINE N(f, i) == f[i].kind = "notice"
<1>3. SUFFICES ASSUME NEW i \in 1 .. Len(st), NEW j \in 1 .. Len(st), i <= j,
                      N(st, i), N(st, j), st[i].number = st[j].number
               PROVE  i = j
  <2>1. \A i, j \in 1 .. Len(st) : i <= j \/ j <= i
    BY <1>2
  <2>2. Once(st) <=> \A i, j \in 1 .. Len(st) :
                       N(st, i) /\ N(st, j) /\ st[i].number = st[j].number => i = j
    BY <1>2 DEF Once
  <2> HIDE DEF N
  <2> QED
    BY <1>1, <2>1, <2>2
<1>4. CASE j <= Len(s)
  <2>1. i \in DOMAIN s /\ j \in DOMAIN s /\ st[i] = s[i] /\ st[j] = s[j]
    BY <1>2, <1>3, <1>4
  <2> QED
    BY <1>3, <2>1 DEF Once
<1>5. CASE i > Len(s)
  <2>1. /\ i - Len(s) \in DOMAIN t /\ j - Len(s) \in DOMAIN t
        /\ st[i] = t[i - Len(s)] /\ st[j] = t[j - Len(s)]
    BY <1>2, <1>3, <1>5
  <2>2. i - Len(s) = j - Len(s)
    BY <1>3, <2>1 DEF Once
  <2> QED
    BY <1>2, <2>2
<1>6. CASE i <= Len(s) /\ j > Len(s)
  <2>1. /\ i \in 1 .. Len(s) /\ j - Len(s) \in 1 .. Len(t)
        /\ st[i] = s[i] /\ st[j] = t[j - Len(s)]
    BY <1>2, <1>3, <1>6
  <2>2. st[i].number \in Notices(s) /\ st[j].number \in Notices(t)
    BY <1>3, <2>1, NoticesAre
  <2> QED
    BY <1>3, <2>2
<1> QED
  BY <1>2, <1>4, <1>5, <1>6

LEMMA NoticesOfOne ==
  ASSUME NEW l \in Lines
  PROVE  <<l>> \in Seq(Lines) /\ Notices(<<l>>) = Announced(l) /\ Once(<<l>>)
<1>0. <<l>> \in Seq(Lines)
  OBVIOUS
<1>1. PICK s \in Seq(Lines) : s = <<l>>
  BY <1>0
<1>2. Len(s) = 1 /\ s[1] = l /\ DOMAIN s = 1 .. 1
  BY <1>1
<1>3. \A x : x \in Notices(s) <=> l.kind = "notice" /\ l.number = x
  BY <1>2, NoticesAre
<1> QED
  BY <1>1, <1>2, <1>3 DEF Once, Announced

LEMMA NoticesOfNone == <<>> \in Seq(Lines) /\ Notices(<<>>) = {} /\ Once(<<>>)
BY DEF Notices, Once

LEMMA NoticesOfAppend ==
  ASSUME NEW s \in Seq(Lines), NEW l \in Lines
  PROVE  /\ Append(s, l) \in Seq(Lines)
         /\ Notices(Append(s, l)) = Notices(s) \union Announced(l)
         /\ Once(s) /\ Announced(l) \intersect Notices(s) = {} => Once(Append(s, l))
<1>1. Append(s, l) = s \o <<l>>
  BY AppendIsConcat
<1>2. <<l>> \in Seq(Lines) /\ Notices(<<l>>) = Announced(l) /\ Once(<<l>>)
  BY NoticesOfOne
<1>3. s \o <<l>> \in Seq(Lines) /\ Notices(s \o <<l>>) = Notices(s) \union Notices(<<l>>)
  BY <1>2, NoticesOfConcat
<1>4. Once(s) /\ Notices(s) \intersect Notices(<<l>>) = {} => Once(s \o <<l>>)
  BY <1>2, OnceInConcat
<1> QED
  BY <1>1, <1>2, <1>3, <1>4

LEMMA NoticesOfTail ==
  ASSUME NEW s \in Seq(Lines), s # <<>>
  PROVE  /\ Head(s) \in Lines /\ Tail(s) \in Seq(Lines)
         /\ Notices(s) = Announced(Head(s)) \union Notices(Tail(s))
         /\ Once(s) => Once(Tail(s)) /\ Announced(Head(s)) \intersect Notices(Tail(s)) = {}
<1>1. PICK t \in Seq(Lines) : t = Tail(s)
  BY HeadTailProperties
<1>2. /\ Len(s) \in Nat /\ Len(s) > 0 /\ Len(t) = Len(s) - 1 /\ Head(s) = s[1]
      /\ DOMAIN s = 1 .. Len(s) /\ DOMAIN t = 1 .. Len(t)
      /\ \A i \in 1 .. Len(t) : t[i] = s[i + 1]
  BY <1>1, HeadTailProperties, LenProperties, EmptySeq
<1>3. Head(s) \in Lines
  BY HeadTailProperties
<1>4. ASSUME NEW x \in Notices(s) PROVE x \in Announced(Head(s)) \union Notices(t)
  <2>1. PICK i \in 1 .. Len(s) : s[i].kind = "notice" /\ s[i].number = x
    BY <1>4, NoticesAre
  <2>2. CASE i = 1
    BY <1>2, <2>1, <2>2 DEF Announced
  <2>3. CASE i # 1
    <3>1. i - 1 \in 1 .. Len(t) /\ t[i - 1] = s[i]
      BY <1>2, <2>3
    <3> QED
      BY <2>1, <3>1, NoticesAre
  <2> QED
    BY <2>2, <2>3
<1>5. ASSUME NEW x \in Notices(t)
      PROVE  x \in Notices(s) /\ (Once(s) => x \notin Announced(Head(s)))
  <2>1. PICK i \in 1 .. Len(t) : t[i].kind = "notice" /\ t[i].number = x
    BY <1>5, NoticesAre
  <2>2. i + 1 \in 1 .. Len(s) /\ s[i + 1] = t[i] /\ i + 1 # 1 /\ 1 \in 1 .. Len(s)
    BY <1>2
  <2>3. x \in Notices(s)
    BY <2>1, <2>2, NoticesAre
  <2>4. Once(s) => x \notin Announced(Head(s))
    BY <1>2, <2>1, <2>2 DEF Once, Announced
  <2> QED
    BY <2>3, <2>4
<1>6. Announced(Head(s)) \subseteq Notices(s)
  <2>1. 1 \in 1 .. Len(s)
    BY <1>2
  <2> QED
    BY <1>2, <2>1, NoticesAre DEF Announced
<1>7. Once(s) => Once(t)
  <2>1. ASSUME Once(s), NEW i \in 1 .. Len(t), NEW j \in 1 .. Len(t),
               t[i].kind = "notice", t[j].kind = "notice", t[i].number = t[j].number
        PROVE  i = j
    <3>1. i + 1 \in DOMAIN s /\ j + 1 \in DOMAIN s /\ t[i] = s[i + 1] /\ t[j] = s[j + 1]
      BY <1>2
    <3>2. i + 1 = j + 1
      BY <2>1, <3>1 DEF Once
    <3> QED
      BY <3>2
  <2> QED
    BY <1>2, <2>1 DEF Once
<1> QED
  BY <1>1, <1>3, <1>4, <1>5, <1>6, <1>7

(* The part of the lines before a place and the part after it.             *)
LEMMA NoticesOfParts ==
  ASSUME NEW s \in Seq(Lines), NEW n \in 0 .. Len(s)
  PROVE  /\ SubSeq(s, 1, n) \in Seq(Lines) /\ SubSeq(s, n + 1, Len(s)) \in Seq(Lines)
         /\ Notices(s) = Notices(SubSeq(s, 1, n)) \union Notices(SubSeq(s, n + 1, Len(s)))
         /\ Once(s) => /\ Once(SubSeq(s, 1, n)) /\ Once(SubSeq(s, n + 1, Len(s)))
                       /\ Notices(SubSeq(s, 1, n)) \intersect Notices(SubSeq(s, n + 1, Len(s))) = {}
<1>1. PICK a, b : a = SubSeq(s, 1, n) /\ b = SubSeq(s, n + 1, Len(s))
  OBVIOUS
<1>2. /\ Len(s) \in Nat /\ n \in Nat /\ n <= Len(s) /\ DOMAIN s = 1 .. Len(s)
      /\ 1 \in 1 .. Len(s) + 1 /\ n \in 1 - 1 .. Len(s) /\ Len(s) \in n .. Len(s)
  BY LenProperties
<1>3. a \in Seq(Lines) /\ Len(a) = n
  BY <1>1, <1>2, SubSeqProperties
<1>4. b \in Seq(Lines) /\ Len(b) = Len(s) - n
  <2>1. PICK m \in Nat : m = n + 1
    BY <1>2
  <2>2. \A i \in m .. Len(s) : s[i] \in Lines
    BY <1>2, <2>1, ElementOfSeq
  <2>3. /\ SubSeq(s, m, Len(s)) \in Seq(Lines)
        /\ Len(SubSeq(s, m, Len(s))) = IF m <= Len(s) THEN Len(s) - m + 1 ELSE 0
    BY <1>2, <2>2, SubSeqProperties
  <2>4. b = SubSeq(s, m, Len(s))
    BY <1>1, <2>1
  <2>5. b \in Seq(Lines) /\ Len(b) = IF m <= Len(s) THEN Len(s) - m + 1 ELSE 0
    BY <2>3, <2>4
  <2>6. PICK z \in Nat : z = Len(s)
    BY <1>2
  <2>8. n \in Nat /\ n <= z
    BY <1>2, <2>6
  <2>9. CASE m <= z
    BY <2>1, <2>5, <2>6, <2>8, <2>9
  <2>10. CASE ~(m <= z)
    <3>1. n = z
      BY <2>1, <2>8, <2>10
    <3> QED
      BY <2>5, <2>6, <2>8, <2>10, <3>1
  <2> QED
    BY <2>9, <2>10
<1>5. a \o b = s
  BY <1>1, <1>2, ConcatAdjacentSubSeq, SubSeqFull
<1>6. Notices(s) = Notices(a) \union Notices(b)
  BY <1>3, <1>4, <1>5, NoticesOfConcat
<1>7. /\ DOMAIN a = 1 .. n /\ DOMAIN b = 1 .. Len(s) - n
      /\ \A k \in 1 .. Len(s) : s[k] = IF k <= n THEN a[k] ELSE b[k - n]
  <2>1. /\ Len(a) + Len(b) = Len(s)
        /\ \A k \in 1 .. Len(a) + Len(b) : (a \o b)[k] = IF k <= Len(a) THEN a[k] ELSE b[k - Len(a)]
    BY <1>2, <1>3, <1>4, ConcatProperties
  <2>2. DOMAIN a = 1 .. n /\ DOMAIN b = 1 .. Len(s) - n
    BY <1>3, <1>4, LenProperties
  <2> QED
    BY <1>3, <1>5, <2>1, <2>2
<1>8. \A k \in 1 .. n : k \in DOMAIN s /\ a[k] = s[k]
  BY <1>2, <1>7
<1>9. ASSUME NEW k \in 1 .. Len(s) - n PROVE n + k \in DOMAIN s /\ b[k] = s[n + k] /\ n + k > n
  <2>1. PICK m \in Nat : m = n + k
    BY <1>2
  <2>2. m \in 1 .. Len(s) /\ ~(m <= n) /\ m - n = k
    BY <1>2, <2>1
  <2> QED
    BY <1>2, <1>7, <2>1, <2>2
<1>10. Once(s) => Once(a)
  BY <1>7, <1>8 DEF Once
<1>11. Once(s) => Once(b)
  <2>1. ASSUME Once(s), NEW j \in 1 .. Len(s) - n, NEW k \in 1 .. Len(s) - n,
               b[j].kind = "notice", b[k].kind = "notice", b[j].number = b[k].number
        PROVE  j = k
    <3>1. n + j = n + k
      BY <1>9, <2>1 DEF Once
    <3> QED
      BY <1>2, <3>1
  <2> QED
    BY <1>7, <2>1 DEF Once
<1>12. ASSUME Once(s), NEW x \in Notices(a), x \in Notices(b) PROVE FALSE
  <2>1. PICK j \in 1 .. n : a[j].kind = "notice" /\ a[j].number = x
    BY <1>3, <1>12, NoticesAre
  <2>2. PICK k \in 1 .. Len(s) - n : b[k].kind = "notice" /\ b[k].number = x
    BY <1>4, <1>12, NoticesAre
  <2>3. j \in DOMAIN s /\ n + k \in DOMAIN s /\ j # n + k /\ s[j] = a[j] /\ s[n + k] = b[k]
    BY <1>2, <1>8, <1>9
  <2> QED
    BY <1>12, <2>1, <2>2, <2>3 DEF Once
<1> QED
  BY <1>1, <1>3, <1>4, <1>6, <1>10, <1>11, <1>12

LEMMA TwoLines ==
  ASSUME NEW S, NEW x \in S, NEW y \in S
  PROVE  <<x>> \o <<y>> = <<x, y>>
<1>1. <<x>> \in Seq(S) /\ <<y>> \in Seq(S) /\ <<x, y>> \in Seq(S)
  OBVIOUS
<1>2. PICK a \in Seq(S), b \in Seq(S), c \in Seq(S) : a = <<x>> /\ b = <<y>> /\ c = <<x, y>>
  BY <1>1
<1>3. Len(a) = 1 /\ Len(b) = 1 /\ Len(c) = 2 /\ a[1] = x /\ b[1] = y /\ c[1] = x /\ c[2] = y
  BY <1>2
<1>4. PICK d \in Seq(S) : d = a \o b
  BY ConcatProperties
<1>5. /\ Len(d) = Len(a) + Len(b)
      /\ \A i \in 1 .. Len(a) + Len(b) : d[i] = IF i <= Len(a) THEN a[i] ELSE b[i - Len(a)]
  BY <1>4, ConcatProperties
<1>6. Len(d) = 2 /\ d[1] = x /\ d[2] = y
  BY <1>3, <1>5
<1>7. \A i \in 1 .. 2 : d[i] = c[i]
  BY <1>3, <1>6
<1>8. d = c
  BY <1>3, <1>6, <1>7, SeqEqual
<1> QED
  BY <1>2, <1>4, <1>8

(* No lines of an answer announce anything.                                *)
LEMMA LineIs ==
  /\ \A kind \in LineKind : kind \notin {"notice", "body"} => Line(kind, 0) \in Lines
  /\ \A kind \in LineKind, s \in Slots : Line(kind, s) \in Lines
  /\ \A name \in Command : Echo(name) \in Lines
  /\ \A kind, n : Announced(Line(kind, n)) = IF kind = "notice" THEN {n} ELSE {}
  /\ \A name : Announced(Echo(name)) = {}
<1>1. ASSUME NEW kind \in LineKind, kind \notin {"notice", "body"} PROVE Line(kind, 0) \in Lines
  BY <1>1 DEF Line, Lines
<1>2. ASSUME NEW kind \in LineKind, NEW s \in Slots PROVE Line(kind, s) \in Lines
  BY DEF Line, Lines
<1>3. ASSUME NEW name \in Command PROVE Echo(name) \in Lines
  BY DEF Echo, Lines, LineKind
<1>4. ASSUME NEW kind, NEW n PROVE Announced(Line(kind, n)) = IF kind = "notice" THEN {n} ELSE {}
  BY DEF Line, Announced
<1>5. ASSUME NEW name PROVE Announced(Echo(name)) = {}
  BY DEF Echo, Announced
<1> QED
  BY <1>1, <1>2, <1>3, <1>4, <1>5

LEMMA PlainPut ==
  /\ <<>> \in Plain
  /\ \A l \in Lines : Announced(l) = {} => <<l>> \in Plain
  /\ \A s \in Plain, t \in Plain : s \o t \in Plain
<1>1. <<>> \in Plain
  BY NoticesOfNone DEF Plain
<1>2. ASSUME NEW l \in Lines, Announced(l) = {} PROVE <<l>> \in Plain
  BY <1>2, NoticesOfOne DEF Plain
<1>3. ASSUME NEW s \in Plain, NEW t \in Plain PROVE s \o t \in Plain
  <2>1. s \o t \in Seq(Lines) /\ Notices(s \o t) = Notices(s) \union Notices(t)
    BY PlainOnce, NoticesOfConcat
  <2> QED
    BY <2>1, PlainOnce DEF Plain
<1> QED
  BY <1>1, <1>2, <1>3

LEMMA RepliesArePlain ==
  ASSUME NEW name \in Command, NEW slot \in Slots \union {0}, sim \subseteq Slots
  PROVE  /\ Reply(name, slot) \in Plain /\ TextReply \in Plain
         /\ <<Line("error", 0)>> \in Plain /\ <<Echo(name), Line("error", 0)>> \in Plain
<1> DEFINE P(kind) == <<Line(kind, 0)>>
           e == <<Echo(name)>>
<1>1. /\ P("data") \in Plain /\ P("ok") \in Plain /\ P("header") \in Plain
      /\ P("cmgs") \in Plain /\ P("error") \in Plain
  <2>1. ASSUME NEW kind \in LineKind, kind \notin {"notice", "body"} PROVE P(kind) \in Plain
    <3>1. Line(kind, 0) \in Lines /\ Announced(Line(kind, 0)) = {}
      BY <2>1, LineIs DEF LineKind
    <3> QED
      BY <3>1, PlainPut
  <2> HIDE DEF P
  <2> QED
    BY <2>1 DEF LineKind
<1>2. e \in Plain
  BY LineIs, PlainPut DEF LineKind
<1>3. ASSUME NEW s \in Slots PROVE <<Line("body", s)>> \in Plain
  <2>1. Line("body", s) \in Lines /\ Announced(Line("body", s)) = {}
    BY LineIs DEF LineKind
  <2> QED
    BY <2>1, PlainPut
<1>4. /\ TextReply = P("cmgs") \o P("ok")
      /\ <<Echo(name), Line("error", 0)>> = e \o P("error")
  BY DEF TextReply
<1>5. TextReply \in Plain /\ <<Echo(name), Line("error", 0)>> \in Plain
  BY <1>1, <1>2, <1>4, PlainPut
<1>6. Reply(name, slot) \in Plain
  <2>1. CASE name \in {"CGMM", "CPSI", "CREG", "CSQ"}
    <3>1. Reply(name, slot) = e \o <<Line("data", 0), Line("ok", 0)>>
      BY <2>1 DEF Reply
    <3>2. <<Line("data", 0), Line("ok", 0)>> = P("data") \o P("ok")
      OBVIOUS
    <3> QED
      BY <1>1, <1>2, <3>1, <3>2, PlainPut
  <2>2. CASE name = "CMGS"
    <3>1. Reply(name, slot) = e \o <<>>
      BY <2>2 DEF Reply
    <3> QED
      BY <1>2, <3>1, PlainPut
  <2>3. CASE name = "CMGR" /\ slot \in sim
    <3>1. Reply(name, slot) = e \o <<Line("header", 0), Line("body", slot), Line("ok", 0)>>
      BY <2>3 DEF Reply
    <3>2. <<Line("header", 0), Line("body", slot), Line("ok", 0)>>
            = P("header") \o (<<Line("body", slot)>> \o P("ok"))
      OBVIOUS
    <3>3. <<Line("body", slot)>> \in Plain
      BY <1>3, <2>3
    <3>4. <<Line("body", slot)>> \o P("ok") \in Plain
      BY <1>1, <3>3, PlainPut
    <3> HIDE DEF P
    <3> QED
      BY <1>1, <1>2, <3>1, <3>2, <3>4, PlainPut
  <2>4. CASE name \notin {"CGMM", "CPSI", "CREG", "CSQ", "CMGS"} /\ ~(name = "CMGR" /\ slot \in sim)
    <3>1. Reply(name, slot) = e \o P("ok")
      BY <2>4 DEF Reply
    <3> QED
      BY <1>1, <1>2, <3>1, PlainPut
  <2> QED
    BY <2>1, <2>2, <2>3, <2>4
<1> QED
  BY <1>1, <1>5, <1>6

------------------------------------------------------------------------------
(* What the variables are.                                                 *)

AllEntries == Entries \union {ModemEntry, BatteryEntry}
Texts == {t \in [kind : EntryKind \union {"line", "sms", "dial"}, number : Nat] :
            t.kind = "sms" => t.number \in Slots}
Fates == {"none", "noticed", "missed", "taken"}
Task == Channel \X Nat
ModemPc == {"sleep", "checks", "dummy", "alive", "format", "store", "model", "voice", "registered",
            "signal", "system", "stop", "read", "get", "reply", "replied", "delete"}
ModemStatus == {"NotInitialized", "OK", "Failed", "ForceReset"}
Registered == {"none", "searching", "unknown", "registered"}
Modems == [pc : ModemPc, counter : Int, status : ModemStatus, lastStatus : Registered,
           reg : Registered, setSMS : Int, slot : Slots \union {0}]
AlertPc == {"fetch", "work", "sms", "text", "call", "hangUp"}

SerialType ==
  /\ out \in Seq(Lines) /\ ring \in Seq(Lines)
  /\ message \in Nat /\ message <= Len(ring)
  /\ sim \subseteq Slots /\ fate \in [Slots -> Fates]
  /\ dialog \in [name : Command, at : Nat] /\ answer \in {-1, 0, 1}

WorkType ==
  /\ obeyed \in [Slots -> Nat]
  /\ modem \in Modems
  /\ smsText \in Texts

LogType == logMb \in Seq(AllEntries) /\ logPool \in Nat

MineType ==
  /\ \A kind \in DOMAIN conf : conf[kind] \subseteq Channel
  /\ alertMb \in Seq([entry : AllEntries, channels : SUBSET Channel])
  /\ alert \in [pc : AlertPc, entry : [kind : EntryKind \union {"none"}, number : Nat], todo : Seq(Task)]
  /\ alert.pc # "fetch" => alert.entry \in AllEntries
  /\ alert.pc \in {"sms", "text", "call", "hangUp"} => alert.todo # <<>>
  /\ sub \in [pc : {"idle", "next", "sms", "text"}, left : Int]

TypeInv == SerialType /\ WorkType /\ LogType /\ MineType

(* Who uses the modem has it.                                              *)
Owned ==
  /\ modem.pc # "sleep" => gprsSem = "modem"
  /\ alert.pc \in {"sms", "text", "call", "hangUp"} => gprsSem = "alert"
  /\ sub.pc \in {"sms", "text"} => gprsSem = "sub"

------------------------------------------------------------------------------
(* A command: the ring is emptied, and an answer may come.                 *)

Commanded(name, slot, f) ==
  /\ \E t \in Plain : out' = out \o t
  /\ ring' = <<>> /\ message' = 0 /\ fate' = Miss(Notices(ring), f)
  /\ sim' = sim \/ (name = "CMGD" /\ sim' = sim \ {slot})
  /\ dialog' = [name |-> name, at |-> 1] /\ answer' = 0

LEMMA SayCommands ==
  ASSUME SerialType, NEW name \in Command, NEW slot \in Slots \union {0}, NEW f, SayAs(name, slot, f)
  PROVE  Commanded(name, slot, f)
<1>1. /\ ring' = <<>> /\ message' = 0 /\ fate' = Miss(Notices(ring), f)
      /\ dialog' = [name |-> name, at |-> 1] /\ answer' = 0 /\ Hears(name, slot)
  BY DEF SayAs, gprsFlushRX
<1>2. /\ Reply(name, slot) \in Plain /\ TextReply \in Plain
      /\ <<Line("error", 0)>> \in Plain /\ <<Echo(name), Line("error", 0)>> \in Plain
  BY RepliesArePlain DEF SerialType
<1>3. sim' = sim \/ (name = "CMGD" /\ sim' = sim \ {slot})
  BY <1>1 DEF Hears
<1>4. \E t \in Plain : out' = out \o t
  <2>1. CASE out' = out \o (IF name = "text" THEN TextReply ELSE Reply(name, slot))
    BY <1>2, <2>1
  <2>2. CASE out' = out \o (IF name = "text" THEN <<Line("error", 0)>> ELSE <<Echo(name), Line("error", 0)>>)
    BY <1>2, <2>2
  <2>3. CASE out' = out
    BY <2>3, ConcatEmptySeq, PlainPut DEF SerialType
  <2> QED
    BY <1>1, <2>1, <2>2, <2>3 DEF Hears
<1> QED
  BY <1>1, <1>3, <1>4 DEF Commanded

LEMMA MissIs ==
  ASSUME NEW S, NEW f \in [Slots -> Fates]
  PROVE  /\ Miss(S, f) \in [Slots -> Fates]
         /\ \A s \in Slots : Miss(S, f)[s] = IF s \in S /\ f[s] = "noticed" THEN "missed" ELSE f[s]
BY DEF Miss, Fates

LEMMA CommandedType ==
  ASSUME SerialType, NEW name \in Command, NEW slot, NEW f \in [Slots -> Fates], Commanded(name, slot, f)
  PROVE  /\ SerialType'
         /\ Notices(out') = Notices(out) /\ (Once(out) => Once(out'))
         /\ Notices(ring') = {} /\ Once(ring')
<1>1. PICK t \in Plain : out' = out \o t
  BY DEF Commanded
<1>2. t \in Seq(Lines) /\ Notices(t) = {} /\ Once(t)
  BY PlainOnce
<1>3. out \in Seq(Lines) /\ ring' = <<>> /\ message' = 0
  BY DEF SerialType, Commanded
<1>4. out' \in Seq(Lines) /\ Notices(out') = Notices(out)
  <2>1. out \o t \in Seq(Lines) /\ Notices(out \o t) = Notices(out) \union Notices(t)
    BY <1>2, <1>3, NoticesOfConcat
  <2> QED
    BY <1>1, <1>2, <2>1
<1>5. Once(out) => Once(out')
  BY <1>1, <1>2, <1>3, OnceInConcat
<1>6. ring' \in Seq(Lines) /\ Notices(ring') = {} /\ Once(ring') /\ Len(ring') = 0
  BY <1>3, NoticesOfNone
<1>7. fate' \in [Slots -> Fates]
  BY MissIs DEF Commanded
<1> QED
  BY <1>3, <1>4, <1>5, <1>6, <1>7 DEF SerialType, Commanded

------------------------------------------------------------------------------
(* What is announced and still to come, and what a step loses of it.       *)

Pending == Notices(out) \union Notices(ring)
Apart == Once(out) /\ Once(ring) /\ Notices(out) \intersect Notices(ring) = {}

Lost(X) == Pending' = Pending \ X /\ Apart' /\ fate' = Miss(X, fate)
Loses == \E X : Lost(X)

LEMMA KeepsLines ==
  ASSUME SerialType, Apart, out' = out, ring' = ring, fate' = fate
  PROVE  Loses
<1>1. fate \in [Slots -> Fates]
  BY DEF SerialType
<1>2. Miss({}, fate) = fate
  <2>1. \A s \in Slots : Miss({}, fate)[s] = fate[s]
    BY <1>1, MissIs
  <2>2. Miss({}, fate) \in [Slots -> Fates]
    BY <1>1, MissIs
  <2> QED
    BY <1>1, <2>1, <2>2
<1>3. Pending' = Pending \ {} /\ Apart'
  BY DEF Pending, Apart
<1>4. Lost({})
  BY <1>2, <1>3 DEF Lost
<1> QED
  BY <1>4 DEF Loses

(* What the modem still had to send is gone.                               *)
LEMMA ClearedLoses ==
  ASSUME SerialType, Apart, out' = <<>>, ring' = ring, fate' = Miss(Notices(out), fate)
  PROVE  Loses /\ out' \in Seq(Lines) /\ fate' \in [Slots -> Fates]
<1>1. out' \in Seq(Lines) /\ Notices(out') = {} /\ Once(out')
  BY NoticesOfNone
<1>2. fate' \in [Slots -> Fates]
  BY MissIs DEF SerialType
<1>3. Pending' = Pending \ Notices(out) /\ Apart'
  BY <1>1 DEF Pending, Apart
<1>4. Lost(Notices(out))
  BY <1>3 DEF Lost
<1> QED
  BY <1>1, <1>2, <1>4 DEF Loses

LEMMA CommandedLoses ==
  ASSUME SerialType, Apart, NEW name \in Command, NEW slot, Commanded(name, slot, fate)
  PROVE  Loses
<1>1. /\ Notices(out') = Notices(out) /\ (Once(out) => Once(out'))
      /\ Notices(ring') = {} /\ Once(ring')
  BY CommandedType DEF SerialType
<1>2. Pending' = Pending \ Notices(ring) /\ Apart'
  BY <1>1 DEF Pending, Apart
<1>3. Lost(Notices(ring))
  BY <1>2 DEF Lost, Commanded
<1> QED
  BY <1>3 DEF Loses

(* A command: the lines, their types and what is lost with them.           *)
LEMMA SayLoses ==
  ASSUME SerialType, NEW name \in Command, NEW slot \in Slots \union {0}, Say(name, slot)
  PROVE  /\ SerialType' /\ (Apart => Loses)
         /\ sim' = sim \/ (name = "CMGD" /\ sim' = sim \ {slot})
         /\ dialog' = [name |-> name, at |-> 1] /\ answer' = 0
<1>1. Commanded(name, slot, fate)
  BY SayCommands DEF Say
<1>2. fate \in [Slots -> Fates]
  BY DEF SerialType
<1>3. SerialType'
  BY <1>1, <1>2, CommandedType
<1>4. Apart => Loses
  BY <1>1, CommandedLoses
<1> QED
  BY <1>1, <1>3, <1>4 DEF Commanded

LEMMA LineComesLoses ==
  ASSUME SerialType, LineComes
  PROVE  SerialType' /\ (Apart => Loses)
<1>1. /\ out # <<>> /\ out' = Tail(out) /\ ring' = Append(ring, Head(out)) /\ message' = message + 1
      /\ UNCHANGED <<sim, fate, dialog, answer>>
      /\ out \in Seq(Lines) /\ ring \in Seq(Lines) /\ message \in Nat /\ message <= Len(ring)
  BY DEF LineComes, SerialType
<1>2. PICK l \in Lines : l = Head(out)
  BY <1>1, NoticesOfTail
<1>3. /\ out' \in Seq(Lines) /\ Notices(out) = Announced(l) \union Notices(out')
      /\ Once(out) => Once(out') /\ Announced(l) \intersect Notices(out') = {}
  BY <1>1, <1>2, NoticesOfTail
<1>4. /\ ring' \in Seq(Lines) /\ Notices(ring') = Notices(ring) \union Announced(l)
      /\ Once(ring) /\ Announced(l) \intersect Notices(ring) = {} => Once(ring')
  BY <1>1, <1>2, NoticesOfAppend
<1>5. SerialType'
  <2>1. Len(ring') = Len(ring) + 1 /\ Len(ring) \in Nat
    BY <1>1, <1>2, AppendProperties, LenProperties
  <2> QED
    BY <1>1, <1>3, <1>4, <2>1 DEF SerialType
<1>6. ASSUME Apart PROVE Loses
  <2>1. Pending' = Pending \ {} /\ Apart'
    BY <1>3, <1>4, <1>6 DEF Pending, Apart
  <2>2. fate' = Miss({}, fate)
    <3>1. fate \in [Slots -> Fates]
      BY DEF SerialType
    <3>2. (\A s \in Slots : Miss({}, fate)[s] = fate[s]) /\ Miss({}, fate) \in [Slots -> Fates]
      BY <3>1, MissIs
    <3> QED
      BY <1>1, <3>1, <3>2
  <2>3. Lost({})
    BY <2>1, <2>2 DEF Lost
  <2> QED
    BY <2>3 DEF Loses
<1> QED
  BY <1>5, <1>6

(* The line at the head of the ring is read and announces nothing.         *)
LEMMA RingRead ==
  ASSUME SerialType, message > 0, ring' = Tail(ring), message' = message - 1,
         UNCHANGED <<out, sim, fate, dialog, answer>>
  PROVE  SerialType' /\ Head(ring) \in Lines /\ (Apart /\ Head(ring).kind # "notice" => Loses)
<1>1. /\ out \in Seq(Lines) /\ ring \in Seq(Lines) /\ message \in Nat /\ message <= Len(ring)
      /\ Len(ring) \in Nat /\ ring # <<>>
  BY LenProperties, EmptySeq DEF SerialType
<1>2. PICK l \in Lines : l = Head(ring)
  BY <1>1, NoticesOfTail
<1>3. /\ ring' \in Seq(Lines) /\ Notices(ring) = Announced(l) \union Notices(ring')
      /\ Once(ring) => Once(ring') /\ Announced(l) \intersect Notices(ring') = {}
  BY <1>1, <1>2, NoticesOfTail
<1>4. SerialType'
  <2>1. Len(ring') = Len(ring) - 1
    BY <1>1, HeadTailProperties
  <2> QED
    BY <1>1, <1>3, <2>1 DEF SerialType
<1>5. ASSUME Apart, Head(ring).kind # "notice" PROVE Loses
  <2>1. Announced(l) = {}
    BY <1>2, <1>5 DEF Announced
  <2>2. Pending' = Pending \ {} /\ Apart'
    BY <1>3, <1>5, <2>1 DEF Pending, Apart
  <2>3. fate' = Miss({}, fate)
    <3>1. fate \in [Slots -> Fates]
      BY DEF SerialType
    <3>2. (\A s \in Slots : Miss({}, fate)[s] = fate[s]) /\ Miss({}, fate) \in [Slots -> Fates]
      BY <3>1, MissIs
    <3> QED
      BY <3>1, <3>2
  <2>4. Lost({})
    BY <2>2, <2>3 DEF Lost
  <2> QED
    BY <2>4 DEF Loses
<1> QED
  BY <1>2, <1>4, <1>5

(* A line is read while a command waits for its answer: the ring's first,   *)
(* or the next that comes, past which another may slip uncounted.          *)
ReadLine == IF ring # <<>> THEN Head(ring) ELSE Head(out)

TakesLine(l) ==
  /\ out' \in Seq(Lines) /\ ring' \in Seq(Lines) /\ message' \in Nat /\ message' <= Len(ring')
  /\ Pending = Announced(l) \union Pending'
  /\ Apart => Apart' /\ Announced(l) \intersect Pending' = {}

LEMMA DialogTakesLine ==
  ASSUME SerialType, DialogReads
  PROVE  ReadLine \in Lines /\ TakesLine(ReadLine)
<1>1. /\ out \in Seq(Lines) /\ ring \in Seq(Lines) /\ message \in Nat /\ message <= Len(ring)
      /\ Len(ring) \in Nat /\ Len(out) \in Nat /\ (ring = <<>> => message = 0)
  BY LenProperties, EmptySeq DEF SerialType
<1>2. message > 0 \/ out # <<>>
  BY DEF DialogReads
<1>3. PICK l : l = ReadLine
  OBVIOUS
<1>4. CASE ring # <<>>
  <2>1. /\ l \in Lines /\ Tail(ring) \in Seq(Lines)
        /\ Notices(ring) = Announced(l) \union Notices(Tail(ring))
        /\ Once(ring) => Once(Tail(ring)) /\ Announced(l) \intersect Notices(Tail(ring)) = {}
    BY <1>1, <1>3, <1>4, NoticesOfTail DEF ReadLine
  <2>2. Len(Tail(ring)) = Len(ring) - 1
    BY <1>1, <1>4, HeadTailProperties
  <2>3. CASE message > 0 /\ ring' = Tail(ring) /\ message' = message - 1 /\ out' = out
    <3>1. message' \in Nat /\ message' <= Len(ring')
      BY <1>1, <2>2, <2>3
    <3>2. Pending = Announced(l) \union Pending'
      BY <2>1, <2>3 DEF Pending
    <3>3. Apart => Apart' /\ Announced(l) \intersect Pending' = {}
      BY <2>1, <2>3 DEF Apart, Pending
    <3> QED
      BY <1>1, <1>3, <2>1, <2>3, <3>1, <3>2, <3>3 DEF TakesLine
  <2>4. CASE ~(message > 0) /\ ring' = Append(Tail(ring), Head(out)) /\ out' = Tail(out) /\ message' = message
    <3>1. PICK h : h = Head(out)
      OBVIOUS
    <3>2. /\ h \in Lines /\ out' \in Seq(Lines)
          /\ Notices(out) = Announced(h) \union Notices(out')
          /\ Once(out) => Once(out') /\ Announced(h) \intersect Notices(out') = {}
      BY <1>1, <1>2, <2>4, <3>1, NoticesOfTail
    <3>3. /\ ring' \in Seq(Lines) /\ Notices(ring') = Notices(Tail(ring)) \union Announced(h)
          /\ Once(Tail(ring)) /\ Announced(h) \intersect Notices(Tail(ring)) = {} => Once(ring')
      BY <2>1, <2>4, <3>1, <3>2, NoticesOfAppend
    <3>4. message' \in Nat /\ message' <= Len(ring')
      BY <1>1, <2>4, <3>3, LenProperties
    <3>5. Pending = Announced(l) \union Pending'
      BY <2>1, <3>2, <3>3 DEF Pending
    <3>6. ASSUME Apart PROVE Apart' /\ Announced(l) \intersect Pending' = {}
      <4>1. /\ Once(out) /\ Once(ring) /\ Notices(out) \intersect Notices(ring) = {}
        BY <3>6 DEF Apart
      <4>2. /\ Once(out') /\ Once(ring') /\ Notices(out') \intersect Notices(ring') = {}
        BY <2>1, <3>2, <3>3, <4>1
      <4>3. Announced(l) \intersect (Notices(out') \union Notices(ring')) = {}
        BY <2>1, <3>2, <3>3, <4>1
      <4> QED
        BY <4>2, <4>3 DEF Apart, Pending
    <3> QED
      BY <1>3, <2>1, <3>2, <3>3, <3>4, <3>5, <3>6 DEF TakesLine
  <2> QED
    BY <1>4, <2>3, <2>4 DEF DialogReads
<1>5. CASE ring = <<>>
  <2>1. /\ l \in Lines /\ Tail(out) \in Seq(Lines) /\ l = Head(out) /\ out # <<>>
        /\ Notices(out) = Announced(l) \union Notices(Tail(out))
        /\ Once(out) => Once(Tail(out)) /\ Announced(l) \intersect Notices(Tail(out)) = {}
    BY <1>1, <1>2, <1>3, <1>5, NoticesOfTail DEF ReadLine
  <2>2. message = 0 /\ Notices(ring) = {} /\ Once(ring)
    BY <1>1, <1>5, NoticesOfNone
  <2>3. CASE out' = Tail(out) /\ ring' = ring /\ message' = message
    <3>1. Pending = Announced(l) \union Pending'
      BY <2>1, <2>2, <2>3 DEF Pending
    <3>2. Apart => Apart' /\ Announced(l) \intersect Pending' = {}
      BY <2>1, <2>2, <2>3 DEF Apart, Pending
    <3> QED
      BY <1>1, <1>3, <2>1, <2>3, <3>1, <3>2 DEF TakesLine
  <2>4. CASE Len(out) > 1 /\ ring' = <<out[2]>> /\ out' = Tail(Tail(out)) /\ message' = message
    <3>1. PICK t \in Seq(Lines) : t = Tail(out)
      BY <2>1
    <3>2. Len(t) = Len(out) - 1 /\ (1 \in 1 .. Len(t) => t[1] = out[1 + 1])
      BY <1>1, <2>1, <3>1, HeadTailProperties
    <3>3. t # <<>> /\ Head(t) = out[2]
      <4>1. Len(t) \in Nat /\ Len(t) > 0
        BY <1>1, <2>4, <3>2
      <4>2. t # <<>>
        BY <4>1, EmptySeq
      <4>3. t[1] = out[2]
        BY <3>2, <4>1
      <4>4. Head(t) = t[1]
        OBVIOUS
      <4> QED
        BY <4>2, <4>3, <4>4
    <3>4. /\ Head(t) \in Lines /\ out' \in Seq(Lines)
          /\ Notices(t) = Announced(Head(t)) \union Notices(out')
          /\ Once(t) => Once(out') /\ Announced(Head(t)) \intersect Notices(out') = {}
      BY <2>4, <3>1, <3>3, NoticesOfTail
    <3>5. PICK h \in Lines : h = Head(t)
      BY <3>4
    <3>6. ring' \in Seq(Lines) /\ Notices(ring') = Announced(h) /\ Once(ring') /\ Len(ring') = 1
      BY <2>4, <3>3, <3>5, NoticesOfOne
    <3>7. Pending = Announced(l) \union Pending'
      BY <2>1, <2>2, <3>1, <3>4, <3>5, <3>6 DEF Pending
    <3>8. ASSUME Apart PROVE Apart' /\ Announced(l) \intersect Pending' = {}
      <4>1. Once(out)
        BY <3>8 DEF Apart
      <4>2. /\ Once(out') /\ Once(ring') /\ Notices(out') \intersect Notices(ring') = {}
        BY <2>1, <3>1, <3>4, <3>5, <3>6, <4>1
      <4>3. Announced(l) \intersect (Notices(out') \union Notices(ring')) = {}
        BY <2>1, <3>1, <3>4, <3>5, <3>6, <4>1
      <4> QED
        BY <4>2, <4>3 DEF Apart, Pending
    <3> QED
      BY <1>1, <1>3, <2>1, <2>2, <2>4, <3>4, <3>6, <3>7, <3>8 DEF TakesLine
  <2> QED
    BY <1>5, <2>3, <2>4 DEF DialogReads
<1> QED
  BY <1>4, <1>5

LEMMA DialogReadsLoses ==
  ASSUME SerialType, DialogReads
  PROVE  SerialType' /\ (Apart => Loses)
<1>1. PICK l \in Lines : l = ReadLine /\ TakesLine(l)
  BY DialogTakesLine
<1>2. /\ fate' = Miss(Notices(<<l>>), fate) /\ UNCHANGED sim
      /\ \/ UNCHANGED <<dialog, answer>>
         \/ \E result \in {-1, 1} : Ends(result)
         \/ dialog' = [dialog EXCEPT !.at = @ + 1] /\ UNCHANGED answer
  BY <1>1 DEF DialogReads, ReadLine
<1>3. fate' = Miss(Announced(l), fate)
  BY <1>2, NoticesOfOne
<1>4. SerialType'
  <2>1. fate' \in [Slots -> Fates]
    BY <1>3, MissIs DEF SerialType
  <2>2. dialog' \in [name : Command, at : Nat] /\ answer' \in {-1, 0, 1}
    BY <1>2 DEF SerialType, Ends, Silent, Command
  <2> QED
    BY <1>1, <1>2, <2>1, <2>2 DEF TakesLine, SerialType
<1>5. ASSUME Apart PROVE Loses
  <2>1. Pending' = Pending \ Announced(l) /\ Apart'
    BY <1>1, <1>5 DEF TakesLine
  <2>2. Lost(Announced(l))
    BY <1>3, <2>1 DEF Lost
  <2> QED
    BY <2>2 DEF Loses
<1> QED
  BY <1>4, <1>5

(* The ring is emptied without a command.                                  *)
LEMMA FlushLoses ==
  ASSUME SerialType, gprsFlushRX(fate), UNCHANGED <<out, sim, dialog, answer>>
  PROVE  SerialType' /\ (Apart => Loses)
<1>1. ring' = <<>> /\ message' = 0 /\ fate' = Miss(Notices(ring), fate)
  BY DEF gprsFlushRX
<1>2. ring' \in Seq(Lines) /\ Notices(ring') = {} /\ Once(ring') /\ Len(ring') = 0
  BY <1>1, NoticesOfNone
<1>3. fate' \in [Slots -> Fates]
  BY <1>1, MissIs DEF SerialType
<1>4. SerialType'
  BY <1>1, <1>2, <1>3 DEF SerialType
<1>5. ASSUME Apart PROVE Loses
  <2>1. Pending' = Pending \ Notices(ring) /\ Apart'
    BY <1>2, <1>5 DEF Pending, Apart
  <2>2. Lost(Notices(ring))
    BY <1>1, <2>1 DEF Lost
  <2> QED
    BY <2>2 DEF Loses
<1> QED
  BY <1>4, <1>5

------------------------------------------------------------------------------
(* What the variables are, step by step.                                   *)

LEMMA PushTypes ==
  ASSUME LogType, NEW entry \in AllEntries, PushToLog(entry)
  PROVE  LogType'
<1>1. CASE logPool = 0
  BY <1>1 DEF PushToLog, LogType, logs
<1>2. CASE logPool # 0
  <2>1. logMb' = Append(logMb, entry) /\ logPool' = logPool - 1
    BY <1>2 DEF PushToLog
  <2>2. Append(logMb, entry) \in Seq(AllEntries)
    BY AppendProperties DEF LogType
  <2> QED
    BY <1>2, <2>1, <2>2 DEF LogType
<1> QED
  BY <1>1, <1>2

LEMMA EntryTypes ==
  /\ ModemEntry \in AllEntries /\ BatteryEntry \in AllEntries
  /\ AllEntries \subseteq [kind : EntryKind, number : Nat]
  /\ \A e \in AllEntries : AlertText(e) \in Texts /\ AlertText(e).kind \notin {"sms", "dial"}
<1>1. ModemEntry \in AllEntries /\ BatteryEntry \in AllEntries
  BY DEF AllEntries
<1>2. AllEntries \subseteq [kind : EntryKind, number : Nat]
  BY MessagesAssumption DEF MessagesAssumption, AllEntries, ModemEntry, BatteryEntry, EntryKind
<1>3. ASSUME NEW e \in AllEntries PROVE AlertText(e) \in Texts /\ AlertText(e).kind \notin {"sms", "dial"}
  <2>1. e.kind \in EntryKind /\ e.number \in Nat
    BY <1>2
  <2> QED
    BY <2>1 DEF AlertText, Text, Texts, EntryKind
<1> QED
  BY <1>1, <1>2, <1>3

LEMMA TextTypes ==
  /\ Text("line", 0) \in Texts /\ \A s \in Slots : Text("sms", s) \in Texts
  /\ \A n \in Nat : Text("dial", n) \in Texts
<1>1. Slots \subseteq Nat
  BY ModemAssumption DEF ModemAssumption
<1> QED
  BY <1>1 DEF Text, Texts

LEMMA HardwareType == TypeInv /\ Hardware /\ UNCHANGED mine => TypeInv'
<1> SUFFICES ASSUME TypeInv, Hardware, UNCHANGED mine PROVE TypeInv'
  OBVIOUS
<1> USE DEF TypeInv
<1>1. MineType'
  BY DEF mine, MineType
<1>2. CASE LineComes
  <2>1. SerialType'
    BY <1>2, LineComesLoses
  <2>2. WorkType' /\ LogType'
    BY <1>2 DEF LineComes, work, logs, WorkType, LogType
  <2> QED
    BY <1>1, <2>1, <2>2
<1>3. CASE SmsArrives
  <2>1. PICK slot \in Slots \ sim, i \in 0 .. Len(out) :
          /\ sim' = sim \union {slot} /\ fate' = [fate EXCEPT ![slot] = "noticed"]
          /\ obeyed' = [obeyed EXCEPT ![slot] = 0]
          /\ out' = SubSeq(out, 1, i) \o <<Blank, Line("notice", slot)>> \o SubSeq(out, i + 1, Len(out))
          /\ UNCHANGED <<ring, message, dialog, answer, modem, smsText, logs>>
    BY <1>3 DEF SmsArrives
  <2>2. out' \in Seq(Lines)
    <3>1. out \in Seq(Lines)
      BY DEF SerialType
    <3>2. PICK a \in Seq(Lines), b \in Seq(Lines) : a = SubSeq(out, 1, i) /\ b = SubSeq(out, i + 1, Len(out))
      BY <3>1, NoticesOfParts
    <3>3. Blank \in Lines /\ Line("notice", slot) \in Lines
      BY LineIs DEF Blank, LineKind
    <3>4. <<Blank, Line("notice", slot)>> \in Seq(Lines)
      BY <3>3
    <3>5. PICK m \in Seq(Lines) : m = <<Blank, Line("notice", slot)>>
      BY <3>4
    <3>6. out' = (a \o m) \o b
      BY <2>1, <3>2, <3>5
    <3> QED
      BY <3>2, <3>5, <3>6, ConcatProperties
  <2>3. SerialType'
    BY <2>1, <2>2 DEF SerialType, Fates
  <2>4. WorkType' /\ LogType'
    BY <2>1 DEF logs, WorkType, LogType
  <2> QED
    BY <1>1, <2>3, <2>4
<1>4. CASE ModemFails
  <2>1. UNCHANGED <<ring, message, sim, dialog, answer, work, smsText, logs>>
    BY <1>4 DEF ModemFails
  <2>2. out' \in Seq(Lines) /\ fate' \in [Slots -> Fates]
    <3>1. (UNCHANGED <<out, fate>>) \/ (out' = <<>> /\ fate' = Miss(Notices(out), fate))
      BY <1>4 DEF ModemFails
    <3>2. Miss(Notices(out), fate) \in [Slots -> Fates] /\ <<>> \in Seq(Lines)
      BY MissIs, NoticesOfNone DEF SerialType
    <3> QED
      BY <3>1, <3>2 DEF SerialType
  <2> QED
    BY <1>1, <2>1, <2>2 DEF SerialType, WorkType, LogType, work, logs
<1> QED
  BY <1>2, <1>3, <1>4 DEF Hardware

LEMMA DialogType == TypeInv /\ Dialog /\ UNCHANGED mine => TypeInv'
<1> SUFFICES ASSUME TypeInv, Dialog, UNCHANGED mine PROVE TypeInv'
  OBVIOUS
<1> USE DEF TypeInv
<1>1. MineType'
  BY DEF mine, MineType
<1>2. CASE DialogReads
  <2>1. SerialType'
    BY <1>2, DialogReadsLoses
  <2>2. UNCHANGED <<modem, obeyed, logs>>
    BY <1>2 DEF DialogReads, work
  <2>3. smsText' \in Texts
    <3>1. PICK l \in Lines : l = ReadLine
      BY <1>2, DialogTakesLine
    <3>2. smsText' = IF l.kind = "blank" \/ Stage # "body" THEN smsText
                     ELSE IF l.kind = "body" THEN Text("sms", l.number) ELSE Text("line", 0)
      BY <1>2, <3>1 DEF DialogReads, ReadLine
    <3>3. l.kind = "body" => l.number \in Slots
      BY DEF Lines
    <3>4. smsText \in Texts
      BY DEF WorkType
    <3> QED
      BY <3>2, <3>3, <3>4, TextTypes
  <2> QED
    BY <1>1, <2>1, <2>2, <2>3 DEF WorkType, LogType, logs
<1>3. CASE DialogTimesOut
  BY <1>1, <1>3 DEF DialogTimesOut, Ends, Silent, Command, SerialType, WorkType, LogType, work, logs
<1> QED
  BY <1>2, <1>3 DEF Dialog

(* A command of the modem's thread, and the place and variables it goes to. *)
LEMMA SaysTo ==
  ASSUME TypeInv, NEW name \in Command, NEW slot \in Slots \union {0}, Say(name, slot),
         NEW place \in ModemPc, Goes(place) \/ (modem' = [modem EXCEPT !.pc = place] /\ UNCHANGED obeyed),
         UNCHANGED smsText
  PROVE  SerialType' /\ WorkType'
<1>1. SerialType'
  BY SayLoses DEF TypeInv
<1>2. WorkType'
  BY DEF TypeInv, WorkType, Goes, Modems
<1> QED
  BY <1>1, <1>2

(* The number of an announcement that is read is a slot.                   *)
LEMMA HeadIsSlot ==
  ASSUME SerialType, message > 0, Head(ring).kind = "notice"
  PROVE  Head(ring) \in Lines /\ Head(ring).number \in Slots /\ Head(ring).number \in Notices(ring)
<1>1. ring \in Seq(Lines) /\ ring # <<>>
  BY LenProperties, EmptySeq DEF SerialType
<1>2. PICK l \in Lines : l = Head(ring)
  BY <1>1, NoticesOfTail
<1>3. l.number \in Slots
  BY <1>2 DEF Lines
<1>4. l.number \in Announced(l)
  BY <1>2 DEF Announced
<1>5. Announced(Head(ring)) \subseteq Notices(ring)
  BY <1>1, NoticesOfTail
<1> QED
  BY <1>2, <1>3, <1>4, <1>5

LEMMA ModemThreadType == TypeInv /\ ModemThread /\ UNCHANGED mine => TypeInv'
<1> SUFFICES ASSUME TypeInv, ModemThread, UNCHANGED mine PROVE TypeInv'
  OBVIOUS
<1> USE DEF TypeInv
<1>1. MineType'
  BY DEF mine, MineType
<1>2. modem.slot \in Slots \union {0} /\ 0 \in Slots \union {0}
  BY DEF WorkType, Modems
<1>3. CASE ModemSkips
  <2>1. SerialType' /\ LogType'
    BY <1>3 DEF ModemSkips, Quiet, logs, LogType, serial, SerialType
  <2>2. modem' = [modem EXCEPT !.pc = "sleep", !.counter = (@ + 1) % Period] /\ UNCHANGED <<obeyed, smsText>>
    BY <1>3 DEF ModemSkips, Quiet, NextTurn
  <2>3. (modem.counter + 1) % Period \in Int
    BY ModemAssumption DEF ModemAssumption, WorkType, Modems
  <2>4. WorkType'
    BY <2>2, <2>3 DEF WorkType, ModemPc, Modems
  <2> QED
    BY <1>1, <2>1, <2>4
<1>4. CASE ModemWakes
  <2>1. UNCHANGED <<out, ring, message, sim, fate, dialog, answer, smsText>>
    BY <1>4 DEF ModemWakes
  <2>2. SerialType'
    BY <2>1 DEF SerialType
  <2>3. WorkType'
    BY <1>4, <2>1 DEF ModemWakes, Goes, Started, WorkType, ModemPc, ModemStatus, Modems
  <2>4. LogType'
    <3>1. (UNCHANGED logs) \/ PushToLog(ModemEntry)
      BY <1>4 DEF ModemWakes
    <3> QED
      BY <3>1, PushTypes, EntryTypes DEF LogType, logs
  <2> QED
    BY <1>1, <2>2, <2>3, <2>4
<1>5. CASE ModemChecks
  <2>1. LogType' /\ UNCHANGED smsText
    BY <1>5 DEF ModemChecks, Quiet, logs, LogType
  <2>2. CASE UNCHANGED <<serial, events>> /\ Goes("read")
    BY <1>1, <2>1, <2>2 DEF Goes, serial, SerialType, WorkType, ModemPc, Modems
  <2>3. CASE Say("AT", 0) /\ \E place \in ModemPc : Goes(place)
    BY <1>1, <1>2, <2>1, <2>3, SaysTo DEF Command
  <2> QED
    BY <1>5, <2>2, <2>3 DEF ModemChecks, ModemPc, Modems
<1>6. CASE ModemDummy
  <2>1. LogType' /\ UNCHANGED smsText /\ SerialType'
    BY <1>6, FlushLoses DEF ModemDummy, Quiet, logs, LogType
  <2> QED
    BY <1>1, <1>6, <2>1 DEF ModemDummy, Goes, WorkType, ModemPc, Modems
<1>7. CASE ModemAlive
  <2>1. UNCHANGED smsText
    BY <1>7 DEF ModemAlive
  <2>2. CASE answer = 1
    <3>1. LogType'
      BY <1>7, <2>2 DEF ModemAlive, logs, LogType
    <3>2. \E name \in Command, place \in ModemPc : Say(name, 0) /\ Goes(place)
      BY <1>7, <2>2 DEF ModemAlive, Command, ModemPc, Modems
    <3> QED
      BY <1>1, <1>2, <2>1, <3>1, <3>2, SaysTo
  <2>3. CASE answer # 1
    <3>1. Registration(NotAlive) /\ UNCHANGED <<serial, events>>
      BY <1>7, <2>3 DEF ModemAlive
    <3>2. NotAlive \in Modems
      <4>1. modem \in Modems /\ "stop" \in ModemPc /\ "unknown" \in Registered /\ "ForceReset" \in ModemStatus
        BY DEF WorkType, ModemPc, Registered, ModemStatus
      <4>2. PICK m \in Modems : m = [modem EXCEPT !.pc = "stop", !.reg = "unknown"]
        BY <4>1 DEF Modems
      <4>3. PICK k \in Modems : k = [m EXCEPT !.setSMS = 0]
        <5>1. PICK z \in Int : z = 0
          OBVIOUS
        <5>2. [m EXCEPT !.setSMS = z] \in Modems
          BY DEF Modems
        <5> QED
          BY <5>1, <5>2
      <4>4. PICK n \in Modems : n = [k EXCEPT !.status = "ForceReset"]
        BY <4>1, <4>3 DEF Modems
      <4>5. NotAlive = n
        BY <4>2, <4>3, <4>4 DEF NotAlive
      <4> QED
        BY <4>5
    <3>3. WorkType'
      BY <2>1, <3>1, <3>2 DEF Registration, WorkType, Modems
    <3>4. LogType'
      BY <3>1, PushTypes, EntryTypes DEF Registration, LogType, logs
    <3> QED
      BY <1>1, <3>1, <3>3, <3>4 DEF serial, SerialType
  <2> QED
    BY <2>2, <2>3
<1>8. ASSUME NEW place, NEW name \in Command, NEW next \in ModemPc, NEW m,
             Follows(place, name, next, m),
             m \in Modems
      PROVE  TypeInv'
  <2>1. Say(name, 0) /\ modem' = [m EXCEPT !.pc = next] /\ UNCHANGED <<obeyed, smsText, logs>>
    BY <1>8 DEF Follows, Quiet
  <2>2. SerialType'
    BY <1>2, <2>1, SayLoses
  <2>3. WorkType' /\ LogType'
    BY <1>8, <2>1 DEF WorkType, LogType, logs, Modems
  <2> QED
    BY <1>1, <2>2, <2>3
<1>9. CASE ModemSetsUp
  <2>1. [modem EXCEPT !.setSMS = answer]
          \in Modems
    <3>1. modem \in Modems /\ answer \in Int
      BY DEF WorkType, SerialType
    <3> QED
      BY <3>1 DEF Modems
  <2>2. modem \in Modems
    BY DEF WorkType
  <2>3. /\ {"CNMI", "CGMM", "CVHU", "CREG"} \subseteq Command
        /\ {"store", "model", "voice", "registered"} \subseteq ModemPc
    BY DEF Command, ModemPc
  <2>4. CASE Follows("format", "CNMI", "store", [modem EXCEPT !.setSMS = answer])
    BY <1>8, <2>1, <2>3, <2>4
  <2>5. CASE Follows("format", "CGMM", "model", [modem EXCEPT !.setSMS = answer])
    BY <1>8, <2>1, <2>3, <2>5
  <2>6. CASE Follows("store", "CGMM", "model", [modem EXCEPT !.setSMS = answer])
    BY <1>8, <2>1, <2>3, <2>6
  <2>7. CASE Follows("model", "CVHU", "voice", modem) \/ Follows("voice", "CREG", "registered", modem)
    BY <1>8, <2>2, <2>3, <2>7
  <2> QED
    BY <1>9, <2>4, <2>5, <2>6, <2>7 DEF ModemSetsUp
<1>10. CASE ModemAsks
  <2>1. PICK m : /\ m = IF answer = 1 THEN [modem EXCEPT !.reg = "registered"] ELSE modem
    OBVIOUS
  <2>2. /\ m \in Modems
        /\ modem \in Modems
    BY <2>1 DEF WorkType, Registered, Modems
  <2>3. Follows("registered", "CSQ", "signal", m) \/ Follows("signal", "CPSI", "system", modem)
    BY <1>10, <2>1 DEF ModemAsks
  <2>4. {"CSQ", "CPSI"} \subseteq Command /\ {"signal", "system"} \subseteq ModemPc
    BY DEF Command, ModemPc, Modems
  <2> QED
    BY <1>8, <2>2, <2>3, <2>4
<1>11. CASE ModemChecked
  <2>1. Registration([modem EXCEPT !.pc = "read"]) /\ UNCHANGED <<serial, smsText>>
    BY <1>11 DEF ModemChecked
  <2>2. WorkType'
    BY <2>1 DEF Registration, WorkType, ModemPc, Modems
  <2>3. LogType'
    BY <2>1, PushTypes, EntryTypes DEF Registration, LogType, logs
  <2> QED
    BY <1>1, <2>1, <2>2, <2>3 DEF serial, SerialType
<1>12. CASE ModemStops
  <2>1. /\ UNCHANGED <<ring, message, sim, dialog, answer, smsText, obeyed>>
        /\ modem' = [modem EXCEPT !.pc = "read", !.status = "NotInitialized", !.lastStatus = "none"]
        /\ PushToLog(ModemEntry)
        /\ (UNCHANGED <<out, fate>>) \/ (out' = <<>> /\ fate' = Miss(Notices(out), fate))
    BY <1>12 DEF ModemStops
  <2>2. Miss(Notices(out), fate) \in [Slots -> Fates] /\ <<>> \in Seq(Lines)
    BY MissIs, NoticesOfNone DEF SerialType
  <2>3. SerialType'
    BY <2>1, <2>2 DEF SerialType
  <2>4. WorkType'
    BY <2>1 DEF WorkType, ModemPc, ModemStatus, Registered, Modems
  <2>5. LogType'
    BY <2>1, PushTypes, EntryTypes
  <2> QED
    BY <1>1, <2>3, <2>4, <2>5
<1>13. CASE ModemReads
  <2>1. LogType'
    BY <1>13 DEF ModemReads, LogType, logs
  <2>2. CASE NothingToRead /\ NextTurn /\ ring' = (IF message = 0 THEN ring ELSE Tail(ring))
             /\ message' = (IF message = 0 THEN 0 ELSE message - 1)
             /\ UNCHANGED <<hw, out, sim, fate, dialog, answer, smsText>>
    <3>1. SerialType'
      <4>1. CASE message = 0
        BY <2>2, <4>1 DEF SerialType
      <4>2. CASE message # 0
        BY <2>2, <4>2, RingRead DEF SerialType
      <4> QED
        BY <4>1, <4>2
    <3>2. modem' = [modem EXCEPT !.pc = "sleep", !.counter = (@ + 1) % Period] /\ UNCHANGED <<obeyed, smsText>>
      BY <2>2 DEF NextTurn
    <3>3. (modem.counter + 1) % Period \in Int
      BY ModemAssumption DEF ModemAssumption, WorkType, Modems
    <3>4. WorkType'
      BY <3>2, <3>3 DEF WorkType, ModemPc, Modems
    <3> QED
      BY <1>1, <2>1, <3>1, <3>4
  <2>3. CASE message > 0 /\ ring' = Tail(ring) /\ message' = message - 1 /\ smsText' = Text("line", 0)
             /\ UNCHANGED <<hw, out, sim, fate, dialog, answer, work>>
    <3>1. SerialType'
      BY <2>3, RingRead
    <3>2. WorkType'
      BY <2>3, TextTypes DEF WorkType, work
    <3> QED
      BY <1>1, <2>1, <3>1, <3>2
  <2>4. CASE message > 0 /\ Head(ring).kind = "notice" /\ smsText' = Text("line", 0)
             /\ modem' = [modem EXCEPT !.pc = "get", !.slot = Head(ring).number]
             /\ SayAs("CMGR", Head(ring).number, [fate EXCEPT ![Head(ring).number] = "taken"])
             /\ UNCHANGED obeyed
    <3>1. PICK s \in Slots : s = Head(ring).number
      BY <2>4, HeadIsSlot
    <3>2. PICK f \in [Slots -> Fates] : f = [fate EXCEPT ![s] = "taken"]
      BY DEF SerialType, Fates
    <3>3. SayAs("CMGR", s, f)
      BY <2>4, <3>1, <3>2
    <3>4. "CMGR" \in Command /\ s \in Slots \union {0}
      BY DEF Command
    <3>5. SerialType'
      <4>1. Commanded("CMGR", s, f)
        BY <3>3, <3>4, SayCommands
      <4> QED
        BY <3>4, <4>1, CommandedType
    <3>6. WorkType'
      BY <2>4, <3>1, TextTypes DEF WorkType, ModemPc, Modems
    <3> QED
      BY <1>1, <2>1, <3>5, <3>6
  <2> QED
    BY <1>13, <2>2, <2>3, <2>4 DEF ModemReads
<1>14. CASE ModemObeys
  <2>1. LogType' /\ UNCHANGED smsText
    BY <1>14 DEF ModemObeys, LogType, logs
  <2>2. \/ Say("CMGS", 0) /\ modem' = [modem EXCEPT !.pc = "reply"]
        \/ Say("CMGD", modem.slot) /\ modem' = [modem EXCEPT !.pc = "delete"]
    BY <1>14 DEF ModemObeys
  <2>3. SerialType'
    BY <1>2, <2>2, SayLoses DEF Command
  <2>4. obeyed' = obeyed \/ (smsText.kind = "sms" /\ obeyed' = [obeyed EXCEPT ![smsText.number] = @ + 1])
    BY <1>14 DEF ModemObeys
  <2>5. smsText.kind = "sms" => smsText.number \in Slots
    BY DEF WorkType, Texts
  <2>6. obeyed' \in [Slots -> Nat]
    BY <2>4, <2>5 DEF WorkType
  <2>7. modem' \in Modems
    BY <2>2 DEF WorkType, Modems, ModemPc
  <2> QED
    BY <1>1, <2>1, <2>3, <2>6, <2>7 DEF WorkType
<1>15. CASE ModemReplies
  <2>1. LogType' /\ UNCHANGED smsText
    BY <1>15 DEF ModemReplies, Quiet, LogType, logs
  <2>2. CASE \E place \in ModemPc, name \in {"text", "CMGD"}, slot \in {0, modem.slot} : Say(name, slot) /\ Goes(place)
    <3>1. {"text", "CMGD"} \subseteq Command
      BY DEF Command
    <3> QED
      BY <1>1, <1>2, <2>1, <2>2, <3>1, SaysTo
  <2>3. CASE modem' = [modem EXCEPT !.pc = "read", !.slot = 0] /\ UNCHANGED obeyed /\ UNCHANGED <<serial, events>>
    BY <1>1, <2>1, <2>3 DEF serial, SerialType, WorkType, Modems, ModemPc
  <2>4. {"replied", "delete"} \subseteq ModemPc
    BY DEF ModemPc
  <2> QED
    BY <1>15, <2>2, <2>3, <2>4 DEF ModemReplies
<1> QED
  BY <1>3, <1>4, <1>5, <1>6, <1>7, <1>9, <1>10, <1>11, <1>12, <1>13, <1>14, <1>15 DEF ModemThread

------------------------------------------------------------------------------
(* What an alert has to do: the SMS come first.                            *)

HasSms(todo) == \E i \in DOMAIN todo : todo[i][1] = "SMS"
SmsFirst(todo) ==
  \A i, j \in DOMAIN todo : i < j /\ todo[j][1] = "SMS" => todo[i][1] = "SMS"

LEMMA RecipientsType ==
  ASSUME NEW entry
  PROVE  Recipients(entry) \in Seq(Nat)
<1>1. PICK n \in Nat : n = Len(ContactOf)
  BY MessagesAssumption, LenProperties DEF MessagesAssumption
<1> DEFINE W(c) == Wanted(entry, c)
           rule == [k \in 1 .. n |-> [s \in Seq(Nat) |-> IF W(k) THEN Append(s, k) ELSE s]]
           G(h) == [c \in 0 .. Len(ContactOf) |->
                      IF c = 0 THEN <<>> ELSE IF W(c) THEN Append(h[c - 1], c) ELSE h[c - 1]]
<1>2. rule \in [1 .. n -> [Seq(Nat) -> Seq(Nat)]]
  <2> SUFFICES ASSUME NEW k \in 1 .. n, NEW s \in Seq(Nat)
               PROVE  (IF W(k) THEN Append(s, k) ELSE s) \in Seq(Nat)
    OBVIOUS
  <2>1. k \in Nat
    BY <1>1
  <2>2. Append(s, k) \in Seq(Nat)
    BY <2>1, AppendProperties
  <2> QED
    BY <2>2
<1>3. PICK g \in [0 .. n -> Seq(Nat)] :
        g[0] = <<>> /\ \A k \in 1 .. n : g[k] = rule[k][g[k - 1]]
  <2> HIDE DEF rule
  <2>1. <<>> \in Seq(Nat)
    BY EmptySeq
  <2>2. HasFunction(n, Seq(Nat), <<>>, rule)
    BY <1>1, <1>2, <2>1, Recursion
  <2> QED
    BY <2>2 DEF HasFunction, ByRule
<1>4. \A k \in 0 .. n : g[k] = G(g)[k]
  <2> SUFFICES ASSUME NEW k \in 0 .. n PROVE g[k] = G(g)[k]
    OBVIOUS
  <2>1. CASE k = 0
    BY <1>1, <1>3, <2>1
  <2>2. CASE k # 0
    <3>1. k \in 1 .. n /\ k - 1 \in 0 .. n
      BY <1>1, <2>2
    <3>2. g[k] = rule[k][g[k - 1]] /\ g[k - 1] \in Seq(Nat)
      BY <1>3, <3>1
    <3>3. rule[k][g[k - 1]] = IF W(k) THEN Append(g[k - 1], k) ELSE g[k - 1]
      BY <3>1, <3>2
    <3> HIDE DEF rule, W
    <3> QED
      BY <1>1, <2>2, <3>2, <3>3
  <2> QED
    BY <2>1, <2>2
<1>5. g = G(g)
  <2> HIDE DEF rule, W
  <2> QED
    BY <1>1, <1>3, <1>4
<1>6. Recipients(entry) = (CHOOSE h : h = G(h))[Len(ContactOf)]
  BY DEF Recipients
<1>7. PICK c : c = G(c) /\ Recipients(entry) = c[n]
  <2> HIDE DEF G, rule
  <2> QED
    BY <1>1, <1>5, <1>6
<1>8. /\ c[0] = <<>>
      /\ \A k \in 1 .. n : c[k] = IF W(k) THEN Append(c[k - 1], k) ELSE c[k - 1]
  <2> HIDE DEF rule, W
  <2>1. \A k \in 0 .. n : c[k] = IF k = 0 THEN <<>> ELSE IF W(k) THEN Append(c[k - 1], k) ELSE c[k - 1]
    BY <1>1, <1>7
  <2> QED
    BY <1>1, <2>1
<1> DEFINE P == {k \in 0 .. n : c[k] \in Seq(Nat)}
<1>9. 0 .. n \subseteq P
  <2>1. 0 \in P
    <3>1. 0 \in 0 .. n /\ c[0] \in Seq(Nat)
      BY <1>1, <1>8, EmptySeq
    <3> QED
      BY <3>1
  <2>2. ASSUME NEW k \in 0 .. n - 1, k \in P PROVE k + 1 \in P
    <3>1. PICK m \in Nat : m = k + 1 /\ m \in 1 .. n /\ m - 1 = k
      BY <1>1
    <3>2. c[k] \in Seq(Nat)
      BY <2>2
    <3>3. c[m] = IF W(m) THEN Append(c[k], m) ELSE c[k]
      BY <1>8, <3>1
    <3>4. Append(c[k], m) \in Seq(Nat)
      BY <3>1, <3>2, AppendProperties
    <3>5. c[m] \in Seq(Nat) /\ m \in 0 .. n
      BY <1>1, <3>1, <3>2, <3>3, <3>4
    <3> QED
      BY <3>1, <3>5
  <2> HIDE DEF P
  <2> QED
    BY <1>1, <2>1, <2>2, Upward
<1>10. n \in 0 .. n /\ Recipients(entry) = c[n]
  BY <1>1, <1>7
<1>11. c[n] \in Seq(Nat)
  BY <1>9, <1>10
<1> QED
  BY <1>10, <1>11

LEMMA ToType ==
  ASSUME NEW channel \in Channel, NEW contacts \in Seq(Nat)
  PROVE  /\ To(channel, contacts) \in Seq(Task)
         /\ \A i \in DOMAIN To(channel, contacts) : To(channel, contacts)[i][1] = channel
<1>1. PICK n \in Nat : n = Len(contacts) /\ DOMAIN contacts = 1 .. n /\ \A i \in 1 .. n : contacts[i] \in Nat
  BY LenProperties, ElementOfSeq
<1>2. PICK f : f = [i \in 1 .. n |-> <<channel, contacts[i]>>]
  OBVIOUS
<1>3. \A i \in 1 .. n : f[i] \in Task
  BY <1>1, <1>2 DEF Task
<1>4. f \in Seq(Task)
  BY <1>2, <1>3
<1>5. To(channel, contacts) = f
  BY <1>1, <1>2 DEF To
<1> QED
  BY <1>2, <1>4, <1>5

(* Behind others come no SMS.                                              *)
LEMMA NoSmsBehind ==
  ASSUME NEW s \in Seq(Task), NEW t \in Seq(Task), SmsFirst(s), ~HasSms(t)
  PROVE  s \o t \in Seq(Task) /\ SmsFirst(s \o t)
<1>1. PICK st \in Seq(Task) : st = s \o t
  BY ConcatProperties
<1>2. /\ Len(s) \in Nat /\ Len(t) \in Nat /\ Len(st) = Len(s) + Len(t)
      /\ DOMAIN st = 1 .. Len(st) /\ DOMAIN s = 1 .. Len(s) /\ DOMAIN t = 1 .. Len(t)
      /\ \A i \in 1 .. Len(s) + Len(t) : st[i] = IF i <= Len(s) THEN s[i] ELSE t[i - Len(s)]
  BY <1>1, ConcatProperties, LenProperties
<1>3. SUFFICES ASSUME NEW i \in 1 .. Len(st), NEW j \in 1 .. Len(st), i < j, st[j][1] = "SMS"
               PROVE  st[i][1] = "SMS"
  BY <1>1, <1>2 DEF SmsFirst
<1>4. CASE j <= Len(s)
  <2>1. i \in DOMAIN s /\ j \in DOMAIN s /\ st[i] = s[i] /\ st[j] = s[j]
    BY <1>2, <1>3, <1>4
  <2> QED
    BY <1>3, <2>1 DEF SmsFirst
<1>5. CASE ~(j <= Len(s))
  <2>1. j - Len(s) \in DOMAIN t /\ st[j] = t[j - Len(s)]
    BY <1>2, <1>5
  <2> QED
    BY <1>3, <2>1 DEF HasSms
<1> QED
  BY <1>4, <1>5

LEMMA WorkFirst ==
  ASSUME NEW entry, NEW channels
  PROVE  Work(entry, channels) \in Seq(Task) /\ SmsFirst(Work(entry, channels))
<1> DEFINE to(channel) == IF channel \in channels THEN To(channel, Recipients(entry)) ELSE <<>>
<1>1. ASSUME NEW channel \in Channel
      PROVE  to(channel) \in Seq(Task) /\ \A i \in DOMAIN to(channel) : to(channel)[i][1] = channel
  <2>1. <<>> \in Seq(Task) /\ DOMAIN <<>> = {}
    BY EmptySeq
  <2> QED
    BY <2>1, RecipientsType, ToType
<1>2. PICK a, b, c, d : /\ a = to("SMS") /\ b = to("Page") /\ c = to("Email")
                        /\ d = IF "MQTT" \in channels THEN <<<<"MQTT", 0>>>> ELSE <<>>
  OBVIOUS
<1>3. Work(entry, channels) = ((a \o b) \o c) \o d
  BY <1>2 DEF Work
<1> HIDE DEF to
<1>4. a \in Seq(Task) /\ SmsFirst(a)
  BY <1>1, <1>2 DEF SmsFirst, Channel
<1>5. b \in Seq(Task) /\ ~HasSms(b)
  BY <1>1, <1>2 DEF HasSms, Channel
<1>6. c \in Seq(Task) /\ ~HasSms(c)
  BY <1>1, <1>2 DEF HasSms, Channel
<1>7. d \in Seq(Task) /\ ~HasSms(d)
  <2>1. CASE "MQTT" \in channels
    <3>1. d = <<<<"MQTT", 0>>>> /\ <<"MQTT", 0>> \in Task
      BY <1>2, <2>1 DEF Task, Channel
    <3>2. d \in Seq(Task) /\ DOMAIN d = 1 .. 1 /\ d[1] = <<"MQTT", 0>>
      BY <3>1
    <3> QED
      BY <3>2 DEF HasSms
  <2>2. CASE "MQTT" \notin channels
    BY <1>2, <2>2, EmptySeq DEF HasSms
  <2> QED
    BY <2>1, <2>2
<1>8. a \o b \in Seq(Task) /\ SmsFirst(a \o b)
  BY <1>4, <1>5, NoSmsBehind
<1>9. (a \o b) \o c \in Seq(Task) /\ SmsFirst((a \o b) \o c)
  BY <1>6, <1>8, NoSmsBehind
<1>10. ((a \o b) \o c) \o d \in Seq(Task) /\ SmsFirst(((a \o b) \o c) \o d)
  BY <1>7, <1>9, NoSmsBehind
<1> QED
  BY <1>3, <1>10

LEMMA SmsFirstTail ==
  ASSUME NEW s \in Seq(Task), s # <<>>, SmsFirst(s)
  PROVE  /\ Tail(s) \in Seq(Task) /\ SmsFirst(Tail(s)) /\ (HasSms(Tail(s)) => HasSms(s))
         /\ s[1] \in Task /\ (HasSms(s) <=> s[1][1] = "SMS")
<1>1. PICK t \in Seq(Task) : t = Tail(s)
  BY HeadTailProperties
<1>2. /\ Len(s) \in Nat /\ Len(s) > 0 /\ Len(t) = Len(s) - 1
      /\ DOMAIN s = 1 .. Len(s) /\ DOMAIN t = 1 .. Len(t)
      /\ \A i \in 1 .. Len(t) : t[i] = s[i + 1]
  BY <1>1, HeadTailProperties, LenProperties, EmptySeq
<1>3. \A i \in DOMAIN t : i + 1 \in DOMAIN s /\ t[i] = s[i + 1]
  BY <1>2
<1>4. SmsFirst(t)
  <2>1. \A i, j \in DOMAIN t : i < j => i + 1 < j + 1
    BY <1>2
  <2> QED
    BY <1>3, <2>1 DEF SmsFirst
<1>5. HasSms(t) => HasSms(s)
  BY <1>3 DEF HasSms
<1>6. 1 \in DOMAIN s /\ s[1] \in Task
  BY <1>2, ElementOfSeq
<1>7. HasSms(s) <=> s[1][1] = "SMS"
  <2>1. ASSUME NEW i \in DOMAIN s, s[i][1] = "SMS" PROVE s[1][1] = "SMS"
    <3>1. i = 1 \/ 1 < i
      BY <1>2
    <3> QED
      BY <1>6, <2>1, <3>1 DEF SmsFirst
  <2> QED
    BY <1>6, <2>1 DEF HasSms
<1> QED
  BY <1>1, <1>4, <1>5, <1>6, <1>7

------------------------------------------------------------------------------
(* What the variables are, after a step of the other threads.              *)

Alerts == [pc : AlertPc, entry : [kind : EntryKind \union {"none"}, number : Nat], todo : Seq(Task)]

LEMMA LogsType == TypeInv /\ (Logs \/ LoggerThread) => TypeInv'
<1> SUFFICES ASSUME TypeInv, Logs \/ LoggerThread PROVE TypeInv'
  OBVIOUS
<1> USE DEF TypeInv
<1>1. CASE Logs
  <2>1. PICK entry \in Entries : PushToLog(entry) /\ UNCHANGED <<serial, gprsSem, work, smsText, wrong, mine>>
    BY <1>1 DEF Logs
  <2>2. LogType'
    BY <2>1, PushTypes DEF AllEntries
  <2> QED
    BY <2>1, <2>2 DEF serial, work, mine, SerialType, WorkType, MineType
<1>2. CASE LoggerThread
  <2>1. PICK entry : entry = Head(logMb)
    OBVIOUS
  <2>2. /\ logMb # <<>> /\ logMb' = Tail(logMb) /\ logPool' = logPool + 1
        /\ UNCHANGED <<serial, gprsSem, work, smsText, conf, alert, sub>>
        /\ \/ alertMb' = Append(alertMb, [entry |-> entry, channels |-> Channels(entry)])
           \/ UNCHANGED alertMb
    BY <1>2, <2>1 DEF LoggerThread
  <2>3. entry \in AllEntries /\ LogType'
    BY <2>1, <2>2, HeadTailProperties DEF LogType
  <2>4. [entry |-> entry, channels |-> Channels(entry)] \in [entry : AllEntries, channels : SUBSET Channel]
    BY <2>3 DEF Channels, MineType
  <2>5. alertMb' \in Seq([entry : AllEntries, channels : SUBSET Channel])
    <3>1. PICK r \in [entry : AllEntries, channels : SUBSET Channel] :
            r = [entry |-> entry, channels |-> Channels(entry)]
      BY <2>4
    <3>2. alertMb \in Seq([entry : AllEntries, channels : SUBSET Channel])
      BY DEF MineType
    <3>3. Append(alertMb, r) \in Seq([entry : AllEntries, channels : SUBSET Channel])
      BY <3>2, AppendProperties
    <3> QED
      BY <2>2, <3>1, <3>2, <3>3
  <2> QED
    BY <2>2, <2>3, <2>5 DEF serial, work, SerialType, WorkType, MineType
<1> QED
  BY <1>1, <1>2

LEMMA AlertTailType ==
  ASSUME MineType, alert.pc \in {"sms", "text", "call", "hangUp"} \/ alert.todo # <<>>,
         alert.pc # "fetch", Over, UNCHANGED <<conf, alertMb, sub>>
  PROVE  MineType'
<1>1. alert \in Alerts /\ alert.todo \in Seq(Task) /\ alert.todo # <<>> /\ alert.entry \in AllEntries
  BY DEF MineType, Alerts
<1>2. PICK t \in Seq(Task) : t = Tail(alert.todo)
  BY <1>1, HeadTailProperties
<1>3. alert' = [alert EXCEPT !.pc = "work", !.todo = t]
  BY <1>2 DEF Over
<1>4. alert' \in Alerts /\ alert'.pc = "work" /\ alert'.entry = alert.entry
  BY <1>1, <1>3 DEF Alerts, AlertPc
<1> QED
  BY <1>1, <1>4 DEF MineType, Alerts

LEMMA AlertPlaceType ==
  ASSUME MineType, NEW place \in AlertPc, Becomes(place), alert.todo # <<>>, alert.pc # "fetch",
         UNCHANGED <<conf, alertMb, sub>>
  PROVE  MineType'
<1>1. alert \in Alerts /\ alert.entry \in AllEntries
  BY DEF MineType, Alerts
<1>2. alert' \in Alerts /\ alert'.todo = alert.todo /\ alert'.entry = alert.entry
  BY <1>1 DEF Becomes, Alerts
<1> QED
  BY <1>1, <1>2 DEF MineType, Alerts

LEMMA AlertType == TypeInv /\ AlertThread => TypeInv'
<1> SUFFICES ASSUME TypeInv, AlertThread PROVE TypeInv'
  OBVIOUS
<1> USE DEF TypeInv
<1>1. CASE AlertFetches
  <2>1. PICK new : new = Head(alertMb)
    OBVIOUS
  <2>2. /\ alertMb # <<>> /\ alertMb' = Tail(alertMb)
        /\ alert' = [pc |-> "work", entry |-> new.entry, todo |-> Work(new.entry, new.channels)]
        /\ smsText' = AlertText(new.entry)
        /\ UNCHANGED <<serial, work, logs, conf, sub>>
    BY <1>1, <2>1 DEF AlertFetches
  <2>3. new.entry \in AllEntries /\ alertMb' \in Seq([entry : AllEntries, channels : SUBSET Channel])
    <3>1. alertMb \in Seq([entry : AllEntries, channels : SUBSET Channel])
      BY DEF MineType
    <3>2. new \in [entry : AllEntries, channels : SUBSET Channel]
      BY <2>1, <2>2, <3>1, HeadTailProperties
    <3>3. Tail(alertMb) \in Seq([entry : AllEntries, channels : SUBSET Channel])
      BY <2>2, <3>1, HeadTailProperties
    <3> QED
      BY <2>2, <3>2, <3>3
  <2>4. PICK todo \in Seq(Task) : todo = Work(new.entry, new.channels)
    BY WorkFirst
  <2>5. new.entry \in [kind : EntryKind \union {"none"}, number : Nat]
    BY <2>3, EntryTypes
  <2>6. MineType'
    BY <2>2, <2>3, <2>4, <2>5 DEF MineType, AlertPc
  <2>7. WorkType'
    BY <2>2, <2>3, EntryTypes DEF work, WorkType
  <2> QED
    BY <2>2, <2>6, <2>7 DEF serial, logs, SerialType, LogType
<1>2. CASE AlertDone
  <2>1. MineType'
    <3>1. NoAlert \in Alerts /\ NoAlert.pc = "fetch"
      BY EmptySeq DEF NoAlert, Alerts, AlertPc
    <3> QED
      BY <1>2, <3>1 DEF AlertDone, MineType, Alerts
  <2> QED
    BY <1>2, <2>1 DEF AlertDone, mvars, serial, work, logs, SerialType, WorkType, LogType
<1>3. CASE AlertTakesModem
  <2>1. /\ UNCHANGED <<work, logs, conf, alertMb, sub>>
        /\ alert.pc = "work" /\ alert.todo # <<>>
        /\ \/ Say("CMGS", 0) /\ Becomes("sms") /\ UNCHANGED smsText
           \/ smsText' = Text("dial", alert.todo[1][2]) /\ Say("ATD", 0) /\ Becomes("call")
    BY <1>3 DEF AlertTakesModem, AlertRest, Next1
  <2>2. {"CMGS", "ATD"} \subseteq Command /\ {"sms", "call"} \subseteq AlertPc
    BY DEF Command, AlertPc
  <2>3. SerialType'
    BY <2>1, <2>2, SayLoses
  <2>4. MineType'
    BY <2>1, <2>2, AlertPlaceType
  <2>5. WorkType'
    <3>1. alert.todo[1] \in Task
      <4>1. alert.todo \in Seq(Task) /\ 1 \in 1 .. Len(alert.todo)
        BY <2>1, EmptySeq DEF MineType
      <4> QED
        BY <4>1, ElementOfSeq
    <3>2. Text("dial", alert.todo[1][2]) \in Texts
      BY <3>1, TextTypes DEF Task
    <3> QED
      BY <2>1, <3>2 DEF work, WorkType
  <2> QED
    BY <2>1, <2>3, <2>4, <2>5 DEF logs, LogType
<1>4. CASE AlertUsesModem
  <2>1. /\ UNCHANGED <<work, logs, conf, alertMb, sub>>
        /\ alert.pc \in {"sms", "text", "call", "hangUp"} /\ alert.todo # <<>>
        /\ UNCHANGED smsText
        /\ \/ Say("text", 0) /\ Becomes("text")
           \/ Say("ATH", 0) /\ Becomes("hangUp")
           \/ Over /\ UNCHANGED serial
    BY <1>4 DEF AlertUsesModem, AlertRest, AlertReleases, MineType
  <2>2. {"text", "ATH"} \subseteq Command /\ {"text", "hangUp"} \subseteq AlertPc
    BY DEF Command, AlertPc
  <2>3. CASE Say("text", 0) /\ Becomes("text")
    BY <2>1, <2>2, <2>3, SayLoses, AlertPlaceType DEF work, logs, WorkType, LogType
  <2>4. CASE Say("ATH", 0) /\ Becomes("hangUp")
    BY <2>1, <2>2, <2>4, SayLoses, AlertPlaceType DEF work, logs, WorkType, LogType
  <2>5. CASE Over /\ UNCHANGED serial
    BY <2>1, <2>5, AlertTailType DEF work, logs, serial, WorkType, LogType, SerialType
  <2> QED
    BY <2>1, <2>3, <2>4, <2>5
<1>5. CASE AlertMails \/ AlertPublishes
  <2>1. /\ UNCHANGED <<serial, work, smsText, logs, conf, alertMb, sub>>
        /\ alert.pc = "work" /\ alert.todo # <<>> /\ Over
    BY <1>5 DEF AlertMails, AlertPublishes, AlertRest, Next1
  <2>2. MineType'
    BY <2>1, AlertTailType
  <2> QED
    BY <2>1, <2>2 DEF work, logs, serial, WorkType, LogType, SerialType
<1> QED
  BY <1>1, <1>2, <1>3, <1>4, <1>5 DEF AlertThread

LEMMA SubType == TypeInv /\ (SubAsked \/ SubSends) => TypeInv'
<1> SUFFICES ASSUME TypeInv, SubAsked \/ SubSends PROVE TypeInv'
  OBVIOUS
<1> USE DEF TypeInv
<1>1. UNCHANGED <<smsText, work, logs, conf, alertMb, alert>>
  BY DEF SubAsked, SubSends, SubRest
<1>2. sub' \in [pc : {"idle", "next", "sms", "text"}, left : Int]
  <2>1. CASE SubAsked
    <3>1. PICK n \in DOMAIN ContactOf : sub' = [pc |-> "next", left |-> n]
      BY <2>1 DEF SubAsked
    <3>2. n \in Int
      BY MessagesAssumption, LenProperties DEF MessagesAssumption
    <3> QED
      BY <3>1, <3>2
  <2>2. CASE SubSends
    BY <2>2 DEF SubSends, MineType
  <2> QED
    BY <2>1, <2>2
<1>3. SerialType'
  <2>1. (UNCHANGED serial) \/ Say("CMGS", 0) \/ Say("text", 0)
    BY DEF SubAsked, SubSends, serial
  <2>2. {"CMGS", "text"} \subseteq Command
    BY DEF Command
  <2> QED
    BY <2>1, <2>2, SayLoses DEF serial, SerialType
<1>4. WorkType' /\ LogType' /\ MineType'
  BY <1>1, <1>2 DEF work, logs, WorkType, LogType, MineType
<1> QED
  BY <1>3, <1>4

LEMMA ServiceType == TypeInv /\ (MailEnds \/ BatteryLow \/ BatteryLocks \/ PowerReturns) => TypeInv'
<1> SUFFICES ASSUME TypeInv, MailEnds \/ BatteryLow \/ BatteryLocks \/ PowerReturns PROVE TypeInv'
  OBVIOUS
<1> USE DEF TypeInv
<1>1. UNCHANGED <<work, smsText, conf, alertMb, alert, sub>>
  BY DEF MailEnds, BatteryLow, BatteryLocks, PowerReturns, SvcRest
<1>2. WorkType' /\ MineType'
  BY <1>1 DEF work, WorkType, MineType
<1>3. SerialType'
  <2>1. CASE PowerReturns
    <3>1. Miss(Notices(out), fate) \in [Slots -> Fates] /\ <<>> \in Seq(Lines)
      BY MissIs, NoticesOfNone DEF SerialType
    <3> QED
      BY <2>1, <3>1 DEF PowerReturns, SerialType
  <2>2. CASE MailEnds \/ BatteryLow \/ BatteryLocks
    BY <2>2 DEF MailEnds, BatteryLow, BatteryLocks, SvcRest, serial, SerialType
  <2> QED
    BY <2>1, <2>2
<1>4. LogType'
  <2>1. CASE PowerReturns
    BY <2>1, PushTypes, EntryTypes DEF PowerReturns
  <2>2. CASE MailEnds \/ BatteryLocks
    BY <2>2 DEF MailEnds, BatteryLocks, logs, LogType
  <2>3. CASE BatteryLow
    <3>1. PICK kept \in 0 .. 2 : /\ kept <= logPool
                                 /\ logMb' = logMb \o SubSeq(<<BatteryEntry, ModemEntry>>, 1, kept)
                                 /\ logPool' = logPool - kept
      BY <2>3 DEF BatteryLow, LogType
    <3>2. PICK p \in Seq(AllEntries) : p = <<BatteryEntry, ModemEntry>> /\ Len(p) = 2
      <4>1. <<BatteryEntry, ModemEntry>> \in Seq(AllEntries)
        BY EntryTypes
      <4> QED
        BY <4>1
    <3>3. SubSeq(p, 1, kept) \in Seq(AllEntries)
      <4>1. \A i \in 1 .. kept : p[i] \in AllEntries
        BY <3>2, ElementOfSeq
      <4> QED
        BY <4>1, SubSeqProperties
    <3>4. logMb \in Seq(AllEntries) /\ logPool \in Nat
      BY DEF LogType
    <3>5. logMb \o SubSeq(p, 1, kept) \in Seq(AllEntries)
      BY <3>3, <3>4, ConcatProperties
    <3>6. logMb' \in Seq(AllEntries) /\ logPool' \in Nat
      BY <3>1, <3>2, <3>4, <3>5
    <3> QED
      BY <3>6 DEF LogType
  <2> QED
    BY <2>1, <2>2, <2>3
<1> QED
  BY <1>2, <1>3, <1>4

------------------------------------------------------------------------------
(* What became of the announcements, and what was obeyed.                  *)

Reading == modem.pc \in {"get", "reply", "replied"}

SlotInv ==
  /\ Apart
  /\ \A s \in Slots : fate[s] = "noticed" <=> s \in Pending
  /\ \A s \in Slots : fate[s] = "noticed" => s \in sim
  /\ Reading => modem.slot \in Slots /\ modem.slot \in sim /\ fate[modem.slot] = "taken"

ObeyInv ==
  OneSlot => /\ \A s \in Slots : obeyed[s] <= 1 /\ (obeyed[s] = 1 => fate[s] = "taken")
             /\ modem.pc = "get" => obeyed[modem.slot] = 0

(* Most steps lose announcements at most, take none, and delete an SMS only *)
(* when it has been read.                                                  *)
Ordinary ==
  /\ Loses
  /\ sim' = sim \/ (Reading /\ ~Reading' /\ sim' = sim \ {modem.slot})
  /\ Reading' => Reading /\ modem'.slot = modem.slot /\ (modem'.pc = "get" => modem.pc = "get")

LEMMA OrdinaryKeepsSlots ==
  ASSUME TypeInv, SlotInv, Ordinary
  PROVE  SlotInv'
<1>1. PICK X : Pending' = Pending \ X /\ Apart' /\ fate' = Miss(X, fate)
  BY DEF Ordinary, Loses, Lost
<1>2. /\ fate \in [Slots -> Fates]
      /\ \A s \in Slots : fate'[s] = IF s \in X /\ fate[s] = "noticed" THEN "missed" ELSE fate[s]
  BY <1>1, MissIs DEF TypeInv, SerialType
<1>3. \A s \in Slots : fate'[s] = "noticed" <=> s \in Pending'
  BY <1>1, <1>2 DEF SlotInv
<1>4. \A s \in Slots : fate[s] = "taken" => fate'[s] = "taken"
  BY <1>2
<1>5. \A s \in Slots : fate'[s] = "noticed" => s \in sim'
  <2>1. \A s \in Slots : fate'[s] = "noticed" => fate[s] = "noticed" /\ s \in sim
    BY <1>2 DEF SlotInv
  <2> QED
    BY <2>1 DEF Ordinary, SlotInv
<1>6. Reading' => modem'.slot \in Slots /\ modem'.slot \in sim' /\ fate'[modem'.slot] = "taken"
  BY <1>4 DEF Ordinary, SlotInv
<1> QED
  BY <1>1, <1>3, <1>5, <1>6 DEF SlotInv

LEMMA OrdinaryKeepsObeyed ==
  ASSUME TypeInv, SlotInv, ObeyInv, Ordinary, UNCHANGED obeyed
  PROVE  ObeyInv'
<1>1. PICK X : fate' = Miss(X, fate)
  BY DEF Ordinary, Loses, Lost
<1>2. \A s \in Slots : fate[s] = "taken" => fate'[s] = "taken"
  BY <1>1, MissIs DEF TypeInv, SerialType
<1>3. modem'.pc = "get" => modem.pc = "get" /\ modem'.slot = modem.slot
  BY DEF Ordinary, Reading
<1> QED
  BY <1>2, <1>3 DEF ObeyInv, OneSlot

(* An SMS comes: its slot is free, so it is not the one that is read.      *)
LEMMA SmsArrivesSlots ==
  ASSUME TypeInv, SlotInv, ObeyInv, SmsArrives
  PROVE  SlotInv' /\ ObeyInv'
<1>1. PICK slot \in Slots \ sim, i \in 0 .. Len(out) :
        /\ sim' = sim \union {slot} /\ fate' = [fate EXCEPT ![slot] = "noticed"]
        /\ obeyed' = [obeyed EXCEPT ![slot] = 0]
        /\ out' = SubSeq(out, 1, i) \o <<Blank, Line("notice", slot)>> \o SubSeq(out, i + 1, Len(out))
        /\ UNCHANGED <<ring, modem>>
  BY DEF SmsArrives
<1>2. /\ out \in Seq(Lines) /\ ring \in Seq(Lines) /\ fate \in [Slots -> Fates] /\ obeyed \in [Slots -> Nat]
      /\ Once(out) /\ Once(ring) /\ Notices(out) \intersect Notices(ring) = {}
      /\ slot \notin Notices(out) /\ slot \notin Notices(ring)
  BY DEF TypeInv, SerialType, WorkType, SlotInv, Apart, Pending
<1>3. out' \in Seq(Lines) /\ Notices(out') = Notices(out) \union {slot} /\ Once(out')
  <2>1. PICK a \in Seq(Lines), b \in Seq(Lines) : a = SubSeq(out, 1, i) /\ b = SubSeq(out, i + 1, Len(out))
    BY <1>2, NoticesOfParts
  <2>2. /\ Notices(out) = Notices(a) \union Notices(b) /\ Once(a) /\ Once(b)
        /\ Notices(a) \intersect Notices(b) = {}
    BY <1>2, <2>1, NoticesOfParts
  <2>3. Blank \in Lines /\ Line("notice", slot) \in Lines
    BY LineIs DEF Blank, LineKind
  <2>4. Announced(Blank) = {} /\ Announced(Line("notice", slot)) = {slot}
    BY DEF Announced, Blank, Line
  <2>5. PICK x \in Lines, y \in Lines : x = Blank /\ y = Line("notice", slot)
    BY <2>3
  <2>6. PICK lx \in Seq(Lines), ly \in Seq(Lines) :
          /\ lx = <<x>> /\ Notices(lx) = {} /\ Once(lx)
          /\ ly = <<y>> /\ Notices(ly) = {slot} /\ Once(ly)
    BY <2>4, <2>5, NoticesOfOne
  <2>7. /\ lx \o ly \in Seq(Lines) /\ Notices(lx \o ly) = Notices(lx) \union Notices(ly)
        /\ Once(lx \o ly)
    <3>1. Notices(lx) \intersect Notices(ly) = {}
      BY <2>6
    <3> QED
      BY <2>6, <3>1, NoticesOfConcat, OnceInConcat
  <2>8. PICK m \in Seq(Lines) : m = <<Blank, Line("notice", slot)>> /\ Notices(m) = {slot} /\ Once(m)
    <3>1. lx \o ly = <<Blank, Line("notice", slot)>>
      <4>1. lx = <<x>> /\ ly = <<y>>
        BY <2>6
      <4>2. <<x>> \o <<y>> = <<x, y>>
        BY TwoLines
      <4>3. lx \o ly = <<x, y>>
        BY <4>1, <4>2
      <4>4. <<x, y>> = <<Blank, Line("notice", slot)>>
        BY <2>5
      <4> QED
        BY <4>3, <4>4
    <3> QED
      BY <2>6, <2>7, <3>1
  <2>9. PICK am \in Seq(Lines) : am = a \o m /\ Notices(am) = Notices(a) \union {slot} /\ Once(am)
    <3>1. Notices(a) \intersect Notices(m) = {}
      BY <1>2, <2>2, <2>8
    <3>2. a \o m \in Seq(Lines) /\ Notices(a \o m) = Notices(a) \union Notices(m)
      BY NoticesOfConcat
    <3>3. Once(a \o m)
      BY <2>2, <2>8, <3>1, OnceInConcat
    <3> QED
      BY <2>8, <3>2, <3>3
  <2>10. am \o b \in Seq(Lines) /\ Notices(am \o b) = Notices(am) \union Notices(b) /\ Once(am \o b)
    <3>1. Notices(am) \intersect Notices(b) = {}
      BY <1>2, <2>2, <2>9
    <3>2. am \o b \in Seq(Lines) /\ Notices(am \o b) = Notices(am) \union Notices(b)
      BY NoticesOfConcat
    <3>3. Once(am \o b)
      BY <2>2, <2>9, <3>1, OnceInConcat
    <3> QED
      BY <3>2, <3>3
  <2>11. out' = am \o b
    BY <1>1, <2>1, <2>8, <2>9
  <2> QED
    BY <2>2, <2>9, <2>10, <2>11
<1>4. Apart' /\ Pending' = Pending \union {slot}
  BY <1>1, <1>2, <1>3 DEF Apart, Pending
<1>5. \A s \in Slots : /\ s # slot => fate'[s] = fate[s] /\ obeyed'[s] = obeyed[s]
                       /\ s = slot => fate'[s] = "noticed" /\ obeyed'[s] = 0
  BY <1>1, <1>2
<1>6. SlotInv'
  BY <1>1, <1>4, <1>5 DEF SlotInv, Reading
<1>7. ObeyInv'
  <2>1. modem.pc = "get" => modem.slot \in Slots /\ modem.slot # slot
    BY <1>1 DEF SlotInv, Reading
  <2> QED
    BY <1>1, <1>5, <2>1 DEF ObeyInv, OneSlot
<1> QED
  BY <1>6, <1>7

(* An announcement is read: the SMS is taken, the others' are gone.        *)
LEMMA TakenSlots ==
  ASSUME TypeInv, SlotInv, ObeyInv, message > 0, Head(ring).kind = "notice",
         modem' = [modem EXCEPT !.pc = "get", !.slot = Head(ring).number],
         SayAs("CMGR", Head(ring).number, [fate EXCEPT ![Head(ring).number] = "taken"]),
         UNCHANGED obeyed
  PROVE  SlotInv' /\ ObeyInv'
<1>1. PICK s \in Slots : s = Head(ring).number /\ s \in Notices(ring)
  BY HeadIsSlot DEF TypeInv
<1>2. fate \in [Slots -> Fates] /\ obeyed \in [Slots -> Nat] /\ modem \in Modems
  BY DEF TypeInv, SerialType, WorkType
<1>3. PICK f \in [Slots -> Fates] : f = [fate EXCEPT ![s] = "taken"]
  BY <1>2 DEF Fates
<1>4. Commanded("CMGR", s, f)
  BY <1>1, <1>3, SayCommands DEF Command, TypeInv
<1>5. /\ Notices(out') = Notices(out) /\ (Once(out) => Once(out'))
      /\ Notices(ring') = {} /\ Once(ring')
  BY <1>4, CommandedType DEF TypeInv, Command
<1>6. /\ fate' = Miss(Notices(ring), f) /\ sim' = sim
  BY <1>4 DEF Commanded
<1>7. \A q \in Slots : fate'[q] = IF q \in Notices(ring) /\ f[q] = "noticed" THEN "missed" ELSE f[q]
  BY <1>6, MissIs
<1>8. \A q \in Slots : /\ q = s => fate'[q] = "taken"
                       /\ q # s /\ q \in Notices(ring) => fate'[q] # "noticed"
                       /\ q # s /\ q \notin Notices(ring) => fate'[q] = fate[q]
                       /\ fate[q] = "taken" => fate'[q] = "taken"
  BY <1>2, <1>3, <1>7
<1>9. Apart' /\ Pending' = Notices(out) /\ s \notin Notices(out) /\ s \in sim /\ fate[s] = "noticed"
  BY <1>1, <1>5 DEF SlotInv, Apart, Pending
<1>10. \A q \in Slots : fate'[q] = "noticed" <=> q \in Notices(out)
  <2>1. \A q \in Slots : fate[q] = "noticed" <=> q \in Notices(out) \union Notices(ring)
    BY DEF SlotInv, Pending
  <2>2. Notices(out) \intersect Notices(ring) = {}
    BY DEF SlotInv, Apart
  <2> QED
    BY <1>8, <1>9, <2>1, <2>2
<1>11. \A q \in Slots : fate'[q] = "noticed" => fate[q] = "noticed"
  BY <1>8
<1>12. modem'.pc = "get" /\ modem'.slot = s
  BY <1>1, <1>2 DEF Modems
<1>13. SlotInv'
  BY <1>6, <1>8, <1>9, <1>10, <1>11, <1>12 DEF SlotInv
<1>14. ObeyInv'
  <2>1. OneSlot => obeyed[s] = 0
    <3>1. OneSlot => obeyed[s] <= 1 /\ obeyed[s] # 1 /\ obeyed[s] \in Nat
      BY <1>2, <1>9 DEF ObeyInv
    <3> QED
      BY <3>1
  <2> QED
    BY <1>8, <1>12, <2>1 DEF ObeyInv, OneSlot
<1> QED
  BY <1>13, <1>14

------------------------------------------------------------------------------
(* The invariants of announcements, step by step.                          *)

(* A step that leaves the lines alone or says a command that deletes        *)
(* nothing, and after which no SMS is read, or what was read before.       *)
LEMMA PlainIsOrdinary ==
  ASSUME TypeInv, SlotInv,
         \/ UNCHANGED <<out, ring, sim, fate>>
         \/ \E name \in Command \ {"CMGD"} : Say(name, 0),
         \/ ~Reading'
         \/ modem' = modem
         \/ modem.pc \in {"get", "reply"} /\ modem'.pc \in {"reply", "replied"} /\ modem'.slot = modem.slot
  PROVE  Ordinary
<1>1. Loses /\ sim' = sim
  <2>1. CASE UNCHANGED <<out, ring, sim, fate>>
    BY <2>1, KeepsLines DEF TypeInv, SlotInv
  <2>2. CASE \E name \in Command \ {"CMGD"} : Say(name, 0)
    <3>1. PICK name \in Command : name # "CMGD" /\ Say(name, 0)
      BY <2>2
    <3>2. 0 \in Slots \union {0}
      OBVIOUS
    <3> QED
      BY <3>1, <3>2, SayLoses DEF TypeInv, SlotInv
  <2> QED
    BY <2>1, <2>2
<1>2. Reading' => Reading /\ modem'.slot = modem.slot /\ (modem'.pc = "get" => modem.pc = "get")
  BY DEF Reading
<1> QED
  BY <1>1, <1>2 DEF Ordinary

(* The SMS that was read is deleted.                                       *)
LEMMA DeletingIsOrdinary ==
  ASSUME TypeInv, SlotInv, Reading, Say("CMGD", modem.slot), modem'.pc = "delete"
  PROVE  Ordinary
<1>1. modem.slot \in Slots \union {0} /\ "CMGD" \in Command
  BY DEF TypeInv, WorkType, Modems, Command
<1>2. Loses /\ (sim' = sim \/ sim' = sim \ {modem.slot})
  BY <1>1, SayLoses DEF TypeInv, SlotInv
<1>3. ~Reading'
  BY DEF Reading
<1> QED
  BY <1>2, <1>3 DEF Ordinary

(* The modem's thread goes to another place.                               *)
LEMMA GoesThere ==
  ASSUME TypeInv, NEW place, Goes(place)
  PROVE  modem'.pc = place /\ modem'.slot = modem.slot /\ UNCHANGED obeyed
BY DEF TypeInv, WorkType, Modems, Goes

LEMMA HardwareAccounts ==
  ASSUME TypeInv, SlotInv, ObeyInv, Hardware
  PROVE  SlotInv' /\ ObeyInv'
<1>1. CASE SmsArrives
  BY <1>1, SmsArrivesSlots
<1>2. CASE LineComes \/ ModemFails
  <2>1. UNCHANGED <<modem, obeyed, sim>>
    BY <1>2 DEF LineComes, ModemFails, work
  <2>2. Loses
    <3>1. CASE LineComes
      BY <3>1, LineComesLoses DEF TypeInv, SlotInv
    <3>2. CASE ModemFails
      <4>1. \/ UNCHANGED <<out, ring, fate>>
            \/ out' = <<>> /\ fate' = Miss(Notices(out), fate) /\ UNCHANGED ring
        BY <3>2 DEF ModemFails
      <4> QED
        BY <4>1, KeepsLines, ClearedLoses DEF TypeInv, SlotInv
    <3> QED
      BY <1>2, <3>1, <3>2
  <2>3. Ordinary
    BY <2>1, <2>2 DEF Ordinary, Reading
  <2> QED
    BY <2>1, <2>3, OrdinaryKeepsSlots, OrdinaryKeepsObeyed
<1> QED
  BY <1>1, <1>2 DEF Hardware

LEMMA DialogAccounts ==
  ASSUME TypeInv, SlotInv, ObeyInv, Dialog
  PROVE  SlotInv' /\ ObeyInv'
<1>1. UNCHANGED <<modem, obeyed, sim>>
  BY DEF Dialog, DialogReads, DialogTimesOut, work
<1>2. Loses
  <2>1. CASE DialogReads
    BY <2>1, DialogReadsLoses DEF TypeInv, SlotInv
  <2>2. CASE DialogTimesOut
    BY <2>2, KeepsLines DEF DialogTimesOut, TypeInv, SlotInv
  <2> QED
    BY <2>1, <2>2 DEF Dialog
<1>3. Ordinary
  BY <1>1, <1>2 DEF Ordinary, Reading
<1> QED
  BY <1>1, <1>3, OrdinaryKeepsSlots, OrdinaryKeepsObeyed

(* The steps of the modem's thread that read no line and obey nothing.     *)
LEMMA TurnIsOrdinary ==
  ASSUME TypeInv, SlotInv,
         ModemSkips \/ ModemWakes \/ ModemChecks \/ ModemDummy \/ ModemAlive
  PROVE  Ordinary /\ UNCHANGED obeyed
<1>0. modem \in Modems
  BY DEF TypeInv, WorkType
<1>1. CASE ModemSkips
  <2>1. UNCHANGED <<out, ring, sim, fate, obeyed>> /\ modem'.pc = "sleep"
    BY <1>0, <1>1 DEF ModemSkips, NextTurn, serial, Modems
  <2> QED
    BY <2>1, PlainIsOrdinary DEF Reading
<1>2. CASE ModemWakes
  <2>1. UNCHANGED <<out, ring, sim, fate, obeyed>> /\ modem'.pc = "checks"
    BY <1>0, <1>2 DEF ModemWakes, Goes, Started, Modems
  <2> QED
    BY <2>1, PlainIsOrdinary DEF Reading
<1>3. CASE ModemChecks
  <2>1. \/ Say("AT", 0)
        \/ UNCHANGED <<out, ring, sim, fate>>
    BY <1>3 DEF ModemChecks, serial
  <2>2. modem'.pc \in {"alive", "dummy", "read"} /\ UNCHANGED obeyed
    BY <1>0, <1>3 DEF ModemChecks, Goes, Modems
  <2>3. "AT" \in Command \ {"CMGD"}
    BY DEF Command
  <2> QED
    BY <2>1, <2>2, <2>3, PlainIsOrdinary DEF Reading
<1>4. CASE ModemDummy
  <2>1. modem'.pc = "read" /\ UNCHANGED obeyed /\ gprsFlushRX(fate) /\ UNCHANGED <<out, sim, dialog, answer>>
    BY <1>0, <1>4 DEF ModemDummy, Goes, Modems
  <2>2. Loses
    BY <2>1, FlushLoses DEF TypeInv, SlotInv
  <2> QED
    BY <2>1, <2>2 DEF Ordinary, Reading
<1>5. CASE ModemAlive
  <2>1. Say("CMGF", 0) \/ Say("CREG", 0) \/ UNCHANGED <<out, ring, sim, fate>>
    BY <1>5 DEF ModemAlive, serial
  <2>2. modem'.pc \in {"format", "registered", "stop"} /\ UNCHANGED obeyed
    BY <1>0, <1>5 DEF ModemAlive, Goes, Registration, NotAlive, Modems
  <2>3. {"CMGF", "CREG"} \subseteq Command \ {"CMGD"}
    BY DEF Command
  <2> QED
    BY <2>1, <2>2, <2>3, PlainIsOrdinary DEF Reading
<1> QED
  BY <1>1, <1>2, <1>3, <1>4, <1>5

LEMMA CheckIsOrdinary ==
  ASSUME TypeInv, SlotInv, ModemSetsUp \/ ModemAsks \/ ModemChecked \/ ModemStops
  PROVE  Ordinary /\ UNCHANGED obeyed
<1>0. modem \in Modems
  BY DEF TypeInv, WorkType
<1>1. CASE ModemSetsUp \/ ModemAsks
  <2>1. \E name \in Command \ {"CMGD"} : Say(name, 0)
    <3>1. Say("CNMI", 0) \/ Say("CGMM", 0) \/ Say("CVHU", 0) \/ Say("CREG", 0) \/ Say("CSQ", 0) \/ Say("CPSI", 0)
      BY <1>1 DEF ModemSetsUp, ModemAsks, Follows
    <3> QED
      BY <3>1 DEF Command
  <2>2. modem'.pc \in {"store", "model", "voice", "registered", "signal", "system"} /\ UNCHANGED obeyed
    BY <1>0, <1>1 DEF ModemSetsUp, ModemAsks, Follows, Modems
  <2> QED
    BY <2>1, <2>2, PlainIsOrdinary DEF Reading
<1>2. CASE ModemChecked
  <2>1. UNCHANGED <<out, ring, sim, fate>> /\ modem'.pc = "read" /\ UNCHANGED obeyed
    BY <1>0, <1>2 DEF ModemChecked, Registration, serial, Modems
  <2> QED
    BY <2>1, PlainIsOrdinary DEF Reading
<1>3. CASE ModemStops
  <2>1. /\ \/ out' = <<>> /\ fate' = Miss(Notices(out), fate)
           \/ UNCHANGED <<out, fate>>
        /\ UNCHANGED <<ring, sim, obeyed>> /\ modem'.pc = "read"
    BY <1>0, <1>3 DEF ModemStops, Modems
  <2>2. Loses
    BY <2>1, KeepsLines, ClearedLoses DEF TypeInv, SlotInv
  <2> QED
    BY <2>1, <2>2 DEF Ordinary, Reading
<1> QED
  BY <1>1, <1>2, <1>3

LEMMA RepliesAreOrdinary ==
  ASSUME TypeInv, SlotInv, ModemReplies
  PROVE  Ordinary /\ UNCHANGED obeyed
<1>0. modem \in Modems
  BY DEF TypeInv, WorkType
<1>1. CASE At("reply") /\ Say("text", 0) /\ Goes("replied")
  <2>1. modem.pc = "reply" /\ modem'.pc = "replied" /\ modem'.slot = modem.slot /\ UNCHANGED obeyed
    BY <1>1, GoesThere DEF At
  <2>2. "text" \in Command \ {"CMGD"}
    BY DEF Command
  <2> QED
    BY <1>1, <2>1, <2>2, PlainIsOrdinary
<1>2. CASE (At("reply") \/ At("replied")) /\ Say("CMGD", modem.slot) /\ Goes("delete")
  <2>1. Reading /\ modem'.pc = "delete" /\ UNCHANGED obeyed
    BY <1>2, GoesThere DEF At, Reading
  <2> QED
    BY <1>2, <2>1, DeletingIsOrdinary
<1>3. CASE At("delete") /\ modem' = [modem EXCEPT !.pc = "read", !.slot = 0] /\ UNCHANGED obeyed /\ UNCHANGED <<serial, events>>
  <2>1. UNCHANGED <<out, ring, sim, fate>> /\ modem'.pc = "read"
    BY <1>0, <1>3 DEF serial, Modems
  <2> QED
    BY <1>3, <2>1, PlainIsOrdinary DEF Reading
<1> QED
  BY <1>1, <1>2, <1>3 DEF ModemReplies

(* The lines that came by themselves.                                      *)
LEMMA ReadsAccounts ==
  ASSUME TypeInv, SlotInv, ObeyInv, ModemReads
  PROVE  SlotInv' /\ ObeyInv'
<1>0. modem \in Modems
  BY DEF TypeInv, WorkType
<1>1. CASE message > 0 /\ Head(ring).kind = "notice"
  <2>1. /\ modem' = [modem EXCEPT !.pc = "get", !.slot = Head(ring).number]
        /\ SayAs("CMGR", Head(ring).number, [fate EXCEPT ![Head(ring).number] = "taken"])
        /\ UNCHANGED obeyed
    BY <1>1 DEF ModemReads, NothingToRead
  <2> QED
    BY <1>1, <2>1, TakenSlots
<1>2. CASE ~(message > 0 /\ Head(ring).kind = "notice")
  <2>1. message \in Nat
    BY DEF TypeInv, SerialType
  <2>2. /\ \/ message = 0 /\ UNCHANGED <<ring, message>>
           \/ message > 0 /\ Head(ring).kind # "notice" /\ ring' = Tail(ring) /\ message' = message - 1
        /\ UNCHANGED <<out, sim, fate, dialog, answer, obeyed>>
        /\ \/ UNCHANGED modem
           \/ modem'.pc = "sleep"
    <3>1. CASE /\ NothingToRead /\ NextTurn
               /\ ring' = IF message = 0 THEN ring ELSE Tail(ring)
               /\ message' = IF message = 0 THEN 0 ELSE message - 1
               /\ UNCHANGED <<out, sim, fate, dialog, answer>>
      <4>1. modem'.pc = "sleep" /\ UNCHANGED obeyed
        BY <1>0, <3>1 DEF NextTurn, Modems
      <4>2. message = 0 \/ (message > 0 /\ Head(ring).kind # "notice")
        <5>1. message = 0 \/ (message > 0 /\ message # 0)
          BY <2>1
        <5>2. message # 0 => Head(ring).kind = "blank"
          BY <3>1 DEF NothingToRead
        <5> QED
          BY <5>1, <5>2
      <4>3. CASE message = 0
        BY <3>1, <4>1, <4>3
      <4>4. CASE message > 0 /\ Head(ring).kind # "notice"
        BY <3>1, <4>1, <4>4
      <4> QED
        BY <4>2, <4>3, <4>4
    <3>2. CASE /\ message > 0 /\ Head(ring).kind # "notice"
               /\ ring' = Tail(ring) /\ message' = message - 1
               /\ UNCHANGED <<out, sim, fate, dialog, answer, work>>
      BY <3>2 DEF work
    <3> QED
      BY <1>2, <3>1, <3>2 DEF ModemReads
  <2>3. Loses
    BY <2>2, KeepsLines, RingRead DEF TypeInv, SlotInv
  <2>4. Ordinary
    BY <2>2, <2>3 DEF Ordinary, Reading
  <2> QED
    BY <2>2, <2>4, OrdinaryKeepsSlots, OrdinaryKeepsObeyed
<1> QED
  BY <1>1, <1>2

(* An SMS is obeyed: it is the one that was read, if it can be no other.   *)
LEMMA ObeysAccounts ==
  ASSUME TypeInv, SlotInv, ObeyInv, ModemObeys
  PROVE  SlotInv' /\ ObeyInv'
<1>0. modem \in Modems /\ smsText \in Texts /\ obeyed \in [Slots -> Nat] /\ modem.pc = "get"
  BY DEF TypeInv, WorkType, ModemObeys, At
<1>1. /\ \/ Say("CMGS", 0) /\ modem'.pc = "reply" /\ modem'.slot = modem.slot
         \/ Say("CMGD", modem.slot) /\ modem'.pc = "delete"
      /\ \/ UNCHANGED obeyed
         \/ smsText.kind = "sms" /\ obeyed' = [obeyed EXCEPT ![smsText.number] = @ + 1]
  BY <1>0 DEF ModemObeys, Modems
<1>2. Ordinary
  <2>1. CASE Say("CMGS", 0) /\ modem'.pc = "reply" /\ modem'.slot = modem.slot
    <3>1. "CMGS" \in Command \ {"CMGD"}
      BY DEF Command
    <3> QED
      BY <1>0, <2>1, <3>1, PlainIsOrdinary
  <2>2. CASE Say("CMGD", modem.slot) /\ modem'.pc = "delete"
    BY <1>0, <2>2, DeletingIsOrdinary DEF Reading
  <2> QED
    BY <1>1, <2>1, <2>2
<1>3. SlotInv'
  BY <1>2, OrdinaryKeepsSlots
<1>4. CASE UNCHANGED obeyed
  BY <1>2, <1>3, <1>4, OrdinaryKeepsObeyed
<1>5. CASE smsText.kind = "sms" /\ obeyed' = [obeyed EXCEPT ![smsText.number] = @ + 1]
  <2>1. smsText.number \in Slots /\ modem.slot \in Slots /\ fate[modem.slot] = "taken"
    BY <1>0, <1>5 DEF Texts, SlotInv, Reading
  <2>2. PICK X : fate' = Miss(X, fate)
    BY <1>2 DEF Ordinary, Loses, Lost
  <2>3. fate'[modem.slot] = "taken"
    BY <2>1, <2>2, MissIs DEF TypeInv, SerialType
  <2>4. modem'.pc # "get"
    BY <1>1
  <2>5. OneSlot => \A s \in Slots : s = modem.slot
    BY <2>1 DEF OneSlot
  <2>6. OneSlot => obeyed'[modem.slot] = 1
    BY <1>0, <1>5, <2>1, <2>5 DEF ObeyInv
  <2> QED
    BY <1>3, <2>3, <2>4, <2>5, <2>6 DEF ObeyInv, OneSlot
<1> QED
  BY <1>1, <1>3, <1>4, <1>5

LEMMA ModemThreadAccounts ==
  ASSUME TypeInv, SlotInv, ObeyInv, ModemThread
  PROVE  SlotInv' /\ ObeyInv'
<1>1. CASE \/ ModemSkips \/ ModemWakes \/ ModemChecks \/ ModemDummy \/ ModemAlive \/ ModemSetsUp
           \/ ModemAsks \/ ModemChecked \/ ModemStops \/ ModemReplies
  <2>1. Ordinary /\ UNCHANGED obeyed
    BY <1>1, TurnIsOrdinary, CheckIsOrdinary, RepliesAreOrdinary
  <2> QED
    BY <2>1, OrdinaryKeepsSlots, OrdinaryKeepsObeyed
<1>2. CASE ModemReads \/ ModemObeys
  BY <1>2, ReadsAccounts, ObeysAccounts
<1> QED
  BY <1>1, <1>2 DEF ModemThread

(* The other threads.                                                      *)
LEMMA OthersAreOrdinary ==
  ASSUME TypeInv, SlotInv,
         \/ Logs \/ LoggerThread \/ AlertThread \/ MailEnds \/ SubAsked \/ SubSends
         \/ BatteryLow \/ BatteryLocks \/ PowerReturns
  PROVE  Ordinary /\ UNCHANGED <<modem, obeyed>>
<1>1. UNCHANGED <<modem, obeyed>>
  BY DEF Logs, LoggerThread, AlertThread, AlertFetches, AlertDone, AlertTakesModem, AlertUsesModem,
         AlertMails, AlertPublishes, AlertRest, MailEnds, SubAsked, SubSends, SubRest, BatteryLow,
         BatteryLocks, PowerReturns, SvcRest, mvars, work
<1>2. CASE PowerReturns
  <2>1. out' = <<>> /\ fate' = Miss(Notices(out), fate) /\ UNCHANGED <<ring, sim>>
    BY <1>2 DEF PowerReturns
  <2>2. Loses
    BY <2>1, ClearedLoses DEF TypeInv, SlotInv
  <2> QED
    BY <1>1, <2>1, <2>2 DEF Ordinary, Reading
<1>3. CASE ~PowerReturns
  <2>1. \/ UNCHANGED <<out, ring, sim, fate>>
        \/ Say("CMGS", 0) \/ Say("ATD", 0) \/ Say("text", 0) \/ Say("ATH", 0)
    <3>1. CASE Logs \/ LoggerThread \/ MailEnds \/ BatteryLow \/ BatteryLocks
      BY <3>1 DEF Logs, LoggerThread, MailEnds, BatteryLow, BatteryLocks, serial
    <3>2. CASE AlertThread
      BY <3>2 DEF AlertThread, AlertFetches, AlertDone, AlertTakesModem, AlertUsesModem, AlertReleases,
                  AlertMails, AlertPublishes, mvars, serial
    <3>3. CASE SubAsked \/ SubSends
      BY <3>3 DEF SubAsked, SubSends, serial
    <3> QED
      BY <1>3, <3>1, <3>2, <3>3
  <2>2. {"CMGS", "ATD", "text", "ATH"} \subseteq Command \ {"CMGD"}
    BY DEF Command
  <2>3. (UNCHANGED <<out, ring, sim, fate>>) \/ \E name \in Command \ {"CMGD"} : Say(name, 0)
    BY <2>1, <2>2
  <2> QED
    BY <1>1, <2>3, PlainIsOrdinary
<1> QED
  BY <1>2, <1>3

LEMMA StepAccounts ==
  ASSUME TypeInv, SlotInv, ObeyInv, [Next]_vars
  PROVE  SlotInv' /\ ObeyInv'
<1>1. CASE ModemSide
  BY <1>1, HardwareAccounts, DialogAccounts, ModemThreadAccounts DEF ModemSide
<1>2. CASE \/ Logs \/ LoggerThread \/ AlertThread \/ MailEnds \/ SubAsked \/ SubSends
           \/ BatteryLow \/ BatteryLocks \/ PowerReturns
  <2>1. Ordinary /\ UNCHANGED <<modem, obeyed>>
    BY <1>2, OthersAreOrdinary
  <2> QED
    BY <2>1, OrdinaryKeepsSlots, OrdinaryKeepsObeyed
<1>3. CASE UNCHANGED vars
  BY <1>3 DEF vars, mvars, serial, work, SlotInv, ObeyInv, Apart, Pending, Reading, OneSlot
<1> QED
  BY <1>1, <1>2, <1>3 DEF Next, Running

LEMMA StepType == TypeInv /\ [Next]_vars => TypeInv'
<1>1. CASE UNCHANGED vars
  BY <1>1 DEF vars, mvars, mine, serial, work, logs, TypeInv, SerialType, WorkType, LogType, MineType
<1>2. CASE Next
  BY <1>2, HardwareType, DialogType, ModemThreadType, LogsType, AlertType, SubType, ServiceType
     DEF Next, Running, ModemSide
<1> QED
  BY <1>1, <1>2

------------------------------------------------------------------------------
(* Who uses the modem has it, step by step.                                *)

LEMMA ModemSideOwned ==
  ASSUME TypeInv, Owned, ModemSide
  PROVE  Owned'
<1>0. modem \in Modems /\ UNCHANGED <<alert, sub>>
  BY DEF TypeInv, WorkType, ModemSide, mine
<1>1. CASE Hardware \/ Dialog
  <2>1. UNCHANGED <<gprsSem, modem>>
    BY <1>1 DEF Hardware, LineComes, SmsArrives, ModemFails, Dialog, DialogReads, DialogTimesOut, work
  <2> QED
    BY <1>0, <2>1 DEF Owned
<1>2. CASE ModemSkips
  <2>1. UNCHANGED gprsSem /\ modem'.pc = "sleep"
    BY <1>0, <1>2 DEF ModemSkips, NextTurn, Quiet, Modems
  <2> QED
    BY <1>0, <2>1 DEF Owned
<1>3. CASE ModemWakes
  <2>1. gprsSem = "free" /\ gprsSem' = "modem"
    BY <1>3 DEF ModemWakes
  <2> QED
    BY <1>0, <2>1 DEF Owned
<1>4. CASE ModemReads
  <2>1. modem.pc = "read" /\ gprsSem = "modem"
    BY <1>4 DEF ModemReads, At, Owned
  <2>2. UNCHANGED gprsSem \/ modem'.pc = "sleep"
    BY <1>0, <1>4 DEF ModemReads, NextTurn, Modems
  <2> QED
    BY <1>0, <2>1, <2>2 DEF Owned
<1>5. CASE \/ ModemChecks \/ ModemDummy \/ ModemAlive \/ ModemSetsUp \/ ModemAsks
           \/ ModemChecked \/ ModemStops \/ ModemObeys \/ ModemReplies
  <2>1. modem.pc # "sleep" /\ UNCHANGED gprsSem
    BY <1>5 DEF ModemChecks, ModemDummy, ModemAlive, ModemSetsUp, ModemAsks, Follows, ModemChecked,
                ModemStops, ModemObeys, ModemReplies, At, Quiet
  <2> QED
    BY <1>0, <2>1 DEF Owned
<1> QED
  BY <1>1, <1>2, <1>3, <1>4, <1>5 DEF ModemSide, ModemThread

LEMMA AlertOwned ==
  ASSUME TypeInv, Owned, AlertThread
  PROVE  Owned'
<1>0. alert \in Alerts /\ UNCHANGED <<modem, sub>>
  BY DEF TypeInv, MineType, Alerts, AlertThread, AlertFetches, AlertDone, AlertTakesModem, AlertUsesModem,
         AlertMails, AlertPublishes, AlertRest, mvars, work
<1>1. CASE AlertFetches \/ AlertDone \/ AlertMails \/ AlertPublishes
  <2>1. UNCHANGED gprsSem /\ alert'.pc \in {"work", "fetch"}
    <3>1. UNCHANGED gprsSem
      BY <1>1 DEF AlertFetches, AlertDone, AlertMails, AlertPublishes, mvars
    <3>2. CASE AlertFetches \/ AlertDone
      BY <3>1, <3>2 DEF AlertFetches, AlertDone, NoAlert
    <3>3. CASE AlertMails \/ AlertPublishes
      <4>1. Over
        BY <3>3 DEF AlertMails, AlertPublishes
      <4>2. alert'.pc = "work"
        BY <1>0, <4>1 DEF Over, Alerts
      <4> QED
        BY <3>1, <4>2
    <3> QED
      BY <1>1, <3>2, <3>3
  <2> QED
    BY <1>0, <2>1 DEF Owned
<1>2. CASE AlertTakesModem
  <2>1. gprsSem = "free" /\ gprsSem' = "alert"
    BY <1>2 DEF AlertTakesModem
  <2> QED
    BY <1>0, <2>1 DEF Owned
<1>3. CASE AlertUsesModem
  <2>1. gprsSem = "alert" /\ (UNCHANGED gprsSem \/ alert'.pc = "work")
    BY <1>0, <1>3 DEF AlertUsesModem, AlertReleases, Over, Alerts
  <2> QED
    BY <1>0, <2>1 DEF Owned
<1> QED
  BY <1>1, <1>2, <1>3 DEF AlertThread

LEMMA SubOwned ==
  ASSUME TypeInv, Owned, SubAsked \/ SubSends
  PROVE  Owned'
<1>0. UNCHANGED <<modem, alert>> /\ sub \in [pc : {"idle", "next", "sms", "text"}, left : Int]
  BY DEF TypeInv, MineType, SubAsked, SubSends, SubRest, work
<1>1. CASE UNCHANGED gprsSem /\ sub'.pc \in {"idle", "next"}
  BY <1>0, <1>1 DEF Owned
<1>2. CASE gprsSem = "free" /\ gprsSem' = "sub"
  BY <1>0, <1>2 DEF Owned
<1>3. CASE sub.pc = "sms" /\ UNCHANGED gprsSem
  BY <1>0, <1>3 DEF Owned
<1>4. CASE sub.pc \in {"sms", "text"} /\ sub'.pc = "next"
  BY <1>0, <1>4 DEF Owned
<1> QED
  BY <1>0, <1>1, <1>2, <1>3, <1>4 DEF SubAsked, SubSends

LEMMA StepOwned ==
  ASSUME TypeInv, Owned, [Next]_vars
  PROVE  Owned'
<1>1. CASE Logs \/ LoggerThread \/ MailEnds \/ BatteryLow \/ BatteryLocks \/ PowerReturns \/ UNCHANGED vars
  <2>1. UNCHANGED <<gprsSem, modem, alert, sub>>
    BY <1>1 DEF Logs, LoggerThread, MailEnds, BatteryLow, BatteryLocks, PowerReturns, SvcRest, vars, mvars,
                mine, work
  <2> QED
    BY <2>1 DEF Owned
<1> QED
  BY <1>1, ModemSideOwned, AlertOwned, SubOwned DEF Next, Running

------------------------------------------------------------------------------
(* What is in the buffer.                                                  *)

(* While the modem's thread reads an SMS only it uses the modem, and when   *)
(* the text has come something has been put in the buffer that is no call's *)
(* number.                                                                 *)
GetInv ==
  modem.pc = "get" =>
    /\ dialog.name \in {"CMGR", "none"}
    /\ dialog.name = "CMGR" => dialog.at \in 1 .. 4
    /\ \/ dialog.name = "CMGR" /\ dialog.at = 4
       \/ dialog.name = "none" /\ answer = 1
       => smsText.kind # "dial"

(* The SMS of an alert come before its calls, and until the calls begin     *)
(* only the modem's thread has written over the alert's text.              *)
AlertInv ==
  /\ SmsFirst(alert.todo)
  /\ alert.pc = "sms" => HasSms(alert.todo)
  /\ alert.pc # "fetch" => \/ smsText = AlertText(alert.entry)
                           \/ smsText.kind \in {"line", "sms"}
                           \/ smsText.kind = "dial" /\ ~HasSms(alert.todo)

TextInv == GetInv /\ AlertInv /\ TextsMix

(* A step that keeps the buffer, or puts there a line or an SMS, keeps what *)
(* is said of the alert, if it keeps the alert.                            *)
LEMMA ReadKeepsAlert ==
  ASSUME AlertInv, UNCHANGED alert, (UNCHANGED smsText) \/ smsText'.kind \in {"line", "sms"}
  PROVE  AlertInv'
BY DEF AlertInv

LEMMA DialogTexts ==
  ASSUME TypeInv, TextInv, Dialog, UNCHANGED alert
  PROVE  TextInv'
<1>0. UNCHANGED <<modem, wrong>>
  BY DEF Dialog, DialogReads, DialogTimesOut, work
<1>1. (UNCHANGED smsText) \/ smsText'.kind \in {"line", "sms"}
  BY DEF Dialog, DialogReads, DialogTimesOut, Text
<1>2. AlertInv' /\ TextsMix'
  BY <1>0, <1>1, ReadKeepsAlert DEF TextInv, TextsMix, OneSlot
<1>3. GetInv'
  <2>1. SUFFICES ASSUME modem.pc = "get" PROVE GetInv'
    BY <1>0 DEF GetInv
  <2>2. dialog.name = "CMGR" /\ dialog.at \in 1 .. 4 /\ dialog \in [name : Command, at : Nat]
    BY <2>1 DEF TextInv, GetInv, Dialog, DialogReads, DialogTimesOut, TypeInv, SerialType
  <2>3. Stages(dialog.name) = gprsGetSMS /\ Len(gprsGetSMS) = 4 /\ gprsGetSMS[3] = "body"
    BY <2>2 DEF Stages, gprsGetSMS
  <2>4. CASE Ends(-1)
    <3>1. dialog' = Silent /\ answer' = -1
      BY <2>4 DEF Ends
    <3> QED
      BY <3>1 DEF GetInv, Silent
  <2>5. CASE Ends(1) /\ dialog.at = 4
    <3>1. dialog' = Silent
      BY <2>5 DEF Ends
    <3>2. smsText.kind # "dial"
      BY <2>1, <2>2, <2>5 DEF TextInv, GetInv
    <3>3. smsText'.kind # "dial"
      BY <1>1, <3>2
    <3> QED
      BY <3>1, <3>3 DEF GetInv, Silent
  <2>6. CASE UNCHANGED <<dialog, answer>>
    <3>1. dialog.at = 4 => smsText'.kind # "dial"
      BY <1>1, <2>1, <2>2 DEF TextInv, GetInv
    <3> QED
      BY <2>2, <2>6, <3>1 DEF GetInv
  <2>7. CASE /\ dialog' = [dialog EXCEPT !.at = @ + 1] /\ dialog.at # 4
             /\ dialog.at = 3 => smsText'.kind \in {"line", "sms"}
    <3>1. dialog'.name = "CMGR" /\ dialog'.at = dialog.at + 1
      BY <2>2, <2>7
    <3>2. dialog'.at \in 1 .. 4 /\ (dialog'.at = 4 => dialog.at = 3)
      BY <2>2, <2>7, <3>1
    <3> QED
      BY <2>7, <3>1, <3>2 DEF GetInv
  <2>8. CASE DialogTimesOut
    BY <2>4, <2>8 DEF DialogTimesOut
  <2>9. CASE DialogReads
    <3>1. PICK line : line = IF ring # <<>> THEN Head(ring) ELSE Head(out)
      OBVIOUS
    <3>2. IF line.kind = "blank" THEN UNCHANGED <<dialog, answer>>
          ELSE IF ~Passes(Stage, line, dialog.name) THEN Ends(-1)
          ELSE IF dialog.at = Len(Stages(dialog.name)) THEN Ends(1)
          ELSE dialog' = [dialog EXCEPT !.at = @ + 1] /\ UNCHANGED answer
      BY <2>9, <3>1 DEF DialogReads
    <3>3. smsText' = IF line.kind = "blank" \/ Stage # "body" THEN smsText
                     ELSE IF line.kind = "body" THEN Text("sms", line.number) ELSE Text("line", 0)
      BY <2>9, <3>1 DEF DialogReads
    <3>4. CASE line.kind = "blank" \/ ~Passes(Stage, line, dialog.name) \/ dialog.at = 4
      BY <2>3, <2>4, <2>5, <2>6, <3>2, <3>4
    <3>5. CASE line.kind # "blank" /\ Passes(Stage, line, dialog.name) /\ dialog.at # 4
      <4>1. dialog' = [dialog EXCEPT !.at = @ + 1]
        BY <2>3, <3>2, <3>5
      <4>2. dialog.at = 3 => Stage = "body"
        BY <2>3 DEF Stage
      <4>3. dialog.at = 3 => smsText'.kind \in {"line", "sms"}
        BY <3>3, <3>5, <4>2 DEF Text
      <4> QED
        BY <2>7, <3>5, <4>1, <4>3
    <3> QED
      BY <3>4, <3>5
  <2> QED
    BY <2>8, <2>9 DEF Dialog
<1> QED
  BY <1>2, <1>3 DEF TextInv

LEMMA ModemThreadTexts ==
  ASSUME TypeInv, SlotInv, TextInv, ModemThread, UNCHANGED alert
  PROVE  TextInv'
<1>0. modem \in Modems /\ smsText \in Texts
  BY DEF TypeInv, WorkType
<1>1. CASE ModemObeys
  <2>1. UNCHANGED smsText /\ modem.pc = "get" /\ Answered /\ modem'.pc \in {"reply", "delete"}
    BY <1>0, <1>1 DEF ModemObeys, At, Modems
  <2>2. GetInv'
    BY <2>1 DEF GetInv
  <2>3. AlertInv'
    BY <2>1, ReadKeepsAlert DEF TextInv
  <2>4. TextsMix'
    <3>1. CASE UNCHANGED wrong
      BY <3>1 DEF TextInv, TextsMix, OneSlot
    <3>2. CASE wrong' = wrong \union {<<"command", smsText.kind>>} /\ smsText # Text("sms", modem.slot) /\ answer = 1
      <4>1. smsText.kind # "dial"
        BY <2>1, <3>2 DEF TextInv, GetInv, Answered
      <4>2. smsText.kind = "sms" => ~OneSlot
        <5>1. SUFFICES ASSUME smsText.kind = "sms", OneSlot PROVE FALSE
          OBVIOUS
        <5>2. smsText.number \in Slots /\ modem.slot \in Slots
          BY <1>0, <2>1, <5>1 DEF Texts, SlotInv, Reading
        <5>3. smsText.number = modem.slot
          BY <5>1, <5>2 DEF OneSlot
        <5>4. PICK k, n : smsText = [kind |-> k, number |-> n]
          BY <1>0 DEF Texts
        <5> QED
          BY <3>2, <5>1, <5>3, <5>4 DEF Text
      <4>3. smsText.kind \in EntryKind \union {"line"} \/ (smsText.kind = "sms" /\ ~OneSlot)
        BY <1>0, <4>1, <4>2 DEF Texts
      <4> QED
        BY <3>2, <4>3 DEF TextInv, TextsMix, OneSlot
    <3> QED
      BY <1>1, <3>1, <3>2 DEF ModemObeys, Meant
  <2> QED
    BY <2>2, <2>3, <2>4 DEF TextInv
<1>2. CASE ModemReads
  <2>1. UNCHANGED wrong /\ ((UNCHANGED smsText) \/ smsText'.kind \in {"line", "sms"})
    BY <1>2 DEF ModemReads, Text
  <2>2. AlertInv' /\ TextsMix'
    BY <2>1, ReadKeepsAlert DEF TextInv, TextsMix, OneSlot
  <2>3. GetInv'
    <3>1. \/ modem'.pc # "get"
          \/ dialog' = [name |-> "CMGR", at |-> 1]
      BY <1>0, <1>2 DEF ModemReads, NextTurn, At, SayAs, work, Modems
    <3> QED
      BY <3>1 DEF GetInv
  <2> QED
    BY <2>2, <2>3 DEF TextInv
<1>3. CASE \/ ModemSkips \/ ModemWakes \/ ModemChecks \/ ModemDummy \/ ModemAlive \/ ModemSetsUp
           \/ ModemAsks \/ ModemChecked \/ ModemStops \/ ModemReplies
  <2>1. UNCHANGED <<smsText, wrong>>
    BY <1>3 DEF ModemSkips, ModemWakes, ModemChecks, ModemDummy, ModemAlive, ModemSetsUp, Follows,
                ModemAsks, ModemChecked, ModemStops, ModemReplies, Quiet
  <2>2. modem'.pc # "get"
    <3>1. CASE ModemSkips \/ ModemWakes \/ ModemChecks \/ ModemDummy \/ ModemAlive
      BY <1>0, <3>1 DEF ModemSkips, NextTurn, ModemWakes, Goes, Started, ModemChecks, ModemDummy,
                        ModemAlive, Registration, NotAlive, Modems
    <3>2. CASE ModemSetsUp \/ ModemAsks \/ ModemChecked \/ ModemStops \/ ModemReplies
      BY <1>0, <3>2 DEF ModemSetsUp, ModemAsks, Follows, ModemChecked, Registration, ModemStops,
                        ModemReplies, Goes, Modems
    <3> QED
      BY <1>3, <3>1, <3>2
  <2> QED
    BY <2>1, <2>2, ReadKeepsAlert DEF TextInv, GetInv, TextsMix, OneSlot
<1> QED
  BY <1>1, <1>2, <1>3 DEF ModemThread

(* Something that was asked for is done.                                   *)
LEMMA OverKeepsAlert ==
  ASSUME TypeInv, AlertInv, alert.pc # "fetch", alert.todo # <<>>, Over, UNCHANGED smsText
  PROVE  AlertInv'
<1>1. alert \in Alerts /\ alert.todo \in Seq(Task)
  BY DEF TypeInv, MineType, Alerts
<1>2. PICK t \in Seq(Task) : t = Tail(alert.todo) /\ SmsFirst(t) /\ (HasSms(t) => HasSms(alert.todo))
  BY <1>1, SmsFirstTail DEF AlertInv
<1>3. alert'.pc = "work" /\ alert'.todo = t /\ alert'.entry = alert.entry
  BY <1>1, <1>2 DEF Over, Alerts
<1> QED
  BY <1>2, <1>3 DEF AlertInv

LEMMA FetchTexts ==
  ASSUME TypeInv, TextInv, AlertFetches \/ AlertDone, UNCHANGED modem
  PROVE  TextInv'
<1>1. UNCHANGED <<wrong, dialog, answer>>
  BY DEF AlertFetches, AlertDone, mvars, serial
<1>2. TextsMix'
  BY <1>1 DEF TextInv, TextsMix, OneSlot
<1>3. CASE AlertFetches
  <2>1. PICK new : new = Head(alertMb)
    OBVIOUS
  <2>2. /\ alertMb # <<>> /\ smsText' = AlertText(new.entry)
        /\ alert' = [pc |-> "work", entry |-> new.entry, todo |-> Work(new.entry, new.channels)]
    BY <1>3, <2>1 DEF AlertFetches
  <2>3. new.entry \in AllEntries
    <3>1. alertMb \in Seq([entry : AllEntries, channels : SUBSET Channel])
      BY DEF TypeInv, MineType
    <3>2. new \in [entry : AllEntries, channels : SUBSET Channel]
      BY <2>1, <2>2, <3>1, HeadTailProperties
    <3> QED
      BY <3>2
  <2>4. smsText'.kind # "dial"
    BY <2>2, <2>3, EntryTypes
  <2>5. GetInv'
    BY <1>1, <2>4 DEF TextInv, GetInv
  <2>6. AlertInv'
    <3>1. SmsFirst(Work(new.entry, new.channels))
      BY WorkFirst
    <3> QED
      BY <2>2, <3>1 DEF AlertInv
  <2> QED
    BY <1>2, <2>5, <2>6 DEF TextInv
<1>4. CASE AlertDone
  <2>1. alert' = NoAlert /\ UNCHANGED smsText
    BY <1>4 DEF AlertDone, mvars
  <2>2. GetInv'
    BY <1>1, <2>1 DEF TextInv, GetInv
  <2>3. AlertInv'
    <3>1. NoAlert.pc = "fetch" /\ NoAlert.todo = <<>> /\ DOMAIN <<>> = {}
      BY DEF NoAlert
    <3> QED
      BY <2>1, <3>1 DEF AlertInv, SmsFirst
  <2> QED
    BY <1>2, <2>2, <2>3 DEF TextInv
<1> QED
  BY <1>3, <1>4

LEMMA AlertModemTexts ==
  ASSUME TypeInv, Owned, TextInv, AlertTakesModem \/ AlertUsesModem, UNCHANGED modem
  PROVE  TextInv'
<1>0. /\ alert \in Alerts /\ alert.todo \in Seq(Task) /\ smsText \in Texts
      /\ SmsFirst(alert.todo)
  BY DEF TypeInv, MineType, WorkType, Alerts, TextInv, AlertInv
<1>1. GetInv'
  <2>1. gprsSem \in {"free", "alert"}
    BY DEF AlertTakesModem, AlertUsesModem
  <2> QED
    BY <2>1 DEF Owned, GetInv
<1>2. CASE AlertTakesModem
  <2>1. alert.pc = "work" /\ alert.todo # <<>> /\ UNCHANGED wrong
    BY <1>2 DEF AlertTakesModem, Next1
  <2>2. alert.todo[1] \in Task /\ (HasSms(alert.todo) <=> alert.todo[1][1] = "SMS")
    BY <1>0, <2>1, SmsFirstTail
  <2>3. TextsMix'
    BY <2>1 DEF TextInv, TextsMix, OneSlot
  <2>4. CASE alert.todo[1][1] = "SMS" /\ Becomes("sms") /\ UNCHANGED smsText
    <3>1. alert'.pc = "sms" /\ alert'.todo = alert.todo /\ alert'.entry = alert.entry
      BY <1>0, <2>4 DEF Becomes, Alerts
    <3>2. AlertInv'
      BY <2>1, <2>2, <2>4, <3>1 DEF TextInv, AlertInv
    <3> QED
      BY <1>1, <2>3, <3>2 DEF TextInv
  <2>5. CASE alert.todo[1][1] = "Page" /\ Becomes("call") /\ smsText' = Text("dial", alert.todo[1][2])
    <3>1. alert'.pc = "call" /\ alert'.todo = alert.todo /\ smsText'.kind = "dial"
      BY <1>0, <2>5 DEF Becomes, Alerts, Text
    <3>2. AlertInv'
      BY <1>0, <2>2, <2>5, <3>1 DEF AlertInv
    <3> QED
      BY <1>1, <2>3, <3>2 DEF TextInv
  <2> QED
    BY <1>2, <2>4, <2>5 DEF AlertTakesModem, Next1
<1>3. CASE AlertUsesModem
  <2>1. UNCHANGED smsText /\ alert.pc \in {"sms", "text", "call", "hangUp"} /\ alert.todo # <<>>
    BY <1>3 DEF AlertUsesModem, AlertReleases, TypeInv, MineType
  <2>2. AlertInv'
    <3>1. CASE Over
      BY <2>1, <3>1, OverKeepsAlert DEF TextInv
    <3>2. CASE Becomes("text") \/ Becomes("hangUp")
      <4>1. /\ alert'.pc \in {"text", "hangUp"} /\ alert'.todo = alert.todo /\ alert'.entry = alert.entry
        BY <1>0, <3>2 DEF Becomes, Alerts
      <4> QED
        BY <2>1, <4>1 DEF TextInv, AlertInv
    <3> QED
      BY <1>3, <3>1, <3>2 DEF AlertUsesModem, AlertReleases
  <2>3. TextsMix'
    <3>1. CASE UNCHANGED wrong
      BY <3>1 DEF TextInv, TextsMix, OneSlot
    <3>2. CASE alert.pc = "sms" /\ Meant("sms", AlertText(alert.entry))
      <4>1. smsText = AlertText(alert.entry) \/ smsText.kind \in {"line", "sms"}
        BY <3>2 DEF TextInv, AlertInv
      <4> QED
        BY <3>2, <4>1 DEF Meant, TextInv, TextsMix, OneSlot
    <3> QED
      BY <1>3, <3>1, <3>2 DEF AlertUsesModem, AlertReleases
  <2> QED
    BY <1>1, <2>2, <2>3 DEF TextInv
<1> QED
  BY <1>2, <1>3

LEMMA AlertOutTexts ==
  ASSUME TypeInv, TextInv, AlertMails \/ AlertPublishes, UNCHANGED modem
  PROVE  TextInv'
<1>1. /\ UNCHANGED <<serial, smsText>> /\ alert.pc = "work" /\ alert.todo # <<>> /\ Over
      /\ (UNCHANGED wrong) \/ Meant("mqtt", AlertText(alert.entry))
  BY DEF AlertMails, AlertPublishes, Next1
<1>2. GetInv' /\ AlertInv'
  BY <1>1, OverKeepsAlert DEF TextInv, GetInv, serial
<1>3. TextsMix'
  <2>1. smsText = AlertText(alert.entry) \/ smsText.kind \in {"line", "sms", "dial"}
    BY <1>1 DEF TextInv, AlertInv
  <2> QED
    BY <1>1, <2>1 DEF Meant, TextInv, TextsMix, OneSlot
<1> QED
  BY <1>2, <1>3 DEF TextInv

LEMMA OtherTexts ==
  ASSUME TypeInv, Owned, TextInv,
         \/ Hardware /\ UNCHANGED mine
         \/ Logs \/ LoggerThread \/ MailEnds \/ SubAsked \/ SubSends \/ BatteryLow \/ BatteryLocks \/ PowerReturns
  PROVE  TextInv'
<1>1. UNCHANGED <<smsText, modem, alert>>
  BY DEF Hardware, LineComes, SmsArrives, ModemFails, Logs, LoggerThread, MailEnds, SubAsked, SubSends, SubRest,
         BatteryLow, BatteryLocks, PowerReturns, SvcRest, mvars, mine, work
<1>2. AlertInv'
  BY <1>1, ReadKeepsAlert DEF TextInv
<1>3. TextsMix'
  <2>1. (UNCHANGED wrong) \/ wrong' = wrong \union {<<"mail", smsText.kind>>}
    BY DEF Hardware, LineComes, SmsArrives, ModemFails, Logs, LoggerThread, MailEnds, Meant, SubAsked, SubSends,
           SubRest, BatteryLow, BatteryLocks, PowerReturns, SvcRest
  <2> QED
    BY <2>1 DEF TextInv, TextsMix, OneSlot
<1>4. GetInv'
  <2>1. (UNCHANGED <<dialog, answer>>) \/ gprsSem \in {"free", "sub"}
    BY DEF Hardware, LineComes, SmsArrives, ModemFails, Logs, LoggerThread, MailEnds, SubAsked, SubSends,
           BatteryLow, BatteryLocks, PowerReturns, serial, Owned
  <2>2. CASE UNCHANGED <<dialog, answer>>
    BY <1>1, <2>2 DEF TextInv, GetInv
  <2>3. CASE gprsSem \in {"free", "sub"}
    BY <1>1, <2>3 DEF Owned, GetInv
  <2> QED
    BY <2>1, <2>2, <2>3
<1> QED
  BY <1>2, <1>3, <1>4 DEF TextInv

LEMMA StepTexts ==
  ASSUME TypeInv, Owned, SlotInv, TextInv, [Next]_vars
  PROVE  TextInv'
<1>1. CASE ModemSide
  <2>1. UNCHANGED alert
    BY <1>1 DEF ModemSide, mine
  <2> QED
    BY <1>1, <2>1, DialogTexts, ModemThreadTexts, OtherTexts DEF ModemSide
<1>2. CASE AlertThread
  <2>1. UNCHANGED modem
    BY <1>2 DEF AlertThread, AlertFetches, AlertDone, AlertTakesModem, AlertUsesModem, AlertMails,
                AlertPublishes, AlertRest, mvars, work
  <2> QED
    BY <1>2, <2>1, FetchTexts, AlertModemTexts, AlertOutTexts DEF AlertThread
<1>3. CASE \/ Logs \/ LoggerThread \/ MailEnds \/ SubAsked \/ SubSends \/ BatteryLow \/ BatteryLocks \/ PowerReturns
  BY <1>3, OtherTexts
<1>4. CASE UNCHANGED vars
  BY <1>4 DEF vars, mvars, mine, serial, work, TextInv, GetInv, AlertInv, TextsMix, OneSlot
<1> QED
  BY <1>1, <1>2, <1>3, <1>4 DEF Next, Running

------------------------------------------------------------------------------
(* The invariant, and what follows from it.                                *)

Inv == TypeInv /\ Owned /\ SlotInv /\ ObeyInv /\ TextInv

LEMMA InitInv == Init => Inv
<1> SUFFICES ASSUME Init PROVE Inv
  OBVIOUS
<1>1. /\ out = <<>> /\ ring = <<>> /\ message = 0 /\ sim = {} /\ fate = [s \in Slots |-> "none"]
      /\ obeyed = [s \in Slots |-> 0] /\ dialog = Silent /\ answer = 0
      /\ modem = [pc |-> "sleep", counter |-> 0, status |-> "NotInitialized", lastStatus |-> "none",
                  reg |-> "searching", setSMS |-> 0, slot |-> 0]
      /\ smsText = Text("line", 0) /\ wrong = {} /\ logMb = <<>> /\ logPool = LogSize
      /\ alertMb = <<>> /\ alert = NoAlert /\ sub = [pc |-> "idle", left |-> 0]
  BY DEF Init
<1>2. <<>> \in Seq(Lines) /\ Notices(<<>>) = {} /\ Once(<<>>) /\ Len(<<>>) = 0 /\ DOMAIN <<>> = {}
  BY NoticesOfNone
<1>3. SerialType
  BY <1>1, <1>2 DEF SerialType, Fates, Silent, Command
<1>4. WorkType
  BY <1>1, TextTypes DEF WorkType, Modems, ModemPc, ModemStatus, Registered
<1>5. LogType
  BY <1>1, ModemAssumption DEF LogType, ModemAssumption
<1>6. MineType
  <2>1. \A kind \in DOMAIN conf : conf[kind] \subseteq Channel
    <3>1. PICK s \in Scenarios : conf = s.conf
      BY DEF Init
    <3> QED
      BY <3>1, MessagesAssumption DEF MessagesAssumption
  <2>2. NoAlert \in Alerts /\ NoAlert.pc = "fetch"
    BY DEF NoAlert, Alerts, AlertPc
  <2>3. alertMb \in Seq([entry : AllEntries, channels : SUBSET Channel])
    BY <1>1
  <2> QED
    BY <1>1, <2>1, <2>2, <2>3 DEF MineType, Alerts
<1>7. Owned
  BY <1>1 DEF Owned, NoAlert
<1>8. SlotInv
  BY <1>1, <1>2 DEF SlotInv, Apart, Pending, Reading
<1>9. ObeyInv
  BY <1>1 DEF ObeyInv
<1>10. TextInv
  BY <1>1, <1>2 DEF TextInv, GetInv, AlertInv, SmsFirst, NoAlert, TextsMix
<1> QED
  BY <1>3, <1>4, <1>5, <1>6, <1>7, <1>8, <1>9, <1>10 DEF Inv, TypeInv

LEMMA StepInv == Inv /\ [Next]_vars => Inv'
BY StepType, StepOwned, StepAccounts, StepTexts DEF Inv

(***************************************************************************)
(* What the variables are.  In particular the ring never has fewer lines   *)
(* than are counted in it, the alert thread has something left to do when   *)
(* it uses the modem, and what is in the buffer is an entry's text, a line, *)
(* an SMS or a number.                                                     *)
(***************************************************************************)
THEOREM MessagesTypes == Spec => []TypeInv
<1>1. Inv => TypeInv
  BY DEF Inv
<1> QED
  BY <1>1, InitInv, StepInv, PTL DEF Spec

(***************************************************************************)
(* An announcement of an SMS is still to come just when it is expected, is *)
(* of an SMS that is there, and of several commands, resets and readings    *)
(* none takes it twice (ohs_th_modem.h, gprsFlushRX, rxchar_cb); with one   *)
(* slot no SMS is obeyed twice or without having been taken.               *)
(***************************************************************************)
THEOREM SmsAreAccountedFor == Spec => []SmsAccounted
<1>1. Inv => SmsAccounted
  BY DEF Inv, SlotInv, ObeyInv, Pending, SmsAccounted
<1> QED
  BY <1>1, InitInv, StepInv, PTL DEF Spec

(***************************************************************************)
(* The buffer of texts has no lock of its own: the alert thread writes it   *)
(* before it waits for the modem, whose thread reads into it meanwhile.     *)
(* Whatever the interleaving, nothing is sent or obeyed under another's     *)
(* name but what TextsMix admits (ohs_th_alert.h, ohs_th_modem.h, gprs.c).  *)
(***************************************************************************)
THEOREM TextsMixAsSaid == Spec => []TextsMix
<1>1. Inv => TextsMix
  BY DEF Inv, TextInv
<1> QED
  BY <1>1, InitInv, StepInv, PTL DEF Spec
===============================================================================
