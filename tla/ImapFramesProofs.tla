---------------------------- MODULE ImapFramesProofs ----------------------------
(***************************************************************************)
(* Proofs about the commands ImapServer cuts a client's bytes into, for    *)
(* any scripts and limits. Parse, which says what they should be, is       *)
(* recursive in the position: that it is defined and what it is at each    *)
(* position is shown from the least position where it would not be, since  *)
(* every set of naturals has a least element. Every step of a connection   *)
(* then moves the position up to which its script has been cut from one    *)
(* beginning of a line to the next, where Parse goes the same way.         *)
(* With that, each step of the server is one of ServiceContract's.         *)
(***************************************************************************)
EXTENDS ImapServerProofs

-----------------------------------------------------------------------------
(***************************************************************************)
(* Parts of sequences.                                                     *)
(***************************************************************************)

\* Every set of naturals that has elements has a least one.
LEMMA LeastElement ==
    ASSUME NEW T, T \subseteq Nat, T # {}
    PROVE  \E m \in T : \A k \in T : m <= k
<1>1. PICK m \in T : \A k \in T : ~ (<<k, m>> \in OpToRel(<, Nat))
  BY NatLessThanWellFounded, WFMin
<1>2. \A k \in T : ~ (k < m) /\ k \in Nat
  BY <1>1 DEF OpToRel
<1>3. m \in Nat
  OBVIOUS
<1> QED
  BY <1>2, <1>3

\* Two sequences of the same length with the same elements are equal.
LEMMA SameSeq ==
    ASSUME NEW S, NEW a \in Seq(S), NEW b \in Seq(S), Len(a) = Len(b),
           \A i \in 1 .. Len(a) : a[i] = b[i]
    PROVE  a = b
BY SeqEqual

LEMMA Part ==
    ASSUME NEW S, NEW s \in Seq(S), NEW m \in Int, NEW n \in Int, 1 <= m, n <= Len(s)
    PROVE  /\ SubSeq(s, m, n) \in Seq(S)
           /\ m <= n + 1 => Len(SubSeq(s, m, n)) = n - m + 1
           /\ \A i \in 1 .. n - m + 1 : SubSeq(s, m, n)[i] = s[m + i - 1]
           /\ m > n => SubSeq(s, m, n) = <<>>
<1>1. \A i \in m .. n : s[i] \in S
  BY ElementOfSeq
<1> QED
  BY <1>1, SubSeqProperties, SubSeqEmpty

\* A part of a part.
LEMMA PartOfPart ==
    ASSUME NEW S, NEW s \in Seq(S), NEW p \in Int, NEW n \in Int, 1 <= p, p <= n + 1, n <= Len(s),
           NEW a \in Int, NEW b \in Int, 1 <= a, b <= n - p + 1, a <= b + 1
    PROVE  SubSeq(SubSeq(s, p, n), a, b) = SubSeq(s, p + a - 1, p + b - 1)
<1> DEFINE r == SubSeq(s, p, n)
           u == SubSeq(r, a, b)
           v == SubSeq(s, p + a - 1, p + b - 1)
<1>1. /\ r \in Seq(S) /\ Len(r) = n - p + 1
      /\ \A i \in 1 .. n - p + 1 : r[i] = s[p + i - 1]
  BY Part
<1>2. /\ u \in Seq(S) /\ Len(u) = b - a + 1
      /\ \A i \in 1 .. b - a + 1 : u[i] = r[a + i - 1]
  <2> HIDE DEF r
  <2> QED
    BY <1>1, Part
<1>3. /\ v \in Seq(S) /\ Len(v) = b - a + 1
      /\ \A i \in 1 .. b - a + 1 : v[i] = s[p + a - 1 + i - 1]
  <2> DEFINE f == p + a - 1
             l == p + b - 1
  <2>1. f \in Int /\ l \in Int /\ 1 <= f /\ l <= Len(s) /\ f <= l + 1 /\ l - f + 1 = b - a + 1
    BY LenProperties
  <2> HIDE DEF f, l
  <2>2. /\ SubSeq(s, f, l) \in Seq(S)
        /\ Len(SubSeq(s, f, l)) = b - a + 1
        /\ \A i \in 1 .. b - a + 1 : SubSeq(s, f, l)[i] = s[f + i - 1]
    BY <2>1, Part
  <2> QED
    BY <2>2 DEF f, l
<1>4. \A i \in 1 .. b - a + 1 : u[i] = v[i]
  <2> SUFFICES ASSUME NEW i \in 1 .. b - a + 1 PROVE u[i] = v[i]
    OBVIOUS
  <2> HIDE DEF r, u, v
  <2>1. u[i] = r[a + i - 1] /\ a + i - 1 \in 1 .. n - p + 1
    BY <1>2
  <2>2. r[a + i - 1] = s[p + (a + i - 1) - 1]
    BY <1>1, <2>1
  <2>3. p + (a + i - 1) - 1 = p + a - 1 + i - 1
    OBVIOUS
  <2> QED
    BY <2>1, <2>2, <2>3, <1>3
<1> QED
  <2> HIDE DEF r, u, v
  <2> QED
    BY <1>2, <1>3, <1>4, SameSeq

-----------------------------------------------------------------------------
(***************************************************************************)
(* Lines. LineEnd gives the first CR LF of what is at hand; how much more  *)
(* is at hand makes no difference.                                         *)
(***************************************************************************)

Break(s, i) == s[i] = "CR" /\ s[i + 1] = "LF"

LEMMA FirstBreak ==
    ASSUME NEW s \in Seq(STRING)
    PROVE  \/ LineEnd(s) = 0 /\ \A i \in 1 .. Len(s) - 1 : ~Break(s, i)
           \/ /\ LineEnd(s) \in 1 .. Len(s) - 1 /\ Break(s, LineEnd(s))
              /\ \A i \in 1 .. LineEnd(s) - 1 : ~Break(s, i)
<1> DEFINE ends == {i \in 1 .. Len(s) - 1 : s[i] = "CR" /\ s[i + 1] = "LF"}
<1>1. CASE ends = {}
  BY <1>1 DEF LineEnd, Break
<1>2. CASE ends # {}
  <2>1. Len(s) \in Nat
    BY LenProperties
  <2>2. ends \subseteq Nat
    OBVIOUS
  <2>3. LineEnd(s) = CHOOSE i \in ends : \A j \in ends : i <= j
    BY <1>2 DEF LineEnd
  <2>4. LineEnd(s) \in ends /\ \A j \in ends : LineEnd(s) <= j
    <3> HIDE DEF ends
    <3> QED
      BY <2>2, <2>3, <1>2, LeastElement
  <2>5. \A i \in 1 .. LineEnd(s) - 1 : i \notin ends
    <3>1. LineEnd(s) \in Nat
      BY <2>2, <2>4
    <3> SUFFICES ASSUME NEW i \in 1 .. LineEnd(s) - 1, i \in ends PROVE FALSE
      OBVIOUS
    <3>2. LineEnd(s) <= i
      BY <2>4
    <3> HIDE DEF ends
    <3> QED
      BY <3>1, <3>2
  <2> QED
    BY <2>1, <2>4, <2>5 DEF Break
<1> QED
  BY <1>1, <1>2

LEMMA LineInside ==
    ASSUME NEW s \in Seq(STRING), NEW p \in Int, NEW m \in Int, 1 <= p, p <= m + 1, m <= Len(s),
           LineEnd(SubSeq(s, p, m)) > 0
    PROVE  LineEnd(SubSeq(s, p, m)) \in Int /\ p + LineEnd(SubSeq(s, p, m)) <= m
<1> DEFINE a == SubSeq(s, p, m)
<1>1. a \in Seq(STRING) /\ Len(a) = m - p + 1
  BY Part
<1> HIDE DEF a
<1>2. LineEnd(a) \in 1 .. Len(a) - 1
  <2>1. \/ LineEnd(a) = 0
        \/ LineEnd(a) \in 1 .. Len(a) - 1
    BY <1>1, FirstBreak
  <2>2. LineEnd(a) > 0
    BY DEF a
  <2> QED
    BY <2>1, <2>2
<1>3. LineEnd(a) \in Int /\ p + LineEnd(a) <= m
  BY <1>1, <1>2
<1> QED
  BY <1>3 DEF a

\* The line at p is the same however much of s is at hand after it.
LEMMA LineAtHand ==
    ASSUME NEW s \in Seq(STRING), NEW p \in Int, NEW m \in Int, NEW n \in Int,
           1 <= p, p <= m + 1, m <= Len(s),
           NEW e \in Int, e = LineEnd(SubSeq(s, p, m)), e > 0, p + e <= n, n <= Len(s)
    PROVE  /\ LineEnd(SubSeq(s, p, n)) = e
           /\ Line(SubSeq(s, p, n)) = SubSeq(s, p, p + e - 2)
           /\ AfterLine(SubSeq(s, p, n)) = SubSeq(s, p + e + 1, n)
<1> DEFINE a == SubSeq(s, p, m)
           b == SubSeq(s, p, n)
<1>1. /\ a \in Seq(STRING) /\ Len(a) = m - p + 1
      /\ \A i \in 1 .. m - p + 1 : a[i] = s[p + i - 1]
  BY Part, LenProperties
<1>2. /\ b \in Seq(STRING) /\ Len(b) = n - p + 1
      /\ \A i \in 1 .. n - p + 1 : b[i] = s[p + i - 1]
  BY Part
<1>3. e \in 1 .. Len(a) - 1 /\ Break(a, e) /\ \A i \in 1 .. e - 1 : ~Break(a, i)
  <2>1. e = LineEnd(a)
    OBVIOUS
  <2> HIDE DEF a
  <2>2. \/ LineEnd(a) = 0
        \/ /\ LineEnd(a) \in 1 .. Len(a) - 1 /\ Break(a, LineEnd(a))
           /\ \A i \in 1 .. LineEnd(a) - 1 : ~Break(a, i)
    BY <1>1, FirstBreak
  <2> QED
    BY <2>1, <2>2
<1>4. \A i \in 1 .. e : Break(a, i) <=> Break(b, i)
  <2> HIDE DEF a, b
  <2> SUFFICES ASSUME NEW i \in 1 .. e PROVE Break(a, i) <=> Break(b, i)
    OBVIOUS
  <2>1. \A j \in 1 .. e + 1 : a[j] = b[j]
    <3> SUFFICES ASSUME NEW j \in 1 .. e + 1 PROVE a[j] = b[j]
      OBVIOUS
    <3>1. j \in 1 .. m - p + 1 /\ j \in 1 .. n - p + 1
      <4>1. Len(a) = m - p + 1 /\ e \in 1 .. Len(a) - 1
        BY <1>1, <1>3
      <4>2. e <= m - p
        BY <4>1
      <4> QED
        BY <4>2
    <3> QED
      BY <1>1, <1>2, <3>1
  <2>2. a[i] = b[i] /\ a[i + 1] = b[i + 1]
    BY <2>1
  <2> QED
    BY <2>2 DEF Break
<1>5. LineEnd(b) = e
  <2> HIDE DEF a, b
  <2>1. e \in 1 .. Len(b) - 1 /\ Break(b, e) /\ \A i \in 1 .. e - 1 : ~Break(b, i)
    <3>1. e \in 1 .. Len(b) - 1 /\ e \in 1 .. e
      BY <1>2, <1>3
    <3>2. \A i \in 1 .. e - 1 : i \in 1 .. e
      OBVIOUS
    <3> QED
      BY <1>3, <1>4, <3>1, <3>2
  <2>2. \/ LineEnd(b) = 0 /\ \A i \in 1 .. Len(b) - 1 : ~Break(b, i)
        \/ /\ LineEnd(b) \in 1 .. Len(b) - 1 /\ Break(b, LineEnd(b))
           /\ \A i \in 1 .. LineEnd(b) - 1 : ~Break(b, i)
    BY <1>2, FirstBreak
  <2> DEFINE d == LineEnd(b)
  <2>3. d # 0
    BY <2>1, <2>2
  <2>4. d \in 1 .. Len(b) - 1 /\ Break(b, d) /\ \A i \in 1 .. d - 1 : ~Break(b, i)
    BY <2>2, <2>3
  <2> HIDE DEF d
  <2>5. ~ (d < e) /\ ~ (e < d)
    BY <2>1, <2>4
  <2>6. d = e
    BY <2>5, <2>4, <2>1
  <2> QED
    BY <2>6 DEF d
<1>7. Line(b) = SubSeq(s, p, p + e - 2)
  <2>1. SubSeq(b, 1, e - 1) = SubSeq(s, p + 1 - 1, p + (e - 1) - 1)
    BY <1>3, PartOfPart, SMTT(30)
  <2>2. p + 1 - 1 = p /\ p + (e - 1) - 1 = p + e - 2
    OBVIOUS
  <2> QED
    BY <1>5, <2>1, <2>2 DEF Line
<1>8. AfterLine(b) = SubSeq(s, p + e + 1, n)
  <2> DEFINE f == e + 2
             l == n - p + 1
  <2>0. f \in Int /\ l \in Int /\ 1 <= f /\ l <= n - p + 1 /\ f <= l + 1 /\ p <= n + 1
    OBVIOUS
  <2>1. SubSeq(b, f, l) = SubSeq(s, p + f - 1, p + l - 1)
    <3> HIDE DEF f, l
    <3> QED
      BY <2>0, PartOfPart
  <2>2. p + (e + 2) - 1 = p + e + 1 /\ p + (n - p + 1) - 1 = n
    OBVIOUS
  <2>3. AfterLine(b) = SubSeq(b, LineEnd(b) + 2, Len(b))
    BY DEF AfterLine
  <2> HIDE DEF b
  <2> QED
    BY <1>2, <1>5, <2>1, <2>2, <2>3
<1> QED
  BY <1>5, <1>7, <1>8

LEMMA LineThere ==
    ASSUME NEW s \in Seq(STRING), NEW p \in Int, NEW g \in Int, 1 <= p, p <= g + 1, g <= Len(s),
           NEW e \in Int, e = LineEnd(SubSeq(s, p, g)), e > 0
    PROVE  /\ e \in Nat \ {0} /\ p + e <= g
           /\ Line(SubSeq(s, p, g)) = SubSeq(s, p, p + e - 2)
           /\ AfterLine(SubSeq(s, p, g)) = SubSeq(s, p + e + 1, g)
<1>1. e \in Int /\ p + e <= g
  BY LineInside
<1>2. /\ Line(SubSeq(s, p, g)) = SubSeq(s, p, p + e - 2)
      /\ AfterLine(SubSeq(s, p, g)) = SubSeq(s, p + e + 1, g)
  BY <1>1, LineAtHand, SMTT(30)
<1> QED
  BY <1>1, <1>2, SMTT(30)

LEMMA MoreThere ==
    ASSUME NEW s \in Seq(STRING), NEW p \in Int, NEW m \in Int, NEW n \in Int,
           1 <= p, p <= m + 1, m <= n, n <= Len(s), LineEnd(SubSeq(s, p, m)) > 0
    PROVE  /\ LineEnd(SubSeq(s, p, n)) = LineEnd(SubSeq(s, p, m))
           /\ Line(SubSeq(s, p, n)) = Line(SubSeq(s, p, m))
<1> DEFINE e == LineEnd(SubSeq(s, p, m))
<1>0. m <= Len(s)
  BY LenProperties
<1>1. e \in Int /\ p + e <= m /\ e > 0
  BY <1>0, LineInside
<1>2. e = LineEnd(SubSeq(s, p, m)) /\ p + e <= n
  BY <1>1
<1> HIDE DEF e
<1>3. LineEnd(SubSeq(s, p, n)) = e /\ Line(SubSeq(s, p, n)) = SubSeq(s, p, p + e - 2)
  BY <1>0, <1>1, <1>2, LineAtHand, SMTT(30)
<1>4. Line(SubSeq(s, p, m)) = SubSeq(s, p, p + e - 2)
  BY <1>0, <1>1, <1>2, LineThere, SMTT(30)
<1> QED
  BY <1>2, <1>3, <1>4

-----------------------------------------------------------------------------
(***************************************************************************)
(* Parse: the recursive function exists, satisfies its equation, and gives *)
(* a sequence of commands at each position.                                *)
(***************************************************************************)

\* Where the next line begins, and the next but for a literal.
LEMMA NextInside ==
    ASSUME NEW u \in Seq(STRING), NEW i \in 1 .. Len(u) + 1,
           LineEnd(SubSeq(u, i, Len(u))) # 0
    PROVE  /\ LineEnd(SubSeq(u, i, Len(u))) \in Nat \ {0}
           /\ i + LineEnd(SubSeq(u, i, Len(u))) + 1 \in i + 1 .. Len(u) + 1
           /\ Line(SubSeq(u, i, Len(u))) \in Seq(STRING)
<1> DEFINE rest == SubSeq(u, i, Len(u))
           e == LineEnd(rest)
<1>1. rest \in Seq(STRING) /\ Len(u) \in Nat
  BY Part, LenProperties
<1>2. e \in Int /\ 0 <= e /\ Line(rest) \in Seq(STRING)
  <2> HIDE DEF rest
  <2> QED
    BY <1>1, LineEndInside, LineTypes
<1>3. e \in Int /\ e > 0
  BY <1>2
<1>4. i + e <= Len(u)
  <2>1. i \in Int /\ Len(u) \in Int /\ 1 <= i /\ i <= Len(u) + 1 /\ Len(u) <= Len(u)
    BY <1>1
  <2> QED
    BY <1>3, <2>1, LineInside
<1> QED
  <2> HIDE DEF rest, e
  <2>1. e \in Nat \ {0} /\ i + e + 1 \in i + 1 .. Len(u) + 1
    BY <1>1, <1>3, <1>4
  <2> QED
    BY <2>1, <1>2 DEF e, rest

\* The commands from i on depend on those from later positions only.
LEMMA LaterOnly ==
    ASSUME NEW u \in Seq(STRING), NEW i \in 1 .. Len(u) + 1, NEW f, NEW g,
           \A j \in i + 1 .. Len(u) + 1 : f[j] = g[j]
    PROVE  FramesFrom(u, f, i) = FramesFrom(u, g, i)
<1> DEFINE rest == SubSeq(u, i, Len(u))
           line == Line(rest)
           size == LiteralSize(line)
           next == i + LineEnd(rest) + 1
<1>1. CASE LineEnd(rest) = 0
  BY <1>1 DEF FramesFrom
<1>2. CASE LineEnd(rest) # 0
  <2>1. next \in i + 1 .. Len(u) + 1
    BY <1>2, NextInside
  <2>2. size \in {0, 1, 2}
    BY LiteralSizes
  <2>3. f[next] = g[next]
    BY <2>1
  <2>4. ~ (next + size - 1 > Len(u)) => f[next + size] = g[next + size]
    <3>1. Len(u) \in Nat
      BY LenProperties
    <3>2. ~ (next + size - 1 > Len(u)) => next + size \in i + 1 .. Len(u) + 1
      <4> HIDE DEF next, size
      <4> QED
        BY <2>1, <2>2, <3>1
    <3> HIDE DEF next, size
    <3> QED
      BY <3>2
  <2>5. \A h : FramesFrom(u, h, i) =
          IF LineEnd(rest) = 0 THEN <<>>
          ELSE IF line = <<>> THEN h[next]
          ELSE IF size = 0 THEN <<Command(line, <<>>)>> \o h[next]
          ELSE IF next + size - 1 > Len(u) THEN <<>>
          ELSE <<Command(SubSeq(line, 1, Len(line) - 1), SubSeq(u, next, next + size - 1))>>
                 \o h[next + size]
    BY DEF FramesFrom
  <2> HIDE DEF rest, line, size, next
  <2> QED
    BY <2>3, <2>4, <2>5
<1> QED
  BY <1>1, <1>2

\* A function on the positions from k on that satisfies the equation of Parse.
Parses(u, k, f) == f = [i \in k .. Len(u) + 1 |-> FramesFrom(u, f, i)]

LEMMA OneEarlier ==
    ASSUME NEW u \in Seq(STRING), NEW k \in 1 .. Len(u) + 1, NEW f, Parses(u, k + 1, f)
    PROVE  \E g : Parses(u, k, g)
<1> DEFINE g == [i \in k .. Len(u) + 1 |-> IF i = k THEN FramesFrom(u, f, k) ELSE f[i]]
<1>1. Len(u) \in Nat
  BY LenProperties
<1>2. \A j \in k + 1 .. Len(u) + 1 : f[j] = g[j] /\ f[j] = FramesFrom(u, f, j)
  <2>1. \A j \in k + 1 .. Len(u) + 1 : f[j] = FramesFrom(u, f, j)
    <3> DEFINE h == [i \in k + 1 .. Len(u) + 1 |-> FramesFrom(u, f, i)]
    <3>1. f = h
      BY DEF Parses
    <3>2. \A j \in k + 1 .. Len(u) + 1 : h[j] = FramesFrom(u, f, j)
      OBVIOUS
    <3> HIDE DEF h
    <3> QED
      BY <3>1, <3>2
  <2>2. \A j \in k + 1 .. Len(u) + 1 : f[j] = g[j]
    BY <1>1
  <2> QED
    BY <2>1, <2>2
<1>3. \A i \in k .. Len(u) + 1 : g[i] = FramesFrom(u, g, i)
  <2> SUFFICES ASSUME NEW i \in k .. Len(u) + 1 PROVE g[i] = FramesFrom(u, g, i)
    OBVIOUS
  <2>1. g[i] = FramesFrom(u, f, i)
    <3>1. CASE i = k
      BY <3>1
    <3>2. CASE i # k
      <4>1. i \in k + 1 .. Len(u) + 1
        BY <3>2, <1>1
      <4> HIDE DEF g
      <4> QED
        BY <4>1, <1>2
    <3> QED
      BY <3>1, <3>2
  <2>2. i \in 1 .. Len(u) + 1 /\ \A j \in i + 1 .. Len(u) + 1 : f[j] = g[j]
    <3> HIDE DEF g
    <3> QED
      BY <1>1, <1>2
  <2>3. FramesFrom(u, f, i) = FramesFrom(u, g, i)
    <3> HIDE DEF g
    <3> QED
      BY <2>2, LaterOnly
  <2> QED
    BY <2>1, <2>3
<1>4. g = [i \in k .. Len(u) + 1 |-> g[i]]
  OBVIOUS
<1>5. g = [i \in k .. Len(u) + 1 |-> FramesFrom(u, g, i)]
  <2> HIDE DEF g
  <2> QED
    BY <1>3, <1>4
<1> QED
  <2> HIDE DEF g
  <2> QED
    BY <1>5 DEF Parses

LEMMA ParseDefined ==
    ASSUME NEW u \in Seq(STRING)
    PROVE  \E f : Parses(u, 1, f)
<1>1. Len(u) \in Nat
  BY LenProperties
<1> DEFINE bad == {m \in 0 .. Len(u) + 1 : ~ \E f : Parses(u, Len(u) + 2 - m, f)}
<1>2. bad = {}
  <2> SUFFICES ASSUME bad # {} PROVE FALSE
    OBVIOUS
  <2>1. bad \subseteq Nat
    OBVIOUS
  <2>2. PICK m \in bad : \A k \in bad : m <= k
    <3> HIDE DEF bad
    <3> QED
      BY <2>1, LeastElement
  <2>3. m # 0
    <3> DEFINE none == [i \in Len(u) + 2 .. Len(u) + 1 |-> <<>>]
    <3>1. Len(u) + 2 .. Len(u) + 1 = {}
      BY <1>1
    <3>2. none = [i \in Len(u) + 2 .. Len(u) + 1 |-> FramesFrom(u, none, i)]
      BY <3>1
    <3>3. \E f : Parses(u, Len(u) + 2, f)
      <4> HIDE DEF none
      <4> QED
        BY <3>2 DEF Parses
    <3>4. Len(u) + 2 - 0 = Len(u) + 2
      BY <1>1
    <3> QED
      BY <3>3, <3>4
  <2>4. m \in 1 .. Len(u) + 1 /\ ~ \E f : Parses(u, Len(u) + 2 - m, f)
    BY <2>3, <1>1
  <2>5. m - 1 \notin bad /\ m - 1 \in 0 .. Len(u) + 1
    <3> HIDE DEF bad
    <3> QED
      BY <2>2, <2>4, <1>1
  <2>6. PICK f : Parses(u, Len(u) + 2 - (m - 1), f)
    BY <2>5
  <2> DEFINE k == Len(u) + 2 - m
  <2>7. k \in 1 .. Len(u) + 1 /\ Len(u) + 2 - (m - 1) = k + 1
    BY <2>4, <1>1
  <2> HIDE DEF k
  <2>8. \E g : Parses(u, k, g)
    BY <2>6, <2>7, OneEarlier
  <2> QED
    BY <2>4, <2>8 DEF k
<1>3. Len(u) + 1 \in 0 .. Len(u) + 1 /\ Len(u) + 2 - (Len(u) + 1) = 1
  BY <1>1
<1>4. Len(u) + 1 \notin bad
  BY <1>2
<1> QED
  BY <1>3, <1>4

\* What Parse is at a position.
LEMMA ParseAt ==
    ASSUME NEW u \in Seq(STRING), NEW i \in 1 .. Len(u) + 1
    PROVE  Parse(u)[i] = FramesFrom(u, Parse(u), i)
<1> DEFINE Is(f) == f = [k \in 1 .. Len(u) + 1 |-> FramesFrom(u, f, k)]
<1>1. Parse(u) = CHOOSE f : Is(f)
  BY DEF Parse
<1>2. \E f : Is(f)
  BY ParseDefined DEF Parses
<1> HIDE DEF Is
<1>3. Is(CHOOSE f : Is(f))
  BY <1>2
<1>4. Is(Parse(u))
  BY <1>1, <1>3
<1> DEFINE h == [k \in 1 .. Len(u) + 1 |-> FramesFrom(u, Parse(u), k)]
<1>5. Parse(u) = h
  BY <1>4 DEF Is
<1>6. h[i] = FramesFrom(u, Parse(u), i)
  OBVIOUS
<1> HIDE DEF h
<1> QED
  BY <1>5, <1>6

LEMMA CommandType ==
    ASSUME NEW text \in Seq(STRING), NEW octets \in Seq(STRING)
    PROVE  Command(text, octets) \in Frame
BY DEF Command, Frame

LEMMA FramesFromType ==
    ASSUME NEW u \in Seq(STRING), NEW i \in 1 .. Len(u) + 1, NEW f,
           \A j \in i + 1 .. Len(u) + 1 : f[j] \in Seq(Frame)
    PROVE  FramesFrom(u, f, i) \in Seq(Frame)
<1> DEFINE rest == SubSeq(u, i, Len(u))
           line == Line(rest)
           size == LiteralSize(line)
           next == i + LineEnd(rest) + 1
           text == SubSeq(line, 1, Len(line) - 1)
           octets == SubSeq(u, next, next + size - 1)
<1>1. FramesFrom(u, f, i) =
        IF LineEnd(rest) = 0 THEN <<>>
        ELSE IF line = <<>> THEN f[next]
        ELSE IF size = 0 THEN <<Command(line, <<>>)>> \o f[next]
        ELSE IF next + size - 1 > Len(u) THEN <<>>
        ELSE <<Command(text, octets)>> \o f[next + size]
  BY DEF FramesFrom
<1>2. CASE LineEnd(rest) = 0
  BY <1>1, <1>2, EmptySeq
<1>3. CASE LineEnd(rest) # 0
  <2>1. next \in i + 1 .. Len(u) + 1 /\ line \in Seq(STRING)
    BY <1>3, NextInside
  <2>2. size \in {0, 1, 2} /\ Len(u) \in Nat
    BY LiteralSizes, LenProperties
  <2>3. f[next] \in Seq(Frame)
    BY <2>1
  <2>4. <<>> \in Seq(STRING) /\ <<>> \in Seq(Frame)
    BY EmptySeq
  <2>5. Command(line, <<>>) \in Frame
    BY <2>1, <2>4, CommandType
  <2>6. ASSUME size # 0, ~ (next + size - 1 > Len(u))
        PROVE  Command(text, octets) \in Frame /\ f[next + size] \in Seq(Frame)
    <3>1. next + size \in i + 1 .. Len(u) + 1
      <4> HIDE DEF next, size
      <4> QED
        BY <2>1, <2>2, <2>6
    <3>2. text \in Seq(STRING)
      <4>1. Len(line) \in Nat
        BY <2>1, LenProperties
      <4> HIDE DEF line
      <4> QED
        BY <2>1, <4>1, Part
    <3>3. octets \in Seq(STRING)
      <4>1. next \in Int /\ next + size - 1 \in Int /\ 1 <= next /\ next + size - 1 <= Len(u)
        <5> HIDE DEF next, size
        <5> QED
          BY <2>1, <2>2, <2>6
      <4> HIDE DEF next, size
      <4> QED
        BY <4>1, Part
    <3> QED
      <4> HIDE DEF text, octets, next, size
      <4> QED
        BY <3>1, <3>2, <3>3, CommandType
  <2> HIDE DEF rest, line, size, next, text, octets
  <2>7. ASSUME NEW x \in Frame, NEW h \in Seq(Frame)
        PROVE  <<x>> \o h \in Seq(Frame)
    OBVIOUS
  <2> QED
    BY <1>1, <2>2, <2>3, <2>4, <2>5, <2>6, <2>7
<1> QED
  BY <1>2, <1>3

LEMMA ParseType ==
    ASSUME NEW u \in Seq(STRING), NEW i \in 1 .. Len(u) + 1
    PROVE  Parse(u)[i] \in Seq(Frame)
<1>1. Len(u) \in Nat
  BY LenProperties
<1> DEFINE bad == {m \in 0 .. Len(u) : Parse(u)[Len(u) + 1 - m] \notin Seq(Frame)}
<1>2. bad = {}
  <2> SUFFICES ASSUME bad # {} PROVE FALSE
    OBVIOUS
  <2>1. bad \subseteq Nat
    OBVIOUS
  <2>2. PICK m \in bad : \A k \in bad : m <= k
    <3> HIDE DEF bad
    <3> QED
      BY <2>1, LeastElement
  <2> DEFINE k == Len(u) + 1 - m
  <2>3. m \in 0 .. Len(u) /\ k \in 1 .. Len(u) + 1 /\ Parse(u)[k] \notin Seq(Frame)
    BY <1>1
  <2>4. \A j \in k + 1 .. Len(u) + 1 : Parse(u)[j] \in Seq(Frame)
    <3> SUFFICES ASSUME NEW j \in k + 1 .. Len(u) + 1 PROVE Parse(u)[j] \in Seq(Frame)
      OBVIOUS
    <3> DEFINE l == Len(u) + 1 - j
    <3>1. l \in 0 .. Len(u) /\ l < m /\ Len(u) + 1 - l = j
      BY <1>1, <2>3
    <3>2. l \notin bad
      <4> HIDE DEF bad, l
      <4> QED
        BY <2>2, <2>3, <3>1
    <3> HIDE DEF l
    <3> QED
      BY <3>1, <3>2
  <2> HIDE DEF k
  <2> QED
    BY <2>3, <2>4, ParseAt, FramesFromType
<1> DEFINE l == Len(u) + 1 - i
<1>3. l \in 0 .. Len(u) /\ Len(u) + 1 - l = i
  BY <1>1
<1> HIDE DEF l
<1> QED
  BY <1>2, <1>3

\* Parse of the first n bytes of s, in terms of s: from p on there is no line,
\* or there is one that ends e bytes on, and the commands that follow begin
\* where the next line does.
LEMMA ParseSent ==
    ASSUME NEW s \in Seq(STRING), NEW n \in 0 .. Len(s), NEW p \in 1 .. n + 1
    PROVE  LET sent == SubSeq(s, 1, n)
               rest == SubSeq(s, p, n)
               line == Line(rest)
               size == LiteralSize(line)
               next == p + LineEnd(rest) + 1
           IN /\ Parse(sent)[p] \in Seq(Frame)
              /\ LineEnd(rest) = 0 => Parse(sent)[p] = <<>>
              /\ LineEnd(rest) # 0 =>
                   /\ line = <<>> => Parse(sent)[p] = Parse(sent)[next]
                   /\ line # <<>> /\ size = 0 =>
                        Parse(sent)[p] = <<Command(line, <<>>)>> \o Parse(sent)[next]
                   /\ size # 0 /\ next + size - 1 > n => Parse(sent)[p] = <<>>
                   /\ size # 0 /\ next + size - 1 <= n =>
                        Parse(sent)[p] =
                          <<Command(SubSeq(line, 1, Len(line) - 1), SubSeq(s, next, next + size - 1))>>
                            \o Parse(sent)[next + size]
<1> DEFINE u == SubSeq(s, 1, n)
           rest == SubSeq(s, p, n)
           line == Line(rest)
           size == LiteralSize(line)
           next == p + LineEnd(rest) + 1
<1>1. Len(s) \in Nat /\ n \in Nat /\ n <= Len(s) /\ p \in Nat /\ 1 <= p /\ p <= n + 1
  BY LenProperties
<1>2. u \in Seq(STRING) /\ Len(u) = n
  BY <1>1, Part
<1>3. SubSeq(u, p, n) = rest
  <2>1. SubSeq(SubSeq(s, 1, n), p, n) = SubSeq(s, 1 + p - 1, 1 + n - 1)
    BY <1>1, PartOfPart
  <2>2. 1 + p - 1 = p /\ 1 + n - 1 = n
    BY <1>1
  <2> QED
    BY <2>1, <2>2
<1>4. Parse(u)[p] =
        IF LineEnd(rest) = 0 THEN <<>>
        ELSE IF line = <<>> THEN Parse(u)[next]
        ELSE IF size = 0 THEN <<Command(line, <<>>)>> \o Parse(u)[next]
        ELSE IF next + size - 1 > n THEN <<>>
        ELSE <<Command(SubSeq(line, 1, Len(line) - 1), SubSeq(u, next, next + size - 1))>>
               \o Parse(u)[next + size]
  <2>1. Parse(u)[p] = FramesFrom(u, Parse(u), p)
    <3> HIDE DEF u
    <3> QED
      BY <1>2, ParseAt
  <2> HIDE DEF u
  <2>2. SubSeq(u, p, Len(u)) = rest /\ Len(u) = n
    BY <1>2, <1>3
  <2> QED
    BY <2>1, <2>2 DEF FramesFrom
<1>5. Parse(u)[p] \in Seq(Frame)
  <2> HIDE DEF u
  <2> QED
    BY <1>2, ParseType
<1>6. size \in {0, 1, 2} /\ (line = <<>> => size = 0)
  BY LiteralSizes
<1>7. ASSUME LineEnd(rest) # 0, size # 0, next + size - 1 <= n
      PROVE  SubSeq(u, next, next + size - 1) = SubSeq(s, next, next + size - 1)
  <2>1. next \in p + 1 .. n + 1
    <3> HIDE DEF u
    <3>1. LineEnd(SubSeq(u, p, Len(u))) # 0
      BY <1>2, <1>3, <1>7
    <3>2. p + LineEnd(SubSeq(u, p, Len(u))) + 1 \in p + 1 .. Len(u) + 1
      BY <1>2, <3>1, NextInside
    <3> QED
      BY <1>2, <1>3, <3>2
  <2> DEFINE l == next + size - 1
  <2>2. /\ next \in Int /\ l \in Int /\ 1 <= next /\ l <= n - 1 + 1 /\ next <= l + 1
        /\ 1 + next - 1 = next /\ 1 + l - 1 = l
    <3> HIDE DEF next, size
    <3> QED
      BY <1>1, <1>6, <1>7, <2>1
  <2> HIDE DEF next, l
  <2>3. SubSeq(SubSeq(s, 1, n), next, l) = SubSeq(s, 1 + next - 1, 1 + l - 1)
    <3>1. 1 \in Int /\ n \in Int /\ 1 <= 1 /\ 1 <= n + 1
      BY <1>1
    <3> QED
      BY <1>1, <2>2, <3>1, PartOfPart
  <2> QED
    BY <2>2, <2>3 DEF l
<1>8. ~ (next + size - 1 > n) <=> next + size - 1 <= n
  <2>0. rest \in Seq(STRING)
    BY <1>1, Part
  <2>1. LineEnd(rest) \in Int
    <3> HIDE DEF rest
    <3> QED
      BY <2>0, LineEndInside
  <2>2. next + size - 1 \in Int
    <3> HIDE DEF size
    <3> QED
      BY <1>1, <1>6, <2>1
  <2> HIDE DEF next, size
  <2> QED
    BY <1>1, <2>2
<1> QED
  <2> HIDE DEF u, rest, line, size, next
  <2>1. /\ Parse(u)[p] \in Seq(Frame)
        /\ LineEnd(rest) = 0 => Parse(u)[p] = <<>>
        /\ LineEnd(rest) # 0 =>
             /\ line = <<>> => Parse(u)[p] = Parse(u)[next]
             /\ line # <<>> /\ size = 0 =>
                  Parse(u)[p] = <<Command(line, <<>>)>> \o Parse(u)[next]
             /\ size # 0 /\ next + size - 1 > n => Parse(u)[p] = <<>>
             /\ size # 0 /\ next + size - 1 <= n =>
                  Parse(u)[p] =
                    <<Command(SubSeq(line, 1, Len(line) - 1), SubSeq(s, next, next + size - 1))>>
                      \o Parse(u)[next + size]
    BY <1>4, <1>5, <1>6, <1>7, <1>8
  <2> QED
    BY <2>1 DEF u, rest, line, size, next

-----------------------------------------------------------------------------
(***************************************************************************)
(* The position up to which a script has been cut.                         *)
(***************************************************************************)

LEMMA CutStart ==
    ASSUME NEW s \in Seq(STRING)
    PROVE  Cut(s, <<>>, 1) /\ Starts(<<>>, Frames(s))
<1>1. ASSUME NEW n \in 0 .. Len(s)
      PROVE  /\ Frames(SubSeq(s, 1, n)) \in Seq(Frame)
             /\ Frames(SubSeq(s, 1, n)) = <<>> \o Parse(SubSeq(s, 1, n))[1]
  <2>1. 1 \in 1 .. n + 1 /\ n \in 0 .. Len(s)
    BY <1>1, LenProperties
  <2>2. Parse(SubSeq(s, 1, n))[1] \in Seq(Frame)
    BY <2>1, ParseSent
  <2> DEFINE x == Parse(SubSeq(s, 1, n))[1]
  <2>3. x \in Seq(Frame) /\ Frames(SubSeq(s, 1, n)) = x
    BY <2>2 DEF Frames
  <2> HIDE DEF x
  <2>4. x = <<>> \o x
    BY <2>3
  <2> QED
    BY <2>3, <2>4 DEF x
<1>2. Cut(s, <<>>, 1)
  BY <1>1 DEF Cut
<1>3. Frames(s) \in Seq(Frame)
  <2>1. Len(s) \in 0 .. Len(s)
    BY LenProperties
  <2>2. SubSeq(s, 1, Len(s)) = s
    BY SubSeqFull
  <2> QED
    BY <1>1, <2>1, <2>2
<1>4. Starts(<<>>, Frames(s))
  <2>1. Len(<<>>) = 0 /\ Len(Frames(s)) \in Nat
    BY <1>3, LenProperties
  <2>2. SubSeq(Frames(s), 1, 0) = <<>>
    BY SubSeqEmpty
  <2> QED
    BY <2>1, <2>2 DEF Starts
<1> QED
  BY <1>2, <1>4

LEMMA CutStarts ==
    ASSUME NEW s \in Seq(STRING), NEW h \in Seq(Frame), NEW p \in 1 .. Len(s) + 1, Cut(s, h, p)
    PROVE  Starts(h, Frames(s))
<1> DEFINE x == Parse(s)[p]
<1>1. SubSeq(s, 1, Len(s)) = s /\ Len(s) \in Nat
  BY SubSeqFull, LenProperties
<1>2. Len(s) \in p - 1 .. Len(s)
  BY <1>1
<1>3. Frames(s) = h \o x
  BY <1>1, <1>2 DEF Cut
<1>4. x \in Seq(Frame)
  BY ParseType
<1> HIDE DEF x
<1>5. /\ Len(h) \in Nat /\ Len(x) \in Nat /\ Len(h \o x) = Len(h) + Len(x)
      /\ h \o x \in Seq(Frame)
      /\ \A i \in 1 .. Len(h) : (h \o x)[i] = h[i]
  BY <1>4, ConcatProperties, LenProperties
<1>6. h = SubSeq(h \o x, 1, Len(h))
  <2> DEFINE w == h \o x
  <2>1. w \in Seq(Frame) /\ Len(h) <= Len(w) /\ Len(h) \in Int /\ \A i \in 1 .. Len(h) : w[i] = h[i]
    BY <1>5
  <2> HIDE DEF w
  <2> DEFINE v == SubSeq(w, 1, Len(h))
  <2>2. /\ v \in Seq(Frame) /\ Len(v) = Len(h)
        /\ \A i \in 1 .. Len(h) : v[i] = w[i]
    <3>1. /\ v \in Seq(Frame)
          /\ 1 <= Len(h) + 1 => Len(v) = Len(h) - 1 + 1
          /\ \A i \in 1 .. Len(h) - 1 + 1 : v[i] = w[1 + i - 1]
      BY <2>1, Part
    <3> HIDE DEF v
    <3> QED
      BY <3>1, <1>5
  <2> HIDE DEF v
  <2>3. h = v
    BY <2>1, <2>2, SameSeq
  <2> QED
    BY <2>3 DEF v, w
<1> QED
  BY <1>3, <1>5, <1>6 DEF Starts

\* A sequence of commands between two others.
LEMMA Regroup ==
    ASSUME NEW h \in Seq(Frame), NEW x \in Frame, NEW t \in Seq(Frame)
    PROVE  h \o (<<x>> \o t) = Append(h, x) \o t
<1>1. <<x>> \in Seq(Frame) /\ Append(h, x) = h \o <<x>>
  BY AppendIsConcat
<1>2. h \o (<<x>> \o t) = (h \o <<x>>) \o t
  BY <1>1, ConcatAssociative
<1> QED
  BY <1>1, <1>2

LEMMA CutIf ==
    ASSUME NEW s, NEW h, NEW p,
           \A n \in p - 1 .. Len(s) : Frames(SubSeq(s, 1, n)) = h \o Parse(SubSeq(s, 1, n))[p]
    PROVE  Cut(s, h, p)
BY DEF Cut

\* Where the line at p, all of which is among the first g bytes, leads.
LEMMA CutLine ==
    ASSUME NEW s \in Seq(STRING), NEW h \in Seq(Frame), NEW g \in 0 .. Len(s), NEW p \in 1 .. g + 1,
           Cut(s, h, p), NEW e \in Int, e = LineEnd(SubSeq(s, p, g)), e > 0,
           NEW line, line = Line(SubSeq(s, p, g))
    PROVE  /\ p + e + 1 \in p + 1 .. g + 1
           /\ line = <<>> => Cut(s, h, p + e + 1)
           /\ line # <<>> /\ LiteralSize(line) = 0 =>
                Cut(s, Append(h, Command(line, <<>>)), p + e + 1)
           /\ LiteralSize(line) > 0 /\ p + e + LiteralSize(line) <= g =>
                Cut(s, Append(h, Command(SubSeq(line, 1, Len(line) - 1),
                                         SubSeq(s, p + e + 1, p + e + LiteralSize(line)))),
                    p + e + 1 + LiteralSize(line))
<1> DEFINE size == LiteralSize(line)
           next == p + e + 1
           text == SubSeq(line, 1, Len(line) - 1)
           octets == SubSeq(s, next, p + e + size)
<1>1. /\ Len(s) \in Nat /\ g \in Nat /\ g <= Len(s) /\ p \in Nat /\ 1 <= p /\ p <= g + 1
      /\ p + e <= g
  <2>1. /\ Len(s) \in Nat /\ g \in Int /\ g <= Len(s) /\ p \in Int /\ 1 <= p /\ p <= g + 1
    BY LenProperties
  <2>2. p + LineEnd(SubSeq(s, p, g)) <= g
    BY <2>1, LineInside
  <2> QED
    BY <2>1, <2>2
<1>2. size \in {0, 1, 2} /\ (line = <<>> => size = 0)
  BY LiteralSizes
<1>3. line \in Seq(STRING) /\ line = SubSeq(s, p, p + e - 2)
  <2>1. Line(SubSeq(s, p, g)) = SubSeq(s, p, p + e - 2)
    <3>1. p \in Int /\ g \in Int
      BY <1>1
    <3> QED
      BY <1>1, <3>1, LineAtHand, SMTT(30)
  <2>2. SubSeq(s, p, p + e - 2) \in Seq(STRING)
    <3>1. p \in Int /\ p + e - 2 \in Int /\ p + e - 2 <= Len(s)
      BY <1>1
    <3> QED
      BY <1>1, <3>1, Part
  <2> QED
    BY <2>1, <2>2
<1>4. ASSUME NEW n \in Int, p + e <= n, n <= Len(s)
      PROVE  /\ n \in p - 1 .. Len(s)
             /\ n \in next - 1 .. Len(s)
             /\ next \in 1 .. n + 1
             /\ LET sent == SubSeq(s, 1, n) IN
                /\ Frames(sent) = h \o Parse(sent)[p]
                /\ Parse(sent)[next] \in Seq(Frame)
                /\ line = <<>> => Parse(sent)[p] = Parse(sent)[next]
                /\ line # <<>> /\ size = 0 =>
                     Parse(sent)[p] = <<Command(line, <<>>)>> \o Parse(sent)[next]
                /\ size > 0 /\ p + e + size <= n =>
                     /\ Parse(sent)[p] = <<Command(text, octets)>> \o Parse(sent)[next + size]
                     /\ Parse(sent)[next + size] \in Seq(Frame)
  <2> DEFINE sent == SubSeq(s, 1, n)
             rest == SubSeq(s, p, n)
  <2>1. n \in 0 .. Len(s) /\ p \in 1 .. n + 1 /\ n \in p - 1 .. Len(s) /\ next \in 1 .. n + 1
        /\ n \in next - 1 .. Len(s)
    BY <1>1, <1>4
  <2>2. LineEnd(rest) = e /\ Line(rest) = line
    <3>1. p \in Int /\ g \in Int
      BY <1>1
    <3>2. LineEnd(rest) = e /\ Line(rest) = SubSeq(s, p, p + e - 2)
      BY <1>1, <1>4, <3>1, LineAtHand, SMTT(30)
    <3> HIDE DEF rest
    <3> QED
      BY <1>3, <3>2
  <2>3. Frames(sent) = h \o Parse(sent)[p]
    BY <2>1 DEF Cut
  <2>4. Parse(sent)[next] \in Seq(Frame)
    <3> HIDE DEF next
    <3> QED
      BY <2>1, ParseSent
  <2>5. LET size_ == LiteralSize(Line(rest))
            next_ == p + LineEnd(rest) + 1
        IN /\ LineEnd(rest) # 0 =>
                /\ Line(rest) = <<>> => Parse(sent)[p] = Parse(sent)[next_]
                /\ Line(rest) # <<>> /\ size_ = 0 =>
                     Parse(sent)[p] = <<Command(Line(rest), <<>>)>> \o Parse(sent)[next_]
                /\ size_ # 0 /\ next_ + size_ - 1 <= n =>
                     Parse(sent)[p] =
                       <<Command(SubSeq(Line(rest), 1, Len(Line(rest)) - 1), SubSeq(s, next_, next_ + size_ - 1))>>
                         \o Parse(sent)[next_ + size_]
    BY <2>1, ParseSent
  <2>6. /\ line = <<>> => Parse(sent)[p] = Parse(sent)[next]
        /\ line # <<>> /\ size = 0 =>
             Parse(sent)[p] = <<Command(line, <<>>)>> \o Parse(sent)[next]
        /\ size # 0 /\ next + size - 1 <= n =>
             Parse(sent)[p] = <<Command(text, SubSeq(s, next, next + size - 1))>> \o Parse(sent)[next + size]
    <3> HIDE DEF sent, rest
    <3> QED
      BY <2>2, <2>5, SMTT(30)
  <2>7. next + size - 1 = p + e + size
    <3> HIDE DEF size
    <3> QED
      BY <1>1, <1>2
  <2>8. ASSUME size > 0, p + e + size <= n
        PROVE  Parse(sent)[next + size] \in Seq(Frame)
    <3> DEFINE q == next + size
    <3>1. q \in 1 .. n + 1
      <4> HIDE DEF size
      <4> QED
        BY <1>1, <1>2, <1>4, <2>8
    <3> HIDE DEF q
    <3>2. Parse(sent)[q] \in Seq(Frame)
      BY <2>1, <3>1, ParseSent
    <3> QED
      BY <3>2 DEF q
  <2>9. size > 0 => size # 0
    OBVIOUS
  <2>10. size # 0 /\ p + e + size <= n => Parse(sent)[p] = <<Command(text, octets)>> \o Parse(sent)[next + size]
    <3> HIDE DEF sent, rest, size, next, text
    <3> QED
      BY <2>6, <2>7
  <2> HIDE DEF sent, rest, size, next, text, octets
  <2> QED
    BY <2>1, <2>3, <2>4, <2>6, <2>8, <2>9, <2>10 DEF sent
<1>5. p + e + 1 \in p + 1 .. g + 1
  BY <1>1
<1>6. ASSUME line = <<>> PROVE Cut(s, h, p + e + 1)
  <2> SUFFICES ASSUME NEW n \in p + e + 1 - 1 .. Len(s)
               PROVE  Frames(SubSeq(s, 1, n)) = h \o Parse(SubSeq(s, 1, n))[p + e + 1]
    BY CutIf
  <2>1. n \in Int /\ p + e <= n /\ n <= Len(s)
    BY <1>1
  <2> QED
    BY <1>4, <1>6, <2>1
<1>7. ASSUME line # <<>>, size = 0 PROVE Cut(s, Append(h, Command(line, <<>>)), p + e + 1)
  <2> DEFINE k == Append(h, Command(line, <<>>))
  <2> SUFFICES ASSUME NEW n \in next - 1 .. Len(s)
               PROVE  Frames(SubSeq(s, 1, n)) = k \o Parse(SubSeq(s, 1, n))[next]
    <3> HIDE DEF k, next
    <3>1. Cut(s, k, next)
      BY CutIf
    <3> QED
      BY <3>1 DEF k, next
  <2> DEFINE rest == Parse(SubSeq(s, 1, n))[p + e + 1]
  <2>1. n \in Int /\ p + e <= n /\ n <= Len(s)
    BY <1>1
  <2>2. Frames(SubSeq(s, 1, n)) = h \o (<<Command(line, <<>>)>> \o rest) /\ rest \in Seq(Frame)
    BY <1>4, <1>7, <2>1, ZenonT(30)
  <2>3. Command(line, <<>>) \in Frame
    BY <1>3, EmptySeq, CommandType
  <2> HIDE DEF rest
  <2>4. h \o (<<Command(line, <<>>)>> \o rest) = Append(h, Command(line, <<>>)) \o rest
    BY <2>2, <2>3, Regroup
  <2> QED
    BY <2>2, <2>4 DEF rest
<1>8. ASSUME size > 0, p + e + size <= g
      PROVE  Cut(s, Append(h, Command(text, octets)), next + size)
  <2> DEFINE k == Append(h, Command(text, octets))
             q == next + size
  <2> SUFFICES ASSUME NEW n \in q - 1 .. Len(s)
               PROVE  Frames(SubSeq(s, 1, n)) = k \o Parse(SubSeq(s, 1, n))[q]
    <3> HIDE DEF k, q
    <3>1. Cut(s, k, q)
      BY CutIf
    <3> QED
      BY <3>1 DEF k, q
  <2> DEFINE rest == Parse(SubSeq(s, 1, n))[next + size]
  <2>1. n \in Int /\ p + e <= n /\ n <= Len(s) /\ p + e + size <= n
    <3> HIDE DEF size
    <3> QED
      BY <1>1, <1>2, <1>8
  <2>2. Frames(SubSeq(s, 1, n)) = h \o (<<Command(text, octets)>> \o rest) /\ rest \in Seq(Frame)
    BY <1>4, <1>8, <2>1
  <2>3. text \in Seq(STRING)
    <3>1. line \in Seq(STRING)
      BY <1>3
    <3>2. Len(line) \in Nat
      BY <3>1, LenProperties
    <3>3. Len(line) - 1 \in Int /\ Len(line) - 1 <= Len(line)
      BY <3>2
    <3> QED
      BY <3>1, <3>3, Part
  <2>4. octets \in Seq(STRING)
    <3>1. next \in Int /\ p + e + size \in Int /\ 1 <= next /\ p + e + size <= Len(s)
      <4> HIDE DEF size
      <4> QED
        BY <1>1, <1>2, <1>8
    <3> HIDE DEF next, size
    <3> QED
      BY <3>1, Part
  <2> HIDE DEF rest, text, octets
  <2>5. Command(text, octets) \in Frame
    BY <2>3, <2>4, CommandType
  <2>6. h \o (<<Command(text, octets)>> \o rest) = Append(h, Command(text, octets)) \o rest
    BY <2>2, <2>5, Regroup
  <2> QED
    BY <2>2, <2>6 DEF rest
<1> QED
  BY <1>5, <1>6, <1>7, <1>8

-----------------------------------------------------------------------------
(***************************************************************************)
(* The steps of a connection.                                              *)
(***************************************************************************)

LEMMA ScriptType ==
    ASSUME TypeOK, NEW c \in Conns
    PROVE  script[c] \in Seq(STRING) /\ got[c] \in Nat /\ handled[c] \in Seq(Frame) /\ Len(script[c]) \in Nat
BY ScriptsAssumption, LenProperties DEF TypeOK

\* A connection keeps its place when its bytes are not touched.
LEMMA UntouchedKeeps ==
    ASSUME TypeOK, NEW c \in Conns, BytesKept(c), script'[c] = script[c], got'[c] = got[c],
           left'[c] = left[c], need'[c] = need[c], frame'[c] = frame[c], handled'[c] = handled[c],
           \/ at'[c] = at[c]
           \/ at[c] \in {"none", "greet"} /\ at'[c] \in {"greet", "top"}
           \/ at'[c] \in {"close", "closed"}
    PROVE  BytesKept(c)'
<1>1. got'[c] <= Len(script'[c]) /\ Starts(handled'[c], Frames(script'[c]))
  BY DEF BytesKept
<1>2. ASSUME at'[c] \notin {"close", "closed"}
      PROVE  \E p \in 1 .. got'[c] + 1 : Cut(script'[c], handled'[c], p) /\ UnderWay(c, p)'
  <2>1. at[c] \notin {"close", "closed"}
    BY <1>2
  <2>2. PICK p \in 1 .. got[c] + 1 : Cut(script[c], handled[c], p) /\ UnderWay(c, p)
    BY <2>1 DEF BytesKept
  <2>3. UnderWay(c, p)'
    BY <1>2, <2>2 DEF UnderWay, BeginsLine, BeginsLiteral
  <2> QED
    BY <2>2, <2>3
<1> QED
  BY <1>1, <1>2 DEF BytesKept

\* A line, or more of one, from p on: ReadOn when got'[c] bytes have been read.
LEMMA LineKeeps ==
    ASSUME TypeOK, NEW c \in Conns, NEW s \in Seq(STRING), script[c] = s, script'[c] = s,
           NEW g \in 0 .. Len(s), got'[c] = g,
           NEW p \in 1 .. g + 1, Cut(s, handled[c], p), frame[c] = NoFrame,
           ReadOn(c, SubSeq(s, p, g))
    PROVE  BytesKept(c)'
<1> DEFINE buffer == SubSeq(s, p, g)
           line == Line(buffer)
           size == LiteralSize(line)
           e == LineEnd(buffer)
<1>1. /\ handled[c] \in Seq(Frame) /\ left \in [Conns -> Seq(STRING)] /\ at \in [Conns -> {"none", "greet", "top", "line", "ask", "literal", "close", "closed"}]
      /\ frame \in [Conns -> Frame] /\ need \in [Conns -> Nat] /\ handled \in [Conns -> Seq(Frame)]
  BY DEF TypeOK
<1>2. Len(s) \in Nat /\ g \in Nat /\ g <= Len(s) /\ p \in Nat /\ 1 <= p /\ p <= g + 1
  BY LenProperties
<1>3. got'[c] <= Len(script'[c])
  BY <1>2
<1>4. Starts(handled[c], Frames(s))
  BY <1>1, <1>2, CutStarts
<1>5. CASE at'[c] = "close" /\ handled' = handled
  BY <1>3, <1>4, <1>5 DEF BytesKept
<1>6. CASE /\ LineEnd(buffer) = 0 /\ left'[c] = buffer /\ at'[c] = "line"
           /\ frame'[c] = frame[c] /\ handled' = handled
  <2>1. UnderWay(c, p)'
    BY <1>6 DEF UnderWay, BeginsLine
  <2> QED
    BY <1>3, <1>4, <1>6, <2>1 DEF BytesKept
<1>7. CASE LineEnd(buffer) > 0 /\ HandleLine(c, buffer)
  <2>1. buffer \in Seq(STRING) /\ e \in Int /\ e > 0 /\ size \in {0, 1, 2} /\ (line = <<>> => size = 0)
    <3>1. buffer \in Seq(STRING)
      BY <1>2, Part
    <3> HIDE DEF buffer
    <3> QED
      BY <1>7, <3>1, LineEndInside, LiteralSizes
  <2>2. left'[c] = AfterLine(buffer)
    BY <1>1, <1>7 DEF HandleLine
  <2>3. CASE size > 0
    <3>1. /\ frame'[c] = [frame[c] EXCEPT !.text = SubSeq(line, 1, Len(line) - 1)]
          /\ need'[c] = size /\ at'[c] = "ask" /\ handled' = handled
      <4>1. /\ frame' = [frame EXCEPT ![c].text = SubSeq(line, 1, Len(line) - 1)]
            /\ need' = [need EXCEPT ![c] = size]
            /\ at' = [at EXCEPT ![c] = "ask"]
            /\ handled' = handled
        <5>1. size # 0
          BY <2>1, <2>3
        <5> QED
          BY <1>7, <5>1 DEF HandleLine
      <4> HIDE DEF line, size
      <4> QED
        BY <1>1, <4>1
    <3>2. frame'[c].text = SubSeq(line, 1, Len(line) - 1) /\ frame'[c].literal = <<>>
      BY <3>1 DEF NoFrame
    <3>3. UnderWay(c, p)'
      <4>1. BeginsLiteral(c, buffer)'
        BY <1>7, <2>2, <2>3, <3>1, <3>2 DEF BeginsLiteral
      <4> QED
        BY <4>1 DEF UnderWay
    <3> QED
      BY <1>3, <1>4, <3>1, <3>3 DEF BytesKept
  <2>4. CASE size = 0
    <3> DEFINE next == p + e + 1
    <3>1. /\ handled'[c] = IF line = <<>> THEN handled[c] ELSE Append(handled[c], Command(line, <<>>))
          /\ at'[c] = "top" /\ frame' = frame
      BY <1>1, <1>7, <2>1, <2>4 DEF HandleLine
    <3>2. /\ next \in p + 1 .. g + 1
          /\ line = <<>> => Cut(s, handled[c], next)
          /\ line # <<>> => Cut(s, Append(handled[c], Command(line, <<>>)), next)
      <4> HIDE DEF e
      <4>1. e = LineEnd(SubSeq(s, p, g)) /\ line = Line(SubSeq(s, p, g))
        BY DEF e
      <4> HIDE DEF line, buffer
      <4> QED
        BY <1>1, <1>2, <2>1, <2>4, <4>1, CutLine
    <3>3. Cut(s, handled'[c], next) /\ next \in 1 .. g + 1
      <4> HIDE DEF next, line
      <4> QED
        BY <1>2, <3>1, <3>2
    <3>4. left'[c] = SubSeq(s, next, g)
      <4>1. p \in Int /\ g \in Int /\ p + e <= g
        <5> HIDE DEF e
        <5> QED
          BY <1>2, <2>1, <3>2
      <4>2. AfterLine(SubSeq(s, p, g)) = SubSeq(s, p + e + 1, g)
        <5>1. e = LineEnd(SubSeq(s, p, g))
          OBVIOUS
        <5> HIDE DEF e
        <5> QED
          BY <1>2, <2>1, <4>1, <5>1, LineAtHand, SMTT(30)
      <4> QED
        BY <2>2, <4>2
    <3>5. UnderWay(c, next)'
      <4> HIDE DEF next
      <4>1. BeginsLine(c, SubSeq(s, next, g))'
        BY <3>1, <3>4 DEF BeginsLine
      <4> QED
        BY <4>1 DEF UnderWay
    <3>6. handled'[c] \in Seq(Frame)
      <4>1. line \in Seq(STRING)
        <5> HIDE DEF buffer
        <5> QED
          BY <2>1, LineTypes
      <4> HIDE DEF line
      <4>2. Command(line, <<>>) \in Frame
        BY <4>1, EmptySeq, CommandType
      <4> QED
        BY <1>1, <3>1, <4>2
    <3>7. Starts(handled'[c], Frames(s))
      <4> HIDE DEF next
      <4>1. next \in 1 .. Len(s) + 1
        BY <1>2, <3>3
      <4> QED
        BY <3>3, <3>6, <4>1, CutStarts
    <3> QED
      <4> HIDE DEF next
      <4> QED
        BY <1>3, <3>3, <3>5, <3>7 DEF BytesKept
  <2> QED
    BY <2>1, <2>3, <2>4
<1> QED
  <2>1. \/ at'[c] = "close" /\ handled' = handled
        \/ LineEnd(buffer) > 0 /\ HandleLine(c, buffer)
        \/ /\ LineEnd(buffer) = 0 /\ left'[c] = buffer /\ at'[c] \in {"close", "line"}
           /\ frame'[c] = frame[c] /\ handled' = handled
    <3> HIDE DEF buffer
    <3>1. ReadOn(c, buffer)
      BY DEF buffer
    <3> QED
      BY <1>1, <3>1 DEF ReadOn
  <2> QED
    BY <1>5, <1>6, <1>7, <2>1

\* The line at p of s takes e bytes and its literal has begun: taken octets of
\* it are there, and the rest of what is.
LiteralTaken(s, p, g, e, line, taken, octets, rest) ==
  /\ e = LineEnd(SubSeq(s, p, g)) /\ line = Line(SubSeq(s, p, g))
  /\ octets = SubSeq(s, p + e + 1, p + e + taken)
  /\ rest = SubSeq(s, p + e + taken + 1, g)

LEMMA TakenTypes ==
    ASSUME NEW s \in Seq(STRING), NEW g \in 0 .. Len(s), NEW p \in 1 .. g + 1,
           NEW e \in Int, e > 0, NEW line, NEW taken \in Nat, p + e + taken <= g,
           NEW octets, NEW rest, LiteralTaken(s, p, g, e, line, taken, octets, rest)
    PROVE  /\ octets \in Seq(STRING) /\ Len(octets) = taken
           /\ p + e + taken = g =>
                rest = <<>> /\ octets = AfterLine(SubSeq(s, p, g))
<1> DEFINE f == p + e + 1
           l == p + e + taken
<1>1. /\ f \in Int /\ l \in Int /\ 1 <= f /\ l <= Len(s) /\ f <= l + 1 /\ l - f + 1 = taken
      /\ Len(s) \in Nat /\ g \in Int /\ p \in Int /\ p <= g + 1 /\ g <= Len(s) /\ p + e <= g
  BY LenProperties
<1>2. octets = SubSeq(s, f, l)
  BY DEF LiteralTaken
<1>3. octets \in Seq(STRING) /\ Len(octets) = taken
  <2> HIDE DEF f, l
  <2> QED
    BY <1>1, <1>2, Part
<1>4. ASSUME p + e + taken = g PROVE rest = <<>> /\ octets = AfterLine(SubSeq(s, p, g))
  <2>1. g + 1 \in Int /\ g < g + 1
    BY <1>1
  <2>2. SubSeq(s, g + 1, g) = <<>>
    BY <1>1, <2>1, SubSeqEmpty
  <2>3. rest = <<>>
    <3>1. rest = SubSeq(s, p + e + taken + 1, g)
      BY DEF LiteralTaken
    <3>2. p + e + taken + 1 = g + 1
      BY <1>4
    <3> QED
      BY <2>2, <3>1, <3>2
  <2>4. e = LineEnd(SubSeq(s, p, g))
    BY DEF LiteralTaken
  <2>5. AfterLine(SubSeq(s, p, g)) = SubSeq(s, p + e + 1, g)
    <3>1. p \in Int /\ g \in Int /\ 1 <= p /\ p <= g + 1 /\ g <= Len(s)
      BY <1>1
    <3> QED
      BY <2>4, <3>1, LineThere, SMTT(30)
  <2>6. octets = SubSeq(s, p + e + 1, g)
    BY <1>2, <1>4
  <2> QED
    BY <2>3, <2>5, <2>6
<1> QED
  BY <1>3, <1>4

\* Octets of a literal, from the leftover or just read, when got'[c] bytes have
\* been read.
LEMMA LiteralKeeps ==
    ASSUME TypeOK, NEW c \in Conns, NEW s \in Seq(STRING), script[c] = s, script'[c] = s,
           NEW g \in 0 .. Len(s), got'[c] = g,
           NEW p \in 1 .. g + 1, Cut(s, handled[c], p),
           NEW e \in Int, e > 0, NEW line,
           NEW size \in Nat, size = LiteralSize(line), size > 0,
           frame[c].text = SubSeq(line, 1, Len(line) - 1),
           NEW taken \in Nat, NEW missing \in Nat, missing + taken = size, p + e + taken <= g,
           NEW octets, LiteralTaken(s, p, g, e, line, taken, octets, left'[c]),
           need'[c] = missing, missing > 0 => p + e + taken = g,
           HaveOctets(c, octets, missing)
    PROVE  BytesKept(c)'
<1>1. /\ handled[c] \in Seq(Frame) /\ at \in [Conns -> {"none", "greet", "top", "line", "ask", "literal", "close", "closed"}]
      /\ frame \in [Conns -> Frame] /\ handled \in [Conns -> Seq(Frame)]
  BY DEF TypeOK
<1>2. Len(s) \in Nat /\ g \in Nat /\ g <= Len(s) /\ p \in Nat /\ 1 <= p /\ p <= g + 1
  BY LenProperties
<1>3. got'[c] <= Len(script'[c])
  BY <1>2
<1>4. Starts(handled[c], Frames(s))
  BY <1>1, <1>2, CutStarts
<1> DEFINE text == SubSeq(line, 1, Len(line) - 1)
           x == Command(text, octets)
           q == p + e + 1 + size
<1>5. CASE missing = 0
  <2>1. handled'[c] = Append(handled[c], Command(frame[c].text, octets)) /\ frame'[c] = NoFrame /\ at'[c] = "top"
    BY <1>1, <1>5 DEF HaveOctets
  <2>2. taken = size /\ q \in 1 .. g + 1 /\ p + e + taken + 1 = q /\ p + e + size <= g
    BY <1>2, <1>5
  <2>0. /\ e = LineEnd(SubSeq(s, p, g)) /\ line = Line(SubSeq(s, p, g))
        /\ octets = SubSeq(s, p + e + 1, p + e + size) /\ left'[c] = SubSeq(s, q, g)
    BY <2>2 DEF LiteralTaken
  <2>3. LiteralSize(line) > 0 /\ p + e + LiteralSize(line) <= g =>
          Cut(s, Append(handled[c], Command(SubSeq(line, 1, Len(line) - 1),
                                           SubSeq(s, p + e + 1, p + e + LiteralSize(line)))),
              p + e + 1 + LiteralSize(line))
    BY <1>1, <1>2, <2>0, CutLine
  <2>4. Cut(s, handled'[c], q)
    BY <2>0, <2>1, <2>2, <2>3
  <2>5. x \in Frame
    <3>1. octets \in Seq(STRING)
      BY TakenTypes
    <3>2. text \in Seq(STRING)
      BY <1>1 DEF Frame
    <3> HIDE DEF text
    <3> QED
      BY <3>1, <3>2, CommandType
  <2>6. handled'[c] \in Seq(Frame)
    <3>1. handled'[c] = Append(handled[c], x)
      BY <2>1
    <3> HIDE DEF x
    <3> QED
      BY <1>1, <2>5, <3>1
  <2>7. Starts(handled'[c], Frames(s))
    <3> HIDE DEF q
    <3>1. q \in 1 .. Len(s) + 1
      BY <1>2, <2>2
    <3> QED
      BY <2>4, <2>6, <3>1, CutStarts
  <2>8. UnderWay(c, q)'
    <3>1. left'[c] = SubSeq(s, q, g)
      BY <2>0
    <3> HIDE DEF q
    <3>2. BeginsLine(c, SubSeq(s, q, g))'
      BY <2>1, <3>1 DEF BeginsLine
    <3> QED
      BY <3>2 DEF UnderWay
  <2> QED
    <3> HIDE DEF q
    <3> QED
      BY <1>3, <2>2, <2>4, <2>7, <2>8 DEF BytesKept
<1>6. CASE missing > 0
  <2>1. /\ frame'[c] = [frame[c] EXCEPT !.literal = octets]
        /\ handled' = handled /\ at'[c] \in {"close", "literal"}
    BY <1>1, <1>6 DEF HaveOctets
  <2>2. CASE at'[c] = "close"
    BY <1>3, <1>4, <2>1, <2>2 DEF BytesKept
  <2>3. CASE at'[c] = "literal"
    <3>1. frame'[c].text = text /\ frame'[c].literal = octets
      <4>1. frame[c] \in [text : Seq(STRING), literal : Seq(STRING)]
        BY <1>1 DEF Frame
      <4>2. frame'[c].text = frame[c].text /\ frame'[c].literal = octets
        BY <2>1, <4>1
      <4> QED
        BY <4>2
    <3>2. p + e + taken = g
      BY <1>6
    <3>3. left'[c] = <<>> /\ octets = AfterLine(SubSeq(s, p, g)) /\ Len(octets) = taken
      BY <3>2, TakenTypes
    <3>4. LineEnd(SubSeq(s, p, g)) > 0 /\ line = Line(SubSeq(s, p, g))
      BY DEF LiteralTaken
    <3>5. missing = size - taken
      OBVIOUS
    <3>6. UnderWay(c, p)'
      <4>1. BeginsLiteral(c, SubSeq(s, p, g))'
        BY <1>6, <2>3, <3>1, <3>3, <3>4, <3>5 DEF BeginsLiteral
      <4> QED
        BY <4>1 DEF UnderWay
    <3> QED
      BY <1>3, <1>4, <2>1, <3>6 DEF BytesKept
  <2> QED
    BY <2>1, <2>2, <2>3
<1> QED
  BY <1>5, <1>6 DEF HaveOctets

\* Where a connection that is not closing stands.
LEMMA AtPlace ==
    ASSUME TypeOK, NEW c \in Conns, BytesKept(c), at[c] \notin {"close", "closed"}
    PROVE  /\ got[c] \in 0 .. Len(script[c])
           /\ \E p \in 1 .. got[c] + 1 :
                /\ Cut(script[c], handled[c], p)
                /\ SubSeq(script[c], p, got[c]) \in Seq(STRING)
                /\ BeginsLine(c, SubSeq(script[c], p, got[c])) \/ BeginsLiteral(c, SubSeq(script[c], p, got[c]))
<1>1. got[c] \in 0 .. Len(script[c]) /\ got[c] <= Len(script[c]) /\ got[c] \in Nat
  BY ScriptType DEF BytesKept
<1>2. PICK p \in 1 .. got[c] + 1 : Cut(script[c], handled[c], p) /\ UnderWay(c, p)
  BY DEF BytesKept
<1>3. SubSeq(script[c], p, got[c]) \in Seq(STRING)
  BY <1>1, ScriptType, Part
<1> QED
  BY <1>1, <1>2, <1>3 DEF UnderWay

\* The bytes that a read of k brings.
LEMMA ReadBytes ==
    ASSUME NEW s \in Seq(STRING), NEW g \in 0 .. Len(s),
           NEW k \in 1 .. Len(SubSeq(s, g + 1, Len(s)))
    PROVE  /\ k \in Nat \ {0} /\ g + k \in 0 .. Len(s)
           /\ SubSeq(SubSeq(s, g + 1, Len(s)), 1, k) = SubSeq(s, g + 1, g + k)
           /\ \A m \in 1 .. g + 1 : SubSeq(s, m, g) \o SubSeq(s, g + 1, g + k) = SubSeq(s, m, g + k)
<1>1. Len(s) \in Nat /\ g \in Nat /\ g <= Len(s) /\ g + 1 \in Int /\ Len(s) \in Int /\ g + 1 <= Len(s) + 1
  BY LenProperties
<1>2. Len(SubSeq(s, g + 1, Len(s))) = Len(s) - g
  <2> DEFINE f == g + 1
  <2>1. f \in Int /\ 1 <= f /\ f <= Len(s) + 1 /\ Len(s) - f + 1 = Len(s) - g
    BY <1>1
  <2> HIDE DEF f
  <2>2. Len(SubSeq(s, f, Len(s))) = Len(s) - f + 1
    BY <1>1, <2>1, Part
  <2> QED
    BY <2>1, <2>2 DEF f
<1>3. k \in Nat \ {0} /\ k <= Len(s) - g /\ g + k \in 0 .. Len(s)
  BY <1>1, <1>2
<1>4. SubSeq(SubSeq(s, g + 1, Len(s)), 1, k) = SubSeq(s, g + 1, g + k)
  <2> DEFINE f == g + 1
  <2>1. /\ f \in Int /\ 1 <= f /\ f <= Len(s) + 1 /\ 1 \in Int /\ k \in Int
        /\ 1 <= 1 /\ k <= Len(s) - f + 1 /\ 1 <= k + 1 /\ f + 1 - 1 = f /\ f + k - 1 = g + k
    BY <1>1, <1>3
  <2> HIDE DEF f
  <2>2. SubSeq(SubSeq(s, f, Len(s)), 1, k) = SubSeq(s, f + 1 - 1, f + k - 1)
    BY <1>1, <2>1, PartOfPart
  <2> QED
    BY <2>1, <2>2 DEF f
<1>5. ASSUME NEW m \in 1 .. g + 1
      PROVE  SubSeq(s, m, g) \o SubSeq(s, g + 1, g + k) = SubSeq(s, m, g + k)
  <2> DEFINE l == g + k
  <2>1. m \in 1 .. Len(s) + 1 /\ g \in m - 1 .. Len(s) /\ l \in g .. Len(s)
    BY <1>1, <1>3
  <2> HIDE DEF l
  <2>2. SubSeq(s, m, g) \o SubSeq(s, g + 1, l) = SubSeq(s, m, l)
    BY <2>1, ConcatAdjacentSubSeq
  <2> QED
    BY <2>2 DEF l
<1> QED
  BY <1>3, <1>4, <1>5, SMTT(30)

LEMMA TopKeepsBytes ==
    ASSUME TypeOK, NEW c \in Conns, BytesKept(c), Top(c)
    PROVE  BytesKept(c)'
<1>1. /\ at[c] = "top" /\ ReadOn(c, left[c]) /\ script' = script /\ got' = got
  BY DEF Top, clients
<1>2. PICK p \in 1 .. got[c] + 1 :
        /\ Cut(script[c], handled[c], p)
        /\ BeginsLine(c, SubSeq(script[c], p, got[c])) \/ BeginsLiteral(c, SubSeq(script[c], p, got[c]))
  BY <1>1, AtPlace
<1>3. left[c] = SubSeq(script[c], p, got[c]) /\ frame[c] = NoFrame
  BY <1>1, <1>2 DEF BeginsLine, BeginsLiteral
<1>4. got[c] \in 0 .. Len(script[c]) /\ script[c] \in Seq(STRING)
  BY <1>1, AtPlace, ScriptType
<1> QED
  BY <1>1, <1>2, <1>3, <1>4, LineKeeps

LEMMA ReceiveLineKeepsBytes ==
    ASSUME TypeOK, NEW c \in Conns, BytesKept(c), ReceiveLine(c)
    PROVE  BytesKept(c)'
<1> DEFINE s == script[c]
           g == got[c]
<1>1. PICK k \in 1 .. Len(ToCome(c)) :
        /\ ReadOn(c, left[c] \o SubSeq(ToCome(c), 1, k))
        /\ got' = [got EXCEPT ![c] = @ + k]
  BY DEF ReceiveLine
<1>2. at[c] = "line" /\ script' = script
  BY DEF ReceiveLine, clients
<1>3. PICK p \in 1 .. g + 1 :
        /\ Cut(s, handled[c], p)
        /\ BeginsLine(c, SubSeq(s, p, g)) \/ BeginsLiteral(c, SubSeq(s, p, g))
  BY <1>2, AtPlace
<1>4. left[c] = SubSeq(s, p, g) /\ frame[c] = NoFrame
  BY <1>2, <1>3 DEF BeginsLine, BeginsLiteral
<1>5. g \in 0 .. Len(s) /\ s \in Seq(STRING) /\ g \in Nat
  BY <1>2, AtPlace, ScriptType
<1>6. got'[c] = g + k
  BY <1>1 DEF TypeOK
<1>7. ToCome(c) = SubSeq(s, g + 1, Len(s))
  BY DEF ToCome
<1> HIDE DEF s, g
<1>8. /\ k \in Nat \ {0} /\ g + k \in 0 .. Len(s)
      /\ SubSeq(ToCome(c), 1, k) = SubSeq(s, g + 1, g + k)
      /\ SubSeq(s, p, g) \o SubSeq(s, g + 1, g + k) = SubSeq(s, p, g + k)
  BY <1>5, <1>7, ReadBytes
<1>9. ReadOn(c, SubSeq(s, p, g + k))
  BY <1>1, <1>4, <1>8
<1> DEFINE l == g + k
<1>10. l \in 0 .. Len(s) /\ p \in 1 .. l + 1 /\ got'[c] = l /\ script[c] = s /\ script'[c] = s
  BY <1>2, <1>5, <1>6, <1>8 DEF s
<1>11. ReadOn(c, SubSeq(s, p, l))
  BY <1>9
<1> HIDE DEF l
<1> QED
  BY <1>3, <1>4, <1>5, <1>10, <1>11, LineKeeps

\* A connection that has asked for a literal of size octets, after a line at p.
AsksFor(c, s, g, p, e, line, size) ==
  /\ Cut(s, handled[c], p)
  /\ e = LineEnd(SubSeq(s, p, g)) /\ line = Line(SubSeq(s, p, g)) /\ size = LiteralSize(line)
  /\ frame[c].text = SubSeq(line, 1, Len(line) - 1)
  /\ LET octets == SubSeq(s, p + e + 1, g)
     IN \/ at[c] = "ask" /\ left[c] = octets /\ need[c] = size
        \/ /\ at[c] = "literal" /\ left[c] = <<>> /\ frame[c].literal = octets
           /\ need[c] = size - Len(octets) /\ need[c] > 0

LEMMA AtLiteral ==
    ASSUME TypeOK, NEW c \in Conns, BytesKept(c), at[c] \in {"ask", "literal"},
           NEW s, s = script[c], NEW g, g = got[c]
    PROVE  /\ s \in Seq(STRING) /\ Len(s) \in Nat /\ g \in Nat /\ g <= Len(s)
           /\ \E p \in 1 .. g + 1, e \in Nat \ {0}, line \in Seq(STRING), size \in Nat \ {0} :
                p + e <= g /\ AsksFor(c, s, g, p, e, line, size)
<1>1. s \in Seq(STRING) /\ Len(s) \in Nat /\ g \in Nat /\ g \in 0 .. Len(s) /\ g <= Len(s)
  BY AtPlace, ScriptType
<1>2. PICK p \in 1 .. g + 1 :
        /\ Cut(s, handled[c], p)
        /\ BeginsLine(c, SubSeq(s, p, g)) \/ BeginsLiteral(c, SubSeq(s, p, g))
  BY AtPlace
<1> DEFINE buffer == SubSeq(s, p, g)
           e == LineEnd(buffer)
           line == Line(buffer)
           size == LiteralSize(line)
<1>3. BeginsLiteral(c, buffer)
  BY <1>2 DEF BeginsLine
<1>4. e > 0 /\ size > 0
  BY <1>3 DEF BeginsLiteral
<1>5. p \in Int /\ g \in Int /\ 1 <= p /\ p <= g + 1
  BY <1>1
<1>6. e \in Nat \ {0} /\ p + e <= g /\ AfterLine(buffer) = SubSeq(s, p + e + 1, g)
  <2>0. LineEnd(SubSeq(s, p, g)) \in Int
    BY <1>1, <1>4, <1>5, LineInside
  <2>1. e = LineEnd(SubSeq(s, p, g)) /\ e > 0 /\ e \in Int
    BY <1>4, <2>0
  <2> HIDE DEF e
  <2>2. e \in Nat \ {0} /\ p + e <= g /\ AfterLine(SubSeq(s, p, g)) = SubSeq(s, p + e + 1, g)
    BY <1>1, <1>5, <2>1, LineThere, SMTT(30)
  <2> QED
    BY <2>2
<1>8. line \in Seq(STRING)
  <2>1. buffer \in Seq(STRING)
    BY <1>1, <1>5, Part
  <2> HIDE DEF buffer
  <2> QED
    BY <2>1, LineTypes
<1>9. size \in Nat \ {0}
  <2>1. size \in {0, 1, 2}
    BY LiteralSizes
  <2> HIDE DEF size
  <2> QED
    BY <1>4, <2>1
<1>10. /\ frame[c].text = SubSeq(line, 1, Len(line) - 1)
       /\ \/ at[c] = "ask" /\ left[c] = AfterLine(buffer) /\ need[c] = size
          \/ /\ at[c] = "literal" /\ left[c] = <<>> /\ frame[c].literal = AfterLine(buffer)
             /\ need[c] = size - Len(AfterLine(buffer)) /\ need[c] > 0
  BY <1>3 DEF BeginsLiteral
<1>11. /\ e = LineEnd(SubSeq(s, p, g)) /\ line = Line(SubSeq(s, p, g)) /\ size = LiteralSize(line)
  OBVIOUS
<1> HIDE DEF buffer, e, line, size
<1>12. AsksFor(c, s, g, p, e, line, size)
  BY <1>2, <1>6, <1>10, <1>11 DEF AsksFor
<1> QED
  BY <1>1, <1>6, <1>8, <1>9, <1>12

LEMMA AskKeepsBytes ==
    ASSUME TypeOK, NEW c \in Conns, BytesKept(c), Ask(c)
    PROVE  BytesKept(c)'
<1> DEFINE s == script[c]
           g == got[c]
           rest == left[c]
           size == need[c]
           taken == IF size < Len(rest) THEN size ELSE Len(rest)
           missing == size - taken
           octets == SubSeq(rest, 1, taken)
<1>1. /\ at[c] = "ask" /\ script' = script /\ got' = got
      /\ left'[c] = SubSeq(rest, taken + 1, Len(rest)) /\ need'[c] = missing
      /\ HaveOctets(c, octets, missing)
  <2>1. left \in [Conns -> Seq(STRING)] /\ need \in [Conns -> Nat]
    BY DEF TypeOK
  <2>2. /\ at[c] = "ask" /\ script' = script /\ got' = got
        /\ left' = [left EXCEPT ![c] = SubSeq(@, taken + 1, Len(@))]
        /\ need' = [need EXCEPT ![c] = @ - taken]
        /\ HaveOctets(c, octets, missing)
    BY DEF Ask, clients
  <2> HIDE DEF taken, octets
  <2> QED
    BY <2>1, <2>2
<1>2. /\ s \in Seq(STRING) /\ Len(s) \in Nat /\ g \in Nat /\ g <= Len(s)
      /\ \E p \in 1 .. g + 1, e \in Nat \ {0}, line \in Seq(STRING), n \in Nat \ {0} :
           p + e <= g /\ AsksFor(c, s, g, p, e, line, n)
  <2>1. at[c] \in {"ask", "literal"}
    BY <1>1
  <2> QED
    BY <2>1, AtLiteral
<1>3. PICK p \in 1 .. g + 1, e \in Nat \ {0}, line \in Seq(STRING), n \in Nat \ {0} :
        p + e <= g /\ AsksFor(c, s, g, p, e, line, n)
  BY <1>2
<1>4. /\ Cut(s, handled[c], p)
      /\ e = LineEnd(SubSeq(s, p, g)) /\ line = Line(SubSeq(s, p, g)) /\ size = LiteralSize(line)
      /\ frame[c].text = SubSeq(line, 1, Len(line) - 1)
      /\ rest = SubSeq(s, p + e + 1, g) /\ size = n
  BY <1>1, <1>3 DEF AsksFor
<1>5. script[c] = s /\ script'[c] = s /\ got'[c] = g
  BY <1>1
<1> HIDE DEF s, g, rest, size
<1>6. s \in Seq(STRING) /\ Len(s) \in Nat
  BY <1>2
<1>7. /\ g \in Nat /\ g <= Len(s) /\ p \in Nat /\ 1 <= p /\ p <= g + 1 /\ e \in Nat /\ e > 0
      /\ p + e <= g /\ size \in Nat /\ size > 0
  <2>1. g \in Nat /\ g <= Len(s)
    BY <1>2
  <2>2. size = n
    BY <1>4
  <2> QED
    BY <1>3, <2>1, <2>2
<1> DEFINE f == p + e + 1
<1>8. f \in Int /\ 1 <= f /\ f <= g + 1 /\ g - f + 1 = g - p - e /\ g \in Int
  BY <1>7
<1>9. rest = SubSeq(s, f, g)
  BY <1>4
<1>10. Len(rest) = g - p - e
  <2> HIDE DEF f
  <2> QED
    BY <1>6, <1>7, <1>8, <1>9, Part
<1>11. /\ taken \in Nat /\ taken <= size /\ taken <= Len(rest) /\ missing \in Nat /\ missing + taken = size
       /\ p + e + taken <= g
       /\ missing > 0 => p + e + taken = g
  BY <1>7, <1>10
<1>12. octets = SubSeq(rest, 1, taken)
  OBVIOUS
<1> HIDE DEF taken, missing, octets
<1> DEFINE t == taken + 1
           l == g - p - e
<1>13. /\ f + 1 - 1 = p + e + 1 /\ f + taken - 1 = p + e + taken /\ f + t - 1 = p + e + taken + 1
       /\ f + l - 1 = g
       /\ 1 \in Int /\ taken \in Int /\ t \in Int /\ l \in Int /\ 1 <= 1 /\ 1 <= t /\ 1 <= taken + 1 /\ t <= l + 1
       /\ taken <= g - f + 1 /\ l <= g - f + 1
  BY <1>7, <1>10, <1>11
<1>14. left'[c] = SubSeq(rest, t, l)
  BY <1>1, <1>10
<1> HIDE DEF f, t, l
<1>15. octets = SubSeq(s, p + e + 1, p + e + taken)
  <2>1. SubSeq(SubSeq(s, f, g), 1, taken) = SubSeq(s, f + 1 - 1, f + taken - 1)
    BY <1>6, <1>7, <1>8, <1>13, PartOfPart
  <2> QED
    BY <1>9, <1>12, <1>13, <2>1
<1>16. left'[c] = SubSeq(s, p + e + taken + 1, g)
  <2>1. SubSeq(SubSeq(s, f, g), t, l) = SubSeq(s, f + t - 1, f + l - 1)
    BY <1>6, <1>7, <1>8, <1>13, PartOfPart
  <2> QED
    BY <1>9, <1>13, <1>14, <2>1
<1>17. LiteralTaken(s, p, g, e, line, taken, octets, left'[c])
  BY <1>4, <1>15, <1>16 DEF LiteralTaken
<1>18. g \in 0 .. Len(s) /\ p \in 1 .. g + 1 /\ e \in Int
  BY <1>6, <1>7
<1>19. need'[c] = missing /\ HaveOctets(c, octets, missing)
  BY <1>1
<1>20. Cut(s, handled[c], p) /\ size = LiteralSize(line) /\ frame[c].text = SubSeq(line, 1, Len(line) - 1)
  BY <1>4
<1>21. taken \in Nat /\ missing \in Nat
  BY <1>11
<1> QED
  BY <1>5, <1>6, <1>7, <1>11, <1>17, <1>18, <1>19, <1>20, <1>21, LiteralKeeps

LEMMA ReceiveLiteralKeepsBytes ==
    ASSUME TypeOK, NEW c \in Conns, BytesKept(c), ReceiveLiteral(c)
    PROVE  BytesKept(c)'
<1> DEFINE s == script[c]
           old == got[c]
<1>1. PICK k \in 1 .. Len(ToCome(c)) :
        /\ k <= need[c] /\ got'[c] = old + k /\ need'[c] = need[c] - k
        /\ HaveOctets(c, frame[c].literal \o SubSeq(ToCome(c), 1, k), need[c] - k)
  BY DEF ReceiveLiteral, TypeOK
<1>2. at[c] = "literal" /\ script' = script /\ left' = left
  BY DEF ReceiveLiteral, clients
<1>3. /\ s \in Seq(STRING) /\ Len(s) \in Nat /\ old \in Nat /\ old <= Len(s)
      /\ \E p \in 1 .. old + 1, e \in Nat \ {0}, line \in Seq(STRING), size \in Nat \ {0} :
           p + e <= old /\ AsksFor(c, s, old, p, e, line, size)
  <2>1. at[c] \in {"ask", "literal"}
    BY <1>2
  <2> QED
    BY <2>1, AtLiteral
<1>4. PICK p \in 1 .. old + 1, e \in Nat \ {0}, line \in Seq(STRING), size \in Nat \ {0} :
        p + e <= old /\ AsksFor(c, s, old, p, e, line, size)
  BY <1>3
<1>5. /\ Cut(s, handled[c], p)
      /\ e = LineEnd(SubSeq(s, p, old)) /\ line = Line(SubSeq(s, p, old)) /\ size = LiteralSize(line)
      /\ frame[c].text = SubSeq(line, 1, Len(line) - 1)
      /\ left[c] = <<>> /\ frame[c].literal = SubSeq(s, p + e + 1, old)
      /\ need[c] = size - Len(SubSeq(s, p + e + 1, old))
  BY <1>2, <1>4 DEF AsksFor
<1>6. ToCome(c) = SubSeq(s, old + 1, Len(s))
  BY DEF ToCome
<1>7. script[c] = s /\ script'[c] = s /\ left'[c] = <<>>
  BY <1>2, <1>5
<1> HIDE DEF s, old
<1>8. s \in Seq(STRING) /\ Len(s) \in Nat /\ old \in 0 .. Len(s)
  BY <1>3
<1>9. /\ old \in Nat /\ old <= Len(s) /\ p \in Nat /\ 1 <= p /\ p <= old + 1 /\ e \in Nat /\ e > 0
      /\ p + e <= old /\ size \in Nat /\ size > 0
  <2>1. old \in Nat /\ old <= Len(s)
    BY <1>3
  <2> QED
    BY <1>4, <2>1
<1> DEFINE g == old + k
           f == p + e + 1
           taken == old - p - e + k
           missing == need[c] - k
           octets == SubSeq(s, f, g)
<1>10. /\ k \in Nat \ {0} /\ g \in 0 .. Len(s)
       /\ SubSeq(ToCome(c), 1, k) = SubSeq(s, old + 1, g)
       /\ \A m \in 1 .. old + 1 : SubSeq(s, m, old) \o SubSeq(s, old + 1, g) = SubSeq(s, m, g)
  <2>1. k \in 1 .. Len(SubSeq(s, old + 1, Len(s)))
    BY <1>6
  <2>2. /\ k \in Nat \ {0} /\ old + k \in 0 .. Len(s)
        /\ SubSeq(SubSeq(s, old + 1, Len(s)), 1, k) = SubSeq(s, old + 1, old + k)
        /\ \A m \in 1 .. old + 1 : SubSeq(s, m, old) \o SubSeq(s, old + 1, old + k) = SubSeq(s, m, old + k)
    BY <1>8, <2>1, ReadBytes
  <2> QED
    BY <1>6, <2>2
<1>11. f \in 1 .. old + 1 /\ f \in Int /\ 1 <= f /\ f <= old + 1 /\ old - f + 1 = old - p - e /\ old \in Int
  BY <1>9
<1>12. Len(SubSeq(s, f, old)) = old - p - e
  <2> HIDE DEF f
  <2> QED
    BY <1>8, <1>9, <1>11, Part
<1>13. need[c] = size - (old - p - e) /\ frame[c].literal \o SubSeq(ToCome(c), 1, k) = octets
  <2>1. SubSeq(s, f, old) \o SubSeq(s, old + 1, g) = SubSeq(s, f, g)
    BY <1>10, <1>11
  <2>2. frame[c].literal = SubSeq(s, f, old) /\ need[c] = size - Len(SubSeq(s, f, old))
    BY <1>5
  <2>3. SubSeq(ToCome(c), 1, k) = SubSeq(s, old + 1, g)
    BY <1>10
  <2> HIDE DEF f, g
  <2> QED
    BY <1>12, <2>1, <2>2, <2>3
<1>14. k \in Nat /\ k > 0 /\ k <= need[c] /\ need[c] = size - (old - p - e) /\ g \in Nat /\ g <= Len(s)
  <2>1. k \in Nat \ {0} /\ g \in 0 .. Len(s)
    BY <1>10
  <2>2. need[c] = size - (old - p - e)
    BY <1>13
  <2> QED
    BY <1>1, <1>8, <2>1, <2>2
<1>15. /\ taken \in Nat /\ missing \in Nat /\ missing + taken = size /\ p + e + taken = g
       /\ e \in Int /\ p \in 1 .. g + 1 /\ p + e + taken <= g /\ p + e + taken + 1 = g + 1
  BY <1>9, <1>14
<1>16. e = LineEnd(SubSeq(s, p, g)) /\ line = Line(SubSeq(s, p, g))
  <2>1. p \in Int /\ old \in Int /\ g \in Int /\ 1 <= p /\ p <= old + 1 /\ old <= g /\ g <= Len(s)
    BY <1>9, <1>14
  <2>2. e = LineEnd(SubSeq(s, p, old)) /\ line = Line(SubSeq(s, p, old))
    BY <1>5
  <2>3. LineEnd(SubSeq(s, p, old)) > 0
    BY <1>9, <2>2
  <2>4. s \in Seq(STRING)
    BY <1>8
  <2> HIDE DEF g
  <2> QED
    BY <2>1, <2>2, <2>3, <2>4, MoreThere
<1>17. LiteralTaken(s, p, g, e, line, taken, octets, left'[c])
  <2>1. SubSeq(s, g + 1, g) = <<>>
    <3>1. g + 1 \in Int /\ g \in Int /\ g < g + 1
      BY <1>14
    <3> HIDE DEF g
    <3> QED
      BY <3>1, SubSeqEmpty
  <2>2. f = p + e + 1 /\ p + e + taken = g /\ p + e + taken + 1 = g + 1
    BY <1>15
  <2>3. octets = SubSeq(s, f, g)
    OBVIOUS
  <2> HIDE DEF f, g, taken, octets
  <2> QED
    BY <1>7, <1>16, <2>1, <2>2, <2>3 DEF LiteralTaken
<1>18. got'[c] = g /\ need'[c] = missing /\ HaveOctets(c, octets, missing)
  <2>1. frame[c].literal \o SubSeq(ToCome(c), 1, k) = octets
    BY <1>13
  <2> HIDE DEF octets
  <2> QED
    BY <1>1, <2>1
<1>19. Cut(s, handled[c], p) /\ size = LiteralSize(line) /\ frame[c].text = SubSeq(line, 1, Len(line) - 1)
  BY <1>5
<1>20. g \in 0 .. Len(s)
  BY <1>10
<1> HIDE DEF g, f, taken, missing, octets
<1> QED
  BY <1>7, <1>8, <1>9, <1>15, <1>17, <1>18, <1>19, <1>20, LiteralKeeps

-----------------------------------------------------------------------------
(***************************************************************************)
(* Every step of the server.                                               *)
(***************************************************************************)

\* The state of a connection that its place in the script depends on.
Still(c) ==
  /\ script'[c] = script[c] /\ got'[c] = got[c] /\ left'[c] = left[c] /\ need'[c] = need[c]
  /\ frame'[c] = frame[c] /\ handled'[c] = handled[c]

LEMMA ReadOnElsewhere ==
    ASSUME TypeOK, NEW c \in Conns, NEW buffer, ReadOn(c, buffer), NEW d \in Conns, d # c
    PROVE  /\ left'[d] = left[d] /\ need'[d] = need[d] /\ frame'[d] = frame[d]
           /\ handled'[d] = handled[d] /\ at'[d] = at[d]
<1>1. /\ DOMAIN left = Conns /\ DOMAIN need = Conns /\ DOMAIN frame = Conns /\ DOMAIN handled = Conns
      /\ DOMAIN at = Conns
  BY DEF TypeOK
<1>2. \E l, n, f, h, a :
        /\ left' = [left EXCEPT ![c] = l]
        /\ need' = need \/ need' = [need EXCEPT ![c] = n]
        /\ frame' = frame \/ frame' = [frame EXCEPT ![c] = f]
        /\ handled' = handled \/ handled' = [handled EXCEPT ![c] = h]
        /\ at' = [at EXCEPT ![c] = a]
  BY DEF ReadOn, HandleLine
<1> QED
  BY <1>1, <1>2

LEMMA HaveOctetsElsewhere ==
    ASSUME TypeOK, NEW c \in Conns, NEW octets, NEW missing, HaveOctets(c, octets, missing),
           NEW d \in Conns, d # c
    PROVE  frame'[d] = frame[d] /\ handled'[d] = handled[d] /\ at'[d] = at[d]
<1>1. DOMAIN frame = Conns /\ DOMAIN handled = Conns /\ DOMAIN at = Conns
  BY DEF TypeOK
<1>2. \E f, h, a :
        /\ frame' = [frame EXCEPT ![c] = f]
        /\ handled' = handled \/ handled' = [handled EXCEPT ![c] = h]
        /\ at' = [at EXCEPT ![c] = a]
  BY DEF HaveOctets
<1> QED
  BY <1>1, <1>2

LEMMA OthersStill ==
    ASSUME TypeOK, NEW c \in Conns, Receive(c) \/ Run(c), NEW d \in Conns, d # c
    PROVE  Still(d) /\ at'[d] = at[d]
<1>1. /\ DOMAIN left = Conns /\ DOMAIN need = Conns /\ DOMAIN got = Conns /\ DOMAIN at = Conns
  BY DEF TypeOK
<1>2. script' = script
  BY DEF Receive, ReceiveLine, ReceiveLiteral, Run, Greet, Top, Leave, Ask, EndOfInput, Close, clients
<1>3. CASE Greet(c) \/ Leave(c) \/ EndOfInput(c) \/ Close(c)
  <2>1. \E a : at' = [at EXCEPT ![c] = a]
    BY <1>3 DEF Greet, Leave, EndOfInput, Close
  <2>2. UNCHANGED wire
    BY <1>3 DEF Greet, Leave, EndOfInput, Close
  <2> QED
    BY <1>1, <1>2, <2>1, <2>2 DEF Still, wire
<1>4. CASE Top(c)
  <2>1. ReadOn(c, left[c]) /\ got' = got
    BY <1>4 DEF Top
  <2> QED
    BY <1>2, <2>1, ReadOnElsewhere DEF Still
<1>5. CASE ReceiveLine(c)
  <2>1. PICK k : /\ ReadOn(c, left[c] \o SubSeq(ToCome(c), 1, k))
                 /\ got' = [got EXCEPT ![c] = @ + k]
    BY <1>5 DEF ReceiveLine
  <2>2. got'[d] = got[d]
    BY <1>1, <2>1
  <2> QED
    BY <1>2, <2>1, <2>2, ReadOnElsewhere DEF Still
<1>6. CASE Ask(c)
  <2>1. \E l, n, o, m :
          /\ left' = [left EXCEPT ![c] = l] /\ need' = [need EXCEPT ![c] = n] /\ got' = got
          /\ HaveOctets(c, o, m)
    BY <1>6 DEF Ask
  <2> QED
    BY <1>1, <1>2, <2>1, HaveOctetsElsewhere DEF Still
<1>7. CASE ReceiveLiteral(c)
  <2>1. \E g, n, o, m :
          /\ got' = [got EXCEPT ![c] = g] /\ need' = [need EXCEPT ![c] = n] /\ left' = left
          /\ HaveOctets(c, o, m)
    BY <1>7 DEF ReceiveLiteral
  <2> QED
    BY <1>1, <1>2, <2>1, HaveOctetsElsewhere DEF Still
<1> QED
  BY <1>3, <1>4, <1>5, <1>6, <1>7 DEF Receive, Run

LEMMA MovedKeeps ==
    ASSUME TypeOK, NEW c \in Conns, BytesKept(c), Still(c),
           \/ at'[c] = at[c]
           \/ at[c] \in {"none", "greet"} /\ at'[c] \in {"greet", "top"}
           \/ at'[c] \in {"close", "closed"}
    PROVE  BytesKept(c)'
BY UntouchedKeeps DEF Still

LEMMA InitNoByteLost == Init => NoByteLost
<1> SUFFICES ASSUME Init, NEW c \in Conns PROVE BytesKept(c)
  BY DEF NoByteLost
<1>1. TypeOK
  BY InitIndInv DEF IndInv
<1>2. /\ got[c] = 0 /\ left[c] = <<>> /\ frame[c] = NoFrame /\ handled[c] = <<>> /\ at[c] = "none"
  BY DEF Init
<1>3. script[c] \in Seq(STRING) /\ Len(script[c]) \in Nat
  BY <1>1, ScriptType
<1>4. Cut(script[c], <<>>, 1) /\ Starts(<<>>, Frames(script[c]))
  BY <1>3, CutStart
<1>5. SubSeq(script[c], 1, 0) = <<>>
  BY SubSeqEmpty
<1>6. UnderWay(c, 1)
  BY <1>2, <1>5 DEF UnderWay, BeginsLine
<1>7. 1 \in 1 .. got[c] + 1 /\ got[c] <= Len(script[c])
  BY <1>2, <1>3
<1> QED
  BY <1>2, <1>4, <1>6, <1>7 DEF BytesKept

LEMMA NextKeepsBytes ==
    ASSUME IndInv, NoByteLost, [Next]_vars
    PROVE  NoByteLost'
<1> SUFFICES ASSUME NEW d \in Conns PROVE BytesKept(d)'
  BY DEF NoByteLost
<1>1. TypeOK /\ BytesKept(d)
  BY DEF IndInv, NoByteLost
<1>2. ASSUME NEW c \in Conns, Receive(c) \/ Run(c) PROVE BytesKept(d)'
  <2>1. CASE c # d
    BY <1>1, <1>2, <2>1, OthersStill, MovedKeeps
  <2>2. CASE c = d
    <3>1. CASE Greet(d) \/ Leave(d) \/ EndOfInput(d) \/ Close(d)
      <4>1. Still(d)
        BY <3>1 DEF Greet, Leave, EndOfInput, Close, Still, wire, clients
      <4>2. (at[d] = "greet" /\ at'[d] = "top") \/ at'[d] \in {"close", "closed"}
        BY <1>1, <3>1 DEF Greet, Leave, EndOfInput, Close, TypeOK
      <4> QED
        BY <1>1, <4>1, <4>2, MovedKeeps
    <3> QED
      BY <1>1, <1>2, <2>2, <3>1, TopKeepsBytes, AskKeepsBytes, ReceiveLineKeepsBytes,
         ReceiveLiteralKeepsBytes DEF Receive, Run
  <2> QED
    BY <2>1, <2>2
<1>3. CASE Serve
  <2>1. Still(d)
    BY <1>3 DEF Serve, Still, wire, clients
  <2>2. \/ at'[d] = at[d]
        \/ at[d] = "none" /\ at'[d] = "greet"
        \/ at'[d] = "closed"
    <3>1. /\ DOMAIN at = Conns /\ accepted \in Conns /\ at[accepted] = "none"
      BY <1>1, <1>3 DEF Serve, IndInv, FreshConns, TypeOK
    <3>2. at' = [at EXCEPT ![accepted] = "greet"] \/ at' = [at EXCEPT ![accepted] = "closed"]
      BY <1>3 DEF Serve
    <3> QED
      BY <3>1, <3>2
  <2> QED
    BY <1>1, <2>1, <2>2, MovedKeeps
<1>4. CASE \/ \E c \in Conns : HangUp(c) \/ AcceptReady(c)
           \/ AcceptFails \/ Stop \/ Stopped \/ UNCHANGED vars
  <2>1. Still(d) /\ at' = at
    BY <1>4 DEF HangUp, AcceptReady, AcceptFails, Stop, Stopped, Still, wire, clients, vars
  <2> QED
    BY <1>1, <2>1, MovedKeeps
<1> QED
  BY <1>2, <1>3, <1>4 DEF Next, AcceptLoop

\* What a connection that waits for bytes has handled is all that is complete.
LEMMA WaitingIsUpToDate ==
    ASSUME TypeOK, NEW c \in Conns, BytesKept(c), at[c] \in {"line", "literal"}
    PROVE  handled[c] = Frames(SubSeq(script[c], 1, got[c]))
<1> DEFINE s == script[c]
           g == got[c]
           sent == SubSeq(s, 1, g)
<1>1. s \in Seq(STRING) /\ handled[c] \in Seq(Frame) /\ g \in 0 .. Len(s) /\ g \in Nat /\ Len(s) \in Nat
  BY ScriptType, AtPlace
<1>2. ASSUME NEW p \in 1 .. g + 1, Cut(s, handled[c], p), Parse(sent)[p] = <<>>
      PROVE  handled[c] = Frames(sent)
  <2>1. g \in p - 1 .. Len(s)
    BY <1>1, <1>2
  <2>2. Frames(sent) = handled[c] \o Parse(sent)[p]
    BY <1>2, <2>1 DEF Cut
  <2>3. handled[c] \o <<>> = handled[c]
    BY <1>1
  <2> QED
    BY <1>2, <2>2, <2>3
<1>3. CASE at[c] = "line"
  <2>1. PICK p \in 1 .. g + 1 :
          /\ Cut(s, handled[c], p)
          /\ BeginsLine(c, SubSeq(s, p, g)) \/ BeginsLiteral(c, SubSeq(s, p, g))
    BY AtPlace
  <2>2. LineEnd(SubSeq(s, p, g)) = 0
    BY <1>3, <2>1 DEF BeginsLine, BeginsLiteral
  <2> HIDE DEF s, g
  <2>3. Parse(sent)[p] = <<>>
    BY <1>1, <2>2, ParseSent
  <2>4. handled[c] = Frames(sent)
    BY <1>2, <2>1, <2>3
  <2> QED
    BY <2>4 DEF s, g
<1>4. CASE at[c] = "literal"
  <2>1. PICK p \in 1 .. g + 1, e \in Nat \ {0}, line \in Seq(STRING), size \in Nat \ {0} :
          p + e <= g /\ AsksFor(c, s, g, p, e, line, size)
    BY <1>4, AtLiteral
  <2> HIDE DEF s, g
  <2>2. /\ Cut(s, handled[c], p)
        /\ e = LineEnd(SubSeq(s, p, g)) /\ line = Line(SubSeq(s, p, g)) /\ size = LiteralSize(line)
        /\ size - Len(SubSeq(s, p + e + 1, g)) > 0
    BY <1>4, <2>1 DEF AsksFor
  <2> DEFINE f == p + e + 1
  <2>3. /\ f \in Int /\ g \in Int /\ 1 <= f /\ f <= g + 1 /\ g <= Len(s) /\ g - f + 1 = g - p - e
        /\ size \in Nat /\ size # 0 /\ e # 0 /\ p \in Nat /\ e \in Nat
    BY <1>1, <2>1
  <2>4. Len(SubSeq(s, f, g)) = g - p - e
    <3> HIDE DEF f
    <3> QED
      BY <1>1, <2>3, Part
  <2>5. p + e + 1 + size - 1 > g
    <3>1. size - (g - p - e) > 0
      BY <2>2, <2>4
    <3> HIDE DEF f
    <3> QED
      BY <2>3, <3>1
  <2>6. LineEnd(SubSeq(s, p, g)) # 0 /\ LiteralSize(Line(SubSeq(s, p, g))) # 0
        /\ p + LineEnd(SubSeq(s, p, g)) + 1 + LiteralSize(Line(SubSeq(s, p, g))) - 1 > g
    BY <2>2, <2>3, <2>5
  <2>7. Parse(sent)[p] = <<>>
    <3>1. /\ LineEnd(SubSeq(s, p, g)) # 0
          /\ LiteralSize(Line(SubSeq(s, p, g))) # 0
          /\ p + LineEnd(SubSeq(s, p, g)) + 1 + LiteralSize(Line(SubSeq(s, p, g))) - 1 > g
          => Parse(sent)[p] = <<>>
      BY <1>1, ParseSent
    <3> QED
      BY <2>6, <3>1
  <2>8. handled[c] = Frames(sent)
    BY <1>2, <2>2, <2>7
  <2> QED
    BY <2>8 DEF s, g
<1> QED
  BY <1>3, <1>4

-----------------------------------------------------------------------------
\* No byte of a client is lost, taken twice or out of turn on its way into the
\* commands (connection.cc:121-163, 188-212, 225-247).
THEOREM BytesAreKept == Spec => []NoByteLost
<1>1. Init => NoByteLost
  BY InitNoByteLost
<1>2. IndInv /\ NoByteLost /\ [Next]_vars => NoByteLost'
  BY NextKeepsBytes
<1> QED
  BY <1>1, <1>2, Invariance, PTL DEF Spec

\* The commands handled are those of the byte stream, however it is cut into
\* reads, and a connection that waits has handled all that is complete
\* (connection.cc:121-163, 225-235).
THEOREM FramesStable == Spec => []FramesAreStable
<1>1. TypeOK /\ NoByteLost => FramesAreStable
  <2> SUFFICES ASSUME TypeOK, NoByteLost, NEW c \in Conns
               PROVE  /\ Starts(handled[c], Frames(script[c]))
                      /\ at[c] \in {"line", "literal"} =>
                           handled[c] = Frames(SubSeq(script[c], 1, got[c]))
    BY DEF FramesAreStable
  <2>1. BytesKept(c)
    BY DEF NoByteLost
  <2>2. Starts(handled[c], Frames(script[c]))
    BY <2>1 DEF BytesKept
  <2> QED
    BY <2>1, <2>2, WaitingIsUpToDate
<1> QED
  BY <1>1, TypeCorrect, BytesAreKept, PTL

-----------------------------------------------------------------------------
(***************************************************************************)
(* The server implements ServiceContract.                                  *)
(***************************************************************************)

\* What stop() sets agrees, and after LOGOUT nothing is read.
PhaseAgrees == /\ gate.closed <=> stop # "no"
               /\ abort <=> stop # "no"
LogoutIsLast == \A c \in Conns : LoggedOut(c) => at[c] \in {"top", "close", "closed"}
PromiseInv == IndInv /\ NoByteLost /\ PhaseAgrees /\ LogoutIsLast

\* The step of a connection before its end: as Advance has it, and it greets
\* first and does not go on after LOGOUT.
GoesOn(c) ==
  /\ Advance(c)
  /\ at[c] = "greet" => at'[c] \in {"top", "close"} /\ handled' = handled
  /\ at[c] = "top" /\ LoggedOut(c) => at'[c] = "close" /\ handled' = handled

LEMMA RunGoesOn ==
    ASSUME IndInv, NEW c \in Conns, Receive(c) \/ Run(c)
    PROVE  Close(c) \/ GoesOn(c)
<1>1. at \in [Conns -> {"none", "greet", "top", "line", "ask", "literal", "close", "closed"}]
  BY DEF IndInv, TypeOK
<1>2. CASE ReceiveLine(c) \/ ReceiveLiteral(c) \/ Ask(c) \/ EndOfInput(c)
  <2>1. at[c] \notin {"greet", "top"}
    BY <1>2 DEF ReceiveLine, ReceiveLiteral, Ask, EndOfInput
  <2>2. Advance(c)
    BY <1>2, ReceiveLineStep, ReceiveLiteralStep, AskStep, EndOfInputStep
  <2> QED
    BY <2>1, <2>2 DEF GoesOn
<1>3. CASE Greet(c)
  <2>1. at[c] = "greet" /\ at'[c] \in {"top", "close"} /\ handled' = handled
    BY <1>1, <1>3 DEF Greet, wire
  <2> QED
    BY <1>3, <2>1, GreetStep DEF GoesOn
<1>4. CASE Top(c)
  <2>1. at[c] = "top" /\ ~LoggedOut(c)
    BY <1>4 DEF Top
  <2> QED
    BY <1>4, <2>1, TopStep DEF GoesOn
<1>5. CASE Leave(c)
  <2>1. at[c] # "greet" /\ at'[c] = "close" /\ handled' = handled
    BY <1>1, <1>5 DEF Leave, wire
  <2> QED
    BY <1>5, <2>1, LeaveStep DEF GoesOn
<1> QED
  BY <1>2, <1>3, <1>4, <1>5 DEF Receive, Run

LEMMA NextKeepsPromise ==
    ASSUME PromiseInv, [Next]_vars
    PROVE  PromiseInv'
<1>1. IndInv' /\ NoByteLost'
  BY NextKeeps, NextKeepsBytes DEF PromiseInv
<1>2. /\ gate \in [count : Nat, closed : BOOLEAN]
      /\ at \in [Conns -> {"none", "greet", "top", "line", "ask", "literal", "close", "closed"}]
      /\ accepted # NoConn => accepted \in Conns /\ at[accepted] = "none"
  BY DEF PromiseInv, IndInv, TypeOK, FreshConns
<1>3. ASSUME NEW c \in Conns, GoesOn(c) PROVE PhaseAgrees' /\ LogoutIsLast'
  <2>1. PhaseAgrees'
    BY <1>3 DEF GoesOn, Advance, server, PromiseInv, PhaseAgrees
  <2>2. PICK p \in AtWork : at' = [at EXCEPT ![c] = p] /\ (handled' = handled \/ p = "top")
    BY <1>3 DEF GoesOn, Advance
  <2>3. ASSUME NEW d \in Conns, LoggedOut(d)' PROVE at'[d] \in {"top", "close", "closed"}
    <3>1. CASE d # c
      <4>1. handled'[d] = handled[d] /\ at'[d] = at[d]
        BY <1>2, <1>3, <2>2, <3>1 DEF GoesOn, Advance
      <4>2. LoggedOut(d)
        BY <2>3, <4>1 DEF LoggedOut
      <4> QED
        BY <4>1, <4>2 DEF PromiseInv, LogoutIsLast
    <3>2. CASE d = c /\ handled' = handled
      <4>1. LoggedOut(c)
        BY <2>3, <3>2 DEF LoggedOut
      <4>2. at[c] = "top"
        BY <1>3, <4>1 DEF PromiseInv, LogoutIsLast, GoesOn, Advance, AtWork
      <4> QED
        BY <1>3, <3>2, <4>1, <4>2 DEF GoesOn
    <3>3. CASE d = c /\ p = "top"
      BY <1>2, <2>2, <3>3
    <3> QED
      BY <2>2, <3>1, <3>2, <3>3
  <2> QED
    BY <2>1, <2>3 DEF LogoutIsLast
<1>4. ASSUME handled' = handled, NEW d \in Conns,
             \/ at' = [at EXCEPT ![d] = "closed"]
             \/ at[d] = "none" /\ at' = [at EXCEPT ![d] = "greet"]
      PROVE  LogoutIsLast'
  <2> SUFFICES ASSUME NEW c \in Conns, LoggedOut(c)' PROVE at'[c] \in {"top", "close", "closed"}
    BY DEF LogoutIsLast
  <2>1. LoggedOut(c)
    BY <1>4 DEF LoggedOut
  <2>2. at[c] \in {"top", "close", "closed"}
    BY <2>1 DEF PromiseInv, LogoutIsLast
  <2> QED
    BY <1>2, <1>4, <2>2
<1>5. ASSUME NEW c \in Conns, Close(c) PROVE PhaseAgrees' /\ LogoutIsLast'
  <2>1. PhaseAgrees'
    <3>1. gate'.closed = gate.closed /\ stop' = stop /\ abort' = abort
      BY <1>2, <1>5 DEF Close, Leaves
    <3> QED
      BY <3>1 DEF PromiseInv, PhaseAgrees
  <2> QED
    BY <1>4, <1>5, <2>1 DEF Close, wire
<1>6. ASSUME Serve PROVE PhaseAgrees' /\ LogoutIsLast'
  <2>1. PhaseAgrees'
    <3>1. gate'.closed = gate.closed /\ stop' = stop /\ abort' = abort
      BY <1>2, <1>6 DEF Serve, Leaves
    <3> QED
      BY <3>1 DEF PromiseInv, PhaseAgrees
  <2> QED
    BY <1>2, <1>4, <1>6, <2>1 DEF Serve, wire
<1>7. ASSUME \/ \E c \in Conns : HangUp(c) \/ AcceptReady(c)
             \/ AcceptFails \/ Stop \/ Stopped \/ UNCHANGED vars
      PROVE  PhaseAgrees' /\ LogoutIsLast'
  <2>1. at' = at /\ handled' = handled
    BY <1>7 DEF HangUp, AcceptReady, AcceptFails, Stop, Stopped, wire, vars
  <2>2. LogoutIsLast'
    BY <2>1 DEF PromiseInv, LogoutIsLast, LoggedOut
  <2>3. PhaseAgrees'
    <3>1. CASE Stop \/ Stopped
      BY <1>2, <3>1 DEF Stop, Stopped, PromiseInv, PhaseAgrees
    <3>2. CASE \/ \E c \in Conns : HangUp(c) \/ AcceptReady(c)
               \/ AcceptFails \/ UNCHANGED vars
      <4>1. gate'.closed = gate.closed /\ stop' = stop /\ abort' = abort
        BY <1>2, <3>2 DEF HangUp, AcceptReady, AcceptFails, Leaves, server, vars
      <4> QED
        BY <4>1 DEF PromiseInv, PhaseAgrees
    <3> QED
      BY <1>7, <3>1, <3>2
  <2> QED
    BY <2>2, <2>3
<1>8. PhaseAgrees' /\ LogoutIsLast'
  BY <1>3, <1>5, <1>6, <1>7, RunGoesOn DEF PromiseInv, Next, AcceptLoop
<1> QED
  BY <1>1, <1>8 DEF PromiseInv

\* The contract's view of a step that leaves a connection's place alone.
Unseen == UNCHANGED <<script, handled, Session, Phase, Finishing>>
Serves == Service!Next \/ Unseen

\* A beginning that grows by one, grows by the next one.
LEMMA OneMore ==
    ASSUME NEW S, NEW s \in Seq(S), NEW h \in Seq(S), NEW k \in Seq(S),
           Starts(h, s), Starts(k, s), Len(k) = Len(h) + 1
    PROVE  Len(h) < Len(s) /\ k = Append(h, s[Len(h) + 1])
<1>1. Len(h) \in Nat /\ Len(s) \in Nat /\ Len(h) < Len(s)
  BY LenProperties DEF Starts
<1>2. /\ \A i \in 1 .. Len(h) : h[i] = s[i]
      /\ \A i \in 1 .. Len(k) : k[i] = s[i]
  BY <1>1, SubSeqProperties DEF Starts
<1>3. s[Len(h) + 1] \in S
  BY <1>1
<1>4. /\ Append(h, s[Len(h) + 1]) \in Seq(S) /\ Len(Append(h, s[Len(h) + 1])) = Len(h) + 1
      /\ \A i \in 1 .. Len(h) : Append(h, s[Len(h) + 1])[i] = h[i]
      /\ Append(h, s[Len(h) + 1])[Len(h) + 1] = s[Len(h) + 1]
  BY <1>3, AppendProperties
<1> DEFINE g == Append(h, s[Len(h) + 1])
<1>5. g \in Seq(S) /\ Len(k) = Len(g) /\ \A i \in 1 .. Len(k) : k[i] = g[i]
  BY <1>1, <1>2, <1>4
<1>6. k = g
  <2> HIDE DEF g
  <2> QED
    BY <1>5, SameSeq
<1> QED
  BY <1>1, <1>6

\* What a step does to a connection, as the contract sees it.
Shown(p) == IF p = "none" THEN "none" ELSE IF p = "closed" THEN "over" ELSE "open"

LEMMA SessionMoves ==
    ASSUME TypeOK, NEW c \in Conns, NEW p, at' = [at EXCEPT ![c] = p]
    PROVE  Session' = [Session EXCEPT ![c] = Shown(p)] /\ Session[c] = Shown(at[c])
<1>1. \A d \in Conns : at'[d] = IF d = c THEN p ELSE at[d]
  BY DEF TypeOK
<1>2. Session = [d \in Conns |-> Shown(at[d])] /\ Session' = [d \in Conns |-> Shown(at'[d])]
  BY DEF Session, Shown
<1> QED
  BY <1>1, <1>2

LEMMA FinishingMoves ==
    ASSUME TypeOK, NEW c \in Conns, NEW p, at' = [at EXCEPT ![c] = p], abort' = abort
    PROVE  /\ p \notin {"line", "ask", "literal"} => Finishing' = Finishing \ {c}
           /\ Finishing' \in {Finishing, Finishing \cup {c}, Finishing \ {c}}
           /\ c \in Finishing' => abort /\ p \in {"line", "ask", "literal"}
<1>1. \A d \in Conns : at'[d] = IF d = c THEN p ELSE at[d]
  BY DEF TypeOK
<1>2. \A d : d \in Finishing <=> d \in Conns /\ abort /\ at[d] \in {"line", "ask", "literal"}
  BY DEF Finishing
<1>3. \A d : d \in Finishing' <=> d \in Conns /\ abort /\ at'[d] \in {"line", "ask", "literal"}
  BY DEF Finishing
<1>4. \A d : d # c => (d \in Finishing' <=> d \in Finishing)
  BY <1>1, <1>2, <1>3
<1>5. c \in Finishing' <=> abort /\ p \in {"line", "ask", "literal"}
  BY <1>1, <1>3
<1> QED
  BY <1>4, <1>5

LEMMA GoesOnServes ==
    ASSUME PromiseInv, NoByteLost', NEW c \in Conns, GoesOn(c)
    PROVE  Serves
<1>1. TypeOK /\ at[c] \in AtWork \ {"close"}
  BY DEF PromiseInv, IndInv, GoesOn, Advance
<1>2. UNCHANGED <<script, stop, abort, Phase>>
  BY DEF GoesOn, Advance, clients, server, Phase
<1>3. PICK p \in AtWork :
        /\ at' = [at EXCEPT ![c] = p]
        /\ \/ handled' = handled
           \/ p = "top" /\ Len(handled'[c]) = Len(handled[c]) + 1 /\ (abort => at[c] # "top")
        /\ abort /\ at[c] = "top" => p = "close"
  BY DEF GoesOn, Advance
<1>4. Session[c] = "open" /\ Session' = Session
  <2>1. Session[c] = "open" /\ Session' = [Session EXCEPT ![c] = "open"]
    BY <1>1, <1>3, SessionMoves DEF AtWork, Shown
  <2> QED
    BY <2>1 DEF Session
<1>5. Finishing' = Finishing \/ (c \in Finishing /\ Finishing' = Finishing \ {c})
  <2>1. ASSUME abort, p \in {"line", "ask", "literal"} PROVE c \in Finishing
    <3>1. at[c] # "greet" /\ at[c] # "top"
      BY <1>1, <1>3, <2>1 DEF GoesOn, TypeOK
    <3> QED
      BY <1>1, <2>1, <3>1 DEF AtWork, Finishing
  <2>2. /\ Finishing' \in {Finishing, Finishing \cup {c}, Finishing \ {c}}
        /\ c \in Finishing' => abort /\ p \in {"line", "ask", "literal"}
    BY <1>1, <1>2, <1>3, FinishingMoves
  <2> QED
    BY <2>1, <2>2
<1>6. CASE handled' = handled
  <2>1. CASE Finishing' = Finishing
    BY <1>2, <1>4, <1>6, <2>1 DEF Serves, Unseen
  <2>2. CASE c \in Finishing /\ Finishing' = Finishing \ {c}
    <3>1. Service!Forgo(c)
      BY <1>2, <1>4, <1>6, <2>2 DEF Service!Forgo
    <3> QED
      BY <3>1 DEF Serves, Service!Next
  <2> QED
    BY <1>5, <2>1, <2>2
<1>7. CASE /\ handled' # handled /\ p = "top" /\ Len(handled'[c]) = Len(handled[c]) + 1
           /\ abort => at[c] # "top"
  <2>1. handled \in [Conns -> Seq(Frame)] /\ handled' \in [Conns -> Seq(Frame)]
        /\ \A d \in Conns \ {c} : handled'[d] = handled[d]
    BY <1>1 DEF TypeOK, GoesOn, Advance, WireTypes
  <2>2. Frames(script[c]) \in Seq(Frame)
    <3>1. script[c] \in Seq(STRING) /\ 1 \in 1 .. Len(script[c]) + 1
      BY <1>1, ScriptType
    <3> QED
      BY <3>1, ParseType DEF Frames
  <2>3. Starts(handled[c], Frames(script[c])) /\ Starts(handled'[c], Frames(script[c]))
    BY <1>2 DEF PromiseInv, NoByteLost, BytesKept
  <2>4. /\ Len(handled[c]) < Len(Frames(script[c]))
        /\ handled'[c] = Append(handled[c], Frames(script[c])[Len(handled[c]) + 1])
    BY <1>7, <2>1, <2>2, <2>3, OneMore
  <2>5. handled' = [handled EXCEPT ![c] = Append(@, Frames(script[c])[Len(@) + 1])]
    BY <2>1, <2>4
  <2>6. handled'[c] # handled[c]
    BY <1>7, <2>1
  <2>7. ~LoggedOut(c)
    BY <1>1, <1>7 DEF PromiseInv, LogoutIsLast, GoesOn, AtWork
  <2>8. at[c] \in {"top", "line", "ask", "literal"}
    BY <1>1, <1>7 DEF GoesOn, AtWork
  <2>9. Phase = "serving" \/ c \in Finishing
    <3>1. CASE abort
      BY <1>7, <2>8, <3>1 DEF Finishing
    <3>2. CASE ~abort
      BY <3>2 DEF PromiseInv, PhaseAgrees, Phase
    <3> QED
      BY <3>1, <3>2
  <2>10. Finishing' = Finishing \ {c}
    BY <1>1, <1>2, <1>3, <1>7, FinishingMoves
  <2>11. Service!CarryOut(c)
    BY <1>2, <1>4, <2>4, <2>5, <2>6, <2>7, <2>9, <2>10 DEF Service!CarryOut, Service!Ended, LoggedOut
  <2> QED
    BY <2>11 DEF Serves, Service!Next
<1> QED
  BY <1>3, <1>6, <1>7

LEMMA ServeServes ==
    ASSUME PromiseInv, Serve
    PROVE  Serves
<1>1. /\ TypeOK /\ accepted \in Conns /\ at[accepted] = "none"
      /\ UNCHANGED <<script, handled, stop, abort, Phase>>
  BY DEF PromiseInv, IndInv, TypeOK, FreshConns, Serve, clients, wire, Phase
<1>2. Session[accepted] = "none"
  BY <1>1 DEF Session
<1>3. ASSUME NEW p \in {"greet", "closed"}, at' = [at EXCEPT ![accepted] = p]
      PROVE  Finishing' = Finishing
  <2>1. accepted \notin Finishing
    BY <1>1 DEF Finishing
  <2>2. Finishing' = Finishing \ {accepted}
    BY <1>1, <1>3, FinishingMoves
  <2> QED
    BY <2>1, <2>2
<1>4. CASE ~gate.closed /\ at' = [at EXCEPT ![accepted] = "greet"]
  <2>1. Phase = "serving"
    BY <1>4 DEF PromiseInv, PhaseAgrees, Phase
  <2>2. Session' = [Session EXCEPT ![accepted] = "open"]
    <3>1. Shown("greet") = "open"
      BY DEF Shown
    <3>2. Session' = [Session EXCEPT ![accepted] = Shown("greet")]
      BY <1>1, <1>4, SessionMoves
    <3> QED
      BY <3>1, <3>2
  <2>3. Service!Begin(accepted)
    BY <1>1, <1>2, <1>3, <1>4, <2>1, <2>2 DEF Service!Begin
  <2> QED
    BY <1>1, <2>3 DEF Serves, Service!Next
<1>5. CASE gate.closed /\ at' = [at EXCEPT ![accepted] = "closed"]
  <2>1. Phase # "serving"
    BY <1>5 DEF PromiseInv, PhaseAgrees, Phase
  <2>2. Session' = [Session EXCEPT ![accepted] = "over"]
    BY <1>1, <1>5, SessionMoves DEF Shown
  <2>3. Service!TurnAway(accepted)
    BY <1>1, <1>2, <1>3, <1>5, <2>1, <2>2 DEF Service!TurnAway
  <2> QED
    BY <1>1, <2>3 DEF Serves, Service!Next
<1> QED
  BY <1>4, <1>5 DEF Serve

LEMMA CloseServes ==
    ASSUME PromiseInv, NEW c \in Conns, Close(c)
    PROVE  Serves
<1>1. /\ TypeOK /\ at[c] = "close" /\ at' = [at EXCEPT ![c] = "closed"]
      /\ UNCHANGED <<script, handled, stop, abort, Phase>>
  BY DEF PromiseInv, IndInv, Close, clients, wire, Phase
<1>2. c \notin Finishing /\ Session[c] = "open"
  BY <1>1 DEF Finishing, Session
<1>3. Finishing' = Finishing \ {c} /\ Session' = [Session EXCEPT ![c] = "over"]
  BY <1>1, SessionMoves, FinishingMoves DEF Shown
<1>4. Finishing' = Finishing
  BY <1>2, <1>3
<1>5. Service!Finish(c)
  BY <1>1, <1>2, <1>3, <1>4 DEF Service!Finish
<1> QED
  BY <1>5 DEF Serves, Service!Next

LEMMA StopServes ==
    ASSUME PromiseInv, Stop
    PROVE  Serves
<1>1. UNCHANGED <<script, handled, Session>>
  BY DEF Stop, clients, wire, Session
<1>2. Phase = "serving" /\ Phase' = "stopping"
  BY DEF Stop, Phase
<1>3. Finishing' \in SUBSET {c \in Conns : Session[c] = "open"}
  BY DEF Stop, Finishing, Session
<1>4. Service!Stop
  BY <1>1, <1>2, <1>3 DEF Service!Stop
<1> QED
  BY <1>4 DEF Serves, Service!Next

LEMMA StoppedServes ==
    ASSUME PromiseInv, IndInv', Stopped
    PROVE  Serves
<1>1. UNCHANGED <<script, handled, Session, Finishing>>
  BY DEF Stopped, clients, wire, Session, Finishing
<1>2. Phase = "stopping" /\ Phase' = "stopped"
  BY DEF Stopped, Phase
<1>3. \A c \in Conns : Session[c] # "open"
  <2>1. at' = at /\ stop' = "done" /\ StoppedIsQuiet'
    BY DEF Stopped, IndInv
  <2>2. \A c \in Conns : at[c] \in {"none", "closed"}
    BY <2>1 DEF StoppedIsQuiet, Working
  <2> QED
    BY <2>2 DEF Session
<1>4. Service!Stopped
  BY <1>1, <1>2, <1>3 DEF Service!Stopped
<1> QED
  BY <1>4 DEF Serves, Service!Next

LEMMA NextServes ==
    ASSUME PromiseInv, PromiseInv', [Next]_vars
    PROVE  Serves
<1>1. IndInv' /\ NoByteLost' /\ IndInv
  BY DEF PromiseInv
<1>2. CASE \/ \E c \in Conns : HangUp(c) \/ AcceptReady(c)
           \/ AcceptFails \/ UNCHANGED vars
  <2>1. UNCHANGED <<script, handled, at, abort, stop>>
    BY <1>2 DEF HangUp, AcceptReady, AcceptFails, clients, server, wire, vars
  <2> QED
    BY <2>1 DEF Serves, Unseen, Session, Phase, Finishing
<1> QED
  BY <1>1, <1>2, RunGoesOn, GoesOnServes, CloseServes, ServeServes, StopServes, StoppedServes
     DEF Next, AcceptLoop

\* The server does what ServiceContract promises, whatever the clients send,
\* however it arrives, and whenever stop() is called (server.cc:34-97,
\* connection.cc:121-294).
THEOREM ServiceImplemented == Spec => ImplementsService
<1>1. Init => PromiseInv
  BY InitIndInv, InitNoByteLost DEF PromiseInv, PhaseAgrees, LogoutIsLast, LoggedOut, Init
<1>2. PromiseInv /\ [Next]_vars => PromiseInv'
  BY NextKeepsPromise
<1>3. Init => Service!Init
  BY DEF Init, Service!Init, Session, Phase, Finishing
<1>4. PromiseInv /\ PromiseInv' /\ [Next]_vars => [Service!Next]_(Service!vars)
  BY NextServes DEF Serves, Unseen, Service!vars
<1> QED
  BY <1>1, <1>2, <1>3, <1>4, PTL DEF Spec, ImplementsService, Service!Spec
=============================================================================
