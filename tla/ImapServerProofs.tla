---------------------------- MODULE ImapServerProofs ----------------------------
(***************************************************************************)
(* Proofs about ImapServer, for any finite set of connections, any scripts *)
(* of their clients and any limits: IndInv is inductive, so stop() returns *)
(* only when no coroutine is left, the abort is heeded, and every literal  *)
(* is asked for exactly once. What the commands are is ImapFramesProofs;   *)
(* the liveness property is left to TLC.                                   *)
(***************************************************************************)
EXTENDS ImapServer, FiniteSetTheorems, SequenceTheorems, WellFoundedInduction, TLAPS

-----------------------------------------------------------------------------
(***************************************************************************)
(* Bytes and lines.                                                        *)
(***************************************************************************)

LEMMA PartIsSeq ==
    ASSUME NEW S, NEW s \in Seq(S), NEW m \in Int, NEW n \in Int, 1 <= m, n <= Len(s)
    PROVE  /\ SubSeq(s, m, n) \in Seq(S)
           /\ Len(SubSeq(s, m, n)) = IF m <= n THEN n - m + 1 ELSE 0
<1>1. \A i \in m .. n : s[i] \in S
  BY ElementOfSeq
<1> QED
  BY <1>1, SubSeqProperties

\* LineEnd is a position of its argument, or 0.
LEMMA LineEndInside ==
    ASSUME NEW s \in Seq(STRING)
    PROVE  LineEnd(s) \in Int /\ 0 <= LineEnd(s) /\ LineEnd(s) <= Len(s)
<1> DEFINE ends == {i \in 1 .. Len(s) - 1 : s[i] = "CR" /\ s[i + 1] = "LF"}
<1>1. CASE ends = {}
  BY <1>1 DEF LineEnd
<1>2. CASE ends # {}
  <2> DEFINE less == {p \in Nat \X Nat : p[1] < p[2]}
  <2>1. IsWellFoundedOn(less, Nat)
    BY NatLessThanWellFounded DEF OpToRel
  <2>2. \E i \in ends : \A j \in ends : i <= j
    <3>1. ends \subseteq Nat
      OBVIOUS
    <3>2. \E i \in ends : \A j \in ends : ~ (<<j, i>> \in less)
      <4> HIDE DEF ends, less
      <4> QED
        BY <2>1, <3>1, <1>2, WFMin
    <3>3. \A i \in Nat, j \in Nat : ~ (<<j, i>> \in less) => i <= j
      OBVIOUS
    <3> HIDE DEF ends, less
    <3> QED
      BY <3>1, <3>2, <3>3
  <2>3. LineEnd(s) \in ends
    <3>1. LineEnd(s) = CHOOSE i \in ends : \A j \in ends : i <= j
      BY <1>2 DEF LineEnd
    <3> HIDE DEF ends
    <3> QED
      BY <3>1, <2>2
  <2> QED
    BY <2>3, LenProperties
<1> QED
  BY <1>1, <1>2

LEMMA LineTypes ==
    ASSUME NEW s \in Seq(STRING)
    PROVE  Line(s) \in Seq(STRING) /\ AfterLine(s) \in Seq(STRING)
BY LineEndInside, PartIsSeq, LenProperties DEF Line, AfterLine

\* The commands with a literal, when one more command has been handled.
LEMMA LiteralsAppend ==
    ASSUME NEW h \in Seq(Frame), NEW e \in Frame
    PROVE  /\ Cardinality(Literals(h)) \in Nat
           /\ Cardinality(Literals(Append(h, e))) =
                Cardinality(Literals(h)) + (IF e.literal # <<>> THEN 1 ELSE 0)
<1> DEFINE n == Len(h) + 1
<1>1. Len(h) \in Nat /\ DOMAIN h = 1 .. Len(h)
  BY LenProperties
<1>2. /\ Append(h, e) \in Seq(Frame) /\ Len(Append(h, e)) = n
      /\ \A i \in 1 .. Len(h) : Append(h, e)[i] = h[i]
      /\ Append(h, e)[n] = e
  BY AppendProperties
<1>3. DOMAIN Append(h, e) = 1 .. n
  BY <1>2, LenProperties
<1>4. IsFiniteSet(Literals(h)) /\ Cardinality(Literals(h)) \in Nat
  <2>1. Literals(h) \in SUBSET (1 .. Len(h))
    BY <1>1 DEF Literals
  <2>2. IsFiniteSet(1 .. Len(h))
    BY <1>1, FS_Interval
  <2> HIDE DEF n
  <2>3. IsFiniteSet(Literals(h))
    BY <2>1, <2>2, FS_Subset
  <2> QED
    BY <2>3, FS_CardinalityType
<1>5. n \notin Literals(h)
  BY <1>1 DEF Literals
<1>6. Literals(Append(h, e)) = IF e.literal # <<>> THEN Literals(h) \cup {n} ELSE Literals(h)
  BY <1>1, <1>2, <1>3 DEF Literals
<1> HIDE DEF n
<1>7. CASE e.literal # <<>>
  BY <1>4, <1>5, <1>6, <1>7, FS_AddElement
<1>8. CASE e.literal = <<>>
  BY <1>4, <1>6, <1>8
<1> QED
  BY <1>7, <1>8

LEMMA LiteralsCount ==
    ASSUME NEW h \in Seq(Frame)
    PROVE  Cardinality(Literals(h)) \in Nat
<1>1. NoFrame \in Frame
  BY EmptySeq DEF NoFrame, Frame
<1> QED
  BY <1>1, LiteralsAppend

-----------------------------------------------------------------------------
(***************************************************************************)
(* What reading a line and reading a literal do to a connection.           *)
(***************************************************************************)

\* A connection whose command count does not change, or that has just finished
\* the command e.
Finished(c, e) ==
  /\ handled' = [handled EXCEPT ![c] = Append(@, e)]
  /\ at' = [at EXCEPT ![c] = "top"]

LEMMA LiteralSizes ==
    ASSUME NEW l
    PROVE  /\ LiteralSize(l) \in {0, 1, 2}
           /\ l = <<>> => LiteralSize(l) = 0
<1> DEFINE end == l[Len(l)]
<1>1. LiteralSize(l) = IF l = <<>> THEN 0 ELSE IF end = "{1}" THEN 1 ELSE IF end = "{2}" THEN 2 ELSE 0
  BY DEF LiteralSize
<1> HIDE DEF end
<1> QED
  BY <1>1

LEMMA FrameChanges ==
    ASSUME NEW f \in Frame, NEW x \in Seq(STRING)
    PROVE  [f EXCEPT !.text = x] \in Frame /\ [f EXCEPT !.literal = x] \in Frame
<1> DEFINE S == Seq(STRING)
<1>1. f \in [text : S, literal : S] /\ x \in S
  BY DEF Frame
<1> HIDE DEF S
<1>2. [f EXCEPT !.text = x] \in [text : S, literal : S] /\ [f EXCEPT !.literal = x] \in [text : S, literal : S]
  BY <1>1
<1> QED
  BY <1>2 DEF Frame, S

LEMMA ReadOnStep ==
    ASSUME TypeOK, NEW c \in Conns, NEW buffer \in Seq(STRING), ReadOn(c, buffer)
    PROVE  /\ left' \in [Conns -> Seq(STRING)]
           /\ need' \in [Conns -> Nat]
           /\ frame' \in [Conns -> Frame]
           /\ \E p \in {"top", "line", "ask", "close"} :
                /\ at' = [at EXCEPT ![c] = p]
                /\ p = "ask" => need'[c] > 0
                /\ \/ handled' = handled
                   \/ /\ p = "top"
                      /\ \E e \in Frame : e.literal = <<>> /\ Finished(c, e)
<1> DEFINE line == Line(buffer)
           size == LiteralSize(line)
<1>1. line \in Seq(STRING) /\ AfterLine(buffer) \in Seq(STRING)
  BY LineTypes
<1>2. <<>> \in Seq(STRING)
  BY EmptySeq
<1>3. CASE Len(buffer) < k_max /\ LineEnd(buffer) > 0 /\ HandleLine(c, buffer)
  <2>1. left' \in [Conns -> Seq(STRING)]
    BY <1>1, <1>3 DEF HandleLine, TypeOK
  <2>2. CASE size > 0
    <3>1. size \in {1, 2} /\ line # <<>>
      BY <2>2, LiteralSizes
    <3>2. SubSeq(line, 1, Len(line) - 1) \in Seq(STRING)
      <4> HIDE DEF line
      <4> QED
        BY <1>1, PartIsSeq, LenProperties
    <3>3. /\ frame' = [frame EXCEPT ![c].text = SubSeq(line, 1, Len(line) - 1)]
          /\ need' = [need EXCEPT ![c] = size]
          /\ at' = [at EXCEPT ![c] = "ask"]
          /\ handled' = handled
      BY <1>3, <2>2 DEF HandleLine
    <3> HIDE DEF line, size
    <3>4. frame' \in [Conns -> Frame]
      <4>1. frame \in [Conns -> Frame]
        BY DEF TypeOK
      <4>2. [frame[c] EXCEPT !.text = SubSeq(line, 1, Len(line) - 1)] \in Frame
        BY <3>2, <4>1, FrameChanges
      <4> QED
        BY <3>3, <4>1, <4>2
    <3>5. need' \in [Conns -> Nat] /\ need'[c] > 0
      <4>1. need \in [Conns -> Nat]
        BY DEF TypeOK
      <4> QED
        BY <3>1, <3>3, <4>1
    <3> QED
      BY <2>1, <3>3, <3>4, <3>5
  <2>3. CASE size = 0
    <3>1. /\ handled' = [handled EXCEPT ![c] = IF line = <<>> THEN @ ELSE Append(@, Command(line, <<>>))]
          /\ at' = [at EXCEPT ![c] = "top"]
          /\ frame' = frame /\ need' = need
      BY <1>3, <2>3 DEF HandleLine
    <3> HIDE DEF line, size
    <3>2. Command(line, <<>>) \in Frame /\ Command(line, <<>>).literal = <<>>
      BY <1>1, <1>2 DEF Command, Frame
    <3>3. handled' = handled \/ Finished(c, Command(line, <<>>))
      BY <3>1 DEF Finished, TypeOK
    <3>4. frame' \in [Conns -> Frame] /\ need' \in [Conns -> Nat]
      BY <3>1 DEF TypeOK
    <3> QED
      BY <2>1, <3>1, <3>2, <3>3, <3>4
  <2> QED
    BY <2>2, <2>3, LiteralSizes
<1>4. CASE /\ Len(buffer) >= k_max
           /\ left' = [left EXCEPT ![c] = <<>>]
           /\ at' = [at EXCEPT ![c] = "close"]
           /\ UNCHANGED <<frame, need, handled>>
  BY <1>2, <1>4 DEF TypeOK
<1>5. CASE /\ left' = [left EXCEPT ![c] = buffer]
           /\ at' = [at EXCEPT ![c] = IF abort THEN "close" ELSE "line"]
           /\ UNCHANGED <<frame, need, handled>>
  BY <1>5 DEF TypeOK
<1> QED
  BY <1>3, <1>4, <1>5 DEF ReadOn

LEMMA HaveOctetsStep ==
    ASSUME TypeOK, NEW c \in Conns, NEW octets \in Seq(STRING), NEW missing \in Nat,
           HaveOctets(c, octets, missing)
    PROVE  /\ frame' \in [Conns -> Frame]
           /\ \/ \E e \in Frame : e.literal = octets /\ Finished(c, e)
              \/ /\ missing > 0 /\ handled' = handled
                 /\ \E p \in {"literal", "close"} : at' = [at EXCEPT ![c] = p]
<1>1. CASE missing = 0
  <2>1. Command(frame[c].text, octets) \in Frame /\ Command(frame[c].text, octets).literal = octets
    BY DEF TypeOK, Command, Frame
  <2>2. NoFrame \in Frame
    BY EmptySeq DEF NoFrame, Frame
  <2>3. /\ handled' = [handled EXCEPT ![c] = Append(@, Command(frame[c].text, octets))]
        /\ frame' = [frame EXCEPT ![c] = NoFrame]
        /\ at' = [at EXCEPT ![c] = "top"]
    BY <1>1 DEF HaveOctets
  <2> QED
    BY <2>1, <2>2, <2>3 DEF Finished, TypeOK
<1>2. CASE missing > 0
  <2>1. /\ frame' = [frame EXCEPT ![c].literal = octets]
        /\ at' = [at EXCEPT ![c] = IF abort THEN "close" ELSE "literal"]
        /\ handled' = handled
    BY <1>2 DEF HaveOctets
  <2>2. frame' \in [Conns -> Frame]
    <3>1. frame \in [Conns -> Frame]
      BY DEF TypeOK
    <3>2. [frame[c] EXCEPT !.literal = octets] \in Frame
      BY <3>1, FrameChanges
    <3> QED
      BY <2>1, <3>1, <3>2
  <2> QED
    BY <1>2, <2>1, <2>2
<1> QED
  BY <1>1, <1>2

-----------------------------------------------------------------------------
(***************************************************************************)
(* What a step of a connection that stays at work does: it keeps the types *)
(* and the number of literals asked for, and after the abort it finishes a *)
(* command only if it was reading one.                                     *)
(***************************************************************************)

WireTypes ==
  /\ got \in [Conns -> Nat] /\ plus \in [Conns -> Nat] /\ need \in [Conns -> Nat]
  /\ left \in [Conns -> Seq(STRING)]
  /\ frame \in [Conns -> Frame]
  /\ handled \in [Conns -> Seq(Frame)]

Asked(c) ==
  /\ at[c] = "ask" => need[c] > 0
  /\ at[c] \notin {"close", "closed"} =>
       plus[c] = Cardinality(Literals(handled[c])) + (IF at[c] = "literal" THEN 1 ELSE 0)

AtWork == {"greet", "top", "line", "ask", "literal", "close"}

\* handled' when at most one command was finished, and what that says of Asked.
LEMMA FinishedTypes ==
    ASSUME TypeOK, NEW c \in Conns, NEW e \in Frame, Finished(c, e)
    PROVE  /\ handled' \in [Conns -> Seq(Frame)]
           /\ Len(handled'[c]) = Len(handled[c]) + 1
           /\ Cardinality(Literals(handled[c])) \in Nat
           /\ Cardinality(Literals(handled'[c])) =
                Cardinality(Literals(handled[c])) + (IF e.literal # <<>> THEN 1 ELSE 0)
           /\ \A d \in Conns \ {c} : handled'[d] = handled[d]
<1>1. handled[c] \in Seq(Frame) /\ handled \in [Conns -> Seq(Frame)]
  BY DEF TypeOK
<1>2. handled' = [handled EXCEPT ![c] = Append(handled[c], e)]
  BY DEF Finished
<1>3. Append(handled[c], e) \in Seq(Frame) /\ Len(Append(handled[c], e)) = Len(handled[c]) + 1
  BY <1>1, AppendProperties
<1>4. handled'[c] = Append(handled[c], e)
  BY <1>1, <1>2
<1>5. \A d \in Conns \ {c} : handled'[d] = handled[d]
  BY <1>1, <1>2
<1> QED
  BY <1>1, <1>2, <1>3, <1>4, <1>5, LiteralsAppend

\* The effect of one connection's step on what the invariant says of it.
Advance(c) ==
  /\ WireTypes'
  /\ UNCHANGED <<clients, server, abort, before>>
  /\ at[c] \in AtWork \ {"close"}
  /\ \E p \in AtWork :
       /\ at' = [at EXCEPT ![c] = p]
       /\ \/ handled' = handled
          \/ p = "top" /\ Len(handled'[c]) = Len(handled[c]) + 1 /\ (abort => at[c] # "top")
       /\ abort /\ at[c] = "top" => p = "close"
  /\ \A d \in Conns \ {c} : handled'[d] = handled[d] /\ plus'[d] = plus[d] /\ need'[d] = need[d]
  /\ Asked(c)'

\* The actions that only move the connection.
LEMMA MoveStep ==
    ASSUME IndInv, NEW c \in Conns, NEW p \in {"top", "close"},
           at' = [at EXCEPT ![c] = p], at[c] \in AtWork \ {"close"},
           abort /\ at[c] = "top" => p = "close",
           p = "top" => at[c] = "greet",
           UNCHANGED <<clients, server, abort, wire, before>>
    PROVE  Advance(c)
<1>1. UNCHANGED <<got, left, need, frame, handled, plus>>
  BY DEF wire
<1>2. WireTypes'
  BY <1>1 DEF WireTypes, IndInv, TypeOK
<1>3. at'[c] = p
  BY DEF IndInv, TypeOK
<1>4. Asked(c)
  BY DEF IndInv, AskedExactly, Asked
<1>5. Asked(c)'
  BY <1>1, <1>3, <1>4 DEF Asked
<1> QED
  BY <1>1, <1>2, <1>5 DEF Advance, AtWork, wire

LEMMA GreetStep ==
    ASSUME IndInv, NEW c \in Conns, Greet(c)
    PROVE  Advance(c)
BY MoveStep DEF Greet, AtWork

LEMMA LeaveStep ==
    ASSUME IndInv, NEW c \in Conns, Leave(c)
    PROVE  Advance(c)
BY MoveStep DEF Leave, AtWork

LEMMA EndOfInputStep ==
    ASSUME IndInv, NEW c \in Conns, EndOfInput(c)
    PROVE  Advance(c)
BY MoveStep DEF EndOfInput, AtWork

\* Top and ReceiveLine: a line, or more of one.
LEMMA LineStep ==
    ASSUME IndInv, NEW c \in Conns, NEW buffer \in Seq(STRING), ReadOn(c, buffer),
           at[c] \in {"top", "line"}, at[c] = "top" => ~abort,
           got' \in [Conns -> Nat],
           UNCHANGED <<clients, server, abort, plus, before>>
    PROVE  Advance(c)
<1>1. TypeOK
  BY DEF IndInv
<1>2. PICK p \in {"top", "line", "ask", "close"} :
        /\ at' = [at EXCEPT ![c] = p]
        /\ p = "ask" => need'[c] > 0
        /\ \/ handled' = handled
           \/ /\ p = "top"
              /\ \E e \in Frame : e.literal = <<>> /\ Finished(c, e)
  BY <1>1, ReadOnStep
<1>3. /\ left' \in [Conns -> Seq(STRING)] /\ need' \in [Conns -> Nat] /\ frame' \in [Conns -> Frame]
  BY <1>1, ReadOnStep
<1>4. plus \in [Conns -> Nat] /\ handled \in [Conns -> Seq(Frame)] /\ at'[c] = p
  BY <1>1, <1>2 DEF TypeOK
<1>5. plus[c] = Cardinality(Literals(handled[c]))
  <2>1. handled[c] \in Seq(Frame)
    BY <1>4
  <2>2. Cardinality(Literals(handled[c])) \in Nat
    BY <2>1, LiteralsCount
  <2>3. plus[c] = Cardinality(Literals(handled[c])) + 0
    BY DEF IndInv, AskedExactly
  <2> QED
    BY <2>2, <2>3
<1>6. \A d \in Conns \ {c} : need'[d] = need[d]
  BY <1>1 DEF ReadOn, HandleLine, TypeOK
<1>7. CASE handled' = handled
  <2>1. plus'[c] = Cardinality(Literals(handled'[c])) + 0
    BY <1>7, <1>4, <1>5
  <2>2. Asked(c)'
    BY <1>2, <1>4, <2>1 DEF Asked
  <2> QED
    BY <1>2, <1>3, <1>4, <1>6, <1>7, <2>2 DEF Advance, WireTypes, AtWork
<1>8. CASE p = "top" /\ \E e \in Frame : e.literal = <<>> /\ Finished(c, e)
  <2>1. PICK e \in Frame : e.literal = <<>> /\ Finished(c, e)
    BY <1>8
  <2>2. /\ handled' \in [Conns -> Seq(Frame)]
        /\ Len(handled'[c]) = Len(handled[c]) + 1
        /\ Cardinality(Literals(handled'[c])) = Cardinality(Literals(handled[c]))
        /\ \A d \in Conns \ {c} : handled'[d] = handled[d]
    BY <1>1, <2>1, FinishedTypes
  <2>3. Asked(c)'
    BY <1>4, <1>5, <1>8, <2>2 DEF Asked
  <2> QED
    BY <1>2, <1>3, <1>4, <1>6, <1>8, <2>2, <2>3 DEF Advance, WireTypes, AtWork
<1> QED
  BY <1>2, <1>7, <1>8

LEMMA TopStep ==
    ASSUME IndInv, NEW c \in Conns, Top(c)
    PROVE  Advance(c)
<1>1. left[c] \in Seq(STRING) /\ got' \in [Conns -> Nat]
  BY DEF IndInv, TypeOK, Top
<1> QED
  BY <1>1, LineStep DEF Top

\* What is read is a sequence of bytes.
LEMMA ReadTypes ==
    ASSUME TypeOK, NEW c \in Conns, NEW k \in 1 .. Len(ToCome(c))
    PROVE  /\ SubSeq(ToCome(c), 1, k) \in Seq(STRING)
           /\ Len(SubSeq(ToCome(c), 1, k)) = k
           /\ k \in Nat
<1>1. script[c] \in Seq(STRING) /\ got[c] \in Nat
  BY ScriptsAssumption DEF TypeOK
<1>2. ToCome(c) \in Seq(STRING)
  BY <1>1, PartIsSeq, LenProperties DEF ToCome
<1> QED
  BY <1>2, PartIsSeq, LenProperties

LEMMA ReceiveLineStep ==
    ASSUME IndInv, NEW c \in Conns, ReceiveLine(c)
    PROVE  Advance(c)
<1>1. PICK k \in 1 .. Len(ToCome(c)) :
        /\ ReadOn(c, left[c] \o SubSeq(ToCome(c), 1, k))
        /\ got' = [got EXCEPT ![c] = @ + k]
  BY DEF ReceiveLine
<1>2. SubSeq(ToCome(c), 1, k) \in Seq(STRING) /\ k \in Nat
  BY ReadTypes DEF IndInv
<1>3. left[c] \o SubSeq(ToCome(c), 1, k) \in Seq(STRING)
  BY <1>2, ConcatProperties DEF IndInv, TypeOK
<1>4. got' \in [Conns -> Nat]
  <2>1. got \in [Conns -> Nat]
    BY DEF IndInv, TypeOK
  <2> QED
    BY <1>1, <1>2, <2>1
<1> QED
  BY <1>1, <1>3, <1>4, LineStep DEF ReceiveLine

\* Ask and ReceiveLiteral: the octets of a literal, or more of them.
LEMMA OctetsStep ==
    ASSUME IndInv, NEW c \in Conns, NEW octets \in Seq(STRING), NEW missing \in Nat,
           HaveOctets(c, octets, missing),
           at[c] \in {"ask", "literal"},
           missing = 0 => octets # <<>>,
           got' \in [Conns -> Nat], left' \in [Conns -> Seq(STRING)],
           need' = [need EXCEPT ![c] = missing],
           plus' = [plus EXCEPT ![c] = IF at[c] = "ask" THEN @ + 1 ELSE @],
           UNCHANGED <<clients, server, abort, before>>
    PROVE  Advance(c)
<1>1. TypeOK
  BY DEF IndInv
<1>2. /\ plus \in [Conns -> Nat] /\ need \in [Conns -> Nat] /\ handled \in [Conns -> Seq(Frame)]
      /\ handled[c] \in Seq(Frame)
  BY <1>1 DEF TypeOK
<1>3. plus' \in [Conns -> Nat] /\ need' \in [Conns -> Nat]
  BY <1>2
<1>4. \A d \in Conns \ {c} : plus'[d] = plus[d] /\ need'[d] = need[d]
  BY <1>2
<1>5. frame' \in [Conns -> Frame]
  BY <1>1, HaveOctetsStep
<1>6. plus[c] = Cardinality(Literals(handled[c])) + (IF at[c] = "literal" THEN 1 ELSE 0)
  BY DEF IndInv, AskedExactly
<1>7. Cardinality(Literals(handled[c])) \in Nat
  BY <1>2, LiteralsCount
<1>8. plus'[c] = Cardinality(Literals(handled[c])) + 1
  BY <1>2, <1>6, <1>7
<1>9. CASE /\ missing > 0 /\ handled' = handled
           /\ \E p \in {"literal", "close"} : at' = [at EXCEPT ![c] = p]
  <2>1. PICK p \in {"literal", "close"} : at' = [at EXCEPT ![c] = p]
    BY <1>9
  <2>2. at'[c] = p
    BY <1>1, <2>1 DEF TypeOK
  <2>3. Asked(c)'
    BY <1>8, <1>9, <2>2 DEF Asked
  <2> QED
    BY <1>2, <1>3, <1>4, <1>5, <1>9, <2>1, <2>3 DEF Advance, WireTypes, AtWork
<1>10. CASE \E e \in Frame : e.literal = octets /\ Finished(c, e)
  <2>1. PICK e \in Frame : e.literal = octets /\ Finished(c, e)
    BY <1>10
  <2>2. CASE missing = 0
    <3>1. /\ handled' \in [Conns -> Seq(Frame)]
          /\ Len(handled'[c]) = Len(handled[c]) + 1
          /\ Cardinality(Literals(handled'[c])) = Cardinality(Literals(handled[c])) + 1
          /\ \A d \in Conns \ {c} : handled'[d] = handled[d]
      BY <1>1, <2>1, <2>2, FinishedTypes
    <3>2. at' = [at EXCEPT ![c] = "top"] /\ at'[c] = "top"
      BY <1>1, <2>1 DEF TypeOK, Finished
    <3>3. Asked(c)'
      <4>1. plus'[c] = Cardinality(Literals(handled'[c])) + 0
        BY <1>7, <1>8, <3>1
      <4> QED
        BY <3>2, <4>1 DEF Asked
    <3> QED
      BY <1>3, <1>4, <1>5, <3>1, <3>2, <3>3 DEF Advance, WireTypes, AtWork
  <2>3. CASE missing > 0
    BY <1>9, <2>3 DEF HaveOctets
  <2> QED
    BY <2>2, <2>3
<1> QED
  BY <1>1, <1>9, <1>10, HaveOctetsStep

LEMMA AskStep ==
    ASSUME IndInv, NEW c \in Conns, Ask(c)
    PROVE  Advance(c)
<1> DEFINE take == IF need[c] < Len(left[c]) THEN need[c] ELSE Len(left[c])
<1>1. /\ got \in [Conns -> Nat] /\ plus \in [Conns -> Nat] /\ need \in [Conns -> Nat]
      /\ left \in [Conns -> Seq(STRING)]
  BY DEF IndInv, TypeOK
<1>2. need[c] > 0 /\ at[c] = "ask"
  BY DEF IndInv, AskedExactly, Ask
<1>3. left[c] \in Seq(STRING) /\ Len(left[c]) \in Nat
  BY <1>1, LenProperties
<1>4. take \in Nat /\ take <= Len(left[c]) /\ take <= need[c] /\ need[c] \in Nat
  BY <1>1, <1>3
<1>5. /\ left' = [left EXCEPT ![c] = SubSeq(@, take + 1, Len(@))]
      /\ need' = [need EXCEPT ![c] = @ - take]
      /\ HaveOctets(c, SubSeq(left[c], 1, take), need[c] - take)
      /\ plus' = [plus EXCEPT ![c] = @ + 1]
      /\ UNCHANGED <<clients, server, abort, got, before>>
  BY DEF Ask
<1> HIDE DEF take
<1>6. /\ SubSeq(left[c], 1, take) \in Seq(STRING)
      /\ Len(SubSeq(left[c], 1, take)) = take
      /\ SubSeq(left[c], take + 1, Len(left[c])) \in Seq(STRING)
  BY <1>3, <1>4, PartIsSeq
<1>7. left' \in [Conns -> Seq(STRING)]
  BY <1>1, <1>5, <1>6
<1>8. need[c] - take = 0 => SubSeq(left[c], 1, take) # <<>>
  BY <1>2, <1>4, <1>6, EmptySeq
<1>9. need[c] - take \in Nat
  BY <1>4
<1>10. need' = [need EXCEPT ![c] = need[c] - take]
  BY <1>5
<1>11. plus' = [plus EXCEPT ![c] = IF at[c] = "ask" THEN @ + 1 ELSE @]
  BY <1>2, <1>5
<1> QED
  BY <1>1, <1>2, <1>5, <1>6, <1>7, <1>8, <1>9, <1>10, <1>11, OctetsStep

LEMMA ReceiveLiteralStep ==
    ASSUME IndInv, NEW c \in Conns, ReceiveLiteral(c)
    PROVE  Advance(c)
<1>1. /\ got \in [Conns -> Nat] /\ plus \in [Conns -> Nat] /\ need \in [Conns -> Nat]
      /\ left \in [Conns -> Seq(STRING)] /\ frame \in [Conns -> Frame]
  BY DEF IndInv, TypeOK
<1>2. PICK k \in 1 .. Len(ToCome(c)) :
        /\ k <= need[c]
        /\ got' = [got EXCEPT ![c] = @ + k]
        /\ need' = [need EXCEPT ![c] = @ - k]
        /\ HaveOctets(c, frame[c].literal \o SubSeq(ToCome(c), 1, k), need[c] - k)
  BY DEF ReceiveLiteral
<1> DEFINE part == SubSeq(ToCome(c), 1, k)
           octets == frame[c].literal \o part
<1>3. part \in Seq(STRING) /\ Len(part) = k /\ k \in Nat /\ k > 0
  BY ReadTypes DEF IndInv
<1>4. frame[c].literal \in Seq(STRING)
  BY <1>1 DEF Frame
<1> HIDE DEF part
<1>5. octets \in Seq(STRING) /\ octets # <<>>
  <2>1. octets \in Seq(STRING) /\ Len(octets) = Len(frame[c].literal) + Len(part)
    BY <1>3, <1>4, ConcatProperties
  <2>2. Len(frame[c].literal) \in Nat
    BY <1>4, LenProperties
  <2> QED
    BY <1>3, <2>1, <2>2, EmptySeq
<1>6. need[c] - k \in Nat /\ got' \in [Conns -> Nat]
  BY <1>1, <1>2, <1>3
<1>7. need' = [need EXCEPT ![c] = need[c] - k]
  BY <1>2
<1>8. at[c] = "literal" /\ UNCHANGED <<clients, server, abort, left, plus, before>>
  BY DEF ReceiveLiteral
<1>9. plus' = [plus EXCEPT ![c] = IF at[c] = "ask" THEN @ + 1 ELSE @]
  BY <1>1, <1>8
<1>10. HaveOctets(c, octets, need[c] - k)
  BY <1>2 DEF part
<1> HIDE DEF octets
<1> QED
  BY <1>1, <1>5, <1>6, <1>7, <1>8, <1>9, <1>10, OctetsStep

-----------------------------------------------------------------------------
(***************************************************************************)
(* The gate counts the coroutines.                                         *)
(***************************************************************************)

AtWorkNow == {c \in Conns : Working(c)}
LoopCount == IF acceptor = "ended" THEN 0 ELSE 1

LEMMA CountTypes ==
    ASSUME IndInv
    PROVE  /\ IsFiniteSet(AtWorkNow) /\ Cardinality(AtWorkNow) \in Nat
           /\ LoopCount \in {0, 1}
           /\ gate.count = Cardinality(AtWorkNow) + LoopCount
<1>1. AtWorkNow \in SUBSET Conns
  BY DEF AtWorkNow
<1>2. IsFiniteSet(AtWorkNow)
  BY <1>1, ConnsAssumption, FS_Subset
<1>3. Cardinality(AtWorkNow) \in Nat
  BY <1>2, FS_CardinalityType
<1> QED
  BY <1>2, <1>3 DEF IndInv, GateCounts, AtWorkNow, LoopCount

\* The gate stays right, whatever else the step does.
LEMMA GateStep ==
    ASSUME IndInv,
           \/ gate' = gate /\ acceptor' = acceptor /\ AtWorkNow' = AtWorkNow
           \/ /\ gate' = [gate EXCEPT !.closed = TRUE]
              /\ acceptor' = acceptor /\ AtWorkNow' = AtWorkNow
           \/ /\ gate' = [gate EXCEPT !.count = @ + 1]
              /\ acceptor' = acceptor
              /\ \E c \in Conns \ AtWorkNow : AtWorkNow' = AtWorkNow \cup {c}
           \/ /\ gate' = [gate EXCEPT !.count = @ - 1]
              /\ acceptor' = acceptor
              /\ \E c \in AtWorkNow : AtWorkNow' = AtWorkNow \ {c}
           \/ /\ gate' = [gate EXCEPT !.count = @ - 1]
              /\ acceptor = "accepting" /\ acceptor' = "ended" /\ AtWorkNow' = AtWorkNow
    PROVE  GateCounts' /\ gate' \in [count : Nat, closed : BOOLEAN]
<1>1. gate \in [count : Nat, closed : BOOLEAN]
  BY DEF IndInv, TypeOK
<1>2. /\ IsFiniteSet(AtWorkNow) /\ Cardinality(AtWorkNow) \in Nat
      /\ LoopCount \in {0, 1}
      /\ gate.count = Cardinality(AtWorkNow) + LoopCount
  BY CountTypes
<1>3. GateCounts' <=> gate'.count = Cardinality(AtWorkNow') + LoopCount'
  BY DEF GateCounts, AtWorkNow, LoopCount
<1>4. acceptor' = acceptor => LoopCount' = LoopCount
  BY DEF LoopCount
<1>5. CASE gate' = gate /\ acceptor' = acceptor /\ AtWorkNow' = AtWorkNow
  BY <1>1, <1>2, <1>3, <1>4, <1>5
<1>6. CASE /\ gate' = [gate EXCEPT !.closed = TRUE]
           /\ acceptor' = acceptor /\ AtWorkNow' = AtWorkNow
  BY <1>1, <1>2, <1>3, <1>4, <1>6
<1>7. CASE /\ gate' = [gate EXCEPT !.count = @ + 1]
           /\ acceptor' = acceptor
           /\ \E c \in Conns \ AtWorkNow : AtWorkNow' = AtWorkNow \cup {c}
  <2>1. PICK c \in Conns \ AtWorkNow : AtWorkNow' = AtWorkNow \cup {c}
    BY <1>7
  <2>2. Cardinality(AtWorkNow') = Cardinality(AtWorkNow) + 1
    BY <1>2, <2>1, FS_AddElement
  <2> QED
    BY <1>1, <1>2, <1>3, <1>4, <1>7, <2>2
<1>8. CASE /\ gate' = [gate EXCEPT !.count = @ - 1]
           /\ acceptor' = acceptor
           /\ \E c \in AtWorkNow : AtWorkNow' = AtWorkNow \ {c}
  <2>1. PICK c \in AtWorkNow : AtWorkNow' = AtWorkNow \ {c}
    BY <1>8
  <2>2. Cardinality(AtWorkNow') = Cardinality(AtWorkNow) - 1 /\ IsFiniteSet(AtWorkNow')
    BY <1>2, <2>1, FS_RemoveElement
  <2>3. Cardinality(AtWorkNow') \in Nat
    BY <2>2, FS_CardinalityType
  <2> QED
    BY <1>1, <1>2, <1>3, <1>4, <1>8, <2>2, <2>3
<1>9. CASE /\ gate' = [gate EXCEPT !.count = @ - 1]
           /\ acceptor = "accepting" /\ acceptor' = "ended" /\ AtWorkNow' = AtWorkNow
  <2>1. LoopCount = 1 /\ LoopCount' = 0
    BY <1>9 DEF LoopCount
  <2> QED
    BY <1>1, <1>2, <1>3, <1>9, <2>1
<1> QED
  BY <1>5, <1>6, <1>7, <1>8, <1>9

-----------------------------------------------------------------------------
(***************************************************************************)
(* Every step keeps the invariant.                                         *)
(***************************************************************************)

LEMMA InitIndInv == Init => IndInv
<1> SUFFICES ASSUME Init PROVE IndInv
  OBVIOUS
<1>1. <<>> \in Seq(STRING) /\ <<>> \in Seq(Frame) /\ Len(<<>>) = 0
  BY EmptySeq
<1>2. NoFrame \in Frame
  BY <1>1 DEF NoFrame, Frame
<1>3. TypeOK
  <2>1. script \in [Conns -> Scripts] /\ left \in [Conns -> Seq(STRING)] /\ handled \in [Conns -> Seq(Frame)]
    BY <1>1 DEF Init
  <2>2. frame \in [Conns -> Frame]
    BY <1>2 DEF Init
  <2>3. gate \in [count : Nat, closed : BOOLEAN]
    BY DEF Init
  <2>4. /\ got \in [Conns -> Nat] /\ need \in [Conns -> Nat] /\ plus \in [Conns -> Nat]
        /\ before \in [Conns -> Nat]
    BY DEF Init
  <2>5. /\ client \in [Conns -> {"waiting", "open", "gone"}]
        /\ at \in [Conns -> {"none", "greet", "top", "line", "ask", "literal", "close", "closed"}]
    BY DEF Init
  <2>6. /\ acceptor \in {"accepting", "ended"} /\ accepted \in Conns \cup {NoConn}
        /\ abort \in BOOLEAN /\ stop \in {"no", "waiting", "done"}
    BY DEF Init
  <2> QED
    BY <2>1, <2>2, <2>3, <2>4, <2>5, <2>6 DEF TypeOK
<1>4. FreshConns /\ StoppedIsQuiet /\ LastIsFinished
  BY DEF Init, FreshConns, StoppedIsQuiet, LastIsFinished
<1>5. GateCounts
  <2>1. {c \in Conns : Working(c)} = {}
    BY DEF Init, Working
  <2>2. Cardinality({c \in Conns : Working(c)}) = 0
    BY <2>1, FS_EmptySet
  <2>3. gate.count = 1 /\ acceptor # "ended"
    BY DEF Init
  <2> QED
    BY <2>2, <2>3 DEF GateCounts
<1>6. AskedExactly
  <2>1. Literals(<<>>) = {}
    BY EmptySeq DEF Literals
  <2>2. Cardinality(Literals(<<>>)) = 0
    BY <2>1, FS_EmptySet
  <2> QED
    BY <2>2 DEF AskedExactly, Init
<1> QED
  BY <1>3, <1>4, <1>5, <1>6 DEF IndInv

LEMMA AdvanceKeeps ==
    ASSUME IndInv, NEW c \in Conns, Advance(c)
    PROVE  IndInv'
<1>1. PICK p \in AtWork :
        /\ at' = [at EXCEPT ![c] = p]
        /\ \/ handled' = handled
           \/ p = "top" /\ Len(handled'[c]) = Len(handled[c]) + 1 /\ (abort => at[c] # "top")
        /\ abort /\ at[c] = "top" => p = "close"
  BY DEF Advance
<1>2. /\ UNCHANGED <<script, client, acceptor, accepted, gate, stop, abort, before>>
      /\ at[c] \in AtWork \ {"close"}
      /\ WireTypes'
      /\ \A d \in Conns \ {c} : handled'[d] = handled[d] /\ plus'[d] = plus[d] /\ need'[d] = need[d]
      /\ Asked(c)'
  BY DEF Advance, clients, server
<1>3. at \in [Conns -> {"none", "greet", "top", "line", "ask", "literal", "close", "closed"}]
  BY DEF IndInv, TypeOK
<1>4. at'[c] = p /\ \A d \in Conns \ {c} : at'[d] = at[d]
  BY <1>1, <1>3
<1>5. AtWorkNow' = AtWorkNow
  BY <1>2, <1>4 DEF AtWorkNow, Working, AtWork
<1>6. GateCounts' /\ gate' \in [count : Nat, closed : BOOLEAN]
  BY <1>2, <1>5, GateStep
<1>7. at' \in [Conns -> {"none", "greet", "top", "line", "ask", "literal", "close", "closed"}]
  BY <1>1, <1>3 DEF AtWork
<1>8. TypeOK'
  <2>1. /\ script' \in [Conns -> Scripts] /\ client' \in [Conns -> {"waiting", "open", "gone"}]
        /\ acceptor' \in {"accepting", "ended"} /\ accepted' \in Conns \cup {NoConn}
        /\ abort' \in BOOLEAN
        /\ stop' \in {"no", "waiting", "done"} /\ before' \in [Conns -> Nat]
    BY <1>2 DEF IndInv, TypeOK
  <2> QED
    BY <1>2, <1>6, <1>7, <2>1 DEF TypeOK, WireTypes
<1>9. FreshConns'
  <2>1. accepted \in Conns \cup {NoConn}
    BY DEF IndInv, TypeOK
  <2>2. \A d \in Conns : at[d] = "none" => at'[d] = "none"
    BY <1>2, <1>4 DEF AtWork
  <2> QED
    BY <1>2, <2>1, <2>2 DEF IndInv, FreshConns
<1>10. StoppedIsQuiet'
  BY <1>2, <1>4 DEF IndInv, StoppedIsQuiet, Working, AtWork
<1>11. LastIsFinished'
  <2> SUFFICES ASSUME abort, NEW d \in Conns
               PROVE  \/ Len(handled'[d]) <= before[d]
                      \/ Len(handled'[d]) = before[d] + 1 /\ at'[d] \in {"top", "close", "closed"}
    BY <1>2 DEF LastIsFinished
  <2>1. \/ Len(handled[d]) <= before[d]
        \/ Len(handled[d]) = before[d] + 1 /\ at[d] \in {"top", "close", "closed"}
    BY DEF IndInv, LastIsFinished
  <2>2. CASE d # c
    BY <1>2, <1>4, <2>1, <2>2
  <2>3. CASE d = c
    <3>1. Len(handled[c]) \in Nat /\ before[c] \in Nat
      BY LenProperties DEF IndInv, TypeOK
    <3>2. CASE handled' = handled
      BY <1>1, <1>2, <1>4, <2>1, <2>3, <3>2 DEF AtWork
    <3>3. CASE p = "top" /\ Len(handled'[c]) = Len(handled[c]) + 1 /\ at[c] # "top"
      BY <1>2, <1>4, <2>1, <2>3, <3>1, <3>3 DEF AtWork
    <3> QED
      BY <1>1, <3>2, <3>3
  <2> QED
    BY <2>2, <2>3
<1>12. AskedExactly'
  BY <1>2, <1>4 DEF IndInv, AskedExactly, Asked
<1> QED
  BY <1>6, <1>8, <1>9, <1>10, <1>11, <1>12 DEF IndInv

\* A step of the accept loop, of stop() or of a client: no command is read.
LEMMA QuietKeeps ==
    ASSUME IndInv, TypeOK', GateCounts', FreshConns', StoppedIsQuiet',
           UNCHANGED <<left, need, frame, handled, plus>>,
           abort' => \/ abort /\ before' = before
                     \/ before' = [c \in Conns |-> Len(handled[c])],
           \A c \in Conns :
             \/ at'[c] = at[c]
             \/ at[c] = "none" /\ at'[c] \in {"greet", "closed"}
             \/ at[c] = "close" /\ at'[c] = "closed"
    PROVE  IndInv'
<1>1. LastIsFinished'
  <2> SUFFICES ASSUME abort', NEW c \in Conns
               PROVE  \/ Len(handled[c]) <= before'[c]
                      \/ Len(handled[c]) = before'[c] + 1 /\ at'[c] \in {"top", "close", "closed"}
    BY DEF LastIsFinished
  <2>1. CASE abort /\ before' = before
    <3>1. \/ Len(handled[c]) <= before[c]
          \/ Len(handled[c]) = before[c] + 1 /\ at[c] \in {"top", "close", "closed"}
      BY <2>1 DEF IndInv, LastIsFinished
    <3> QED
      BY <2>1, <3>1
  <2>2. CASE before' = [d \in Conns |-> Len(handled[d])]
    <3>1. Len(handled[c]) \in Nat
      BY LenProperties DEF IndInv, TypeOK
    <3> QED
      BY <2>2, <3>1
  <2> QED
    BY <2>1, <2>2
<1>2. AskedExactly'
  BY DEF IndInv, AskedExactly
<1> QED
  BY <1>1, <1>2 DEF IndInv

LEMMA StartOrEnd ==
    ASSUME IndInv, NEW c \in Conns, NEW p \in {"greet", "closed"}, at' = [at EXCEPT ![c] = p]
    PROVE  /\ at' \in [Conns -> {"none", "greet", "top", "line", "ask", "literal", "close", "closed"}]
           /\ at'[c] = p
           /\ \A d \in Conns \ {c} : at'[d] = at[d]
           /\ p = "greet" => AtWorkNow' = AtWorkNow \cup {c}
           /\ p = "closed" => AtWorkNow' = AtWorkNow \ {c}
<1>1. at \in [Conns -> {"none", "greet", "top", "line", "ask", "literal", "close", "closed"}]
  BY DEF IndInv, TypeOK
<1>2. at'[c] = p /\ \A d \in Conns \ {c} : at'[d] = at[d]
  BY <1>1
<1> QED
  BY <1>1, <1>2 DEF AtWorkNow, Working

LEMMA HangUpKeeps ==
    ASSUME IndInv, NEW c \in Conns, HangUp(c)
    PROVE  IndInv'
<1> USE DEF HangUp, server, wire
<1>1. AtWorkNow' = AtWorkNow
  BY DEF AtWorkNow, Working
<1>2. GateCounts'
  BY <1>1, GateStep
<1>3. TypeOK'
  BY DEF IndInv, TypeOK
<1>4. FreshConns' /\ StoppedIsQuiet'
  BY DEF IndInv, TypeOK, FreshConns, StoppedIsQuiet, Working
<1> QED
  BY <1>2, <1>3, <1>4, QuietKeeps

LEMMA AcceptReadyKeeps ==
    ASSUME IndInv, NEW c \in Conns, AcceptReady(c)
    PROVE  IndInv'
<1> USE DEF AcceptReady, wire
<1>1. AtWorkNow' = AtWorkNow
  BY DEF AtWorkNow, Working
<1>2. GateCounts'
  BY <1>1, GateStep
<1>3. TypeOK'
  BY DEF IndInv, TypeOK
<1>4. FreshConns' /\ StoppedIsQuiet'
  BY DEF IndInv, TypeOK, FreshConns, StoppedIsQuiet, Working
<1> QED
  BY <1>2, <1>3, <1>4, QuietKeeps

LEMMA ServeKeeps ==
    ASSUME IndInv, Serve
    PROVE  IndInv'
<1> USE DEF Serve, clients, wire
<1>1. accepted \in Conns /\ at[accepted] = "none" /\ stop # "done"
  BY DEF IndInv, TypeOK, FreshConns, StoppedIsQuiet
<1>2. accepted \notin AtWorkNow
  BY <1>1 DEF AtWorkNow, Working
<1>3. PICK p \in {"greet", "closed"} :
        /\ at' = [at EXCEPT ![accepted] = p]
        /\ \/ /\ p = "greet" /\ gate' = [gate EXCEPT !.count = @ + 1] /\ acceptor' = acceptor
           \/ /\ p = "closed" /\ gate' = [gate EXCEPT !.count = @ - 1] /\ acceptor' = "ended"
  BY DEF Leaves
<1>4. /\ at' \in [Conns -> {"none", "greet", "top", "line", "ask", "literal", "close", "closed"}]
      /\ at'[accepted] = p
      /\ \A d \in Conns \ {accepted} : at'[d] = at[d]
      /\ p = "greet" => AtWorkNow' = AtWorkNow \cup {accepted}
      /\ p = "closed" => AtWorkNow' = AtWorkNow \ {accepted}
  BY <1>1, <1>3, StartOrEnd
<1>5. p = "closed" => AtWorkNow' = AtWorkNow
  BY <1>2, <1>4
<1>6. GateCounts' /\ gate' \in [count : Nat, closed : BOOLEAN]
  BY <1>1, <1>2, <1>3, <1>4, <1>5, GateStep
<1>7. TypeOK'
  BY <1>3, <1>4, <1>6 DEF IndInv, TypeOK
<1>8. FreshConns'
  <2>1. client[accepted] # "waiting"
    BY <1>1 DEF IndInv, FreshConns
  <2> QED
    BY <1>1, <1>4, <2>1 DEF IndInv, FreshConns
<1>9. StoppedIsQuiet'
  BY <1>1 DEF StoppedIsQuiet
<1> QED
  BY <1>1, <1>3, <1>4, <1>6, <1>7, <1>8, <1>9, QuietKeeps

LEMMA AcceptFailsKeeps ==
    ASSUME IndInv, AcceptFails
    PROVE  IndInv'
<1> USE DEF AcceptFails, clients, wire
<1>1. AtWorkNow' = AtWorkNow
  BY DEF AtWorkNow, Working
<1>2. acceptor = "accepting"
  OBVIOUS
<1>3. gate' = [gate EXCEPT !.count = @ - 1] /\ acceptor' = "ended"
  BY DEF Leaves
<1>4. GateCounts' /\ gate' \in [count : Nat, closed : BOOLEAN]
  BY <1>1, <1>2, <1>3, GateStep
<1>5. TypeOK'
  BY <1>3, <1>4 DEF IndInv, TypeOK
<1>6. FreshConns'
  BY DEF IndInv, FreshConns
<1>7. StoppedIsQuiet'
  BY <1>2 DEF IndInv, StoppedIsQuiet, Working
<1> QED
  BY <1>4, <1>5, <1>6, <1>7, QuietKeeps

LEMMA StopKeeps ==
    ASSUME IndInv, Stop
    PROVE  IndInv'
<1> USE DEF Stop, clients, wire
<1>1. AtWorkNow' = AtWorkNow
  BY DEF AtWorkNow, Working
<1>2. GateCounts' /\ gate' \in [count : Nat, closed : BOOLEAN]
  BY <1>1, GateStep
<1>3. before' \in [Conns -> Nat]
  BY LenProperties DEF IndInv, TypeOK
<1>4. TypeOK'
  BY <1>2, <1>3 DEF IndInv, TypeOK
<1>5. FreshConns' /\ StoppedIsQuiet'
  BY DEF IndInv, FreshConns, StoppedIsQuiet
<1> QED
  BY <1>2, <1>4, <1>5, QuietKeeps

\* No coroutine is left when the count of the gate is zero.
LEMMA StoppedKeeps ==
    ASSUME IndInv, Stopped
    PROVE  IndInv'
<1> USE DEF Stopped, clients, wire
<1>1. AtWorkNow = {} /\ LoopCount = 0
  <2>1. Cardinality(AtWorkNow) = 0 /\ LoopCount = 0
    BY CountTypes
  <2> QED
    BY <2>1, CountTypes, FS_EmptySet
<1>2. AtWorkNow' = AtWorkNow
  BY DEF AtWorkNow, Working
<1>3. GateCounts'
  BY <1>2, GateStep
<1>4. TypeOK'
  BY DEF IndInv, TypeOK
<1>5. FreshConns'
  BY DEF IndInv, FreshConns
<1>6. StoppedIsQuiet'
  BY <1>1 DEF StoppedIsQuiet, AtWorkNow, LoopCount, Working
<1> QED
  BY <1>3, <1>4, <1>5, <1>6, QuietKeeps

LEMMA CloseKeeps ==
    ASSUME IndInv, NEW c \in Conns, Close(c)
    PROVE  IndInv'
<1> USE DEF Close, clients, wire
<1>1. /\ at' \in [Conns -> {"none", "greet", "top", "line", "ask", "literal", "close", "closed"}]
      /\ at'[c] = "closed"
      /\ \A d \in Conns \ {c} : at'[d] = at[d]
      /\ AtWorkNow' = AtWorkNow \ {c}
  BY StartOrEnd
<1>2. c \in AtWorkNow
  BY DEF AtWorkNow, Working
<1>3. GateCounts' /\ gate' \in [count : Nat, closed : BOOLEAN]
  BY <1>1, <1>2, GateStep DEF Leaves
<1>4. TypeOK'
  BY <1>1, <1>3 DEF IndInv, TypeOK
<1>5. FreshConns'
  BY <1>1 DEF IndInv, FreshConns, TypeOK
<1>6. StoppedIsQuiet'
  BY <1>1 DEF IndInv, StoppedIsQuiet, Working
<1> QED
  BY <1>1, <1>3, <1>4, <1>5, <1>6, QuietKeeps

LEMMA StutterKeeps ==
    ASSUME IndInv, UNCHANGED vars
    PROVE  IndInv'
<1> USE DEF vars, clients, server, wire
<1>1. TypeOK' /\ FreshConns' /\ StoppedIsQuiet' /\ LastIsFinished' /\ AskedExactly'
  BY DEF IndInv, TypeOK, FreshConns, StoppedIsQuiet, Working, LastIsFinished, AskedExactly
<1>2. AtWorkNow' = AtWorkNow
  BY DEF AtWorkNow, Working
<1>3. GateCounts'
  BY <1>2, GateStep
<1> QED
  BY <1>1, <1>3 DEF IndInv

LEMMA NextKeeps ==
    ASSUME IndInv, [Next]_vars
    PROVE  IndInv'
<1>1. ASSUME NEW c \in Conns, Receive(c) \/ Run(c)
      PROVE  IndInv'
  <2>1. Close(c) \/ Advance(c)
    BY <1>1, ReceiveLineStep, ReceiveLiteralStep, GreetStep, TopStep, LeaveStep, AskStep,
       EndOfInputStep DEF Receive, Run
  <2> QED
    BY <2>1, CloseKeeps, AdvanceKeeps
<1>2. CASE AcceptLoop
  BY <1>2, AcceptReadyKeeps, ServeKeeps, AcceptFailsKeeps DEF AcceptLoop
<1> QED
  BY <1>1, <1>2, HangUpKeeps, StopKeeps, StoppedKeeps, StutterKeeps DEF Next

-----------------------------------------------------------------------------
(***************************************************************************)
(* The theorems.                                                           *)
(***************************************************************************)

\* The strengthened invariant holds in every reachable state (server.cc,
\* connection.cc:121-294).
THEOREM Invariance == Spec => []IndInv
BY InitIndInv, NextKeeps, PTL DEF Spec

\* Every variable keeps its type.
THEOREM TypeCorrect == Spec => []TypeOK
BY Invariance, PTL DEF IndInv

\* The gate counts the accept loop and the connections (server.cc:28, 43).
THEOREM GateIsRight == Spec => []GateCounts
BY Invariance, PTL DEF IndInv

\* Once stop() has returned no coroutine is left (server.cc:86-94).
THEOREM StopIsQuiet == Spec => []StoppedIsQuiet
BY Invariance, PTL DEF IndInv

\* After the request to stop, a connection handles at most the command it was
\* reading (connection.cc:132, 153, 201).
THEOREM AbortHeeded == Spec => []AbortIsHeeded
<1>1. IndInv => AbortIsHeeded
  <2> SUFFICES ASSUME IndInv, abort, NEW c \in Conns
               PROVE  Len(handled[c]) <= before[c] + 1
    BY DEF AbortIsHeeded
  <2>1. Len(handled[c]) \in Nat /\ before[c] \in Nat
    BY LenProperties DEF IndInv, TypeOK
  <2> QED
    BY <2>1 DEF IndInv, LastIsFinished
<1> QED
  BY <1>1, Invariance, PTL

\* Every literal is asked for exactly once (connection.cc:228).
THEOREM LiteralAsked == Spec => []AskedOnce
<1>1. IndInv => AskedOnce
  BY DEF IndInv, AskedExactly, AskedOnce
<1> QED
  BY <1>1, Invariance, PTL
=================================================================================
