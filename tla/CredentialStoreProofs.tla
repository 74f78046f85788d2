------------------------- MODULE CredentialStoreProofs -------------------------
(***************************************************************************)
(* Theorems about CredentialStore: what can be read in the store file,     *)
(* whatever commands ran, however they overlapped, and wherever a write    *)
(* stopped.                                                                *)
(***************************************************************************)
EXTENDS CredentialStore, SequenceTheorems, WellFoundedInduction, TLAPS

\* What fields hold in the file, and in the memory of a command.
Values == (UNION {Given(Saves, f) : f \in Fields}) \cup {None, Torn, DefaultProtocol}
Lines == [Fields -> Values]
Raw == [Fields -> Values \cup {Blank}]

\* What the commands store and add are given, with add's default.
Requests == Saves \cup {WithDefault(d) : d \in Saves}

\* The password of entry e was given for its key.
Belongs(e) ==
    e.password \notin {None, Torn} =>
        \E c \in Requests : c.password = e.password /\ Clash(ReadBack(<<c>>)[1], e)

\* A list that the file may hold.
Sound(list) ==
    /\ list \in Seq(Lines)
    /\ \A i \in DOMAIN list : Entry(list[i]) /\ Belongs(list[i])
    /\ \A i, j \in DOMAIN list :
           i # j /\ list[i].host \in PlainHosts => ~Clash(list[i], list[j])

\* The file is sound, and a command at work makes its list from a sound one.
IndInv ==
    /\ Sound(file)
    /\ proc = [p \in Procs |-> proc[p]]
    /\ \A p \in Procs :
           \/ proc[p] = Idle
           \/ /\ Sound(proc[p].base)
              /\ \/ /\ proc[p].op = "save" /\ proc[p].cred \in Requests
                    /\ proc[p].list = Saved(proc[p].base, proc[p].cred)
                 \/ /\ proc[p].op = "erase" /\ proc[p].cred \in Erasures
                    /\ proc[p].list = Removed(proc[p].base, proc[p].cred)

-----------------------------------------------------------------------------
(* Fields and lists                                                        *)

LEMMA Names ==
    /\ None # Blank /\ Torn # Blank /\ DefaultProtocol # Blank /\ DefaultProtocol # None
    /\ Blank \notin Values /\ None \in Values /\ Torn \in Values /\ DefaultProtocol \in Values
BY InputsAssumption DEF Values, Given

LEMMA FieldIs ==
    ASSUME NEW x \in Values \cup {Blank}
    PROVE  Field(x) \in Values /\ (x # Blank => Field(x) = x) /\ Field(Blank) = None
BY Names DEF Field

LEMMA ReadBackIs ==
    ASSUME NEW list \in Seq(Raw)
    PROVE  /\ ReadBack(list) \in Seq(Lines)
           /\ DOMAIN ReadBack(list) = DOMAIN list /\ DOMAIN list = 1 .. Len(list)
           /\ \A i \in DOMAIN list, f \in Fields : ReadBack(list)[i][f] = Field(list[i][f])
<1>1. DOMAIN list = 1 .. Len(list) /\ Len(list) \in Nat /\ \A i \in DOMAIN list : list[i] \in Raw
  BY LenProperties, ElementOfSeq
<1>2. \A i \in DOMAIN list : [f \in Fields |-> Field(list[i][f])] \in Lines
  BY <1>1, FieldIs DEF Raw, Lines
<1>3. ReadBack(list) \in [1 .. Len(list) -> Lines]
  BY <1>1, <1>2 DEF ReadBack
<1>4. ReadBack(list) \in Seq(Lines)
  BY <1>1, <1>3, SeqDef
<1> QED
  BY <1>1, <1>4 DEF ReadBack

\* Reading back changes nothing in what was read.
LEMMA ReadBackSame ==
    ASSUME NEW list \in Seq(Lines)
    PROVE  list \in Seq(Raw) /\ ReadBack(list) = list
<1>1. /\ DOMAIN list = 1 .. Len(list) /\ \A i \in DOMAIN list : list[i] \in Lines
      /\ list = [i \in 1 .. Len(list) |-> list[i]]
      /\ Len(list) \in Nat
  BY LenProperties, ElementOfSeq
<1>2. \A e \in Lines : [f \in Fields |-> Field(e[f])] = e
  BY Names DEF Lines, Field
<1>3. \A e \in Lines : e \in Raw
  BY DEF Lines, Raw
<1>4. list \in [1 .. Len(list) -> Raw]
  BY <1>1, <1>3
<1>5. list \in Seq(Raw)
  BY <1>1, <1>4, SeqDef
<1>6. ReadBack(list) = [i \in 1 .. Len(list) |-> list[i]]
  BY <1>1, <1>2 DEF ReadBack
<1> QED
  BY <1>1, <1>5, <1>6

-----------------------------------------------------------------------------
(* The first hit, and what a removal leaves                                *)

LEMMA Least ==
    ASSUME NEW T \in SUBSET Nat, T # {}
    PROVE  \E i \in T : \A j \in T : i <= j
<1> DEFINE less == {p \in Nat \X Nat : p[1] < p[2]}
<1>1. IsWellFoundedOn(less, Nat)
  BY NatLessThanWellFounded DEF OpToRel
<1>2. \E i \in T : \A j \in T : ~ (<<j, i>> \in less)
  <2> HIDE DEF less
  <2> QED
    BY <1>1, WFMin
<1>3. \A i \in Nat, j \in Nat : ~ (<<j, i>> \in less) => i <= j
  OBVIOUS
<1> HIDE DEF less
<1> QED
  BY <1>2, <1>3

LEMMA FirstHit ==
    ASSUME NEW S, NEW list \in Seq(S), NEW c, Hits(list, c) # {}
    PROVE  /\ Min(Hits(list, c)) \in Hits(list, c)
           /\ \A i \in Hits(list, c) : Min(Hits(list, c)) <= i
<1>1. Hits(list, c) \in SUBSET Nat
  BY LenProperties DEF Hits
<1>2. \E i \in Hits(list, c) : \A j \in Hits(list, c) : i <= j
  BY <1>1, Least
<1> QED
  BY <1>2 DEF Min

\* The recursion of Removed has a solution.
LEMMA KeptExists ==
    ASSUME NEW S, NEW list \in Seq(S), NEW c
    PROVE  \E kept : kept = [n \in 0 .. Len(list) |->
                IF n = 0 THEN <<>>
                ELSE IF Erases(c, list[n]) THEN kept[n - 1] ELSE Append(kept[n - 1], list[n])]
<1> DEFINE After(g, n) ==
               IF n = 0 THEN <<>>
               ELSE IF Erases(c, list[n]) THEN g[n - 1] ELSE Append(g[n - 1], list[n])
           Upto(k) == \E g : g = [n \in 0 .. k |-> After(g, n)]
           bad == {k \in 0 .. Len(list) : ~Upto(k)}
<1>1. Len(list) \in Nat
  BY LenProperties
<1>2. SUFFICES bad = {}
  <2>1. Upto(Len(list))
    <3> HIDE DEF Upto
    <3> QED
      BY <1>1, <1>2
  <2> QED
    BY <2>1
<1>3. SUFFICES ASSUME NEW k \in bad, \A j \in bad : k <= j
               PROVE  FALSE
  <2>1. bad \in SUBSET Nat
    BY <1>1
  <2> QED
    BY <1>3, <2>1, Least
<1>4. k \in Nat /\ k <= Len(list) /\ ~Upto(k)
  <2> HIDE DEF Upto
  <2> QED
    BY <1>1, <1>3
<1>5. CASE k = 0
  <2> DEFINE g == [n \in 0 .. 0 |-> <<>>]
  <2>1. g = [n \in 0 .. 0 |-> After(g, n)]
    OBVIOUS
  <2> QED
    BY <1>4, <1>5, <2>1
<1>6. CASE k # 0
  <2>1. k - 1 \in 0 .. Len(list) /\ ~ (k <= k - 1)
    BY <1>1, <1>4, <1>6
  <2>2. Upto(k - 1)
    BY <1>3, <2>1
  <2>3. PICK g : g = [n \in 0 .. k - 1 |-> After(g, n)]
    BY <2>2
  <2> DEFINE h == [n \in 0 .. k |-> IF n = k THEN After(g, k) ELSE g[n]]
  <2>4. ASSUME NEW n \in 0 .. k PROVE h[n] = After(h, n)
    <3>1. CASE n = k
      <4>1. h[k] = After(g, k) /\ h[k - 1] = g[k - 1]
        BY <1>4, <1>6
      <4> QED
        BY <1>6, <3>1, <4>1
    <3>2. CASE n # k
      <4>1. n \in 0 .. k - 1 /\ h[n] = g[n]
        BY <1>4, <3>2
      <4>2. g[n] = After(g, n)
        BY <2>3, <4>1
      <4>3. n # 0 => h[n - 1] = g[n - 1]
        BY <1>4, <4>1
      <4> QED
        BY <4>1, <4>2, <4>3
    <3> QED
      BY <3>1, <3>2
  <2>5. h = [n \in 0 .. k |-> After(h, n)]
    <3> HIDE DEF After
    <3>1. h = [n \in 0 .. k |-> h[n]]
      OBVIOUS
    <3> HIDE DEF h
    <3> QED
      BY <2>4, <3>1
  <2> QED
    BY <1>4, <2>5
<1> QED
  BY <1>5, <1>6

\* kept is the sequence of the entries of list that c does not erase, out of
\* the first n.
KeptOf(list, c, n, kept, S) ==
    /\ kept \in Seq(S)
    /\ \A i \in DOMAIN kept : \E a \in 1 .. n : kept[i] = list[a] /\ ~Erases(c, list[a])
    /\ \A i, j \in DOMAIN kept : i # j =>
           \E a, b \in 1 .. n : a # b /\ kept[i] = list[a] /\ kept[j] = list[b]
    /\ \A a \in 1 .. n : ~Erases(c, list[a]) => \E i \in DOMAIN kept : kept[i] = list[a]

LEMMA KeptOfNone ==
    ASSUME NEW S, NEW list, NEW c
    PROVE  KeptOf(list, c, 0, <<>>, S)
BY DEF KeptOf

LEMMA KeptOfErased ==
    ASSUME NEW S, NEW list \in Seq(S), NEW c, NEW n \in 1 .. Len(list), NEW kept,
           KeptOf(list, c, n - 1, kept, S), Erases(c, list[n])
    PROVE  KeptOf(list, c, n, kept, S)
<1>1. n \in Nat /\ \A a \in 1 .. n - 1 : a \in 1 .. n
  BY LenProperties
<1>2. \A a \in 1 .. n : a = n \/ a \in 1 .. n - 1
  BY <1>1
<1> QED
  BY <1>1, <1>2 DEF KeptOf

LEMMA KeptOfAppended ==
    ASSUME NEW S, NEW list \in Seq(S), NEW c, NEW n \in 1 .. Len(list), NEW kept,
           KeptOf(list, c, n - 1, kept, S), ~Erases(c, list[n])
    PROVE  KeptOf(list, c, n, Append(kept, list[n]), S)
<1> DEFINE more == Append(kept, list[n])
<1>1. /\ n \in Nat /\ (\A a \in 1 .. n - 1 : a \in 1 .. n /\ a # n)
      /\ (\A a \in 1 .. n : a = n \/ a \in 1 .. n - 1) /\ n \in 1 .. n
  BY LenProperties
<1>2. list[n] \in S
  BY ElementOfSeq
<1>3. kept \in Seq(S) /\ Len(kept) \in Nat
  BY LenProperties DEF KeptOf
<1>4. more \in Seq(S) /\ Len(more) = Len(kept) + 1 /\ more[Len(kept) + 1] = list[n]
      /\ \A i \in 1 .. Len(kept) : more[i] = kept[i]
  BY <1>2, <1>3, AppendProperties
<1>5. /\ DOMAIN kept = 1 .. Len(kept) /\ DOMAIN more = 1 .. Len(kept) + 1
      /\ \A i \in DOMAIN more : i = Len(kept) + 1 \/ i \in DOMAIN kept
      /\ \A i \in DOMAIN kept : i \in DOMAIN more /\ i # Len(kept) + 1 /\ more[i] = kept[i]
      /\ Len(kept) + 1 \in DOMAIN more
  <2>1. DOMAIN kept = 1 .. Len(kept) /\ DOMAIN more = 1 .. Len(kept) + 1
    BY <1>3, <1>4, LenProperties
  <2> HIDE DEF more
  <2> QED
    BY <1>3, <1>4, <2>1
<1> HIDE DEF more
<1>6. \A i \in DOMAIN more : \E a \in 1 .. n : more[i] = list[a] /\ ~Erases(c, list[a])
  BY <1>1, <1>4, <1>5 DEF KeptOf
<1>7. \A i, j \in DOMAIN more : i # j =>
         \E a, b \in 1 .. n : a # b /\ more[i] = list[a] /\ more[j] = list[b]
  <2> SUFFICES ASSUME NEW i \in DOMAIN more, NEW j \in DOMAIN more, i # j
               PROVE  \E a, b \in 1 .. n : a # b /\ more[i] = list[a] /\ more[j] = list[b]
    OBVIOUS
  <2>1. CASE i \in DOMAIN kept /\ j \in DOMAIN kept
    <3>1. PICK a \in 1 .. n - 1, b \in 1 .. n - 1 :
             a # b /\ kept[i] = list[a] /\ kept[j] = list[b]
      BY <2>1 DEF KeptOf
    <3> QED
      BY <1>1, <1>5, <2>1, <3>1
  <2>2. CASE i = Len(kept) + 1 /\ j \in DOMAIN kept
    <3>1. PICK b \in 1 .. n - 1 : kept[j] = list[b]
      BY <2>2 DEF KeptOf
    <3> QED
      BY <1>1, <1>4, <1>5, <2>2, <3>1
  <2>3. CASE i \in DOMAIN kept /\ j = Len(kept) + 1
    <3>1. PICK a \in 1 .. n - 1 : kept[i] = list[a]
      BY <2>3 DEF KeptOf
    <3> QED
      BY <1>1, <1>4, <1>5, <2>3, <3>1
  <2> QED
    BY <1>5, <2>1, <2>2, <2>3
<1>8. \A a \in 1 .. n : ~Erases(c, list[a]) => \E i \in DOMAIN more : more[i] = list[a]
  BY <1>1, <1>4, <1>5 DEF KeptOf
<1>9. KeptOf(list, c, n, more, S)
  BY <1>4, <1>6, <1>7, <1>8 DEF KeptOf
<1> QED
  BY <1>9 DEF more

\* Removed keeps exactly the entries that the pattern does not erase.
LEMMA RemovedIs ==
    ASSUME NEW S, NEW list \in Seq(S), NEW c
    PROVE  KeptOf(list, c, Len(list), Removed(list, c), S)
<1> DEFINE Solves(g) == g = [n \in 0 .. Len(list) |->
                IF n = 0 THEN <<>>
                ELSE IF Erases(c, list[n]) THEN g[n - 1] ELSE Append(g[n - 1], list[n])]
           kept == CHOOSE g : Solves(g)
           bad == {n \in 0 .. Len(list) : ~KeptOf(list, c, n, kept[n], S)}
<1>1. Len(list) \in Nat
  BY LenProperties
<1>2. Solves(kept)
  <2>1. \E g : Solves(g)
    BY KeptExists
  <2> HIDE DEF Solves
  <2> QED
    BY <2>1
<1>3. Removed(list, c) = kept[Len(list)]
  BY DEF Removed
<1> HIDE DEF kept
<1>4. SUFFICES bad = {}
  BY <1>1, <1>3, <1>4
<1>5. SUFFICES ASSUME NEW n \in bad, \A m \in bad : n <= m
               PROVE  FALSE
  <2>1. bad \in SUBSET Nat
    BY <1>1
  <2> QED
    BY <1>5, <2>1, Least
<1>6. n \in 0 .. Len(list) /\ ~KeptOf(list, c, n, kept[n], S)
  BY <1>5
<1>7. CASE n = 0
  BY <1>2, <1>6, <1>7, KeptOfNone
<1>8. CASE n # 0
  <2>1. n \in 1 .. Len(list) /\ n - 1 \in 0 .. Len(list) /\ ~ (n <= n - 1)
    BY <1>1, <1>6, <1>8
  <2>2. KeptOf(list, c, n - 1, kept[n - 1], S)
    BY <1>5, <2>1
  <2>3. kept[n] = IF Erases(c, list[n]) THEN kept[n - 1] ELSE Append(kept[n - 1], list[n])
    BY <1>2, <1>6, <1>8
  <2> QED
    BY <1>6, <2>1, <2>2, <2>3, KeptOfErased, KeptOfAppended
<1> QED
  BY <1>7, <1>8

-----------------------------------------------------------------------------
(* What a save writes                                                      *)

\* The line that c is written to.
Line(c) == [f \in Fields |-> Field(c[f])]

LEMMA LineIs ==
    ASSUME NEW c \in Raw
    PROVE  /\ Line(c) \in Lines /\ ReadBack(<<c>>)[1] = Line(c)
           /\ Line(c).protocol = Field(c.protocol) /\ Line(c).host = Field(c.host)
           /\ Line(c).username = Field(c.username) /\ Line(c).password = Field(c.password)
<1>1. Line(c) \in Lines
  BY FieldIs DEF Line, Raw, Lines
<1>2. ReadBack(<<c>>)[1] = Line(c)
  BY DEF ReadBack, Line
<1> QED
  BY <1>1, <1>2 DEF Line, Fields

LEMMA RequestIs ==
    ASSUME NEW c \in Requests
    PROVE  /\ c \in Raw /\ Entry(Line(c)) /\ Belongs(Line(c))
           /\ c.host \in PlainHosts => c.host # None /\ c.protocol # Blank /\ c.username # Blank
<1>1. \A d \in Saves : d = [f \in Fields |-> d[f]] /\ \A f \in Fields : d[f] \in Given(Saves, f) \cup {Blank}
  BY InputsAssumption DEF Given
<1>2. \A f \in Fields : c[f] \in Given(Saves, f) \cup {Blank, DefaultProtocol}
  BY <1>1 DEF Requests, WithDefault, Fields
<1>3. c = [f \in Fields |-> c[f]]
  BY <1>1 DEF Requests, WithDefault
<1>4. c \in Raw
  BY <1>2, <1>3 DEF Raw, Values
<1>5. Entry(Line(c))
  BY <1>2, Names DEF Entry, Line, Field
<1>6. Belongs(Line(c))
  <2>1. Clash(Line(c), Line(c))
    BY DEF Clash, Wild
  <2>2. Line(c).password # None => c.password = Line(c).password
    BY <1>4, LineIs DEF Field
  <2> QED
    BY <1>4, <2>1, <2>2, LineIs DEF Belongs
<1>7. c.host \in PlainHosts => c.host # None /\ c.protocol # Blank /\ c.username # Blank
  <2> SUFFICES ASSUME c.host \in PlainHosts
               PROVE  c.host # None /\ c.protocol # Blank /\ c.username # Blank
    OBVIOUS
  <2>1. c.host # None /\ \A d \in Saves : d.host = c.host => d.protocol # Blank /\ d.username # Blank
    BY DEF PlainHosts
  <2>2. CASE c \in Saves
    BY <2>1, <2>2
  <2>3. CASE c \notin Saves
    <3>1. PICK d \in Saves : c = WithDefault(d)
      BY <2>3 DEF Requests
    <3>2. c.host = d.host /\ c.username = d.username
          /\ (c.protocol = d.protocol \/ c.protocol = DefaultProtocol)
      BY <1>1, <3>1 DEF WithDefault, Fields
    <3> QED
      BY <2>1, <3>2, Names
  <2> QED
    BY <2>2, <2>3
<1> QED
  BY <1>4, <1>5, <1>6, <1>7

\* What a save looks for is what must not be there twice.
LEMMA MatchIsClash ==
    ASSUME NEW c \in Requests, NEW e \in Lines
    PROVE  /\ Matches(c, e) => Clash(Line(c), e) /\ Line(c).host = e.host
           /\ Clash(Line(c), e) /\ e.host \in PlainHosts => Matches(c, e)
<1>1. /\ c.protocol \in Values \cup {Blank} /\ c.host \in Values \cup {Blank}
      /\ c.username \in Values \cup {Blank}
      /\ e.protocol \in Values /\ e.host \in Values /\ e.username \in Values
  BY RequestIs DEF Raw, Lines, Fields
<1>2. /\ Line(c).protocol = Field(c.protocol) /\ Line(c).host = Field(c.host)
      /\ Line(c).username = Field(c.username)
  BY RequestIs, LineIs
<1>3. None \notin PlainHosts
  BY DEF PlainHosts
<1> QED
  BY <1>1, <1>2, <1>3, Names, RequestIs DEF Matches, Clash, Wild, Equal, Field

\* The entry e once it has the password of c, as it is read back.
NewLine(e, c) ==
    [e EXCEPT !.password = Field(c.password),
              !.username = IF e.username = None THEN Field(c.username) ELSE @]

LEMMA NewLineIs ==
    ASSUME NEW e \in Lines, NEW c \in Requests
    PROVE  /\ Updated(e, c) \in Raw /\ Line(Updated(e, c)) = NewLine(e, c)
           /\ NewLine(e, c) \in Lines
           /\ NewLine(e, c).protocol = e.protocol /\ NewLine(e, c).host = e.host
           /\ NewLine(e, c).password = Field(c.password)
           /\ NewLine(e, c).username = IF e.username = None THEN Field(c.username) ELSE e.username
<1>1. c \in Raw /\ e \in Raw /\ \A f \in Fields : e[f] \in Values /\ Field(e[f]) = e[f]
  BY RequestIs, Names DEF Lines, Raw, Field
<1>2. "password" \in Fields /\ "username" \in Fields /\ "protocol" \in Fields /\ "host" \in Fields
  BY DEF Fields
<1>3. Updated(e, c) \in Raw
  BY <1>1, <1>2 DEF Updated, Raw
<1>4. NewLine(e, c) \in Lines
  BY <1>1, <1>2, FieldIs DEF NewLine, Raw, Lines
<1>5. ASSUME NEW f \in Fields PROVE Field(Updated(e, c)[f]) = NewLine(e, c)[f]
  <2>1. CASE f = "password"
    BY <1>1, <1>2, <2>1 DEF Updated, NewLine, Lines
  <2>2. CASE f = "username"
    BY <1>1, <1>2, <2>2 DEF Updated, NewLine, Lines
  <2>3. CASE f # "password" /\ f # "username"
    BY <1>1, <1>2, <2>3 DEF Updated, NewLine, Lines
  <2> QED
    BY <2>1, <2>2, <2>3
<1>6. Line(Updated(e, c)) = NewLine(e, c)
  BY <1>4, <1>5 DEF Line, Lines
<1> QED
  BY <1>2, <1>3, <1>4, <1>6 DEF NewLine, Lines

\* A save without a hit puts its line behind the others.
LEMMA SavedBehind ==
    ASSUME NEW base \in Seq(Lines), NEW c \in Requests, Hits(base, c) = {}
    PROVE  LET l == ReadBack(Saved(base, c)) IN
           /\ Saved(base, c) \in Seq(Raw)
           /\ Len(base) \in Nat /\ DOMAIN base = 1 .. Len(base)
           /\ DOMAIN l = 1 .. Len(base) + 1
           /\ \A i \in 1 .. Len(base) : l[i] = base[i]
           /\ l[Len(base) + 1] = Line(c)
<1> DEFINE s == Append(base, c)
<1>1. Saved(base, c) = s
  BY DEF Saved
<1>2. base \in Seq(Raw) /\ c \in Raw /\ Len(base) \in Nat /\ DOMAIN base = 1 .. Len(base)
  BY ReadBackSame, RequestIs, LenProperties
<1>3. s \in Seq(Raw) /\ Len(s) = Len(base) + 1 /\ s[Len(base) + 1] = c
      /\ \A i \in 1 .. Len(base) : s[i] = base[i]
  BY <1>2, AppendProperties
<1>4. DOMAIN s = 1 .. Len(base) + 1
  BY <1>3, LenProperties
<1>5. \A i \in DOMAIN s : ReadBack(s)[i] = Line(s[i])
  BY DEF ReadBack, Line
<1>6. \A i \in 1 .. Len(base) : Line(base[i]) = base[i]
  BY <1>2, ReadBackSame DEF ReadBack, Line
<1>7. DOMAIN ReadBack(s) = DOMAIN s
  BY DEF ReadBack
<1>8. Len(base) + 1 \in DOMAIN s /\ \A i \in 1 .. Len(base) : i \in DOMAIN s
  BY <1>2, <1>4
<1> HIDE DEF s
<1>9. \A i \in 1 .. Len(base) : ReadBack(s)[i] = base[i]
  BY <1>3, <1>5, <1>6, <1>8
<1> QED
  BY <1>1, <1>2, <1>3, <1>4, <1>5, <1>7, <1>8, <1>9

\* A save with a hit changes the first one.
LEMMA SavedAt ==
    ASSUME NEW base \in Seq(Lines), NEW c \in Requests, Hits(base, c) # {}
    PROVE  LET l == ReadBack(Saved(base, c))
               first == Min(Hits(base, c)) IN
           /\ Saved(base, c) \in Seq(Raw)
           /\ DOMAIN l = DOMAIN base
           /\ first \in DOMAIN base /\ Matches(c, base[first])
           /\ \A i \in DOMAIN base : i # first => l[i] = base[i]
           /\ l[first] = NewLine(base[first], c)
<1> DEFINE first == Min(Hits(base, c))
           s == [base EXCEPT ![first] = Updated(base[first], c)]
<1>1. Saved(base, c) = s
  BY DEF Saved
<1>2. base \in Seq(Raw) /\ Len(base) \in Nat /\ DOMAIN base = 1 .. Len(base)
      /\ \A i \in DOMAIN base : base[i] \in Lines
  BY ReadBackSame, LenProperties, ElementOfSeq
<1>3. first \in DOMAIN base /\ Matches(c, base[first])
  BY FirstHit DEF Hits
<1> HIDE DEF first
<1>4. Updated(base[first], c) \in Raw /\ Line(Updated(base[first], c)) = NewLine(base[first], c)
  BY <1>2, <1>3, NewLineIs
<1>5. s \in Seq(Raw) /\ DOMAIN s = DOMAIN base /\ s[first] = Updated(base[first], c)
      /\ \A i \in DOMAIN base : i # first => s[i] = base[i]
  BY <1>2, <1>3, <1>4, ExceptSeq
<1>6. \A i \in DOMAIN s : ReadBack(s)[i] = Line(s[i])
  BY DEF ReadBack, Line
<1>7. \A i \in DOMAIN base : Line(base[i]) = base[i]
  BY <1>2, ReadBackSame DEF ReadBack, Line
<1>8. DOMAIN ReadBack(s) = DOMAIN s
  BY DEF ReadBack
<1> HIDE DEF s
<1>9. /\ \A i \in DOMAIN base : i # first => ReadBack(s)[i] = base[i]
      /\ ReadBack(s)[first] = NewLine(base[first], c)
  BY <1>3, <1>4, <1>5, <1>6, <1>7
<1> QED
  BY <1>1, <1>3, <1>5, <1>8, <1>9 DEF first

-----------------------------------------------------------------------------
(* What commands write is sound                                            *)

LEMMA EmptyIsSound == Sound(<<>>)
BY EmptySeq DEF Sound

LEMMA ClashBothWays ==
    ASSUME NEW d, NEW e, Clash(d, e)
    PROVE  Clash(e, d)
BY DEF Clash, Wild

\* With the new password, and a user name where there was none, an entry
\* clashes with no more entries than before.
LEMMA NewLineIsSound ==
    ASSUME NEW e \in Lines, NEW c \in Requests, Entry(e), Matches(c, e)
    PROVE  /\ Entry(NewLine(e, c)) /\ Belongs(NewLine(e, c))
           /\ \A d \in Lines : Clash(NewLine(e, c), d) => Clash(e, d)
<1>1. c \in Raw /\ Line(c) \in Lines /\ Entry(Line(c)) /\ "password" \in Fields /\ "username" \in Fields
      /\ Line(c).password = Field(c.password) /\ Line(c).username = Field(c.username)
      /\ Line(c).protocol = Field(c.protocol) /\ Line(c).host = Field(c.host)
      /\ c.password \in Values \cup {Blank} /\ c.username \in Values \cup {Blank}
      /\ ReadBack(<<c>>)[1] = Line(c)
  BY RequestIs, LineIs DEF Fields, Raw
<1>2. Clash(Line(c), e) /\ Line(c).host = e.host
  BY MatchIsClash
<1>3. Entry(NewLine(e, c))
  <2>1. DOMAIN NewLine(e, c) = Fields
    BY NewLineIs DEF Lines
  <2>2. ASSUME NEW f \in Fields
        PROVE  NewLine(e, c)[f] = e[f] \/ NewLine(e, c)[f] = Line(c)[f]
    BY <1>1, <2>2 DEF NewLine, Lines
  <2> QED
    BY <1>1, <2>1, <2>2 DEF Entry
<1>4. Belongs(NewLine(e, c))
  <2>1. Clash(Line(c), NewLine(e, c))
    BY <1>1, <1>2, NewLineIs DEF Clash, Wild
  <2>2. NewLine(e, c).password # None => c.password = NewLine(e, c).password
    BY <1>1, NewLineIs DEF Field
  <2> QED
    BY <1>1, <2>1, <2>2 DEF Belongs
<1>5. \A d \in Lines : Clash(NewLine(e, c), d) => Clash(e, d)
  BY NewLineIs DEF Clash, Wild
<1> QED
  BY <1>3, <1>4, <1>5

LEMMA SavedIsSound ==
    ASSUME NEW base, Sound(base), NEW c \in Requests
    PROVE  Saved(base, c) \in Seq(Raw) /\ Sound(ReadBack(Saved(base, c)))
<1> DEFINE l == ReadBack(Saved(base, c))
<1>1. /\ base \in Seq(Lines) /\ Len(base) \in Nat /\ DOMAIN base = 1 .. Len(base)
      /\ \A i \in DOMAIN base : base[i] \in Lines /\ Entry(base[i]) /\ Belongs(base[i])
      /\ \A i, j \in DOMAIN base :
             i # j /\ base[i].host \in PlainHosts => ~Clash(base[i], base[j])
  BY LenProperties, ElementOfSeq DEF Sound
<1>2. Saved(base, c) \in Seq(Raw)
  BY <1>1, SavedBehind, SavedAt
<1>3. l \in Seq(Lines)
  BY <1>2, ReadBackIs
<1>4. CASE Hits(base, c) = {}
  <2> DEFINE new == Len(base) + 1
  <2>1. /\ DOMAIN l = 1 .. new /\ l[new] = Line(c)
        /\ \A i \in DOMAIN base : l[i] = base[i]
        /\ \A i \in DOMAIN l : i = new \/ i \in DOMAIN base
    BY <1>1, <1>4, SavedBehind
  <2> HIDE DEF l, new
  <2>2. Entry(Line(c)) /\ Belongs(Line(c))
    BY RequestIs
  <2>3. \A i \in DOMAIN l : Entry(l[i]) /\ Belongs(l[i])
    BY <1>1, <2>1, <2>2
  <2>4. ASSUME NEW i \in DOMAIN base, base[i].host \in PlainHosts
        PROVE  ~Clash(Line(c), base[i])
    BY <1>1, <1>4, <2>4, MatchIsClash DEF Hits
  <2>5. ASSUME NEW i \in DOMAIN l, NEW j \in DOMAIN l, i # j, l[i].host \in PlainHosts,
               Clash(l[i], l[j])
        PROVE  FALSE
    <3>1. l[i].host = l[j].host
      BY <2>5 DEF Clash
    <3>2. CASE i = new
      BY <2>1, <2>4, <2>5, <3>1, <3>2
    <3>3. CASE j = new
      BY <2>1, <2>4, <2>5, <3>1, <3>3, ClashBothWays
    <3> QED
      BY <1>1, <2>1, <2>5, <3>2, <3>3
  <2>6. Sound(l)
    BY <1>3, <2>3, <2>5 DEF Sound
  <2> QED
    BY <1>2, <2>6 DEF l
<1>5. CASE Hits(base, c) # {}
  <2> DEFINE first == Min(Hits(base, c))
  <2>1. /\ DOMAIN l = DOMAIN base
        /\ first \in DOMAIN base /\ Matches(c, base[first])
        /\ \A i \in DOMAIN base : i # first => l[i] = base[i]
        /\ l[first] = NewLine(base[first], c)
    BY <1>1, <1>5, SavedAt
  <2> HIDE DEF l, first
  <2>2. /\ Entry(l[first]) /\ Belongs(l[first])
        /\ \A d \in Lines : Clash(l[first], d) => Clash(base[first], d)
        /\ l[first].host = base[first].host
    BY <1>1, <2>1, NewLineIsSound, NewLineIs
  <2>3. \A i \in DOMAIN l : Entry(l[i]) /\ Belongs(l[i])
    BY <1>1, <2>1, <2>2
  <2>4. ASSUME NEW i \in DOMAIN l, NEW j \in DOMAIN l, i # j, l[i].host \in PlainHosts,
               Clash(l[i], l[j])
        PROVE  FALSE
    <3>1. l[i].host = l[j].host
      BY <2>4 DEF Clash
    <3>2. CASE i = first
      BY <1>1, <2>1, <2>2, <2>4, <3>2
    <3>3. CASE j = first
      <4>1. Clash(base[first], base[i])
        BY <1>1, <2>1, <2>2, <2>4, <3>3, ClashBothWays
      <4> QED
        BY <1>1, <2>1, <2>2, <2>4, <3>1, <3>3, <4>1
    <3> QED
      BY <1>1, <2>1, <2>4, <3>2, <3>3
  <2>5. Sound(l)
    BY <1>3, <2>3, <2>4 DEF Sound
  <2> QED
    BY <1>2, <2>5 DEF l
<1> QED
  BY <1>2, <1>4, <1>5

LEMMA RemovedIsSound ==
    ASSUME NEW base, Sound(base), NEW c
    PROVE  Sound(Removed(base, c))
<1>1. base \in Seq(Lines) /\ DOMAIN base = 1 .. Len(base)
  BY LenProperties DEF Sound
<1>2. KeptOf(base, c, Len(base), Removed(base, c), Lines)
  BY <1>1, RemovedIs
<1>3. \A i \in DOMAIN Removed(base, c) :
         Entry(Removed(base, c)[i]) /\ Belongs(Removed(base, c)[i])
  BY <1>1, <1>2 DEF KeptOf, Sound
<1>4. ASSUME NEW i \in DOMAIN Removed(base, c), NEW j \in DOMAIN Removed(base, c), i # j,
             Removed(base, c)[i].host \in PlainHosts
      PROVE  ~Clash(Removed(base, c)[i], Removed(base, c)[j])
  <2>1. PICK a \in 1 .. Len(base), b \in 1 .. Len(base) :
           a # b /\ Removed(base, c)[i] = base[a] /\ Removed(base, c)[j] = base[b]
    BY <1>2, <1>4 DEF KeptOf
  <2> QED
    BY <1>1, <1>4, <2>1 DEF Sound
<1> QED
  BY <1>2, <1>3, <1>4 DEF Sound, KeptOf

\* A write that falls short leaves a sound file too.
LEMMA ShortIsSound ==
    ASSUME NEW list, Sound(list), NEW new \in ShortOf(list)
    PROVE  Sound(new)
<1>1. list \in Seq(Lines) /\ Len(list) \in Nat /\ DOMAIN list = 1 .. Len(list)
  BY LenProperties DEF Sound
<1>2. CASE \E n \in 0 .. Len(list) - 1 : new = SubSeq(list, 1, n)
  <2>1. PICK n \in 0 .. Len(list) - 1 : new = SubSeq(list, 1, n)
    BY <1>2
  <2>2. n \in Nat /\ 1 \in 1 .. Len(list) + 1 /\ n \in 0 .. Len(list)
    BY <1>1
  <2>3. new \in Seq(Lines) /\ DOMAIN new = 1 .. n /\ \A i \in 1 .. n : new[i] = list[i]
    BY <1>1, <2>1, <2>2 DEF Lines
  <2>4. \A i \in DOMAIN new : i \in DOMAIN list /\ new[i] = list[i]
    BY <1>1, <2>2, <2>3
  <2> QED
    BY <2>3, <2>4 DEF Sound
<1>3. CASE \E n \in DOMAIN list : list[n].password # None
              /\ new = Append(SubSeq(list, 1, n - 1), [list[n] EXCEPT !.password = Torn])
  <2>1. PICK n \in DOMAIN list :
           new = Append(SubSeq(list, 1, n - 1), [list[n] EXCEPT !.password = Torn])
    BY <1>3
  <2> DEFINE front == SubSeq(list, 1, n - 1)
             torn == [list[n] EXCEPT !.password = Torn]
  <2>2. n \in 1 .. Len(list) /\ n - 1 \in Nat /\ list[n] \in Lines /\ Entry(list[n])
    BY <1>1, ElementOfSeq DEF Sound
  <2>3. front \in Seq(Lines) /\ Len(front) = n - 1 /\ \A i \in 1 .. n - 1 : front[i] = list[i]
    BY <1>1, <2>2 DEF Lines
  <2>4. /\ torn \in Lines /\ Entry(torn) /\ Belongs(torn)
        /\ torn.host = list[n].host /\ torn.protocol = list[n].protocol
        /\ torn.username = list[n].username
    <3>1. torn \in Lines /\ torn.password = Torn
      BY <2>2, Names DEF Lines, Fields
    <3> QED
      BY <2>2, <3>1 DEF Entry, Belongs, Lines, Fields
  <2> HIDE DEF front, torn
  <2>5. new \in Seq(Lines) /\ Len(new) = n /\ new[n] = torn
        /\ \A i \in 1 .. n - 1 : new[i] = list[i]
    <3>1. new = Append(front, torn)
      BY <2>1 DEF front, torn
    <3> QED
      BY <2>2, <2>3, <2>4, <3>1, AppendProperties
  <2>6. DOMAIN new = 1 .. n
    BY <2>5, LenProperties
  <2>7. \A i \in DOMAIN new : i \in DOMAIN list /\ (i # n => new[i] = list[i])
    BY <1>1, <2>2, <2>5, <2>6
  <2>8. \A i \in DOMAIN new : /\ new[i].host = list[i].host /\ new[i].protocol = list[i].protocol
                              /\ new[i].username = list[i].username
                              /\ Entry(new[i]) /\ Belongs(new[i])
    BY <2>4, <2>5, <2>7 DEF Sound
  <2>9. \A i, j \in DOMAIN new : Clash(new[i], new[j]) => Clash(list[i], list[j])
    BY <2>8 DEF Clash
  <2> QED
    BY <2>5, <2>7, <2>8, <2>9 DEF Sound
<1> QED
  BY <1>2, <1>3 DEF ShortOf

-----------------------------------------------------------------------------
(* The invariant holds                                                     *)

LEMMA InitSound == Init => IndInv
BY EmptyIsSound DEF Init, IndInv

LEMMA LoadKeeps ==
    ASSUME IndInv, NEW p \in Procs, NEW op, NEW c, NEW base \in Readings, NEW list,
           \/ op = "save" /\ c \in Requests /\ list = Saved(base, c)
           \/ op = "erase" /\ c \in Erasures /\ list = Removed(base, c),
           Load(p, op, c, base, list)
    PROVE  IndInv'
<1>1. Sound(base)
  BY EmptyIsSound DEF IndInv, Readings
<1>2. proc' = [proc EXCEPT ![p] = [op |-> op, cred |-> c, base |-> base, list |-> list]]
      /\ file' = file
  BY DEF Load
<1>3. /\ proc'[p].op = op /\ proc'[p].cred = c /\ proc'[p].base = base /\ proc'[p].list = list
      /\ \A q \in Procs : q # p => proc'[q] = proc[q]
      /\ proc' = [q \in Procs |-> proc'[q]]
  BY <1>2 DEF IndInv
<1>4. Sound(file')
  BY <1>2 DEF IndInv
<1>5. ASSUME NEW q \in Procs
      PROVE  \/ proc'[q] = Idle
             \/ /\ Sound(proc'[q].base)
                /\ \/ /\ proc'[q].op = "save" /\ proc'[q].cred \in Requests
                      /\ proc'[q].list = Saved(proc'[q].base, proc'[q].cred)
                   \/ /\ proc'[q].op = "erase" /\ proc'[q].cred \in Erasures
                      /\ proc'[q].list = Removed(proc'[q].base, proc'[q].cred)
  <2>1. CASE q = p
    BY <1>1, <1>3, <2>1
  <2>2. CASE q # p
    BY <1>3, <2>2 DEF IndInv
  <2> QED
    BY <2>1, <2>2
<1> QED
  BY <1>3, <1>4, <1>5 DEF IndInv

\* A command ends and leaves a sound file.
LEMMA EndKeeps ==
    ASSUME IndInv, NEW p \in Procs, Sound(file)', proc' = [proc EXCEPT ![p] = Idle]
    PROVE  IndInv'
<1>1. /\ proc'[p] = Idle /\ \A q \in Procs : q # p => proc'[q] = proc[q]
      /\ proc' = [q \in Procs |-> proc'[q]]
  BY DEF IndInv
<1> QED
  BY <1>1 DEF IndInv

\* What a command writes when nothing falls short.
LEMMA WrittenIsSound ==
    ASSUME IndInv, NEW p \in Procs, proc[p] # Idle
    PROVE  Sound(ReadBack(proc[p].list))
<1>1. CASE proc[p].op = "save"
  BY <1>1, SavedIsSound DEF IndInv
<1>2. CASE proc[p].op = "erase"
  <2>1. Sound(proc[p].list)
    BY <1>2, RemovedIsSound DEF IndInv
  <2> QED
    BY <2>1, ReadBackSame DEF Sound
<1> QED
  BY <1>1, <1>2 DEF IndInv

LEMMA CommitKeeps ==
    ASSUME IndInv, NEW p \in Procs, Commit(p)
    PROVE  IndInv'
<1>1. proc[p] # Idle
  BY DEF Commit, Writes, Idle
<1>2. Sound(file')
  BY <1>1, WrittenIsSound, ShortIsSound DEF Commit
<1> QED
  BY <1>2, EndKeeps DEF Commit

LEMMA NextKeeps == IndInv /\ [Next]_vars => IndInv'
<1> SUFFICES ASSUME IndInv, [Next]_vars
             PROVE  IndInv'
  OBVIOUS
<1>1. ASSUME NEW p \in Procs, NEW c \in Saves, Store(p, c)
      PROVE  IndInv'
  <2>1. c \in Requests
    BY DEF Requests
  <2> QED
    BY <1>1, <2>1, LoadKeeps DEF Store
<1>2. ASSUME NEW p \in Procs, NEW c \in Saves, Add(p, c)
      PROVE  IndInv'
  <2>1. WithDefault(c) \in Requests
    BY DEF Requests
  <2> QED
    BY <1>2, <2>1, LoadKeeps DEF Add, Store
<1>3. ASSUME NEW p \in Procs, NEW c \in Erasures, Erase(p, c)
      PROVE  IndInv'
  BY <1>3, LoadKeeps DEF Erase
<1>4. ASSUME NEW p \in Procs, Commit(p)
      PROVE  IndInv'
  BY <1>4, CommitKeeps
<1>5. ASSUME NEW p \in Procs, NothingToErase(p) \/ GiveUp(p)
      PROVE  IndInv'
  <2>1. Sound(file)'
    BY <1>5 DEF NothingToErase, GiveUp, IndInv
  <2> QED
    BY <1>5, <2>1, EndKeeps DEF NothingToErase, GiveUp
<1>6. CASE UNCHANGED vars
  BY <1>6 DEF vars, IndInv
<1> QED
  BY <1>1, <1>2, <1>3, <1>4, <1>5, <1>6 DEF Next

\* The inductive invariant: every entry of the store, and of what a command is
\* about to write, is one that store_save or store_remove may leave.
THEOREM Invariance == Spec => []IndInv
BY InitSound, NextKeeps, PTL DEF Spec

\* The store only ever holds entries some command could have meant, whatever
\* overlapped, was killed or fell short (load_all, store_save, store_remove,
\* save_all).
THEOREM TypeCorrect == Spec => []TypeOK
<1>1. IndInv => TypeOK
  BY DEF IndInv, TypeOK, Sound, Idle
<1> QED
  BY <1>1, Invariance, PTL

\* No two entries of the store match each other: a complete query has one
\* answer (the search of store_save before it appends, and its update).
THEOREM AnswersAreUnambiguous == Spec => []Unambiguous
<1>1. IndInv => Unambiguous
  BY DEF IndInv, Unambiguous, Sound
<1> QED
  BY <1>1, Invariance, PTL

\* A password is only found under a key it was given for, although commands
\* overlap without a lock and writes stop anywhere.
THEOREM PasswordsBelong == Spec => []PasswordBelongs
<1>1. IndInv => PasswordBelongs
  BY DEF IndInv, PasswordBelongs, Sound, Belongs, Requests
<1> QED
  BY <1>1, Invariance, PTL

-----------------------------------------------------------------------------
(* What one command does                                                   *)

LEMMA SavedIsFound ==
    ASSUME NEW base, Sound(base), NEW c \in Requests, c.host \notin {None, Blank}
    PROVE  Find(ReadBack(Saved(base, c)), c).password = Field(c.password)
<1> DEFINE l == ReadBack(Saved(base, c))
<1>1. base \in Seq(Lines) /\ c \in Raw /\ l \in Seq(Lines)
      /\ \A i \in DOMAIN base : base[i] \in Lines
  BY SavedIsSound, ReadBackIs, RequestIs, ElementOfSeq DEF Sound
<1>2. Line(c).password = Field(c.password) /\ Matches(c, Line(c))
  BY <1>1, LineIs DEF Matches, Wild, Equal, Field
<1>3. CASE Hits(base, c) = {}
  <2>1. Hits(l, c) = {Len(base) + 1} /\ l[Len(base) + 1] = Line(c)
    <3>1. /\ DOMAIN l = 1 .. Len(base) + 1 /\ l[Len(base) + 1] = Line(c)
          /\ \A i \in DOMAIN base : l[i] = base[i]
          /\ DOMAIN base = 1 .. Len(base) /\ Len(base) \in Nat
      BY <1>1, <1>3, SavedBehind
    <3> HIDE DEF l
    <3>2. \A i \in DOMAIN l : i = Len(base) + 1 \/ i \in DOMAIN base
      BY <3>1
    <3>3. \A i \in DOMAIN base : ~Matches(c, base[i])
      BY <1>3 DEF Hits
    <3>4. Len(base) + 1 \in DOMAIN l
      BY <3>1
    <3> QED
      BY <1>2, <3>1, <3>2, <3>3, <3>4 DEF Hits
  <2> HIDE DEF l
  <2>2. Min(Hits(l, c)) = Len(base) + 1 /\ Hits(l, c) # {}
    BY <1>1, <2>1, FirstHit
  <2>3. Find(l, c).password = Field(c.password)
    BY <1>2, <2>1, <2>2 DEF Find
  <2> QED
    BY <2>3 DEF l
<1>4. CASE Hits(base, c) # {}
  <2> DEFINE first == Min(Hits(base, c))
  <2>1. /\ DOMAIN l = DOMAIN base /\ first \in DOMAIN base /\ Matches(c, base[first])
        /\ \A i \in DOMAIN base : i # first => l[i] = base[i]
        /\ l[first] = NewLine(base[first], c)
    BY <1>1, <1>4, SavedAt
  <2>2. first \in Hits(base, c) /\ \A i \in Hits(base, c) : first <= i
    BY <1>1, <1>4, FirstHit
  <2> HIDE DEF l, first
  <2>3. Matches(c, l[first]) /\ l[first].password = Field(c.password)
    BY <1>1, <2>1, NewLineIs DEF Matches, Wild, Field
  <2>4. first \in Hits(l, c) /\ \A i \in Hits(l, c) : i = first \/ i \in Hits(base, c)
    BY <2>1, <2>3 DEF Hits
  <2>5. Min(Hits(l, c)) \in Hits(l, c) /\ Min(Hits(l, c)) <= first
    BY <1>1, <2>4, FirstHit
  <2>6. Min(Hits(l, c)) = first
    <3>1. Min(Hits(l, c)) \in Nat /\ first \in Nat
      BY <1>1, <2>4, <2>5, LenProperties DEF Hits
    <3> HIDE DEF Min
    <3> QED
      BY <2>2, <2>4, <2>5, <3>1
  <2>7. Find(l, c).password = Field(c.password)
    BY <2>3, <2>4, <2>6 DEF Find
  <2> QED
    BY <2>7 DEF l
<1> QED
  BY <1>3, <1>4

\* When a save has been written in full, get finds the password it wrote,
\* whatever ran between its load and its rename (store_save, store_find).
THEOREM SavesAreFound == Spec => SaveIsFound
<1>1. ASSUME IndInv, NEW p \in Procs, proc[p].op = "save", file' = ReadBack(proc[p].list),
             proc[p].cred.host \notin {None, Blank}
      PROVE  Find(file', proc[p].cred).password = Field(proc[p].cred.password)
  BY <1>1, SavedIsFound DEF IndInv, Idle
<1>2. IndInv /\ [Next]_vars =>
        [\A p \in Procs :
            proc[p].op = "save" /\ file' # file /\ file' = ReadBack(proc[p].list) /\ proc'[p] = Idle
              => proc[p].cred.host \in {None, Blank}
                   \/ Find(file', proc[p].cred).password = Field(proc[p].cred.password)]_vars
  BY <1>1
<1> QED
  BY <1>2, Invariance, PTL DEF Spec, SaveIsFound

LEMMA OthersStay ==
    ASSUME IndInv, NEW p \in Procs, proc[p] # Idle, proc[p].base = file,
           NEW i \in DOMAIN file, ~Matches(proc[p].cred, file[i])
    PROVE  \E j \in DOMAIN ReadBack(proc[p].list) : ReadBack(proc[p].list)[j] = file[i]
<1> DEFINE c == proc[p].cred
<1>1. file \in Seq(Lines) /\ DOMAIN file = 1 .. Len(file) /\ Sound(file)
  BY LenProperties DEF IndInv, Sound
<1>2. CASE proc[p].op = "save"
  <2>1. c \in Requests /\ proc[p].list = Saved(file, c)
    BY <1>2 DEF IndInv
  <2>2. CASE Hits(file, c) = {}
    <3>1. ReadBack(proc[p].list)[i] = file[i] /\ i \in DOMAIN ReadBack(proc[p].list)
      BY <1>1, <2>1, <2>2, SavedBehind
    <3> QED
      BY <3>1
  <2>3. CASE Hits(file, c) # {}
    <3>1. ReadBack(proc[p].list)[i] = file[i] /\ i \in DOMAIN ReadBack(proc[p].list)
      BY <1>1, <2>1, <2>3, SavedAt
    <3> QED
      BY <3>1
  <2> QED
    BY <2>2, <2>3
<1>3. CASE proc[p].op = "erase"
  <2>1. proc[p].list = Removed(file, c) /\ Sound(proc[p].list)
    BY <1>1, <1>3, RemovedIsSound DEF IndInv
  <2>2. ReadBack(proc[p].list) = proc[p].list
    BY <2>1, ReadBackSame DEF Sound
  <2>3. ~Erases(c, file[i])
    BY DEF Erases, Matches, Equal, Wild
  <2> QED
    BY <1>1, <2>1, <2>2, <2>3, RemovedIs DEF KeptOf
<1> QED
  BY <1>2, <1>3 DEF IndInv

\* A command that overlapped with no other change leaves every entry it was
\* not about as it was (the edit of the list, save_all and load_all).
THEOREM OthersAreKept == Spec => OthersKept
<1>1. IndInv /\ [Next]_vars =>
        [\A p \in Procs :
            proc[p] # Idle /\ proc[p].base = file /\ file' = ReadBack(proc[p].list)
              => \A i \in DOMAIN file :
                   ~Matches(proc[p].cred, file[i]) => \E j \in DOMAIN file' : file'[j] = file[i]]_vars
  BY OthersStay
<1> QED
  BY <1>1, Invariance, PTL DEF Spec, OthersKept

LEMMA NothingLeftToErase ==
    ASSUME IndInv, NEW p \in Procs, proc[p].op = "erase", proc[p].cred.protocol # None,
           proc[p].base = file
    PROVE  LET e == Find(ReadBack(proc[p].list), proc[p].cred) IN e = None \/ e.protocol = None
<1> DEFINE c == proc[p].cred
           l == proc[p].list
<1>1. file \in Seq(Lines) /\ l = Removed(file, c) /\ l \in Seq(Lines)
  BY RemovedIsSound DEF IndInv, Sound, Idle
<1>2. ReadBack(l) = l
  BY <1>1, ReadBackSame
<1>3. \A i \in DOMAIN l : ~Erases(c, l[i])
  <2>1. KeptOf(file, c, Len(file), l, Lines)
    BY <1>1, RemovedIs
  <2> QED
    BY <2>1 DEF KeptOf
<1>4. CASE Hits(l, c) # {}
  <2>1. Min(Hits(l, c)) \in Hits(l, c)
    BY <1>1, <1>4, FirstHit
  <2>2. Matches(c, Find(l, c)) /\ ~Erases(c, Find(l, c))
    BY <1>3, <1>4, <2>1 DEF Hits, Find
  <2>3. Find(l, c).protocol = None
    BY <2>2 DEF Matches, Erases, Wild, Equal
  <2> QED
    BY <1>2, <2>3
<1>5. CASE Hits(l, c) = {}
  BY <1>2, <1>5 DEF Find
<1> QED
  BY <1>4, <1>5

\* After an erase that names a protocol, get finds nothing for the pattern but
\* an entry stored without a protocol (store_remove, store_find).
THEOREM ErasesAreComplete == Spec => EraseIsComplete
<1>1. IndInv /\ [Next]_vars =>
        [\A p \in Procs :
            proc[p].op = "erase" /\ proc[p].cred.protocol # None /\ proc[p].base = file
              /\ proc'[p] = Idle /\ file' = ReadBack(proc[p].list)
              => LET e == Find(file', proc[p].cred) IN e = None \/ e.protocol = None]_vars
  BY NothingLeftToErase
<1> QED
  BY <1>1, Invariance, PTL DEF Spec, EraseIsComplete

=============================================================================
