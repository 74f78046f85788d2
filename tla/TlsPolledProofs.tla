----------------------------- MODULE TlsPolledProofs -----------------------------
(***************************************************************************)
(* Polled of TlsReactor, for any number of clients and descriptors and any *)
(* sizes, as long as there are no more threads than the ring has entries   *)
(* (4,096 in the code): until two handlers are in the ring at once, or the *)
(* kernel refuses, or the table moves under a handler, a thread that parks *)
(* will be woken.                                                          *)
(*                                                                         *)
(* The invariant describes the whole ring. From the head on it holds one   *)
(* entry for each thread that is about to enter the kernel, the array maps *)
(* every live position to itself, and the one handler that is filling an   *)
(* entry fills the one behind them, which is nobody's.                     *)
(***************************************************************************)
EXTENDS TlsReactorProofs, FiniteSetTheorems

EnoughEntries == IsFiniteSet(Threads) /\ Cardinality(Threads) <= RING_DEPTH

-----------------------------------------------------------------------------
(***************************************************************************)
(* Counters that wrap, and positions in the ring.                          *)
(***************************************************************************)

LEMMA ModSmall ==
    ASSUME NEW n \in Nat \ {0}, NEW a \in 0 .. n - 1
    PROVE  a % n = a
OBVIOUS

LEMMA ModBelow ==
    ASSUME NEW n \in Nat \ {0}, NEW a \in -n .. -1
    PROVE  a % n = a + n
OBVIOUS

LEMMA DivMod ==
    ASSUME NEW n \in Nat \ {0}, NEW a \in Int
    PROVE  /\ a \div n \in Int /\ a % n \in 0 .. n - 1
           /\ a = n * (a \div n) + (a % n)
OBVIOUS

LEMMA ModUnique ==
    ASSUME NEW n \in Nat \ {0}, NEW q \in Int, NEW r \in 0 .. n - 1
    PROVE  (n * q + r) % n = r
OBVIOUS

\* Adding a multiple changes no remainder.
LEMMA ModPlus ==
    ASSUME NEW n \in Nat \ {0}, NEW m \in Int, m % n = 0, NEW a \in Int
    PROVE  (a + m) % n = a % n
<1> DEFINE p == a \div n
           q == m \div n
           r == a % n
<1>1. p \in Int /\ r \in 0 .. n - 1 /\ a = n * p + r
  BY DivMod
<1>2. q \in Int /\ m = n * q
  BY DivMod
<1> HIDE DEF p, q, r
<1>3. a + m = n * (p + q) + r
  BY <1>1, <1>2
<1>4. (n * (p + q) + r) % n = r
  BY <1>1, <1>2, ModUnique
<1> QED
  BY <1>3, <1>4 DEF r

\* Numbers closer than n have different remainders.
LEMMA ModDiffer ==
    ASSUME NEW n \in Nat \ {0}, NEW a \in Int, NEW d \in 1 .. n - 1
    PROVE  (a + d) % n # a % n
<1> DEFINE p == a \div n
           r == a % n
<1>1. p \in Int /\ r \in 0 .. n - 1 /\ a = n * p + r
  BY DivMod
<1> HIDE DEF p, r
<1>2. CASE r + d < n
  <2>1. a + d = n * p + (r + d) /\ r + d \in 0 .. n - 1
    BY <1>1, <1>2
  <2>2. (n * p + (r + d)) % n = r + d
    BY <1>1, <2>1, ModUnique
  <2> QED
    BY <1>1, <2>1, <2>2 DEF r
<1>3. CASE r + d >= n
  <2>1. a + d = n * (p + 1) + (r + d - n) /\ r + d - n \in 0 .. n - 1 /\ p + 1 \in Int
    BY <1>1, <1>3
  <2>2. (n * (p + 1) + (r + d - n)) % n = r + d - n
    BY <2>1, ModUnique
  <2> QED
    BY <1>1, <2>1, <2>2 DEF r
<1> QED
  BY <1>1, <1>2, <1>3

\* How many entries lie between head and tail.
Between(head, tail) == (tail - head) % Wrap

LEMMA BetweenIs ==
    ASSUME NEW h \in 0 .. Wrap - 1, NEW l \in 0 .. Wrap - 1
    PROVE  /\ Between(h, l) = IF h <= l THEN l - h ELSE l - h + Wrap
           /\ Between(h, l) \in 0 .. Wrap - 1
<1>1. CASE h <= l
  BY <1>1, SizesAssumption, ModSmall DEF Between
<1>2. CASE h > l
  BY <1>2, SizesAssumption, ModBelow DEF Between
<1> QED
  BY <1>1, <1>2

LEMMA Next1Is ==
    ASSUME NEW n \in 0 .. Wrap - 1
    PROVE  /\ Next1(n) = IF n + 1 = Wrap THEN 0 ELSE n + 1
           /\ Next1(n) \in 0 .. Wrap - 1
<1>1. CASE n + 1 = Wrap
  BY <1>1, SizesAssumption DEF Next1
<1>2. CASE n + 1 # Wrap
  BY <1>2, SizesAssumption, ModSmall DEF Next1
<1> QED
  BY <1>1, <1>2, SizesAssumption

\* An entry more behind the tail, and one less at the head.
LEMMA BetweenMoves ==
    ASSUME NEW h \in 0 .. Wrap - 1, NEW l \in 0 .. Wrap - 1
    PROVE  /\ Between(h, l) < Wrap - 1 => Between(h, Next1(l)) = Between(h, l) + 1
           /\ h # l => Between(Next1(h), l) = Between(h, l) - 1
           /\ h = l <=> Between(h, l) = 0
<1>1. Next1(h) \in 0 .. Wrap - 1 /\ Next1(l) \in 0 .. Wrap - 1
  BY Next1Is
<1> DEFINE n == Between(h, l)
<1>2. n = (IF h <= l THEN l - h ELSE l - h + Wrap) /\ n \in 0 .. Wrap - 1
  BY BetweenIs
<1>3. Between(h, Next1(l)) = IF h <= Next1(l) THEN Next1(l) - h ELSE Next1(l) - h + Wrap
  BY <1>1, BetweenIs
<1>4. Between(Next1(h), l) = IF Next1(h) <= l THEN l - Next1(h) ELSE l - Next1(h) + Wrap
  BY <1>1, BetweenIs
<1> HIDE DEF n
<1>5. n < Wrap - 1 => Between(h, Next1(l)) = n + 1
  BY <1>2, <1>3, Next1Is, SizesAssumption
<1>6. h # l => Between(Next1(h), l) = n - 1
  BY <1>2, <1>4, Next1Is, SizesAssumption
<1>7. h = l <=> n = 0
  BY <1>2, SizesAssumption
<1> QED
  BY <1>5, <1>6, <1>7 DEF n

\* A counter that wraps stays at its position.
LEMMA IndexWraps == \A a \in Int : Index(a + Wrap) = Index(a)
<1>1. RING_DEPTH \in Nat \ {0} /\ Wrap \in Int /\ Wrap % RING_DEPTH = 0
  BY SizesAssumption
<1>2. ASSUME NEW a \in Int PROVE (a + Wrap) % RING_DEPTH = a % RING_DEPTH
  BY <1>1, ModPlus
<1> QED
  BY <1>2 DEF Index

\* Positions: those of the counters, whether they have wrapped or not.
LEMMA IndexMoves ==
    ASSUME NEW h \in 0 .. Wrap - 1, NEW k \in Nat
    PROVE  Index(Next1(h) + k) = Index(h + (k + 1))
<1>1. CASE h + 1 = Wrap
  <2>1. h + (k + 1) = k + Wrap /\ Next1(h) + k = k
    BY <1>1, Next1Is, SizesAssumption
  <2>2. Index(k + Wrap) = Index(k)
    BY IndexWraps
  <2> QED
    BY <2>1, <2>2
<1>2. CASE h + 1 # Wrap
  BY <1>2, Next1Is, SizesAssumption
<1> QED
  BY <1>1, <1>2

LEMMA IndexOfTail ==
    ASSUME NEW h \in 0 .. Wrap - 1, NEW l \in 0 .. Wrap - 1
    PROVE  Index(h + Between(h, l)) = Index(l)
<1>1. CASE h <= l
  BY <1>1, BetweenIs, SizesAssumption
<1>2. CASE h > l
  <2>1. h + Between(h, l) = l + Wrap
    BY <1>2, BetweenIs, SizesAssumption
  <2>2. Index(l + Wrap) = Index(l)
    BY IndexWraps, SizesAssumption
  <2> QED
    BY <2>1, <2>2
<1> QED
  BY <1>1, <1>2

LEMMA IndexDiffers ==
    ASSUME NEW h \in Nat, NEW k \in Nat, NEW m \in Nat, k < m, m - k < RING_DEPTH
    PROVE  Index(h + k) # Index(h + m)
<1> DEFINE a == h + k
           d == m - k
<1>1. a \in Int /\ d \in 1 .. RING_DEPTH - 1 /\ h + m = a + d /\ RING_DEPTH \in Nat \ {0}
  BY SizesAssumption
<1> HIDE DEF d
<1>2. (a + d) % RING_DEPTH # a % RING_DEPTH
  <2> HIDE DEF a
  <2> QED
    BY <1>1, ModDiffer
<1> QED
  BY <1>1, <1>2 DEF Index

-----------------------------------------------------------------------------
(***************************************************************************)
(* The invariant.                                                          *)
(***************************************************************************)

\* The entries the kernel has not taken, and where the k-th of them is.
Count == Between(ring.head, ring.tail)
Place(k) == Index(ring.head + k)
Entry(k) == ring.sqes[ring.arr[Place(k)]]
PollFor(fd) == [op |-> "poll", fd |-> fd, ud |-> fd]

\* At most one handler is filling an entry, and it is the one behind the tail.
Alone == \A t, u \in Threads : InRing(t) /\ InRing(u) => t = u
Loaded == \A t \in Threads : InRing(t) => th[t].seen = ring.tail
Filling(t) ==
  LET i == Index(ring.tail)
      e == ring.sqes[i]
      pc == th[t].pc
  IN /\ pc \in {"fd", "user_data", "flush", "publish"} => ring.arr[i] = i
     /\ pc \in {"user_data", "flush", "publish"} => e.op = "poll" /\ e.fd = th[t].fd
     /\ pc \in {"flush", "publish"} => e.ud = th[t].fd
Entering == {t \in Threads : At(t, "enter")}
Published ==
  /\ Count = Cardinality(Entering)
  /\ \A k \in 0 .. Count - 1 : ring.arr[Place(k)] = Place(k)
RingOrder == Alone /\ Loaded /\ (\A t \in Threads : Filling(t)) /\ Published

\* What a thread that is about to enter, or parks, can rely on: as Reachable,
\* but a completion whose wake-up is being given no longer counts.
Completed(fd) ==
  \E i \in 1 .. Len(cq) : cq[i] = [tag |-> "poll", fd |-> fd] /\ (wake # NoFd => i # 1)
InEntry(fd) == \E k \in 0 .. Count - 1 : Entry(k) = PollFor(fd)
Assured(fd, c) ==
  \/ slots[fd].futex = 1
  \/ BagIn(<<c, fd>>, polls)
  \/ Completed(fd)
  \/ InEntry(fd)
Waits(t) == th[t].pc \in {"enter", "park", "asleep"}
Awaited == \A t \in Threads : Waits(t) => Assured(th[t].fd, th[t].conn)

Still == \A t \in Threads : ~th[t].moved
Copies == \A e \in DOMAIN polls : polls[e] \in Nat \ {0}

Orderly == RingOrder /\ Awaited /\ Still
PolledInv == IndInv /\ Copies /\ (~disturbed => Orderly)

-----------------------------------------------------------------------------
(***************************************************************************)
(* The order of the ring.                                                  *)
(***************************************************************************)

LEMMA RingFacts ==
    ASSUME IndInv
    PROVE  /\ RingTypes /\ th \in [Threads -> Handler]
           /\ ring.head \in 0 .. Wrap - 1 /\ ring.tail \in 0 .. Wrap - 1
           /\ Count \in 0 .. Wrap - 1
           /\ \A k \in Nat : Place(k) \in 0 .. RING_DEPTH - 1
           /\ Index(ring.tail) \in 0 .. RING_DEPTH - 1
<1>1. RingTypes /\ th \in [Threads -> Handler]
  BY TypeParts DEF IndInv
<1>2. ring.head \in 0 .. Wrap - 1 /\ ring.tail \in 0 .. Wrap - 1
  BY <1>1 DEF RingTypes
<1>3. Count \in 0 .. Wrap - 1
  BY <1>2, BetweenIs DEF Count
<1>4. ASSUME NEW k \in Nat PROVE Place(k) \in 0 .. RING_DEPTH - 1
  <2>1. ring.head + k \in Int /\ RING_DEPTH \in Nat \ {0}
    BY <1>2, SizesAssumption
  <2> QED
    BY <2>1, DivMod DEF Place, Index
<1>5. Index(ring.tail) \in 0 .. RING_DEPTH - 1
  BY <1>2, IndexInside
<1> QED
  BY <1>1, <1>2, <1>3, <1>4, <1>5

\* There is room: a thread in the ring is not one that has an entry there.
LEMMA Room ==
    ASSUME IndInv, Published, EnoughEntries
    PROVE  /\ Count <= RING_DEPTH
           /\ \A t \in Threads : ~At(t, "enter") => Count < RING_DEPTH
<1>1. IsFiniteSet(Threads) /\ Cardinality(Threads) <= RING_DEPTH
      /\ Count = Cardinality(Entering)
  BY DEF EnoughEntries, Published
<1>2. Cardinality(Threads) \in Nat
  BY <1>1, FS_CardinalityType
<1>3. Entering \in SUBSET Threads
  BY DEF Entering
<1>4. /\ Cardinality(Entering) <= Cardinality(Threads)
      /\ Cardinality(Entering) = Cardinality(Threads) => Threads = Entering
      /\ IsFiniteSet(Entering)
  BY <1>1, <1>3, FS_Subset
<1>5. Cardinality(Entering) \in Nat
  BY <1>4, FS_CardinalityType
<1>6. ASSUME NEW t \in Threads, ~At(t, "enter") PROVE Cardinality(Entering) # Cardinality(Threads)
  BY <1>4, <1>6 DEF Entering
<1> QED
  BY <1>1, <1>2, <1>4, <1>5, <1>6, SizesAssumption

\* What is written at the tail reaches no live entry.
LEMMA LiveElsewhere ==
    ASSUME IndInv, Published, Count < RING_DEPTH, NEW k \in 0 .. Count - 1
    PROVE  Place(k) # Index(ring.tail)
<1>1. /\ ring.head \in 0 .. Wrap - 1 /\ ring.tail \in 0 .. Wrap - 1
      /\ Count \in 0 .. Wrap - 1
  BY RingFacts
<1>2. Index(ring.head + Count) = Index(ring.tail)
  BY <1>1, IndexOfTail DEF Count
<1>3. Index(ring.head + k) # Index(ring.head + Count)
  BY <1>1, IndexDiffers, SizesAssumption
<1> QED
  BY <1>2, <1>3 DEF Place

\* The set of threads that are about to enter, as threads move.
LEMMA EnteringMoves ==
    ASSUME th \in [Threads -> Handler], NEW t \in Threads,
           \A u \in Threads \ {t} : th'[u] = th[u]
    PROVE  /\ At(t, "enter")' <=> At(t, "enter") => Entering' = Entering
           /\ At(t, "enter")' /\ ~At(t, "enter") => Entering' = Entering \cup {t}
           /\ ~At(t, "enter")' /\ At(t, "enter") => Entering' = Entering \ {t}
BY DEF Entering, At

\* A step away from the ring.
LEMMA RingOrderKept ==
    ASSUME RingOrder, UNCHANGED ring,
           \A t \in Threads :
             /\ InRing(t)' => /\ th'[t].pc = th[t].pc
                              /\ th'[t].seen = th[t].seen
                              /\ th'[t].fd = th[t].fd
             /\ At(t, "enter")' <=> At(t, "enter")
    PROVE  RingOrder' /\ (\A fd : InEntry(fd) => InEntry(fd)')
<1>1. Count' = Count /\ (\A k : Place(k)' = Place(k)) /\ (\A k : Entry(k)' = Entry(k))
  BY DEF Count, Place, Entry
<1>2. Entering' = Entering
  BY DEF Entering
<1>3. Alone' /\ Loaded'
  BY DEF RingOrder, Alone, Loaded, InRing
<1>4. ASSUME NEW t \in Threads PROVE Filling(t)'
  <2>1. CASE InRing(t)'
    BY <2>1 DEF RingOrder, Filling
  <2>2. CASE ~InRing(t)'
    BY <2>2 DEF Filling, InRing
  <2> QED
    BY <2>1, <2>2
<1>5. Published'
  BY <1>1, <1>2 DEF RingOrder, Published
<1>6. \A fd : InEntry(fd) => InEntry(fd)'
  BY <1>1 DEF InEntry, PollFor
<1> QED
  BY <1>3, <1>4, <1>5, <1>6 DEF RingOrder

\* Handler t is in the ring, alone, and its step leaves it there.
LEMMA StaysAlone ==
    ASSUME Alone, Loaded, NEW t \in Threads, InRing(t), InRing(t)',
           th'[t].seen = ring'.tail,
           \A u \in Threads \ {t} : th'[u] = th[u]
    PROVE  /\ Alone' /\ Loaded'
           /\ \A u \in Threads \ {t} : ~InRing(u) /\ ~InRing(u)'
<1>1. ASSUME NEW u \in Threads \ {t} PROVE ~InRing(u) /\ ~InRing(u)'
  BY DEF Alone, InRing
<1>2. Alone' /\ Loaded'
  BY <1>1 DEF Alone, Loaded
<1> QED
  BY <1>1, <1>2

\* An entry is filled: only what is at the tail changes.
LEMMA FillKeeps ==
    ASSUME IndInv, RingOrder, EnoughEntries, NEW t \in Threads,
           TakeEntry(t) \/ SetFd(t) \/ SetUserData(t)
    PROVE  RingOrder' /\ (\A fd : InEntry(fd) => InEntry(fd)')
<1> DEFINE i == Index(ring.tail)
<1>1. /\ th \in [Threads -> Handler] /\ th[t] \in Handler /\ RingTypes
      /\ i \in 0 .. RING_DEPTH - 1 /\ Count \in Nat
      /\ \A k \in Nat : Place(k) \in 0 .. RING_DEPTH - 1
  BY RingFacts
<1>2. InRing(t) /\ ~At(t, "enter")
  BY DEF TakeEntry, SetFd, SetUserData, At, InRing
<1>3. th[t].seen = ring.tail /\ Index(th[t].seen) = i
  BY <1>2 DEF RingOrder, Loaded
<1>4. /\ ring'.head = ring.head /\ ring'.tail = ring.tail
      /\ \A j \in 0 .. RING_DEPTH - 1 : j # i => /\ ring'.arr[j] = ring.arr[j]
                                                /\ ring'.sqes[j] = ring.sqes[j]
  <2> HIDE DEF i
  <2>1. CASE TakeEntry(t)
    BY <1>1, <1>3, <2>1 DEF TakeEntry, RingTypes
  <2>2. CASE SetFd(t)
    BY <1>1, <1>3, <2>2 DEF SetFd, RingTypes
  <2>3. CASE SetUserData(t)
    BY <1>1, <1>3, <2>3 DEF SetUserData, RingTypes
  <2> QED
    BY <2>1, <2>2, <2>3
<1>5. /\ th'[t].pc \in {"fd", "user_data", "flush"}
      /\ th'[t].seen = th[t].seen /\ th'[t].fd = th[t].fd
      /\ \A u \in Threads \ {t} : th'[u] = th[u]
  BY <1>1 DEF TakeEntry, SetFd, SetUserData, Goto, Handler
<1>6. ring'.arr[i] = i
  <2>1. CASE TakeEntry(t)
    BY <1>1, <1>3, <2>1 DEF TakeEntry, RingTypes
  <2>2. CASE SetFd(t) \/ SetUserData(t)
    <3>1. ring.arr[i] = i
      BY <2>2 DEF RingOrder, Filling, SetFd, SetUserData, At
    <3>2. ring'.arr = ring.arr
      BY <1>1, <2>2 DEF SetFd, SetUserData, RingTypes
    <3> QED
      BY <3>1, <3>2
  <2> QED
    BY <2>1, <2>2
<1>7. Count < RING_DEPTH
  BY <1>2, Room DEF RingOrder
<1>8. Count' = Count /\ \A k : Place(k)' = Place(k)
  BY <1>4 DEF Count, Place
<1>9. ASSUME NEW k \in 0 .. Count - 1
      PROVE  ring'.arr[Place(k)] = Place(k) /\ Entry(k)' = Entry(k)
  <2>1. Place(k) # i /\ Place(k) \in 0 .. RING_DEPTH - 1 /\ ring.arr[Place(k)] = Place(k)
    BY <1>1, <1>7, LiveElsewhere DEF RingOrder, Published
  <2> HIDE DEF i
  <2> QED
    BY <1>4, <1>8, <2>1 DEF Entry
<1>10. /\ Alone' /\ Loaded'
       /\ \A u \in Threads \ {t} : ~InRing(u) /\ ~InRing(u)'
  <2>1. InRing(t)'
    BY <1>5 DEF InRing
  <2> QED
    BY <1>2, <1>3, <1>4, <1>5, <2>1, StaysAlone DEF RingOrder
<1>11. Published'
  <2>1. Entering' = Entering
    BY <1>1, <1>2, <1>5, EnteringMoves DEF At
  <2> QED
    BY <1>8, <1>9, <2>1 DEF RingOrder, Published
<1>12. ASSUME NEW u \in Threads PROVE Filling(u)'
  <2>1. CASE u # t
    BY <1>10, <2>1 DEF Filling, InRing
  <2>2. CASE u = t /\ TakeEntry(t)
    <3>1. th'[t].pc = "fd"
      BY <1>1, <2>2 DEF TakeEntry, Goto, Handler
    <3> QED
      BY <1>4, <1>6, <2>2, <3>1 DEF Filling
  <2>3. CASE u = t /\ SetFd(t)
    <3>1. th'[t].pc = "user_data"
      BY <1>1, <2>3 DEF SetFd, Goto, Handler
    <3>2. ring'.sqes[i].op = "poll" /\ ring'.sqes[i].fd = th[t].fd
      <4> HIDE DEF i
      <4>1. ring.sqes[i] \in Sqe
        BY <1>1 DEF RingTypes
      <4> QED
        BY <1>1, <1>3, <2>3, <4>1 DEF SetFd, RingTypes, Sqe
    <3> QED
      BY <1>4, <1>5, <1>6, <2>3, <3>1, <3>2 DEF Filling
  <2>4. CASE u = t /\ SetUserData(t)
    <3>1. ring.sqes[i].op = "poll" /\ ring.sqes[i].fd = th[t].fd
      BY <2>4 DEF RingOrder, Filling, SetUserData, At
    <3>2. ring'.sqes[i] = [ring.sqes[i] EXCEPT !.ud = th[t].fd] /\ ring.sqes[i] \in Sqe
      <4> HIDE DEF i
      <4> QED
        BY <1>1, <1>3, <2>4 DEF SetUserData, RingTypes
    <3>3. ring'.sqes[i].op = "poll" /\ ring'.sqes[i].fd = th[t].fd /\ ring'.sqes[i].ud = th[t].fd
      BY <3>1, <3>2 DEF Sqe
    <3> QED
      BY <1>4, <1>5, <1>6, <2>4, <3>3 DEF Filling
  <2> QED
    BY <2>1, <2>2, <2>3, <2>4
<1>13. \A fd : InEntry(fd) => InEntry(fd)'
  BY <1>8, <1>9 DEF InEntry, PollFor
<1> QED
  BY <1>10, <1>11, <1>12, <1>13 DEF RingOrder

\* The tail is loaded: for an entry when nobody else is in the ring, and again
\* before it is published, when it still is what it was.
LEMMA LoadKeeps ==
    ASSUME IndInv, RingOrder, NEW t \in Threads,
           (LoadTail(t) /\ ~disturbed') \/ LoadForFlush(t)
    PROVE  RingOrder' /\ (\A fd : InEntry(fd) => InEntry(fd)')
<1>1. th \in [Threads -> Handler] /\ th[t] \in Handler /\ ring' = ring
  BY RingFacts DEF LoadTail, LoadForFlush
<1>2. /\ th'[t].seen = ring.tail /\ th'[t].fd = th[t].fd
      /\ \A u \in Threads \ {t} : th'[u] = th[u]
      /\ th'[t].pc = IF LoadForFlush(t) THEN "publish" ELSE "entry"
  BY <1>1 DEF LoadTail, LoadForFlush, Handler, At
<1>3. CASE LoadForFlush(t)
  <2>1. th[t].pc = "flush" /\ th'[t].pc = "publish"
    BY <1>2, <1>3 DEF LoadForFlush, At
  <2>2. InRing(t) /\ InRing(t)'
    BY <2>1 DEF InRing
  <2>3. /\ Alone' /\ Loaded'
        /\ \A u \in Threads \ {t} : ~InRing(u) /\ ~InRing(u)'
    BY <1>1, <1>2, <2>2, StaysAlone DEF RingOrder
  <2>4. \A u \in Threads : Filling(u)'
    BY <1>1, <1>2, <2>1, <2>3 DEF RingOrder, Filling, InRing
  <2>5. Entering' = Entering
    BY <1>1, <1>2, <2>1, EnteringMoves DEF At
  <2>6. Published' /\ \A fd : InEntry(fd) => InEntry(fd)'
    BY <1>1, <2>5 DEF RingOrder, Published, Count, Place, Entry, InEntry, PollFor
  <2> QED
    BY <2>3, <2>4, <2>6 DEF RingOrder
<1>4. CASE LoadTail(t) /\ ~disturbed' /\ ~LoadForFlush(t)
  <2>1. th[t].pc = "tail" /\ th'[t].pc = "entry"
    BY <1>2, <1>4 DEF LoadTail, At
  <2>2. \A u \in Threads \ {t} : ~InRing(u) /\ ~InRing(u)'
    BY <1>2, <1>4 DEF LoadTail, InRing
  <2>3. Alone' /\ Loaded'
    BY <1>1, <1>2, <2>2 DEF Alone, Loaded
  <2>4. \A u \in Threads : Filling(u)'
    BY <2>1, <2>2 DEF Filling, InRing
  <2>5. Entering' = Entering
    BY <1>1, <1>2, <2>1, EnteringMoves DEF At
  <2>6. Published' /\ \A fd : InEntry(fd) => InEntry(fd)'
    BY <1>1, <2>5 DEF RingOrder, Published, Count, Place, Entry, InEntry, PollFor
  <2> QED
    BY <2>3, <2>4, <2>6 DEF RingOrder
<1> QED
  BY <1>3, <1>4

\* Undisturbed the ring is never full: every handler finds an entry.
LEMMA AlwaysEntry ==
    ASSUME IndInv, RingOrder, EnoughEntries, NEW t \in Threads
    PROVE  ~NoEntry(t)
<1> SUFFICES ASSUME NoEntry(t) PROVE FALSE
  OBVIOUS
<1>1. At(t, "entry") /\ (th[t].seen - ring.head) % Wrap >= RING_DEPTH
  BY DEF NoEntry
<1>2. th[t].seen = ring.tail
  BY <1>1 DEF RingOrder, Loaded, InRing, At
<1>3. Count < RING_DEPTH /\ Count \in Nat
  BY <1>1, Room, RingFacts DEF RingOrder, At
<1> QED
  BY <1>1, <1>2, <1>3, SizesAssumption DEF Count, Between

\* The entry at the tail becomes the last of those the kernel may take.
LEMMA PublishKeeps ==
    ASSUME IndInv, RingOrder, EnoughEntries, NEW t \in Threads, Publish(t)
    PROVE  /\ RingOrder' /\ (\A fd : InEntry(fd) => InEntry(fd)')
           /\ InEntry(th[t].fd)'
<1> DEFINE i == Index(ring.tail)
<1>1. /\ th \in [Threads -> Handler] /\ th[t] \in Handler /\ RingTypes
      /\ ring.head \in 0 .. Wrap - 1 /\ ring.tail \in 0 .. Wrap - 1
      /\ i \in 0 .. RING_DEPTH - 1 /\ Count \in Nat
  BY RingFacts
<1>2. InRing(t) /\ ~At(t, "enter") /\ th[t].pc = "publish"
  BY DEF Publish, At, InRing
<1>3. th[t].seen = ring.tail
  BY <1>2 DEF RingOrder, Loaded
<1>4. /\ ring'.head = ring.head /\ ring'.tail = Next1(ring.tail)
      /\ ring'.arr = ring.arr /\ ring'.sqes = ring.sqes
  BY <1>1, <1>3 DEF Publish, RingTypes
<1>5. /\ th'[t].pc = "enter" /\ th'[t].fd = th[t].fd
      /\ \A u \in Threads \ {t} : th'[u] = th[u]
  BY <1>1 DEF Publish, Handler
<1>6. Count < RING_DEPTH
  BY <1>2, Room DEF RingOrder
<1>7. Count' = Count + 1
  BY <1>1, <1>4, <1>6, BetweenMoves, SizesAssumption DEF Count
<1>8. \A k : Place(k)' = Place(k) /\ Entry(k)' = Entry(k)
  BY <1>4 DEF Place, Entry
<1>9. Place(Count) = i
  BY <1>1, IndexOfTail DEF Place, Count
<1>10. /\ ring.arr[i] = i /\ ring.sqes[i].op = "poll"
       /\ ring.sqes[i].fd = th[t].fd /\ ring.sqes[i].ud = th[t].fd
  BY <1>2 DEF RingOrder, Filling
<1>11. ASSUME NEW k \in Nat, k = Count PROVE Entry(k)' = PollFor(th[t].fd)
  <2> HIDE DEF i
  <2>1. ring.sqes[i] \in Sqe
    BY <1>1 DEF RingTypes
  <2>2. ring.sqes[i] = PollFor(th[t].fd)
    BY <1>10, <2>1 DEF Sqe, PollFor
  <2> QED
    BY <1>8, <1>9, <1>10, <1>11, <2>2 DEF Entry
<1>12. Alone' /\ Loaded' /\ \A u \in Threads : Filling(u)'
  <2>1. \A u \in Threads : ~InRing(u)'
    BY <1>2, <1>5 DEF RingOrder, Alone, InRing
  <2> QED
    BY <2>1 DEF Alone, Loaded, Filling, InRing
<1>13. Published'
  <2>1. Entering' = Entering \cup {t} /\ t \notin Entering
    BY <1>1, <1>2, <1>5, EnteringMoves DEF At, Entering
  <2>2. IsFiniteSet(Entering)
    BY FS_Subset DEF EnoughEntries, Entering
  <2>3. Cardinality(Entering') = Cardinality(Entering) + 1
    BY <2>1, <2>2, FS_AddElement
  <2>4. Count' = Cardinality(Entering')
    BY <1>7, <2>3 DEF RingOrder, Published
  <2>5. ASSUME NEW k \in 0 .. Count' - 1 PROVE ring'.arr[Place(k)'] = Place(k)'
    <3>1. k \in 0 .. Count - 1 \/ k = Count
      BY <1>1, <1>7
    <3>2. ring.arr[Place(k)] = Place(k)
      BY <1>9, <1>10, <3>1 DEF RingOrder, Published
    <3> QED
      BY <1>4, <1>8, <3>2
  <2> QED
    BY <2>4, <2>5 DEF Published
<1>14. \A fd : InEntry(fd) => InEntry(fd)'
  <2>1. \A k \in 0 .. Count - 1 : k \in 0 .. Count' - 1
    BY <1>1, <1>7
  <2> QED
    BY <1>8, <2>1 DEF InEntry, PollFor
<1>15. InEntry(th[t].fd)'
  <2>1. \E k \in 0 .. Count' - 1 : k \in Nat /\ k = Count
    BY <1>1, <1>7
  <2>2. PICK k \in 0 .. Count' - 1 : k \in Nat /\ k = Count
    BY <2>1
  <2>3. Entry(k)' = PollFor(th'[t].fd)
    BY <1>5, <1>11, <2>2
  <2> QED
    BY <2>2, <2>3 DEF InEntry, PollFor
<1> QED
  BY <1>12, <1>13, <1>14, <1>15 DEF RingOrder

\* The kernel takes the entry at the head, one for the thread that enters. The
\* poll it makes is the one that the handler of its descriptor waits for.
LEMMA EnterKeeps ==
    ASSUME IndInv, Copies, RingOrder, EnoughEntries, NEW t \in Threads, Enter(t)
    PROVE  /\ RingOrder'
           /\ \A u \in Threads : Running(u) /\ InEntry(th[u].fd) =>
                InEntry(th[u].fd)' \/ BagIn(<<th[u].conn, th[u].fd>>, polls')
<1>1. /\ th \in [Threads -> Handler] /\ th[t] \in Handler /\ RingTypes
      /\ ring.head \in 0 .. Wrap - 1 /\ ring.tail \in 0 .. Wrap - 1
      /\ Count \in 0 .. Wrap - 1
  BY RingFacts
<1>2. /\ th[t].pc = "enter" /\ th'[t].pc = "park" /\ th'[t].fd = th[t].fd
      /\ \A u \in Threads \ {t} : th'[u] = th[u]
  BY <1>1 DEF Enter, Goto, Handler, At
<1>3. /\ t \in Entering /\ Entering' = Entering \ {t} /\ IsFiniteSet(Entering)
      /\ Count = Cardinality(Entering)
  <2>1. t \in Entering /\ Entering' = Entering \ {t}
    BY <1>1, <1>2, EnteringMoves DEF At, Entering
  <2> QED
    BY <2>1, FS_Subset DEF EnoughEntries, Entering, RingOrder, Published
<1>4. /\ Cardinality(Entering') = Count - 1 /\ Count # 0
  <2>1. Cardinality(Entering') = Cardinality(Entering) - 1
    BY <1>3, FS_RemoveElement
  <2>2. Cardinality(Entering) # 0
    BY <1>3, FS_EmptySet
  <2> QED
    BY <1>3, <2>1, <2>2
<1>5. ring.head # ring.tail
  BY <1>1, <1>4, BetweenMoves DEF Count
<1>6. /\ Submitted(ring.sqes[ring.arr[Index(ring.head)]])
      /\ ring'.head = Next1(ring.head) /\ ring'.tail = ring.tail
      /\ ring'.arr = ring.arr /\ ring'.sqes = ring.sqes
  BY <1>1, <1>5 DEF Enter, RingTypes
<1>7. Count' = Count - 1
  BY <1>1, <1>5, <1>6, BetweenMoves DEF Count
<1>8. ASSUME NEW k \in Nat PROVE Place(k)' = Place(k + 1) /\ Entry(k)' = Entry(k + 1)
  <2>1. Place(k)' = Place(k + 1)
    BY <1>1, <1>6, IndexMoves DEF Place
  <2> QED
    BY <1>6, <2>1 DEF Entry
<1>9. Alone' /\ Loaded' /\ \A u \in Threads : Filling(u)'
  <2>1. \A u \in Threads : InRing(u)' => u # t /\ InRing(u) /\ th'[u] = th[u]
    BY <1>2 DEF InRing
  <2>2. Alone' /\ Loaded'
    BY <1>6, <2>1 DEF RingOrder, Alone, Loaded
  <2>3. ASSUME NEW u \in Threads PROVE Filling(u)'
    <3>1. CASE InRing(u)'
      BY <1>6, <2>1, <3>1 DEF RingOrder, Filling
    <3>2. CASE ~InRing(u)'
      BY <3>2 DEF Filling, InRing
    <3> QED
      BY <3>1, <3>2
  <2> QED
    BY <2>2, <2>3
<1>10. Published'
  <2>1. ASSUME NEW k \in 0 .. Count' - 1 PROVE ring'.arr[Place(k)'] = Place(k)'
    <3>1. k \in Nat /\ k + 1 \in 0 .. Count - 1
      BY <1>1, <1>7
    <3> QED
      BY <1>6, <1>8, <3>1 DEF RingOrder, Published
  <2> QED
    BY <1>4, <1>7, <2>1 DEF Published
<1>11. ASSUME NEW u \in Threads, Running(u), InEntry(th[u].fd)
       PROVE  InEntry(th[u].fd)' \/ BagIn(<<th[u].conn, th[u].fd>>, polls')
  <2> DEFINE f == th[u].fd
  <2>1. f \in Fds /\ th[u].conn \in Conns /\ sock[f] = th[u].conn
    BY <1>11, RunningConn
  <2>2. PICK k \in 0 .. Count - 1 : Entry(k) = PollFor(f)
    BY <1>11 DEF InEntry
  <2>3. CASE k = 0
    <3>1. Entry(0) = ring.sqes[ring.arr[Index(ring.head)]]
      BY <1>1 DEF Entry, Place
    <3>2. Submitted(PollFor(f))
      BY <1>6, <2>2, <2>3, <3>1
    <3>3. sock[f] # NoConn /\ f # NoFd
      BY <2>1, NamesAssumption DEF Fds, NoFd
    <3>4. polls' = polls (+) SetToBag({<<sock[f], f>>})
      BY <3>2, <3>3 DEF Submitted, PollFor
    <3>5. BagToSet(polls') = BagToSet(polls) \cup {<<sock[f], f>>}
      BY <3>4, PollTypes
    <3> QED
      BY <2>1, <3>5 DEF BagIn
  <2>4. CASE k # 0
    <3>1. k - 1 \in Nat /\ k - 1 \in 0 .. Count' - 1 /\ (k - 1) + 1 = k
      BY <1>1, <1>7, <2>4
    <3>2. Entry(k - 1)' = PollFor(f)
      BY <1>8, <2>2, <3>1
    <3>3. th'[u].fd = f
      BY <1>2
    <3> QED
      BY <3>1, <3>2, <3>3 DEF InEntry, PollFor
  <2> QED
    BY <2>3, <2>4
<1> QED
  BY <1>9, <1>10, <1>11 DEF RingOrder

\* What handlers do to the ring, as long as they are not disturbed.
LEMMA HandlerRing ==
    ASSUME IndInv, Copies, RingOrder, EnoughEntries, ~disturbed', NEW t \in Threads,
           Setup(t) \/ Tls(t) \/ Defer(t) \/ Submit(t) \/ Park(t)
    PROVE  /\ RingOrder'
           /\ \A u \in Threads : Running(u) /\ InEntry(th[u].fd) =>
                InEntry(th[u].fd)' \/ BagIn(<<th[u].conn, th[u].fd>>, polls')
           /\ Publish(t) => InEntry(th[t].fd)'
<1>1. /\ th \in [Threads -> Handler] /\ th[t] \in Handler /\ Steps(t)
      /\ \A u \in Threads : th'[u].fd = th[u].fd
      /\ \A u \in Threads \ {t} : th'[u] = th[u]
  <2>1. th \in [Threads -> Handler] /\ th[t] \in Handler
    BY RingFacts
  <2>2. Steps(t)
    BY HandlerSteps
  <2> QED
    BY <2>1, <2>2 DEF Steps
<1>2. ASSUME NEW u \in Threads, InEntry(th[u].fd), \A fd : InEntry(fd) => InEntry(fd)'
      PROVE  InEntry(th[u].fd)'
  <2>1. PICK f : f = th[u].fd
    OBVIOUS
  <2>2. InEntry(f) /\ f = th'[u].fd
    BY <1>1, <1>2, <2>1
  <2>3. InEntry(f)'
    BY <1>2, <2>2
  <2> QED
    BY <2>2, <2>3 DEF InEntry, PollFor
<1>3. CASE Setup(t) \/ Tls(t) \/ Defer(t) \/ Park(t)
  <2>1. /\ th[t].pc \in {"setup", "call", "free", "release", "clear", "park", "reset"}
        /\ UNCHANGED ring
    BY <1>3 DEF Setup, Tls, CallProgresses, CallWants, CallWriteFails, CallEnds, Defer, LoadSlot,
                FreeSsl, ClearSsl, Park, Sleep, Woken, Reset, At
  <2>2. th'[t].pc \in {"free", "release", "clear", "call", "tail", "close", "asleep", "reset"}
    <3>1. CASE Tls(t)
      BY <1>1, <3>1, TlsLeads
    <3>2. CASE ~Tls(t)
      BY <1>1, <1>3, <3>2 DEF Setup, Defer, LoadSlot, FreeSsl, ClearSsl, Park, Sleep, Woken,
                              Reset, Goto, Handler
    <3> QED
      BY <3>1, <3>2
  <2>3. RingOrder' /\ (\A fd : InEntry(fd) => InEntry(fd)')
    BY <1>1, <2>1, <2>2, RingOrderKept DEF InRing, At
  <2>4. ~Publish(t)
    BY <2>1 DEF Publish, At
  <2>5. ASSUME NEW u \in Threads, InEntry(th[u].fd) PROVE InEntry(th[u].fd)'
    BY <1>2, <2>3, <2>5
  <2> QED
    BY <2>3, <2>4, <2>5
<1>4. CASE TakeEntry(t) \/ SetFd(t) \/ SetUserData(t)
  <2>1. ~Publish(t)
    BY <1>4 DEF TakeEntry, SetFd, SetUserData, Publish, At
  <2> QED
    BY <1>2, <1>4, <2>1, FillKeeps
<1>5. CASE LoadTail(t) \/ LoadForFlush(t)
  <2>1. ~Publish(t)
    BY <1>5 DEF LoadTail, LoadForFlush, Publish, At
  <2> QED
    BY <1>2, <1>5, <2>1, LoadKeeps
<1>6. CASE Publish(t)
  BY <1>2, <1>6, PublishKeeps
<1>7. CASE Enter(t)
  <2>1. ~Publish(t)
    BY <1>7 DEF Enter, Publish, At
  <2> QED
    BY <1>7, <2>1, EnterKeeps
<1>8. ~NoEntry(t) /\ ~EnterRefused(t)
  BY AlwaysEntry DEF EnterRefused
<1> QED
  BY <1>3, <1>4, <1>5, <1>6, <1>7, <1>8 DEF Submit

-----------------------------------------------------------------------------
(***************************************************************************)
(* What a thread that waits relies on.                                     *)
(***************************************************************************)

\* Completions stay until their wake-up is given.
LEMMA CompletedStays ==
    ASSUME IndInv, NEW fd, Completed(fd)
    PROVE  /\ (UNCHANGED wake /\ (cq' = cq \/ \E e \in Cqe : cq' = Append(cq, e))) => Completed(fd)'
           /\ (/\ wake' = NoFd /\ cq # <<>> /\ cq' = Tail(cq)
               /\ wake # NoFd \/ Head(cq) # [tag |-> "poll", fd |-> fd]) => Completed(fd)'
<1>1. cq \in Seq(Cqe) /\ Len(cq) \in Nat
  BY InvOwned, LenProperties
<1>2. PICK i \in 1 .. Len(cq) : cq[i] = [tag |-> "poll", fd |-> fd] /\ (wake # NoFd => i # 1)
  BY DEF Completed
<1>3. CASE cq' = cq /\ wake' = wake
  BY <1>3 DEF Completed
<1>4. ASSUME NEW e \in Cqe, cq' = Append(cq, e), wake' = wake
      PROVE  Completed(fd)'
  <2>1. i \in 1 .. Len(cq') /\ cq'[i] = cq[i]
    BY <1>1, <1>4
  <2> QED
    BY <1>2, <1>4, <2>1 DEF Completed
<1>5. CASE /\ wake' = NoFd /\ cq # <<>> /\ cq' = Tail(cq)
           /\ wake # NoFd \/ Head(cq) # [tag |-> "poll", fd |-> fd]
  <2>1. i # 1
    BY <1>2, <1>5
  <2>2. i - 1 \in 1 .. Len(cq') /\ cq'[i - 1] = cq[i]
    BY <1>1, <1>5, <2>1
  <2> QED
    BY <1>2, <1>5, <2>2 DEF Completed
<1> QED
  BY <1>3, <1>4, <1>5

\* One more completion is one that counts: it is not at the head while the
\* reactor is giving a wake-up.
LEMMA CompletedComes ==
    ASSUME IndInv, NEW fd \in Fds \cup {NoFd}, UNCHANGED wake,
           cq' = Append(cq, [tag |-> "poll", fd |-> fd])
    PROVE  Completed(fd)'
<1>1. cq \in Seq(Cqe) /\ Len(cq) \in Nat /\ (wake # NoFd => Len(cq) # 0)
  BY InvOwned, LenProperties, EmptySeq DEF IndInv, Waking
<1>2. /\ Len(cq) + 1 \in 1 .. Len(cq')
      /\ cq'[Len(cq) + 1] = [tag |-> "poll", fd |-> fd]
      /\ wake' # NoFd => Len(cq) + 1 # 1
  BY <1>1
<1> QED
  BY <1>2 DEF Completed

\* Polls are kept, but for the one that completes.
LEMMA PollsKept ==
    ASSUME Copies, NEW e
    PROVE  /\ polls' = polls (+) SetToBag({e}) => Copies' /\ \A x : BagIn(x, polls) => BagIn(x, polls')
           /\ polls' = polls (-) SetToBag({e}) =>
                Copies' /\ \A x : BagIn(x, polls) /\ x # e => BagIn(x, polls')
<1>1. ASSUME polls' = polls (+) SetToBag({e})
      PROVE  Copies' /\ \A x : BagIn(x, polls) => BagIn(x, polls')
  BY <1>1 DEF Copies, BagIn, BagToSet, SetToBag, (+)
<1>2. ASSUME polls' = polls (-) SetToBag({e})
      PROVE  Copies' /\ \A x : BagIn(x, polls) /\ x # e => BagIn(x, polls')
  <2>1. \A x : x \in DOMAIN polls' => x \in DOMAIN polls /\ polls'[x] > 0
    BY <1>2 DEF Copies, SetToBag, (-)
  <2>2. \A x \in DOMAIN polls' : polls'[x] = polls[x] \/ polls'[x] = polls[x] - 1
    BY <1>2 DEF Copies, SetToBag, (-)
  <2>3. Copies'
    BY <2>1, <2>2 DEF Copies
  <2>4. \A x \in DOMAIN polls : x # e => x \in DOMAIN polls'
    BY <1>2 DEF Copies, SetToBag, (-)
  <2> QED
    BY <2>3, <2>4 DEF BagIn, BagToSet
<1> QED
  BY <1>1, <1>2

LEMMA NextCopies ==
    ASSUME Copies, [Next]_vars
    PROVE  Copies'
<1>1. CASE UNCHANGED polls
  BY <1>1 DEF Copies
<1>2. CASE \E e : polls' = polls (+) SetToBag({e}) \/ polls' = polls (-) SetToBag({e})
  BY <1>2, PollsKept
<1> USE DEF kernel, memory
<1>3. CASE Clients \/ Kernel
  <2>1. Clients => UNCHANGED polls
    BY DEF Clients, Send, HangUp
  <2>2. (\E c \in Conns : KernelAccept(c)) \/ AcceptError => UNCHANGED polls
    BY DEF KernelAccept, AcceptError
  <2>3. (\E c \in Conns, u \in Fds \cup {NoFd} : CompletePoll(c, u)) =>
          \E e : polls' = polls (-) SetToBag({e})
    <3>1. \A c \in Conns, u \in Fds \cup {NoFd} :
            CompletePoll(c, u) => \E e : polls' = polls (-) SetToBag({e})
      <4>1. TAKE c \in Conns, u \in Fds \cup {NoFd}
      <4>2. CompletePoll(c, u) => polls' = polls (-) SetToBag({<<c, u>>})
        BY DEF CompletePoll
      <4> DEFINE e == <<c, u>>
      <4> HIDE DEF e
      <4>3. CompletePoll(c, u) => polls' = polls (-) SetToBag({e})
        BY <4>2 DEF e
      <4> QED
        BY <4>3
    <3> QED
      BY <3>1
  <2> QED
    BY <1>1, <1>2, <1>3, <2>1, <2>2, <2>3 DEF Kernel
<1>4. CASE Reactor
  BY <1>1, <1>4 DEF Reactor, OnAcceptError, OnAccept, OnPoll, Wake
<1>5. ASSUME NEW t \in Threads, Enter(t) PROVE Copies'
  BY <1>1, <1>2, <1>5 DEF Enter, Submitted
<1>6. ASSUME NEW t \in Threads, Dispatch(t) \/ Handle(t), ~Enter(t) PROVE UNCHANGED polls
  BY <1>6 DEF Dispatch, Handle, Setup, Tls, CallProgresses, CallWants, CallWriteFails, CallEnds,
              Submit, LoadTail, NoEntry, TakeEntry, SetFd, SetUserData, LoadForFlush, Publish,
              EnterRefused, Park, Sleep, Woken, Reset, Defer, LoadSlot, FreeSsl,
              ClearSsl, CloseFd
<1>7. CASE UNCHANGED vars
  BY <1>1, <1>7 DEF vars
<1> QED
  BY <1>1, <1>3, <1>4, <1>5, <1>6, <1>7 DEF Next

\* What a thread relies on stays with it, or comes to it in another form.
LEMMA AssuredKept ==
    ASSUME NEW u \in Threads, Assured(th[u].fd, th[u].conn),
           th'[u].fd = th[u].fd, th'[u].conn = th[u].conn,
           slots[th[u].fd].futex = 1 => slots'[th[u].fd].futex = 1,
           Completed(th[u].fd) => Completed(th[u].fd)' \/ slots'[th[u].fd].futex = 1,
           BagIn(<<th[u].conn, th[u].fd>>, polls) =>
             BagIn(<<th[u].conn, th[u].fd>>, polls') \/ Completed(th[u].fd)',
           InEntry(th[u].fd) => InEntry(th[u].fd)' \/ BagIn(<<th[u].conn, th[u].fd>>, polls')
    PROVE  Assured(th[u].fd, th[u].conn)'
BY DEF Assured

\* A step of a handler clears no word but its own slot's, and that only when
\* it is about to call OpenSSL again.
LEMMA FutexOthers ==
    ASSUME IndInv, NEW t \in Threads,
           Setup(t) \/ Tls(t) \/ Defer(t) \/ Submit(t) \/ Park(t)
    PROVE  /\ \A f \in Fds : f # th[t].fd => slots'[f] = slots[f]
           /\ Submit(t) \/ Sleep(t) => slots' = slots
<1>1. /\ th \in [Threads -> Handler]
      /\ slots \in [Fds -> [ssl : Conns \cup {NoConn}, futex : {0, 1}]]
  BY DEF IndInv, TypeOK
<1>2. CASE Tls(t) \/ Submit(t)
  <2>1. slots' = slots
    BY <1>1, <1>2, TlsLeads, SubmitLeads
  <2> QED
    BY <2>1
<1>3. CASE Setup(t) \/ Defer(t) \/ Park(t)
  <2>1. \A f \in Fds : f # th[t].fd => slots'[f] = slots[f]
    <3>1. CASE Setup(t)
      BY <1>1, <3>1 DEF Setup
    <3>2. CASE Defer(t)
      <4>1. LoadSlot(t) \/ FreeSsl(t) => slots' = slots
        BY DEF LoadSlot, FreeSsl, memory
      <4>2. CASE ClearSsl(t)
        BY <1>1, <4>2 DEF ClearSsl
      <4> QED
        BY <3>2, <4>1, <4>2 DEF Defer
    <3>3. CASE Park(t)
      <4>1. Sleep(t) \/ Woken(t) => slots' = slots
        BY DEF Sleep, Woken, memory
      <4>2. CASE Reset(t)
        BY <1>1, <4>2 DEF Reset
      <4> QED
        BY <3>3, <4>1, <4>2 DEF Park
    <3> QED
      BY <1>3, <3>1, <3>2, <3>3
  <2>2. ~Submit(t)
    BY <1>3 DEF Setup, Defer, LoadSlot, FreeSsl, ClearSsl, Park, Sleep, Woken, Reset, At,
                Submit, LoadTail, NoEntry, TakeEntry, SetFd, SetUserData, LoadForFlush, Publish,
                Enter, EnterRefused
  <2> QED
    BY <2>1, <2>2 DEF Sleep, memory
<1> QED
  BY <1>2, <1>3

\* A handler's step, for itself and for the others.
LEMMA HandlerAwaited ==
    ASSUME IndInv, Copies, Orderly, EnoughEntries, ~disturbed', NEW t \in Threads,
           Setup(t) \/ Tls(t) \/ Defer(t) \/ Submit(t) \/ Park(t)
    PROVE  Orderly'
<1>1. /\ Steps(t) /\ th \in [Threads -> Handler] /\ th[t] \in Handler
      /\ \A u \in Threads \ {t} : th'[u] = th[u]
      /\ \A u \in Threads : /\ th'[u].fd = th[u].fd /\ th'[u].conn = th[u].conn
                             /\ (th'[u].moved => th[u].moved)
  BY RingFacts, HandlerSteps DEF Steps
<1>2. /\ RingOrder'
      /\ \A u \in Threads : Running(u) /\ InEntry(th[u].fd) =>
           InEntry(th[u].fd)' \/ BagIn(<<th[u].conn, th[u].fd>>, polls')
      /\ Publish(t) => InEntry(th[t].fd)'
  BY HandlerRing DEF Orderly
<1>3. Still'
  BY <1>1 DEF Orderly, Still
<1>4. \A fd : Completed(fd) => Completed(fd)'
  BY <1>1, CompletedStays DEF Steps
<1>5. \A x : BagIn(x, polls) => BagIn(x, polls')
  <2>1. polls' = polls \/ \E e : polls' = polls (+) SetToBag({e})
    <3>1. CASE Defer(t)
      BY <3>1 DEF Defer, LoadSlot, FreeSsl, ClearSsl, kernel
    <3>2. CASE ~Defer(t)
      BY <3>2 DEF Setup, Tls, CallProgresses, CallWants, CallWriteFails, CallEnds, Park, Sleep,
             Woken, Reset, Submit, LoadTail, NoEntry, TakeEntry, SetFd, SetUserData, LoadForFlush,
             Publish, Enter, Submitted, EnterRefused, kernel
    <3> QED
      BY <3>1, <3>2
  <2> QED
    BY <2>1, PollsKept
<1>6. ASSUME NEW u \in Threads, Running(u), Assured(th[u].fd, th[u].conn),
             slots'[th[u].fd] = slots[th[u].fd]
      PROVE  Assured(th[u].fd, th[u].conn)'
  <2>1. slots[th[u].fd].futex = 1 => slots'[th[u].fd].futex = 1
    BY <1>6
  <2> QED
    BY <1>1, <1>2, <1>4, <1>5, <1>6, <2>1, AssuredKept
<1>7. ASSUME NEW u \in Threads \ {t}, Waits(u)' PROVE Assured(th[u].fd, th[u].conn)'
  <2>1. Waits(u) /\ Running(u)
    BY <1>1, <1>7 DEF Waits, Running
  <2>2. th[u].fd \in Fds /\ th[t].fd \in Fds /\ Running(t)
    BY <1>1, <2>1, RunningConn DEF Steps
  <2>3. th[u].fd # th[t].fd
    BY <2>1, <2>2, InvOwned DEF AllOwned, Owned, InThread
  <2>4. slots'[th[u].fd] = slots[th[u].fd]
    BY <2>2, <2>3, FutexOthers
  <2> QED
    BY <1>6, <2>1, <2>4 DEF Orderly, Awaited
<1>8. ASSUME Waits(t)' PROVE Assured(th[t].fd, th[t].conn)'
  <2>1. CASE Publish(t)
    <3>1. InEntry(th[t].fd)'
      BY <1>1, <1>2, <2>1 DEF InEntry, PollFor
    <3> QED
      BY <3>1 DEF Assured
  <2>2. CASE Enter(t) \/ Sleep(t)
    <3>1. Waits(t) /\ Running(t)
      BY <2>2 DEF Enter, Sleep, Waits, At, Running
    <3>2. slots'[th[t].fd] = slots[th[t].fd]
      BY <2>2, FutexOthers DEF Submit
    <3> QED
      BY <1>6, <3>1, <3>2 DEF Orderly, Awaited
  <2>3. ~Tls(t)
    BY <1>1, <1>8, TlsLeads DEF Waits
  <2>4. \A p : Goto(t, p) => p \in {"enter", "park", "asleep"}
    BY <1>1, <1>8 DEF Goto, Handler, Waits
  <2>5. \A p, n : th' = [th EXCEPT ![t].pc = p, ![t].seen = n] => p \in {"enter", "park", "asleep"}
    BY <1>1, <1>8 DEF Handler, Waits
  <2>6. ~Setup(t) /\ ~Defer(t) /\ ~Woken(t) /\ ~Reset(t)
    <3>1. ~LoadSlot(t)
      BY <1>1, <1>8 DEF LoadSlot, Handler, Waits
    <3>2. ~FreeSsl(t)
      BY <2>4 DEF FreeSsl
    <3> QED
      BY <2>4, <3>1, <3>2 DEF Setup, Defer, ClearSsl, Woken, Reset
  <2>7. ~TakeEntry(t) /\ ~SetFd(t) /\ ~SetUserData(t)
    BY <2>4 DEF TakeEntry, SetFd, SetUserData
  <2>8. ~LoadTail(t) /\ ~LoadForFlush(t)
    BY <2>5 DEF LoadTail, LoadForFlush
  <2>9. ~NoEntry(t) /\ ~EnterRefused(t)
    BY AlwaysEntry DEF EnterRefused, Orderly
  <2> QED
    BY <2>1, <2>2, <2>3, <2>6, <2>7, <2>8, <2>9 DEF Submit, Park
<1> QED
  BY <1>2, <1>3, <1>7, <1>8 DEF Orderly, Awaited

\* Clients and the kernel: a poll that completes becomes a completion.
LEMMA KernelAwaited ==
    ASSUME IndInv, Copies, Orderly, Clients \/ Kernel
    PROVE  Orderly'
<1> USE DEF Clients, Send, HangUp, Kernel, KernelAccept, AcceptError, CompletePoll
<1>1. UNCHANGED <<ring, th, slots, wake>> /\ Copies'
  BY PollsKept DEF memory, Copies
<1>2. cq' = cq \/ \E e \in Cqe : cq' = Append(cq, e)
  BY DEF Cqe
<1>3. RingOrder' /\ (\A fd : InEntry(fd) => InEntry(fd)')
  BY <1>1, RingOrderKept DEF Orderly, InRing, At
<1>4. \A fd : Completed(fd) => Completed(fd)'
  BY <1>1, <1>2, CompletedStays
<1>5. ASSUME NEW c, NEW fd, BagIn(<<c, fd>>, polls)
      PROVE  BagIn(<<c, fd>>, polls') \/ Completed(fd)'
  <2>1. CASE polls' = polls
    BY <1>5, <2>1
  <2>2. ASSUME NEW d \in Conns, NEW u \in Fds \cup {NoFd}, CompletePoll(d, u)
        PROVE  BagIn(<<c, fd>>, polls') \/ Completed(fd)'
    <3>1. CASE <<c, fd>> # <<d, u>>
      BY <1>5, <2>2, <3>1, PollsKept
    <3>2. CASE <<c, fd>> = <<d, u>>
      <4>1. cq' = Append(cq, [tag |-> "poll", fd |-> u]) /\ fd = u
        BY <2>2, <3>2
      <4> QED
        BY <1>1, <4>1, CompletedComes
    <3> QED
      BY <3>1, <3>2
  <2> QED
    BY <2>1, <2>2
<1>6. ASSUME NEW u \in Threads, Waits(u)' PROVE Assured(th[u].fd, th[u].conn)'
  <2>1. Assured(th[u].fd, th[u].conn)
    BY <1>1, <1>6 DEF Orderly, Awaited, Waits
  <2>2. InEntry(th[u].fd) => InEntry(th[u].fd)'
    BY <1>1, <1>3 DEF InEntry, Count, Entry, Place, PollFor
  <2>3. Completed(th[u].fd) => Completed(th[u].fd)'
    BY <1>1, <1>4 DEF Completed
  <2>4. BagIn(<<th[u].conn, th[u].fd>>, polls) =>
          BagIn(<<th[u].conn, th[u].fd>>, polls') \/ Completed(th[u].fd)'
    BY <1>1, <1>5 DEF Completed
  <2> QED
    BY <1>1, <2>1, <2>2, <2>3, <2>4, AssuredKept
<1>7. Still'
  BY <1>1 DEF Orderly, Still
<1> QED
  BY <1>3, <1>6, <1>7 DEF Orderly, Awaited

\* Starting and ending a handler leaves the others what they rely on.
LEMMA LifeAwaited ==
    ASSUME IndInv, Orderly, NEW t \in Threads, Dispatch(t) \/ CloseFd(t)
    PROVE  Orderly'
<1>1. /\ th \in [Threads -> Handler] /\ UNCHANGED <<ring, slots, wake, polls, cq>>
      /\ th[t].pc \in {"idle", "close"}
  BY RingFacts DEF Dispatch, CloseFd, kernel, memory, At
<1>2. /\ th'[t].pc \in {"idle", "setup"} /\ ~th'[t].moved
      /\ \A u \in Threads \ {t} : th'[u] = th[u]
  <2>1. CASE Dispatch(t)
    <3> DEFINE h == [NoHandler EXCEPT !.pc = "setup", !.fd = queue.buf[queue.head],
                                      !.conn = sock[queue.buf[queue.head]]]
    <3>1. th' = [th EXCEPT ![t] = h]
      BY <2>1 DEF Dispatch
    <3>2. h.pc = "setup" /\ ~h.moved
      BY DEF NoHandler
    <3> HIDE DEF h
    <3> QED
      BY <1>1, <3>1, <3>2
  <2>2. CASE CloseFd(t)
    BY <1>1, <2>2 DEF CloseFd, NoHandler
  <2> QED
    BY <2>1, <2>2
<1>3. RingOrder' /\ (\A fd : InEntry(fd) => InEntry(fd)')
  BY <1>1, <1>2, RingOrderKept DEF Orderly, InRing, At
<1>4. Still'
  BY <1>2 DEF Orderly, Still
<1>5. ASSUME NEW u \in Threads, Waits(u)' PROVE Assured(th[u].fd, th[u].conn)'
  <2>1. u # t /\ th'[u] = th[u]
    BY <1>2, <1>5 DEF Waits
  <2>2. Assured(th[u].fd, th[u].conn)
    BY <1>5, <2>1 DEF Orderly, Awaited, Waits
  <2>3. InEntry(th[u].fd) => InEntry(th[u].fd)'
    BY <1>1, <2>1 DEF InEntry, Count, Entry, Place, PollFor
  <2>4. Completed(th[u].fd) => Completed(th[u].fd)'
    BY <1>1, <2>1 DEF Completed
  <2> QED
    BY <1>1, <2>1, <2>2, <2>3, <2>4, AssuredKept
<1> QED
  BY <1>3, <1>4, <1>5 DEF Orderly, Awaited

\* The reactor: a completion is replaced by the word it sets, and that word
\* outlasts the wake-up.
LEMMA ReactorAwaited ==
    ASSUME IndInv, Orderly, Reactor, ~disturbed'
    PROVE  Orderly'
<1>1. /\ th \in [Threads -> Handler] /\ cq \in Seq(Cqe) /\ UNCHANGED <<ring, polls>>
      /\ slots \in [Fds -> [ssl : Conns \cup {NoConn}, futex : {0, 1}]]
  BY RingFacts DEF Reactor, OnAcceptError, OnAccept, OnPoll, Wake, kernel, IndInv, TypeOK
<1>2. /\ Still'
      /\ \A t \in Threads : /\ th'[t].fd = th[t].fd /\ th'[t].conn = th[t].conn
                             /\ th'[t].seen = th[t].seen
                             /\ \/ th'[t].pc = th[t].pc
                                \/ th[t].pc = "asleep" /\ th'[t].pc = "park"
  <2>1. CASE OnAcceptError \/ OnPoll
    BY <2>1 DEF OnAcceptError, OnPoll, Orderly, Still
  <2>2. CASE Wake
    <3>1. \A t \in Threads :
            IF th[t].pc = "asleep" /\ th[t].fd = wake /\ ~th[t].moved
              THEN th'[t] = [th[t] EXCEPT !.pc = "park"] ELSE th'[t] = th[t]
      BY <2>2 DEF Wake, At
    <3>2. ASSUME NEW t \in Threads
          PROVE  /\ th'[t].fd = th[t].fd /\ th'[t].conn = th[t].conn
                 /\ th'[t].seen = th[t].seen /\ th'[t].moved = th[t].moved
                 /\ \/ th'[t].pc = th[t].pc
                    \/ th[t].pc = "asleep" /\ th'[t].pc = "park"
      BY <1>1, <3>1 DEF Handler
    <3> QED
      BY <3>2 DEF Orderly, Still
  <2>3. CASE OnAccept
    <3>1. \/ th' = th
          \/ /\ th' = [t \in Threads |-> [th[t] EXCEPT !.moved = Running(t)]]
             /\ ~ \E t \in Threads : Running(t)
      BY <2>3 DEF OnAccept, Ensure
    <3>2. ASSUME NEW t \in Threads
          PROVE  /\ th'[t].fd = th[t].fd /\ th'[t].conn = th[t].conn
                 /\ th'[t].seen = th[t].seen /\ ~th'[t].moved /\ th'[t].pc = th[t].pc
      <4>1. th[t] \in Handler /\ ~th[t].moved
        BY <1>1 DEF Orderly, Still
      <4>2. CASE th' = th
        BY <4>1, <4>2
      <4>3. CASE th' # th
        <5>1. th'[t] = [th[t] EXCEPT !.moved = Running(t)] /\ ~Running(t)
          BY <3>1, <4>3
        <5> QED
          BY <4>1, <5>1 DEF Handler
      <4> QED
        BY <4>2, <4>3
    <3> QED
      BY <3>2 DEF Still
  <2> QED
    BY <2>1, <2>2, <2>3 DEF Reactor
<1>3. RingOrder' /\ (\A fd : InEntry(fd) => InEntry(fd)')
  BY <1>1, <1>2, RingOrderKept DEF Orderly, InRing, At
<1>4. ASSUME NEW u \in Threads, Waits(u)' PROVE Assured(th[u].fd, th[u].conn)'
  <2> DEFINE f == th[u].fd
  <2>1. Waits(u) /\ Running(u) /\ Assured(f, th[u].conn)
    BY <1>2, <1>4 DEF Orderly, Awaited, Waits, Running
  <2>2. f \in Fds
    BY <2>1, RunningConn
  <2>3. /\ slots[f].futex = 1 => slots'[f].futex = 1
        /\ Completed(f) => Completed(th[u].fd)' \/ slots'[f].futex = 1
    <3>1. CASE OnAcceptError \/ OnAccept
      <4>1. wake = NoFd /\ wake' = NoFd /\ cq # <<>> /\ cq' = Tail(cq) /\ Head(cq).tag = "accept"
        BY <3>1 DEF OnAcceptError, OnAccept, Drained, memory
      <4>2. slots'[f] = slots[f]
        <5>1. CASE OnAcceptError
          BY <5>1 DEF OnAcceptError, memory
        <5>2. CASE OnAccept
          <6>1. PICK g \in Fds : Head(cq) = [tag |-> "accept", fd |-> g]
            <7>1. cq # <<>> /\ Head(cq).tag = "accept" /\ Head(cq).fd # NoFd
              BY <5>2 DEF OnAccept
            <7>2. Head(cq) \in Cqe
              BY <1>1, <7>1, CqTypes
            <7> QED
              BY <7>1, <7>2 DEF Cqe
          <6>2. InCq(g, 1)
            <7>1. cq \in Seq(Cqe) /\ cq # <<>>
              BY <1>1, <4>1
            <7>2. 1 \in DOMAIN cq /\ cq[1] = Head(cq)
              BY <7>1, LenProperties, EmptySeq
            <7> QED
              BY <6>1, <7>2 DEF InCq
          <6>3. f # g
            BY <2>1, <2>2, <6>2, InvOwned DEF AllOwned, Owned, InThread
          <6> QED
            BY <1>1, <2>2, <5>2, <6>1, <6>3 DEF OnAccept
        <5> QED
          BY <3>1, <5>1, <5>2
      <4>3. Completed(f) => Completed(th[u].fd)'
        <5>1. Head(cq) # [tag |-> "poll", fd |-> f]
          BY <4>1
        <5>2. ASSUME Completed(f) PROVE \A fd : fd = f => Completed(fd)'
          BY <4>1, <5>1, <5>2, CompletedStays
        <5> QED
          BY <1>2, <5>2 DEF Completed
      <4> QED
        BY <4>2, <4>3
    <3>2. CASE OnPoll
      <4>1. wake = NoFd /\ cq # <<>> /\ Head(cq).tag = "poll"
        BY <3>2 DEF OnPoll
      <4>2. CASE Head(cq).fd = f
        <5>1. slots'[f] = [slots[f] EXCEPT !.futex = 1]
          <6>1. Head(cq).fd # NoFd
            BY <2>2, <4>2, SizesAssumption DEF Fds, NoFd
          <6>2. slots' = [slots EXCEPT ![f].futex = 1]
            BY <3>2, <4>2, <6>1 DEF OnPoll
          <6> QED
            BY <1>1, <2>2, <6>2
        <5> QED
          BY <1>1, <2>2, <5>1
      <4>3. CASE Head(cq).fd # f
        <5>1. slots'[f] = slots[f]
          BY <1>1, <2>2, <3>2, <4>3 DEF OnPoll
        <5>2. ASSUME Completed(f) PROVE \A fd : fd = f => Completed(fd)'
          <6>1. PICK i \in 1 .. Len(cq) : cq[i] = [tag |-> "poll", fd |-> f]
            BY <5>2 DEF Completed
          <6>2. i # 1
            BY <1>1, <4>1, <4>3, <6>1
          <6>3. CASE cq' = cq
            BY <6>1, <6>2, <6>3 DEF Completed
          <6>4. CASE cq' = Tail(cq) /\ wake' = NoFd
            <7>1. Head(cq) # [tag |-> "poll", fd |-> f]
              BY <4>3
            <7> QED
              BY <4>1, <5>2, <6>4, <7>1, CompletedStays
          <6> QED
            BY <3>2, <4>1, <6>3, <6>4 DEF OnPoll, Drained
        <5> QED
          BY <1>2, <5>1, <5>2 DEF Completed
      <4> QED
        BY <4>2, <4>3
    <3>3. CASE Wake
      <4>1. /\ wake # NoFd /\ wake' = NoFd /\ cq # <<>> /\ cq' = Tail(cq) /\ slots' = slots
        BY <3>3 DEF Wake, Drained, IndInv, Waking
      <4>2. ASSUME Completed(f) PROVE \A fd : fd = f => Completed(fd)'
        BY <4>1, <4>2, CompletedStays
      <4> QED
        BY <1>2, <4>1, <4>2 DEF Completed
    <3> QED
      BY <3>1, <3>2, <3>3 DEF Reactor
  <2>4. InEntry(f) => InEntry(th[u].fd)'
    BY <1>1, <1>2 DEF InEntry, Count, Entry, Place, PollFor
  <2> QED
    BY <1>1, <1>2, <2>1, <2>3, <2>4, AssuredKept
<1> QED
  BY <1>2, <1>3, <1>4 DEF Orderly, Awaited

-----------------------------------------------------------------------------
(***************************************************************************)
(* The theorem.                                                            *)
(***************************************************************************)

LEMMA InitPolled == Init => PolledInv
<1> SUFFICES ASSUME Init PROVE PolledInv
  OBVIOUS
<1>1. IndInv
  BY InitIndInv
<1>2. Copies
  BY DEF Init, Copies, EmptyBag, SetToBag
<1>3. \A t \in Threads : th[t].pc = "idle" /\ ~th[t].moved
  BY DEF Init, NoHandler
<1>4. Count = 0 /\ Entering = {}
  <2>1. 1 \in 0 .. Wrap - 1 /\ ring.head = 1 /\ ring.tail = 1
    BY SizesAssumption DEF Init
  <2>2. Count = 0
    BY <2>1, BetweenMoves DEF Count
  <2> QED
    BY <1>3, <2>2 DEF Entering, At
<1>5. Published
  BY <1>4, FS_EmptySet DEF Published
<1>6. RingOrder
  BY <1>3, <1>5 DEF RingOrder, Alone, Loaded, Filling, InRing
<1> QED
  BY <1>1, <1>2, <1>3, <1>6 DEF PolledInv, Orderly, Awaited, Waits, Still

\* What disturbs stays known.
LEMMA DisturbedStays == IndInv /\ [Next]_vars /\ ~disturbed' => ~disturbed
<1> SUFFICES ASSUME IndInv, [Next]_vars, disturbed PROVE disturbed'
  BY DEF IndInv, TypeOK
<1> USE DEF aux
<1>1. CASE Clients \/ Kernel
  BY <1>1 DEF Clients, Send, HangUp, Kernel, KernelAccept, AcceptError, CompletePoll
<1>2. CASE Reactor
  BY <1>2 DEF Reactor, OnAcceptError, OnAccept, Ensure, OnPoll, Wake
<1>3. ASSUME NEW t \in Threads, Dispatch(t) \/ Handle(t) PROVE disturbed'
  BY <1>3 DEF Dispatch, Handle, Setup, Tls, CallProgresses, CallWants, CallWriteFails, CallEnds,
              Submit, LoadTail, NoEntry, TakeEntry, SetFd, SetUserData, LoadForFlush, Publish,
              Enter, EnterRefused, Park, Sleep, Woken, Reset, Defer, LoadSlot, FreeSsl,
              ClearSsl, CloseFd
<1>4. CASE UNCHANGED vars
  BY <1>4 DEF vars
<1> QED
  BY <1>1, <1>2, <1>3, <1>4 DEF Next

LEMMA NextPolled ==
    ASSUME EnoughEntries, PolledInv, [Next]_vars
    PROVE  PolledInv'
<1>1. IndInv' /\ Copies'
  BY NextKeeps, NextCopies DEF PolledInv
<1>2. ASSUME ~disturbed' PROVE Orderly'
  <2>1. IndInv /\ Copies /\ Orderly
    BY <1>2, DisturbedStays DEF PolledInv
  <2>2. CASE UNCHANGED vars
    BY <2>1, <2>2 DEF vars, kernel, memory, Orderly, RingOrder, Alone, Loaded, InRing, Filling,
       Published, Count, Entering, At, Place, Entry, Awaited, Waits, Assured, Completed, InEntry,
       PollFor, Still
  <2>3. ASSUME NEW t \in Threads, Handle(t) PROVE Orderly'
    BY <1>2, <2>1, <2>3, HandlerAwaited, LifeAwaited DEF Handle
  <2> QED
    BY <1>2, <2>1, <2>2, <2>3, KernelAwaited, ReactorAwaited, LifeAwaited DEF Next
<1> QED
  BY <1>1, <1>2 DEF PolledInv

\* The entries between head and tail are those of the threads about to enter.
LEMMA OrderlyPolled ==
    ASSUME EnoughEntries, PolledInv
    PROVE  Polled
<1> SUFFICES ASSUME ~disturbed, NEW t \in Threads, th[t].pc \in {"park", "asleep"}
             PROVE  ~th[t].moved /\ Reachable(t)
  BY DEF Polled, ParkedIsPolled
<1>1. IndInv /\ Orderly
  BY DEF PolledInv
<1>2. ~th[t].moved /\ Assured(th[t].fd, th[t].conn)
  BY <1>1 DEF Orderly, Still, Awaited, Waits
<1>3. CASE Completed(th[t].fd)
  <2>1. DOMAIN cq = 1 .. Len(cq)
    BY <1>1, InvOwned, LenProperties
  <2> QED
    BY <1>2, <1>3, <2>1 DEF Completed, Reachable, Coming
<1>4. CASE InEntry(th[t].fd)
  <2>1. PICK k \in 0 .. Count - 1 : Entry(k) = PollFor(th[t].fd)
    BY <1>4 DEF InEntry
  <2>2. Count <= RING_DEPTH /\ Count \in Nat
    BY <1>1, Room, RingFacts DEF Orderly, RingOrder
  <2>3. k \in 0 .. RING_DEPTH - 1 /\ k < Count
    BY <2>2, SizesAssumption
  <2>4. Count = Cardinality({u \in Threads : At(u, "enter")})
    BY <1>1 DEF Orderly, RingOrder, Published, Entering
  <2> QED
    BY <1>2, <2>1, <2>3, <2>4 DEF Reachable, ToSubmit, Entry, Place, PollFor, Count, Between
<1> QED
  BY <1>2, <1>3, <1>4 DEF Assured, Reachable

\* With no more threads than the ring has entries, a thread that parks while
\* nothing has disturbed the ring has its poll under way: in an entry that a
\* thread is about to submit, in the kernel, in a completion, or in the word
\* itself (main.zig:14, 161-175, 235-241, 326, 534-540).
THEOREM ParkedArePolled ==
    ASSUME EnoughEntries
    PROVE  Spec => []Polled
<1>1. Init => PolledInv
  BY InitPolled
<1>2. PolledInv /\ [Next]_vars => PolledInv'
  BY NextPolled
<1>3. PolledInv => Polled
  BY OrderlyPolled
<1> QED
  BY <1>1, <1>2, <1>3, PTL DEF Spec
=================================================================================
