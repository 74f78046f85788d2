---------------------------- MODULE TlsReactorProofs ----------------------------
(***************************************************************************)
(* Proofs about TlsReactor, for any number of clients, threads and         *)
(* descriptors and any sizes of the ring, the table and the FIFO: every    *)
(* open descriptor has one owner, SSL objects belong to the connection of  *)
(* the handler, and no wake-up is lost between a check and a sleep. They   *)
(* hold although the ring is shared without a lock, and with every fault   *)
(* of the model. TlsPolledProofs has Polled; liveness is left to TLC.      *)
(***************************************************************************)
EXTENDS TlsReactor, SequenceTheorems, TLAPS

-----------------------------------------------------------------------------
(***************************************************************************)
(* Types, one group of variables at a time.                                *)
(***************************************************************************)

KernelTypes ==
  /\ client \in [Conns -> {"waiting", "silent", "ready", "more", "gone", "done"}]
  /\ sends \in 0 .. MaxSends
  /\ sock \in [Fds -> Conns \cup {NoConn}]
  /\ armed \in BOOLEAN
  /\ BagToSet(polls) \subseteq Conns \X (Fds \cup {NoFd})
  /\ cq \in Seq(Cqe)

RingTypes ==
  ring \in [sqes : [0 .. RING_DEPTH - 1 -> Sqe],
            arr : [0 .. RING_DEPTH - 1 -> 0 .. RING_DEPTH - 1],
            head : 0 .. Wrap - 1, tail : 0 .. Wrap - 1]

TableTypes ==
  /\ slots \in [Fds -> [ssl : Conns \cup {NoConn}, futex : {0, 1}]]
  /\ len \in Nat /\ live \subseteq Conns
  /\ wake \in Fds \cup {NoFd}

QueueTypes ==
  queue \in [buf : [0 .. FD_QUEUE_CAP - 1 -> Fds \cup {NoFd}],
             head : 0 .. FD_QUEUE_CAP - 1, tail : 0 .. FD_QUEUE_CAP - 1]

AuxTypes ==
  /\ extra \in 0 .. MaxExtra /\ refusals \in 0 .. MaxRefusals
  /\ disturbed \in BOOLEAN /\ astray \in BOOLEAN

LEMMA TypeParts ==
    TypeOK <=> /\ KernelTypes /\ RingTypes /\ TableTypes /\ QueueTypes /\ AuxTypes
               /\ th \in [Threads -> Handler]
BY DEF TypeOK, KernelTypes, RingTypes, TableTypes, QueueTypes, AuxTypes

LEMMA TypePartsNext ==
    ASSUME KernelTypes', RingTypes', TableTypes', QueueTypes', AuxTypes',
           th' \in [Threads -> Handler]
    PROVE  TypeOK'
BY DEF TypeOK, KernelTypes, RingTypes, TableTypes, QueueTypes, AuxTypes

\* Groups that a step leaves alone.
LEMMA GroupsKept ==
    /\ RingTypes /\ UNCHANGED ring => RingTypes'
    /\ TableTypes /\ UNCHANGED <<slots, len, live, wake>> => TableTypes'
    /\ QueueTypes /\ UNCHANGED queue => QueueTypes'
    /\ AuxTypes /\ UNCHANGED aux => AuxTypes'
    /\ KernelTypes /\ UNCHANGED kernel => KernelTypes'
<1>1. RingTypes /\ UNCHANGED ring => RingTypes'
  BY DEF RingTypes
<1>2. TableTypes /\ UNCHANGED <<slots, len, live, wake>> => TableTypes'
  BY DEF TableTypes
<1>3. QueueTypes /\ UNCHANGED queue => QueueTypes'
  BY DEF QueueTypes
<1>4. AuxTypes /\ UNCHANGED aux => AuxTypes'
  BY DEF AuxTypes, aux
<1>5. KernelTypes /\ UNCHANGED kernel => KernelTypes'
  BY DEF KernelTypes, kernel
<1> QED
  BY <1>1, <1>2, <1>3, <1>4, <1>5

Pcs == {"idle", "setup", "call", "tail", "entry", "fd", "user_data", "flush", "publish",
        "enter", "park", "asleep", "reset", "free", "release", "clear", "close"}

LEMMA HandlerChanges ==
    ASSUME NEW h \in Handler
    PROVE  /\ \A p \in Pcs : [h EXCEPT !.pc = p] \in Handler
           /\ \A p \in Pcs, n \in 0 .. Wrap - 1 : [h EXCEPT !.pc = p, !.seen = n] \in Handler
           /\ \A ph \in {"accept", "read", "write"} : [h EXCEPT !.phase = ph] \in Handler
           /\ \A b \in BOOLEAN : [h EXCEPT !.moved = b] \in Handler
           /\ [h EXCEPT !.pc = "release", !.moved = FALSE] \in Handler
<1>1. \A p \in Pcs : [h EXCEPT !.pc = p] \in Handler
  BY DEF Handler, Pcs
<1>2. \A p \in Pcs, n \in 0 .. Wrap - 1 : [h EXCEPT !.pc = p, !.seen = n] \in Handler
  BY DEF Handler, Pcs
<1>3. \A ph \in {"accept", "read", "write"} : [h EXCEPT !.phase = ph] \in Handler
  BY DEF Handler
<1>4. \A b \in BOOLEAN : [h EXCEPT !.moved = b] \in Handler
  BY DEF Handler
<1>5. [h EXCEPT !.pc = "release", !.moved = FALSE] \in Handler
  BY DEF Handler
<1> QED
  BY <1>1, <1>2, <1>3, <1>4, <1>5

LEMMA NoHandlerType == NoHandler \in Handler
BY SizesAssumption DEF NoHandler, Handler

LEMMA GotoType ==
    ASSUME th \in [Threads -> Handler], NEW t \in Threads, NEW p \in Pcs, Goto(t, p)
    PROVE  /\ th' \in [Threads -> Handler]
           /\ th'[t] = [th[t] EXCEPT !.pc = p]
           /\ \A u \in Threads \ {t} : th'[u] = th[u]
BY HandlerChanges DEF Goto

\* Positions in the ring and in the FIFO.
LEMMA IndexInside ==
    ASSUME NEW n \in 0 .. Wrap - 1
    PROVE  Index(n) \in 0 .. RING_DEPTH - 1 /\ Next1(n) \in 0 .. Wrap - 1
BY SizesAssumption DEF Index, Next1

LEMMA QueueNextIs ==
    ASSUME NEW i \in 0 .. FD_QUEUE_CAP - 1
    PROVE  /\ QueueNext(i) = IF i + 1 = FD_QUEUE_CAP THEN 0 ELSE i + 1
           /\ QueueNext(i) \in 0 .. FD_QUEUE_CAP - 1
BY SizesAssumption DEF QueueNext

\* Completions that come and go.
LEMMA CqTypes ==
    ASSUME cq \in Seq(Cqe)
    PROVE  /\ \A e \in Cqe : Append(cq, e) \in Seq(Cqe)
           /\ cq # <<>> => Tail(cq) \in Seq(Cqe) /\ Head(cq) \in Cqe
BY AppendProperties, HeadTailProperties

\* Polls that come and go.
LEMMA PollTypes ==
    ASSUME NEW e
    PROVE  /\ BagToSet(polls (+) SetToBag({e})) = BagToSet(polls) \cup {e}
           /\ BagToSet(polls (-) SetToBag({e})) \subseteq BagToSet(polls)
BY DEF BagToSet, SetToBag, (+), (-)

-----------------------------------------------------------------------------
(***************************************************************************)
(* Every step keeps the types.                                             *)
(***************************************************************************)

\* sock and client when descriptor f is closed.
LEMMA ClosedTypes ==
    ASSUME KernelTypes, NEW f \in Fds, Closed(f)
    PROVE  /\ sock' \in [Fds -> Conns \cup {NoConn}]
           /\ client' \in [Conns -> {"waiting", "silent", "ready", "more", "gone", "done"}]
           /\ sock'[f] = NoConn /\ \A g \in Fds \ {f} : sock'[g] = sock[g]
BY DEF KernelTypes, Closed

LEMMA KernelStep ==
    ASSUME TypeOK, Clients \/ Kernel
    PROVE  TypeOK'
<1> USE DEF kernel, memory, aux
<1>1. KernelTypes /\ RingTypes /\ TableTypes /\ QueueTypes /\ AuxTypes /\ th \in [Threads -> Handler]
  BY TypeParts
<1>2. ASSUME UNCHANGED <<ring, memory, th, aux>>, KernelTypes' PROVE TypeOK'
  <2>1. RingTypes' /\ TableTypes' /\ QueueTypes' /\ AuxTypes'
    BY <1>1, <1>2, GroupsKept
  <2> QED
    BY <1>1, <1>2, <2>1, TypePartsNext
<1>3. ASSUME NEW c \in Conns, Send(c) PROVE TypeOK'
  <2>1. KernelTypes'
    BY <1>1, <1>3, BoundsAssumption DEF Send, KernelTypes
  <2> QED
    BY <1>2, <1>3, <2>1 DEF Send
<1>4. ASSUME NEW c \in Conns, HangUp(c) PROVE TypeOK'
  <2>1. KernelTypes'
    BY <1>1, <1>4 DEF HangUp, KernelTypes
  <2> QED
    BY <1>2, <1>4, <2>1 DEF HangUp
<1>5. ASSUME NEW c \in Conns, KernelAccept(c) PROVE TypeOK'
  <2>1. PICK f \in Fds : sock' = [sock EXCEPT ![f] = c] /\ cq' = Append(cq, [tag |-> "accept", fd |-> f])
    BY <1>5 DEF KernelAccept
  <2>2. [tag |-> "accept", fd |-> f] \in Cqe
    BY DEF Cqe
  <2>3. cq' \in Seq(Cqe)
    BY <1>1, <2>1, <2>2, CqTypes DEF KernelTypes
  <2>4. KernelTypes'
    BY <1>1, <1>5, <2>1, <2>3 DEF KernelAccept, KernelTypes
  <2> QED
    BY <1>2, <1>5, <2>4 DEF KernelAccept
<1>6. ASSUME AcceptError PROVE TypeOK'
  <2>1. [tag |-> "accept", fd |-> NoFd] \in Cqe
    BY DEF Cqe
  <2>2. cq' \in Seq(Cqe)
    BY <1>1, <1>6, <2>1, CqTypes DEF KernelTypes, AcceptError
  <2>3. KernelTypes'
    BY <1>1, <1>6, <2>2 DEF AcceptError, KernelTypes
  <2> QED
    BY <1>2, <1>6, <2>3 DEF AcceptError
<1>7. ASSUME NEW c \in Conns, NEW u \in Fds \cup {NoFd}, CompletePoll(c, u) PROVE TypeOK'
  <2>1. [tag |-> "poll", fd |-> u] \in Cqe
    BY DEF Cqe
  <2>2. cq' \in Seq(Cqe)
    BY <1>1, <1>7, <2>1, CqTypes DEF KernelTypes, CompletePoll
  <2>3. BagToSet(polls') \subseteq Conns \X (Fds \cup {NoFd})
    BY <1>1, <1>7, PollTypes DEF KernelTypes, CompletePoll
  <2>4. KernelTypes'
    BY <1>1, <1>7, <2>2, <2>3 DEF CompletePoll, KernelTypes
  <2> QED
    BY <1>2, <1>7, <2>4 DEF CompletePoll
<1> QED
  BY <1>3, <1>4, <1>5, <1>6, <1>7 DEF Clients, Kernel

LEMMA EnsureTypes ==
    ASSUME TypeOK, NEW f \in Fds, Ensure(f)
    PROVE  /\ len' \in Nat /\ disturbed' \in BOOLEAN /\ th' \in [Threads -> Handler]
           /\ \A t \in Threads : \/ th'[t] = th[t]
                                 \/ th'[t] = [th[t] EXCEPT !.moved = Running(t)]
<1>1. f \in Nat /\ len \in Nat /\ disturbed \in BOOLEAN /\ th \in [Threads -> Handler]
  BY DEF TypeOK, Fds
<1>2. CASE UNCHANGED <<len, th, disturbed>>
  BY <1>1, <1>2
<1>3. CASE /\ len' = IF f + 1 > 2 * len THEN f + 1 ELSE 2 * len
           /\ th' = [t \in Threads |-> [th[t] EXCEPT !.moved = Running(t)]]
           /\ disturbed' = (disturbed \/ \E t \in Threads : Running(t))
  <2>1. len' \in Nat
    BY <1>1, <1>3
  <2>2. disturbed' \in BOOLEAN
    BY <1>3
  <2>3. \A t \in Threads : Running(t) \in BOOLEAN
    BY DEF Running
  <2>4. \A t \in Threads : [th[t] EXCEPT !.moved = Running(t)] \in Handler
    BY <1>1, <2>3, HandlerChanges
  <2> QED
    BY <1>3, <2>1, <2>2, <2>4
<1>4. CASE /\ len' = IF f + 1 > 2 * len THEN f + 1 ELSE 2 * len
           /\ UNCHANGED <<th, disturbed>>
  BY <1>1, <1>4
<1> QED
  BY <1>2, <1>3, <1>4 DEF Ensure

\* newFdPush, when descriptor f is known.
LEMMA PushTypes ==
    ASSUME TypeOK, NEW f \in Fds, NewFdPush(f)
    PROVE  /\ QueueTypes' /\ sock' \in [Fds -> Conns \cup {NoConn}]
           /\ client' \in [Conns -> {"waiting", "silent", "ready", "more", "gone", "done"}]
<1>1. KernelTypes /\ QueueTypes
  BY TypeParts
<1>2. CASE Closed(f) /\ UNCHANGED queue
  BY <1>1, <1>2, ClosedTypes DEF QueueTypes
<1>3. CASE /\ queue' = [queue EXCEPT !.buf[queue.tail] = f, !.tail = QueueNext(@)]
           /\ UNCHANGED <<sock, client>>
  <2>1. QueueNext(queue.tail) \in 0 .. FD_QUEUE_CAP - 1
    BY <1>1, QueueNextIs DEF QueueTypes
  <2> QED
    BY <1>1, <1>3, <2>1 DEF QueueTypes, KernelTypes
<1> QED
  BY <1>2, <1>3 DEF NewFdPush

LEMMA ReactorStep ==
    ASSUME IndInv, Reactor
    PROVE  TypeOK'
<1> USE DEF kernel, memory, aux, Drained
<1>1. /\ KernelTypes /\ RingTypes /\ TableTypes /\ QueueTypes /\ AuxTypes
      /\ th \in [Threads -> Handler] /\ TypeOK
  BY TypeParts DEF IndInv
<1>2. cq \in Seq(Cqe)
  BY <1>1 DEF KernelTypes
<1>3. cq # <<>> => Tail(cq) \in Seq(Cqe) /\ Head(cq) \in Cqe
  BY <1>2, CqTypes
<1>4. ASSUME OnAcceptError PROVE TypeOK'
  <2>1. KernelTypes'
    BY <1>1, <1>3, <1>4 DEF OnAcceptError, KernelTypes
  <2> QED
    BY <1>1, <1>4, <2>1, GroupsKept, TypePartsNext DEF OnAcceptError
<1>5. ASSUME OnAccept PROVE TypeOK'
  <2> DEFINE f == Head(cq).fd
  <2>1. f \in Fds /\ cq' = Tail(cq) /\ cq # <<>>
    BY <1>3, <1>5 DEF OnAccept, Cqe
  <2>2. UNCHANGED <<sends, armed, polls, ring, wake, live, extra, refusals, astray>>
    BY <1>5 DEF OnAccept
  <2>3. FreshSlot \in [ssl : Conns \cup {NoConn}, futex : {0, 1}]
    BY DEF FreshSlot
  <2>4. \/ /\ Ensure(f)
           /\ slots' = [slots EXCEPT ![f] = FreshSlot]
           /\ NewFdPush(f)
        \/ /\ Closed(f)
           /\ UNCHANGED <<len, th, disturbed, slots, queue>>
    BY <1>5 DEF OnAccept
  <2> HIDE DEF f
  <2>5. /\ sock' \in [Fds -> Conns \cup {NoConn}] /\ QueueTypes'
        /\ client' \in [Conns -> {"waiting", "silent", "ready", "more", "gone", "done"}]
    BY <1>1, <2>1, <2>4, PushTypes, ClosedTypes DEF QueueTypes
  <2>6. len' \in Nat /\ disturbed' \in BOOLEAN /\ th' \in [Threads -> Handler]
    BY <1>1, <2>1, <2>4, EnsureTypes DEF TableTypes, AuxTypes
  <2>7. slots' \in [Fds -> [ssl : Conns \cup {NoConn}, futex : {0, 1}]]
    BY <1>1, <2>3, <2>4 DEF TableTypes
  <2>8. KernelTypes'
    BY <1>1, <1>3, <2>1, <2>2, <2>5 DEF KernelTypes
  <2>9. RingTypes' /\ TableTypes' /\ AuxTypes'
    BY <1>1, <2>2, <2>6, <2>7 DEF RingTypes, TableTypes, AuxTypes
  <2> QED
    BY <2>5, <2>6, <2>8, <2>9, TypePartsNext
<1>6. ASSUME OnPoll PROVE TypeOK'
  <2>1. KernelTypes'
    BY <1>1, <1>3, <1>6 DEF OnPoll, KernelTypes
  <2>2. TableTypes'
    <3> DEFINE f == Head(cq).fd
    <3>1. f \in Fds \cup {NoFd}
      BY <1>3, <1>6 DEF OnPoll, Cqe
    <3>2. \/ f # NoFd /\ slots' = [slots EXCEPT ![f].futex = 1] /\ wake' = f /\ len' = len
          \/ UNCHANGED <<slots, wake, len>>
      BY <1>6 DEF OnPoll
    <3>3. live' = live
      BY <1>6 DEF OnPoll
    <3> HIDE DEF f
    <3> QED
      BY <1>1, <3>1, <3>2, <3>3 DEF TableTypes
  <2> QED
    BY <1>1, <1>6, <2>1, <2>2, GroupsKept, TypePartsNext DEF OnPoll
<1>7. ASSUME Wake PROVE TypeOK'
  <2>1. cq # <<>>
    BY <1>7 DEF Wake, IndInv, Waking
  <2>2. KernelTypes'
    <3>1. cq' = Tail(cq) /\ UNCHANGED <<client, sends, sock, armed, polls>>
      BY <1>7 DEF Wake, Drained
    <3>2. cq' \in Seq(Cqe)
      BY <1>1, <2>1, <3>1 DEF KernelTypes
    <3> QED
      BY <1>1, <3>1, <3>2 DEF KernelTypes
  <2>3. th' \in [Threads -> Handler]
    <3>1. \A t \in Threads : [th[t] EXCEPT !.pc = "park"] \in Handler
      BY <1>1, HandlerChanges DEF Pcs
    <3>2. th' = [t \in Threads |-> IF At(t, "asleep") /\ th[t].fd = wake /\ ~th[t].moved
                                    THEN [th[t] EXCEPT !.pc = "park"] ELSE th[t]]
      BY <1>7 DEF Wake
    <3>3. \A t \in Threads : th'[t] \in Handler
      BY <1>1, <3>1, <3>2
    <3>4. th' = [t \in Threads |-> th'[t]]
      BY <3>2
    <3> QED
      BY <3>3, <3>4
  <2> QED
    <3>1. TableTypes'
      BY <1>1, <1>7 DEF Wake, TableTypes
    <3> QED
      BY <1>1, <1>7, <2>2, <2>3, <3>1, GroupsKept, TypePartsNext DEF Wake
<1> QED
  BY <1>4, <1>5, <1>6, <1>7 DEF Reactor

\* A running handler serves the open connection behind its descriptor.
LEMMA RunningConn ==
    ASSUME IndInv, NEW t \in Threads, Running(t)
    PROVE  /\ th[t].fd \in Fds /\ th[t].conn \in Conns
           /\ sock[th[t].fd] = th[t].conn
<1>1. th[t].fd \in Fds /\ sock[th[t].fd] = th[t].conn
  BY DEF IndInv, Held
<1>2. <<"thread", t>> \in Holders(th[t].fd)
  BY <1>1 DEF Holders
<1>3. sock[th[t].fd] # NoConn
  BY <1>1, <1>2 DEF IndInv, OneOwner
<1>4. sock[th[t].fd] \in Conns \cup {NoConn}
  BY <1>1 DEF IndInv, TypeOK
<1> QED
  BY <1>1, <1>3, <1>4

\* A descriptor at the head of the FIFO is that of an open connection.
LEMMA QueuedConn ==
    ASSUME IndInv, ~QueueEmpty
    PROVE  /\ queue.head \in Occupied
           /\ queue.buf[queue.head] \in Fds
           /\ sock[queue.buf[queue.head]] \in Conns
<1>1. queue.head \in 0 .. FD_QUEUE_CAP - 1 /\ queue.tail \in 0 .. FD_QUEUE_CAP - 1
  BY DEF IndInv, TypeOK
<1>2. queue.head \in Occupied
  BY <1>1, SizesAssumption DEF QueueEmpty, Occupied
<1>3. queue.buf[queue.head] \in Fds
  BY <1>2 DEF IndInv, Held
<1>4. <<"queue", queue.head>> \in Holders(queue.buf[queue.head])
  BY <1>2 DEF Holders
<1>5. sock[queue.buf[queue.head]] # NoConn
  BY <1>3, <1>4 DEF IndInv, OneOwner
<1>6. sock[queue.buf[queue.head]] \in Conns \cup {NoConn}
  BY <1>3 DEF IndInv, TypeOK
<1> QED
  BY <1>2, <1>3, <1>5, <1>6

LEMMA DispatchTypes ==
    ASSUME IndInv, NEW t \in Threads, Dispatch(t)
    PROVE  TypeOK'
<1>1. /\ KernelTypes /\ RingTypes /\ TableTypes /\ QueueTypes /\ AuxTypes
      /\ th \in [Threads -> Handler]
  BY TypeParts DEF IndInv
<1> DEFINE f == queue.buf[queue.head]
<1>2. f \in Fds /\ sock[f] \in Conns
  BY QueuedConn DEF Dispatch
<1>3. th' = [th EXCEPT ![t] = [NoHandler EXCEPT !.pc = "setup", !.fd = f, !.conn = sock[f]]]
  BY DEF Dispatch
<1>4. queue' = [queue EXCEPT !.head = QueueNext(queue.head)]
  BY DEF Dispatch
<1> HIDE DEF f
<1>5. [NoHandler EXCEPT !.pc = "setup", !.fd = f, !.conn = sock[f]] \in Handler
  BY <1>2, NoHandlerType DEF Handler
<1>6. th' \in [Threads -> Handler]
  BY <1>1, <1>3, <1>5
<1>7. QueueNext(queue.head) \in 0 .. FD_QUEUE_CAP - 1
  BY <1>1, QueueNextIs DEF QueueTypes
<1>8. QueueTypes'
  BY <1>1, <1>4, <1>7 DEF QueueTypes
<1> QED
  BY <1>1, <1>6, <1>8, GroupsKept, TypePartsNext DEF Dispatch

LEMMA LifeTypes ==
    ASSUME IndInv, NEW t \in Threads,
           Setup(t) \/ Tls(t) \/ Defer(t) \/ CloseFd(t) \/ Park(t)
    PROVE  TypeOK'
<1>1. /\ KernelTypes /\ RingTypes /\ TableTypes /\ QueueTypes /\ AuxTypes
      /\ th \in [Threads -> Handler] /\ th[t] \in Handler
  BY TypeParts DEF IndInv
<1>2. Running(t)
  BY DEF Setup, Tls, CallProgresses, CallWants, CallWriteFails, CallEnds, Defer, LoadSlot,
         FreeSsl, ClearSsl, CloseFd, Park, Sleep, Woken, Reset, At, Running
<1>3. th[t].fd \in Fds /\ th[t].conn \in Conns /\ sock[th[t].fd] = th[t].conn
  BY <1>2, RunningConn
<1>4. \A p \in Pcs : Goto(t, p) => th' \in [Threads -> Handler]
  BY <1>1, GotoType
<1>5. ASSUME Setup(t) PROVE TypeOK'
  <2>1. th' \in [Threads -> Handler]
    BY <1>4, <1>5 DEF Setup, Pcs
  <2>2. TableTypes'
    BY <1>1, <1>3, <1>5 DEF Setup, TableTypes
  <2>3. AuxTypes'
    BY <1>1, <1>5 DEF Setup, AuxTypes, Handler
  <2> QED
    BY <1>1, <1>5, <2>1, <2>2, <2>3, GroupsKept, TypePartsNext DEF Setup
<1>6. ASSUME CallProgresses(t) PROVE TypeOK'
  <2>1. th' \in [Threads -> Handler]
    <3>1. [th[t] EXCEPT !.phase = NextPhase(th[t].phase)] \in Handler
      BY <1>1, HandlerChanges DEF NextPhase
    <3> QED
      BY <1>1, <1>6, <3>1 DEF CallProgresses
  <2>2. KernelTypes'
    BY <1>1, <1>6 DEF CallProgresses, KernelTypes
  <2> QED
    BY <1>1, <1>6, <2>1, <2>2, GroupsKept, TypePartsNext DEF CallProgresses, memory
<1>7. ASSUME CallWants(t) PROVE TypeOK'
  <2>1. th' \in [Threads -> Handler]
    BY <1>4, <1>7 DEF CallWants, Pcs
  <2>2. KernelTypes'
    BY <1>1, <1>7 DEF CallWants, KernelTypes
  <2> QED
    BY <1>1, <1>7, <2>1, <2>2, GroupsKept, TypePartsNext DEF CallWants, memory
<1>8. ASSUME CallWriteFails(t) PROVE TypeOK'
  <2>1. th' \in [Threads -> Handler]
    <3>1. [th[t] EXCEPT !.phase = "read"] \in Handler
      BY <1>1, HandlerChanges
    <3> QED
      BY <1>1, <1>8, <3>1 DEF CallWriteFails
  <2> QED
    BY <1>1, <1>8, <2>1, GroupsKept, TypePartsNext DEF CallWriteFails, memory
<1>9. ASSUME CallEnds(t) PROVE TypeOK'
  BY <1>1, <1>4, <1>9, GroupsKept, TypePartsNext DEF CallEnds, memory, Pcs
<1>10. ASSUME Defer(t) PROVE TypeOK'
  <2>1. ASSUME LoadSlot(t) PROVE TypeOK'
    <3>1. th' \in [Threads -> Handler]
      BY <1>1, <2>1, HandlerChanges DEF LoadSlot
    <3> QED
      BY <1>1, <2>1, <3>1, GroupsKept, TypePartsNext DEF LoadSlot, memory
  <2>2. ASSUME FreeSsl(t) PROVE TypeOK'
    <3>1. th' \in [Threads -> Handler] /\ \E ssl : live' = live \ {ssl}
      BY <1>4, <2>2 DEF FreeSsl, Pcs
    <3>2. TableTypes'
      BY <1>1, <2>2, <3>1 DEF FreeSsl, TableTypes
    <3>3. AuxTypes'
      BY <1>1, <2>2 DEF FreeSsl, AuxTypes, Handler
    <3> QED
      BY <1>1, <2>2, <3>1, <3>2, <3>3, GroupsKept, TypePartsNext DEF FreeSsl
  <2>3. ASSUME ClearSsl(t) PROVE TypeOK'
    <3>1. th' \in [Threads -> Handler]
      BY <1>4, <2>3 DEF ClearSsl, Pcs
    <3>2. TableTypes'
      BY <1>1, <1>3, <2>3 DEF ClearSsl, TableTypes
    <3>3. AuxTypes'
      BY <1>1, <2>3 DEF ClearSsl, AuxTypes, Handler
    <3> QED
      BY <1>1, <2>3, <3>1, <3>2, <3>3, GroupsKept, TypePartsNext DEF ClearSsl
  <2> QED
    BY <1>10, <2>1, <2>2, <2>3 DEF Defer
<1>11. ASSUME CloseFd(t) PROVE TypeOK'
  <2>1. th' \in [Threads -> Handler]
    BY <1>1, <1>11, NoHandlerType DEF CloseFd
  <2>2. KernelTypes'
    <3>1. /\ sock' \in [Fds -> Conns \cup {NoConn}]
          /\ client' \in [Conns -> {"waiting", "silent", "ready", "more", "gone", "done"}]
      BY <1>1, <1>3, <1>11, ClosedTypes DEF CloseFd
    <3> QED
      BY <1>1, <1>11, <3>1 DEF CloseFd, KernelTypes
  <2> QED
    BY <1>1, <1>11, <2>1, <2>2, GroupsKept, TypePartsNext DEF CloseFd, memory
<1>12. ASSUME Sleep(t) \/ Woken(t) PROVE TypeOK'
  BY <1>1, <1>4, <1>12, GroupsKept, TypePartsNext DEF Sleep, Woken, memory, Pcs
<1>13. ASSUME Reset(t) PROVE TypeOK'
  <2>1. th' \in [Threads -> Handler]
    BY <1>4, <1>13 DEF Reset, Pcs
  <2>2. TableTypes'
    BY <1>1, <1>3, <1>13 DEF Reset, TableTypes
  <2> QED
    BY <1>1, <1>13, <2>1, <2>2, GroupsKept, TypePartsNext DEF Reset
<1> QED
  BY <1>5, <1>6, <1>7, <1>8, <1>9, <1>10, <1>11, <1>12, <1>13 DEF Tls, Park

LEMMA SubmitTypes ==
    ASSUME IndInv, NEW t \in Threads, Submit(t)
    PROVE  TypeOK'
<1>1. /\ KernelTypes /\ RingTypes /\ TableTypes /\ QueueTypes /\ AuxTypes
      /\ th \in [Threads -> Handler] /\ th[t] \in Handler
  BY TypeParts DEF IndInv
<1>2. \A p \in Pcs : Goto(t, p) => th' \in [Threads -> Handler]
  BY <1>1, GotoType
<1>3. \A p \in Pcs, n \in 0 .. Wrap - 1 :
        th' = [th EXCEPT ![t].pc = p, ![t].seen = n] => th' \in [Threads -> Handler]
  <2>1. \A p \in Pcs, n \in 0 .. Wrap - 1 : [th[t] EXCEPT !.pc = p, !.seen = n] \in Handler
    BY <1>1, HandlerChanges
  <2> QED
    BY <1>1, <2>1
<1>4. /\ ring.tail \in 0 .. Wrap - 1 /\ ring.head \in 0 .. Wrap - 1
      /\ th[t].seen \in 0 .. Wrap - 1 /\ th[t].fd \in Fds \cup {NoFd}
  BY <1>1 DEF RingTypes, Handler
<1> DEFINE i == Index(th[t].seen)
<1>5. i \in 0 .. RING_DEPTH - 1
  BY <1>4, IndexInside
<1>6. 0 \in 0 .. Wrap - 1
  BY SizesAssumption
<1>6a. ring.sqes[i] \in Sqe
  <2> HIDE DEF i
  <2> QED
    BY <1>1, <1>5 DEF RingTypes
<1>7. ASSUME LoadTail(t) PROVE TypeOK'
  <2>1. th' \in [Threads -> Handler]
    BY <1>3, <1>4, <1>7 DEF LoadTail, Pcs
  <2>2. extra' \in 0 .. MaxExtra
    BY <1>1, <1>7, BoundsAssumption DEF LoadTail, AuxTypes
  <2>3. disturbed' \in BOOLEAN
    BY <1>7 DEF LoadTail
  <2>4. AuxTypes'
    BY <1>1, <1>7, <2>2, <2>3 DEF LoadTail, AuxTypes
  <2> QED
    BY <1>1, <1>7, <2>1, <2>4, GroupsKept, TypePartsNext DEF LoadTail, memory
<1>8. ASSUME NoEntry(t) PROVE TypeOK'
  <2>1. th' \in [Threads -> Handler]
    <3>1. th' = [th EXCEPT ![t].pc = "park", ![t].seen = 0]
      BY <1>8 DEF NoEntry
    <3>2. "park" \in Pcs
      BY DEF Pcs
    <3> QED
      BY <1>3, <1>6, <3>1, <3>2
  <2> QED
    BY <1>1, <1>8, <2>1, GroupsKept, TypePartsNext DEF NoEntry, memory
<1>9. ASSUME TakeEntry(t) PROVE TypeOK'
  <2>1. th' \in [Threads -> Handler]
    BY <1>2, <1>9 DEF TakeEntry, Pcs
  <2>2. ring' = [ring EXCEPT !.arr[i] = i, !.sqes[i] = Zeroed] /\ Zeroed \in Sqe
    BY <1>9 DEF TakeEntry, Zeroed, Sqe
  <2>3. RingTypes'
    <3> HIDE DEF i
    <3> QED
      BY <1>1, <1>5, <2>2 DEF RingTypes
  <2> QED
    BY <1>1, <1>9, <2>1, <2>3, GroupsKept, TypePartsNext DEF TakeEntry, memory
<1>10. ASSUME SetFd(t) PROVE TypeOK'
  <2>1. th' \in [Threads -> Handler]
    BY <1>2, <1>10 DEF SetFd, Pcs
  <2>2. ring' = [ring EXCEPT !.sqes[i].op = "poll", !.sqes[i].fd = th[t].fd]
    BY <1>10 DEF SetFd
  <2>3. [ring.sqes[i] EXCEPT !.op = "poll", !.fd = th[t].fd] \in Sqe
    <3> HIDE DEF i
    <3> QED
      BY <1>4, <1>6a DEF Sqe
  <2>4. RingTypes'
    <3> HIDE DEF i
    <3> QED
      BY <1>1, <1>5, <2>2, <2>3 DEF RingTypes
  <2> QED
    BY <1>1, <1>10, <2>1, <2>4, GroupsKept, TypePartsNext DEF SetFd, memory
<1>11. ASSUME SetUserData(t) PROVE TypeOK'
  <2>1. th' \in [Threads -> Handler]
    BY <1>2, <1>11 DEF SetUserData, Pcs
  <2>2. ring' = [ring EXCEPT !.sqes[i].ud = th[t].fd]
    BY <1>11 DEF SetUserData
  <2>3. [ring.sqes[i] EXCEPT !.ud = th[t].fd] \in Sqe
    <3> HIDE DEF i
    <3> QED
      BY <1>4, <1>6a DEF Sqe
  <2>4. RingTypes'
    <3> HIDE DEF i
    <3> QED
      BY <1>1, <1>5, <2>2, <2>3 DEF RingTypes
  <2> QED
    BY <1>1, <1>11, <2>1, <2>4, GroupsKept, TypePartsNext DEF SetUserData, memory
<1>12. ASSUME LoadForFlush(t) PROVE TypeOK'
  <2>1. th' \in [Threads -> Handler]
    BY <1>3, <1>4, <1>12 DEF LoadForFlush, Pcs
  <2> QED
    BY <1>1, <1>12, <2>1, GroupsKept, TypePartsNext DEF LoadForFlush, memory
<1>13. ASSUME Publish(t) PROVE TypeOK'
  <2>1. th' \in [Threads -> Handler]
    BY <1>3, <1>6, <1>13 DEF Publish, Pcs
  <2>2. Next1(th[t].seen) \in 0 .. Wrap - 1
    BY <1>4, IndexInside
  <2>3. RingTypes'
    BY <1>1, <1>13, <2>2 DEF Publish, RingTypes
  <2> QED
    BY <1>1, <1>13, <2>1, <2>3, GroupsKept, TypePartsNext DEF Publish, memory
<1>14. ASSUME Enter(t) PROVE TypeOK'
  <2>1. th' \in [Threads -> Handler]
    BY <1>2, <1>14 DEF Enter, Pcs
  <2> DEFINE e == ring.sqes[ring.arr[Index(ring.head)]]
  <2>2. e \in Sqe
    <3>1. Index(ring.head) \in 0 .. RING_DEPTH - 1
      BY <1>4, IndexInside
    <3> QED
      BY <1>1, <3>1 DEF RingTypes
  <2>3. \/ Submitted(e) /\ ring' = [ring EXCEPT !.head = Next1(ring.head)]
        \/ UNCHANGED <<polls, cq, armed, ring>>
    BY <1>14 DEF Enter
  <2>4. UNCHANGED <<client, sends, sock, memory, aux>>
    BY <1>14 DEF Enter
  <2> HIDE DEF e
  <2>5. RingTypes'
    <3>1. Next1(ring.head) \in 0 .. Wrap - 1
      BY <1>4, IndexInside
    <3> QED
      BY <1>1, <2>3, <3>1 DEF RingTypes
  <2>6. BagToSet(polls') \subseteq Conns \X (Fds \cup {NoFd}) /\ cq' \in Seq(Cqe) /\ armed' \in BOOLEAN
    <3>1. CASE /\ e.op = "poll" /\ e.fd # NoFd /\ sock[e.fd] # NoConn
               /\ polls' = polls (+) SetToBag({<<sock[e.fd], e.ud>>})
               /\ UNCHANGED <<cq, armed>>
      <4>1. sock[e.fd] \in Conns /\ e.ud \in Fds \cup {NoFd}
        BY <1>1, <2>2, <3>1 DEF KernelTypes, Sqe
      <4>2. BagToSet(polls') = BagToSet(polls) \cup {<<sock[e.fd], e.ud>>}
        BY <3>1, PollTypes
      <4>3. BagToSet(polls') \subseteq Conns \X (Fds \cup {NoFd})
        BY <1>1, <4>1, <4>2 DEF KernelTypes
      <4>4. cq' \in Seq(Cqe) /\ armed' \in BOOLEAN
        BY <1>1, <3>1 DEF KernelTypes
      <4> QED
        BY <4>3, <4>4
    <3>2. CASE cq' = Append(cq, [tag |-> "poll", fd |-> e.ud]) /\ UNCHANGED <<polls, armed>>
      <4>1. [tag |-> "poll", fd |-> e.ud] \in Cqe
        BY <2>2 DEF Sqe, Cqe
      <4> QED
        BY <1>1, <3>2, <4>1, CqTypes DEF KernelTypes
    <3>3. CASE armed' = TRUE /\ UNCHANGED <<polls, cq>>
      BY <1>1, <3>3 DEF KernelTypes
    <3>4. CASE UNCHANGED <<polls, cq, armed, ring>>
      BY <1>1, <3>4 DEF KernelTypes
    <3> QED
      BY <2>3, <3>1, <3>2, <3>3, <3>4 DEF Submitted
  <2>7. KernelTypes'
    BY <1>1, <2>4, <2>6 DEF KernelTypes
  <2> QED
    BY <1>1, <2>1, <2>4, <2>5, <2>7, GroupsKept, TypePartsNext DEF memory
<1>15. ASSUME EnterRefused(t) PROVE TypeOK'
  <2>1. th' \in [Threads -> Handler]
    BY <1>2, <1>15 DEF EnterRefused, Pcs
  <2>2. AuxTypes'
    BY <1>1, <1>15, BoundsAssumption DEF EnterRefused, AuxTypes
  <2> QED
    BY <1>1, <1>15, <2>1, <2>2, GroupsKept, TypePartsNext DEF EnterRefused, memory
<1> QED
  BY <1>7, <1>8, <1>9, <1>10, <1>11, <1>12, <1>13, <1>14, <1>15 DEF Submit

-----------------------------------------------------------------------------
(***************************************************************************)
(* Descriptors have one owner. Owned says of one descriptor what OneOwner  *)
(* says with sets; holding is followed through each kind of step.          *)
(***************************************************************************)

InCq(f, i) == i \in 1 .. Len(cq) /\ cq[i] = [tag |-> "accept", fd |-> f]
InQueue(f, i) == i \in Occupied /\ queue.buf[i] = f
InThread(f, t) == t \in Threads /\ Running(t) /\ th[t].fd = f

Owned(f) ==
  /\ \A i, j : InCq(f, i) /\ InCq(f, j) => i = j
  /\ \A i, j : InQueue(f, i) /\ InQueue(f, j) => i = j
  /\ \A t, u : InThread(f, t) /\ InThread(f, u) => t = u
  /\ \A i, j : ~ (InCq(f, i) /\ InQueue(f, j))
  /\ \A i, t : ~ (InCq(f, i) /\ InThread(f, t))
  /\ \A i, t : ~ (InQueue(f, i) /\ InThread(f, t))
  /\ sock[f] # NoConn <=> (\E i : InCq(f, i)) \/ (\E i : InQueue(f, i)) \/ (\E t : InThread(f, t))

\* What a descriptor's holders are, element by element.
LEMMA HoldersAre ==
    ASSUME cq \in Seq(Cqe), NEW f
    PROVE  \A h : h \in Holders(f) <=>
             \/ \E i : InCq(f, i) /\ h = <<"cq", i>>
             \/ \E i : InQueue(f, i) /\ h = <<"queue", i>>
             \/ \E t : InThread(f, t) /\ h = <<"thread", t>>
<1>1. DOMAIN cq = 1 .. Len(cq)
  BY LenProperties
<1> QED
  BY <1>1 DEF Holders, InCq, InQueue, InThread

LEMMA OneOwnerOwned ==
    ASSUME cq \in Seq(Cqe), OneOwner, NEW f \in Fds
    PROVE  Owned(f)
<1>1. \A h : h \in Holders(f) <=>
             \/ \E i : InCq(f, i) /\ h = <<"cq", i>>
             \/ \E i : InQueue(f, i) /\ h = <<"queue", i>>
             \/ \E t : InThread(f, t) /\ h = <<"thread", t>>
  BY HoldersAre
<1>2. CASE sock[f] = NoConn
  <2>1. Holders(f) = {}
    BY <1>2 DEF OneOwner
  <2>2. ~ (\E i : InCq(f, i)) /\ ~ (\E i : InQueue(f, i)) /\ ~ (\E t : InThread(f, t))
    BY <1>1, <2>1
  <2> QED
    BY <1>2, <2>2 DEF Owned
<1>3. CASE sock[f] # NoConn
  <2>1. PICK h \in Holders(f) : Holders(f) = {h}
    BY <1>3 DEF OneOwner
  <2>2. /\ \A i : InCq(f, i) => h = <<"cq", i>>
        /\ \A i : InQueue(f, i) => h = <<"queue", i>>
        /\ \A t : InThread(f, t) => h = <<"thread", t>>
    BY <1>1, <2>1
  <2>3. \/ \E i : InCq(f, i)
        \/ \E i : InQueue(f, i)
        \/ \E t : InThread(f, t)
    BY <1>1, <2>1
  <2>4. \A x, y : <<"cq", x>> = <<"cq", y>> => x = y
    OBVIOUS
  <2>5. \A x, y : <<"queue", x>> = <<"queue", y>> => x = y
    OBVIOUS
  <2>6. \A x, y : <<"thread", x>> = <<"thread", y>> => x = y
    OBVIOUS
  <2>7. \A x, y : /\ <<"cq", x>> # <<"queue", y>> /\ <<"cq", x>> # <<"thread", y>>
                  /\ <<"queue", x>> # <<"thread", y>>
    OBVIOUS
  <2> QED
    BY <1>3, <2>2, <2>3, <2>4, <2>5, <2>6, <2>7 DEF Owned
<1> QED
  BY <1>2, <1>3

LEMMA OwnedOneOwner ==
    ASSUME cq \in Seq(Cqe), \A f \in Fds : Owned(f)
    PROVE  OneOwner
<1> SUFFICES ASSUME NEW f \in Fds
             PROVE  IF sock[f] = NoConn THEN Holders(f) = {}
                    ELSE \E h \in Holders(f) : Holders(f) = {h}
  BY DEF OneOwner
<1>1. \A h : h \in Holders(f) <=>
             \/ \E i : InCq(f, i) /\ h = <<"cq", i>>
             \/ \E i : InQueue(f, i) /\ h = <<"queue", i>>
             \/ \E t : InThread(f, t) /\ h = <<"thread", t>>
  BY HoldersAre
<1>2. CASE sock[f] = NoConn
  <2>1. Holders(f) = {}
    BY <1>1, <1>2 DEF Owned
  <2> QED
    BY <1>2, <2>1
<1>3. CASE sock[f] # NoConn
  <2>1. PICK h : h \in Holders(f)
    BY <1>1, <1>3 DEF Owned
  <2>2. \A k \in Holders(f) : k = h
    BY <1>1, <2>1 DEF Owned
  <2> QED
    BY <1>3, <2>1, <2>2
<1> QED
  BY <1>2, <1>3

AllOwned == \A f \in Fds : Owned(f)

LEMMA OwnedOneOwnerNext == (cq \in Seq(Cqe) /\ AllOwned => OneOwner)'
<1>1. cq \in Seq(Cqe) /\ AllOwned => OneOwner
  BY OwnedOneOwner DEF AllOwned
<1> QED
  BY <1>1, PTL

\* Holders of f that a step leaves alone.
CqSame(f) == \A i : InCq(f, i)' <=> InCq(f, i)
QueueSame(f) == \A i : InQueue(f, i)' <=> InQueue(f, i)
ThreadSame(f) == \A t : InThread(f, t)' <=> InThread(f, t)
\* The reactor has dealt with a completion that was not the accept of f.
CqShifted(f) ==
  /\ \A i : InCq(f, i)' => InCq(f, i + 1) /\ i \in Int
  /\ \A i : InCq(f, i) => InCq(f, i - 1)' /\ i \in Int

LEMMA OwnedSame ==
    ASSUME NEW f, Owned(f), sock'[f] = sock[f],
           CqSame(f) \/ CqShifted(f), QueueSame(f), ThreadSame(f)
    PROVE  Owned(f)'
<1>1. CASE CqSame(f)
  BY <1>1 DEF Owned, CqSame, QueueSame, ThreadSame
<1>2. CASE CqShifted(f)
  <2>1. \A i, j : InCq(f, i)' /\ InCq(f, j)' => i = j
    <3> SUFFICES ASSUME NEW i, NEW j, InCq(f, i)', InCq(f, j)' PROVE i = j
      OBVIOUS
    <3>1. InCq(f, i + 1) /\ InCq(f, j + 1) /\ i \in Int /\ j \in Int
      BY <1>2 DEF CqShifted
    <3>2. i + 1 = j + 1
      BY <3>1 DEF Owned
    <3> QED
      BY <3>1, <3>2
  <2>2. (\E i : InCq(f, i)') <=> (\E i : InCq(f, i))
    BY <1>2 DEF CqShifted
  <2>3. \A i, j : ~ (InCq(f, i)' /\ InQueue(f, j)')
    BY <1>2 DEF Owned, CqShifted, QueueSame
  <2>4. \A i, t : ~ (InCq(f, i)' /\ InThread(f, t)')
    BY <1>2 DEF Owned, CqShifted, ThreadSame
  <2> QED
    BY <2>1, <2>2, <2>3, <2>4 DEF Owned, QueueSame, ThreadSame
<1> QED
  BY <1>1, <1>2

LEMMA CqAppended ==
    ASSUME cq \in Seq(Cqe), NEW e \in Cqe, cq' = Append(cq, e),
           NEW f, e # [tag |-> "accept", fd |-> f]
    PROVE  CqSame(f)
<1>1. /\ Len(cq') = Len(cq) + 1 /\ Len(cq) \in Nat
      /\ \A i \in 1 .. Len(cq) : cq'[i] = cq[i]
      /\ cq'[Len(cq) + 1] = e
  BY AppendProperties, LenProperties
<1> QED
  BY <1>1 DEF CqSame, InCq

LEMMA CqDropped ==
    ASSUME cq \in Seq(Cqe), cq # <<>>, cq' = Tail(cq),
           NEW f, Head(cq) # [tag |-> "accept", fd |-> f]
    PROVE  CqShifted(f)
<1>1. /\ Len(cq') = Len(cq) - 1 /\ Len(cq) \in Nat /\ Len(cq) > 0
      /\ \A i \in 1 .. Len(cq') : cq'[i] = cq[i + 1]
  BY HeadTailProperties, LenProperties, EmptySeq
<1>2. Head(cq) = cq[1]
  OBVIOUS
<1> QED
  BY <1>1, <1>2 DEF CqShifted, InCq

LEMMA ThreadsKept ==
    ASSUME NEW f, \A u \in Threads : th'[u].fd = th[u].fd /\ (Running(u)' <=> Running(u))
    PROVE  ThreadSame(f)
BY DEF ThreadSame, InThread

LEMMA QueueKept ==
    ASSUME NEW f, queue' = queue
    PROVE  QueueSame(f)
BY DEF QueueSame, InQueue, Occupied

-----------------------------------------------------------------------------
(***************************************************************************)
(* What a handler's step does to what the invariant says.                  *)
(***************************************************************************)

\* Handler t takes a step that neither starts nor ends it.
Steps(t) ==
  /\ UNCHANGED <<queue, sock, wake, len>>
  /\ cq' = cq \/ \E e \in Cqe : e.tag = "poll" /\ cq' = Append(cq, e)
  /\ Running(t) /\ Running(t)'
  /\ th'[t].fd = th[t].fd /\ th'[t].conn = th[t].conn /\ (th'[t].moved => th[t].moved)
  /\ \A u \in Threads \ {t} : th'[u] = th[u]
  /\ \A c \in Conns : client'[c] = "waiting" => client[c] = "waiting"

LEMMA PcSteps ==
    ASSUME th \in [Threads -> Handler], NEW t \in Threads, NEW p \in Pcs \ {"idle"}, Running(t),
           \/ Goto(t, p)
           \/ \E n : th' = [th EXCEPT ![t].pc = p, ![t].seen = n]
    PROVE  /\ Running(t)'
           /\ th'[t].fd = th[t].fd /\ th'[t].conn = th[t].conn /\ th'[t].moved = th[t].moved
           /\ \A u \in Threads \ {t} : th'[u] = th[u]
           /\ th'[t].pc = p
BY DEF Goto, Running, Handler

LEMMA HandlerSteps ==
    ASSUME IndInv, NEW t \in Threads,
           Setup(t) \/ Tls(t) \/ Defer(t) \/ Submit(t) \/ Park(t)
    PROVE  Steps(t)
<1> USE DEF kernel, memory
<1>1. th \in [Threads -> Handler]
  BY DEF IndInv, TypeOK
<1>2. Running(t)
  <2>1. Setup(t) \/ Defer(t) \/ Park(t) => Running(t)
    BY DEF Setup, Defer, LoadSlot, FreeSsl, ClearSsl, Park, Sleep, Woken, Reset, At, Running
  <2>2. Tls(t) => Running(t)
    BY DEF Tls, CallProgresses, CallWants, CallWriteFails, CallEnds, At, Running
  <2>3. Submit(t) => Running(t)
    BY DEF Submit, LoadTail, NoEntry, TakeEntry, SetFd, SetUserData, LoadForFlush, Publish,
           Enter, EnterRefused, At, Running
  <2> QED
    BY <2>1, <2>2, <2>3
<1>3. ASSUME NEW p \in Pcs \ {"idle"},
             \/ Goto(t, p)
             \/ \E n : th' = [th EXCEPT ![t].pc = p, ![t].seen = n]
      PROVE  /\ Running(t)'
             /\ th'[t].fd = th[t].fd /\ th'[t].conn = th[t].conn /\ th'[t].moved = th[t].moved
             /\ \A u \in Threads \ {t} : th'[u] = th[u]
  BY <1>1, <1>2, <1>3, PcSteps
<1>3a. client \in [Conns -> {"waiting", "silent", "ready", "more", "gone", "done"}]
  BY DEF IndInv, TypeOK
<1>4. CASE Setup(t) \/ CallWants(t) \/ CallEnds(t) \/ FreeSsl(t) \/ ClearSsl(t) \/ Park(t)
  <2>1. \E p \in Pcs \ {"idle"} : Goto(t, p)
    BY <1>4 DEF Setup, CallWants, CallEnds, FreeSsl, ClearSsl, Park, Sleep, Woken, Reset, Pcs
  <2>2. UNCHANGED <<queue, sock, wake, len, cq>>
    BY <1>4 DEF Setup, CallWants, CallEnds, FreeSsl, ClearSsl, Park, Sleep, Woken, Reset
  <2>3. \A c \in Conns : client'[c] = "waiting" => client[c] = "waiting"
    BY <1>3a, <1>4 DEF Setup, CallWants, CallEnds, FreeSsl, ClearSsl, Park, Sleep, Woken, Reset
  <2> QED
    BY <1>2, <1>3, <2>1, <2>2, <2>3 DEF Steps
<1>4a. CASE LoadSlot(t)
  <2>1. /\ UNCHANGED <<queue, sock, wake, len, cq, client>>
        /\ th' = [th EXCEPT ![t].pc = "release", ![t].moved = FALSE]
    BY <1>4a DEF LoadSlot
  <2>2. /\ th'[t].pc = "release" /\ ~th'[t].moved
        /\ th'[t].fd = th[t].fd /\ th'[t].conn = th[t].conn
        /\ \A u \in Threads \ {t} : th'[u] = th[u]
    BY <1>1, <2>1 DEF Handler
  <2> QED
    BY <1>2, <2>1, <2>2 DEF Steps, Running
<1>5. CASE CallProgresses(t) \/ CallWriteFails(t)
  <2>1. UNCHANGED <<queue, sock, wake, len, cq>> /\ \E ph : th' = [th EXCEPT ![t].phase = ph]
    BY <1>1, <1>5 DEF CallProgresses, CallWriteFails
  <2>2. PICK ph : th' = [th EXCEPT ![t].phase = ph]
    BY <2>1
  <2>3. /\ th'[t].pc = th[t].pc
        /\ th'[t].fd = th[t].fd /\ th'[t].conn = th[t].conn /\ th'[t].moved = th[t].moved
        /\ \A u \in Threads \ {t} : th'[u] = th[u]
    BY <1>1, <2>2 DEF Handler
  <2>4. \A c \in Conns : client'[c] = "waiting" => client[c] = "waiting"
    BY <1>3a, <1>5 DEF CallProgresses, CallWriteFails
  <2> QED
    BY <1>2, <2>1, <2>3, <2>4 DEF Steps, Running
<1>6. CASE TakeEntry(t) \/ SetFd(t) \/ SetUserData(t) \/ EnterRefused(t)
  <2>1. \E p \in Pcs \ {"idle"} : Goto(t, p)
    BY <1>6 DEF TakeEntry, SetFd, SetUserData, EnterRefused, Pcs
  <2>2. UNCHANGED <<queue, sock, wake, len, cq, client>>
    BY <1>6 DEF TakeEntry, SetFd, SetUserData, EnterRefused
  <2> QED
    BY <1>2, <1>3, <2>1, <2>2 DEF Steps
<1>7. CASE LoadTail(t) \/ NoEntry(t) \/ LoadForFlush(t) \/ Publish(t)
  <2>1. \E p \in Pcs \ {"idle"} : \E n : th' = [th EXCEPT ![t].pc = p, ![t].seen = n]
    BY <1>7 DEF LoadTail, NoEntry, LoadForFlush, Publish, Pcs
  <2>2. UNCHANGED <<queue, sock, wake, len, cq, client>>
    BY <1>7 DEF LoadTail, NoEntry, LoadForFlush, Publish
  <2> QED
    BY <1>2, <1>3, <2>1, <2>2 DEF Steps
<1>8. CASE Enter(t)
  <2> DEFINE e == ring.sqes[ring.arr[Index(ring.head)]]
  <2>1. Goto(t, "park") /\ UNCHANGED <<queue, sock, wake, len, client>> /\ "park" \in Pcs \ {"idle"}
    BY <1>8 DEF Enter, Pcs
  <2>2. cq' = cq \/ cq' = Append(cq, [tag |-> "poll", fd |-> e.ud])
    BY <1>8 DEF Enter, Submitted
  <2>3. e.ud \in Fds \cup {NoFd}
    <3>1. ring.head \in 0 .. Wrap - 1
      BY DEF IndInv, TypeOK
    <3>2. Index(ring.head) \in 0 .. RING_DEPTH - 1
      BY <3>1, IndexInside
    <3>3. e \in Sqe
      BY <3>2 DEF IndInv, TypeOK
    <3> HIDE DEF e
    <3> QED
      BY <3>3 DEF Sqe
  <2> HIDE DEF e
  <2>4. [tag |-> "poll", fd |-> e.ud] \in Cqe /\ [tag |-> "poll", fd |-> e.ud].tag = "poll"
    BY <2>3 DEF Cqe
  <2> QED
    BY <1>2, <1>3, <2>1, <2>2, <2>4 DEF Steps
<1> QED
  BY <1>4, <1>4a, <1>5, <1>6, <1>7, <1>8 DEF Tls, Submit, Defer

-----------------------------------------------------------------------------
(***************************************************************************)
(* Every step keeps the ownership.                                         *)
(***************************************************************************)

\* The FIFO when a descriptor comes and when one goes.
LEMMA OccupiedIs ==
    ASSUME QueueTypes
    PROVE  \A i : i \in Occupied <=>
             /\ i \in Int
             /\ IF queue.head <= queue.tail
                  THEN queue.head <= i /\ i < queue.tail
                  ELSE (queue.head <= i /\ i < FD_QUEUE_CAP) \/ (0 <= i /\ i < queue.tail)
<1>1. /\ queue.head \in 0 .. FD_QUEUE_CAP - 1 /\ queue.tail \in 0 .. FD_QUEUE_CAP - 1
      /\ FD_QUEUE_CAP \in Nat
  BY SizesAssumption DEF QueueTypes
<1>2. CASE queue.head <= queue.tail
  <2>1. Occupied = queue.head .. queue.tail - 1
    BY <1>2 DEF Occupied
  <2> QED
    BY <1>1, <1>2, <2>1
<1>3. CASE ~ (queue.head <= queue.tail)
  <2>1. Occupied = (queue.head .. FD_QUEUE_CAP - 1) \cup (0 .. queue.tail - 1)
    BY <1>3 DEF Occupied
  <2> QED
    BY <1>1, <1>3, <2>1
<1> QED
  BY <1>2, <1>3

LEMMA OccupiedIsNext ==
    (QueueTypes =>
       \A i : i \in Occupied <=>
             /\ i \in Int
             /\ IF queue.head <= queue.tail
                  THEN queue.head <= i /\ i < queue.tail
                  ELSE (queue.head <= i /\ i < FD_QUEUE_CAP) \/ (0 <= i /\ i < queue.tail))'
BY OccupiedIs, PTL

LEMMA OccupiedPush ==
    ASSUME QueueTypes, ~QueueFull, NEW f \in Fds,
           queue' = [queue EXCEPT !.buf[queue.tail] = f, !.tail = QueueNext(@)]
    PROVE  /\ Occupied' = Occupied \cup {queue.tail} /\ queue.tail \notin Occupied
           /\ queue'.buf[queue.tail] = f
           /\ \A i \in Occupied : queue'.buf[i] = queue.buf[i]
<1>1. /\ queue.head \in 0 .. FD_QUEUE_CAP - 1 /\ queue.tail \in 0 .. FD_QUEUE_CAP - 1
      /\ queue.buf \in [0 .. FD_QUEUE_CAP - 1 -> Fds \cup {NoFd}]
  BY DEF QueueTypes
<1>2. /\ queue'.head = queue.head /\ queue'.tail = QueueNext(queue.tail)
      /\ queue'.buf = [queue.buf EXCEPT ![queue.tail] = f]
  BY DEF QueueTypes
<1>3. /\ QueueNext(queue.tail) = IF queue.tail + 1 = FD_QUEUE_CAP THEN 0 ELSE queue.tail + 1
      /\ QueueNext(queue.tail) # queue.head
  BY <1>1, QueueNextIs DEF QueueFull
<1>4. queue.tail \notin Occupied
  BY <1>1 DEF Occupied
<1>5. QueueTypes'
  BY <1>1, QueueNextIs DEF QueueTypes
<1>6. \A i : i \in Occupied' <=> i \in Occupied \cup {queue.tail}
  <2>1. \A i : i \in Occupied' <=>
             /\ i \in Int
             /\ IF queue'.head <= queue'.tail
                  THEN queue'.head <= i /\ i < queue'.tail
                  ELSE (queue'.head <= i /\ i < FD_QUEUE_CAP) \/ (0 <= i /\ i < queue'.tail)
    BY <1>5, OccupiedIsNext
  <2> DEFINE h == queue.head
             k == queue.tail
             next == QueueNext(queue.tail)
  <2>2. /\ \A i : i \in Occupied <=>
             i \in Int /\ IF h <= k THEN h <= i /\ i < k
                                   ELSE (h <= i /\ i < FD_QUEUE_CAP) \/ (0 <= i /\ i < k)
        /\ \A i : i \in Occupied' <=>
             i \in Int /\ IF h <= next THEN h <= i /\ i < next
                                      ELSE (h <= i /\ i < FD_QUEUE_CAP) \/ (0 <= i /\ i < next)
    BY <1>2, <2>1, OccupiedIs
  <2>3. /\ h \in Int /\ 0 <= h /\ h < FD_QUEUE_CAP /\ k \in Int /\ 0 <= k /\ k < FD_QUEUE_CAP
        /\ FD_QUEUE_CAP \in Int
    BY <1>1, SizesAssumption
  <2>4. next = (IF k + 1 = FD_QUEUE_CAP THEN 0 ELSE k + 1) /\ next # h
    BY <1>3
  <2> HIDE DEF h, k, next
  <2>5. \A i : i \in Occupied' <=> i \in Occupied \cup {k}
    <3>1. CASE k + 1 = FD_QUEUE_CAP
      BY <2>2, <2>3, <2>4, <3>1
    <3>2. CASE k + 1 # FD_QUEUE_CAP
      BY <2>2, <2>3, <2>4, <3>2
    <3> QED
      BY <3>1, <3>2
  <2> QED
    BY <2>5 DEF k
<1>7. \A i \in Occupied : queue'.buf[i] = queue.buf[i]
  <2>1. \A i \in Occupied : i \in 0 .. FD_QUEUE_CAP - 1
    BY <1>1, OccupiedIs, SizesAssumption
  <2> QED
    BY <1>1, <1>2, <1>4, <2>1
<1> QED
  BY <1>1, <1>2, <1>4, <1>6, <1>7

LEMMA OccupiedPop ==
    ASSUME QueueTypes, ~QueueEmpty, queue' = [queue EXCEPT !.head = QueueNext(@)]
    PROVE  /\ Occupied' = Occupied \ {queue.head} /\ queue.head \in Occupied
           /\ queue'.buf = queue.buf
<1>1. /\ queue.head \in 0 .. FD_QUEUE_CAP - 1 /\ queue.tail \in 0 .. FD_QUEUE_CAP - 1
      /\ queue.head # queue.tail
  BY DEF QueueTypes, QueueEmpty
<1>2. queue'.head = QueueNext(queue.head) /\ queue'.tail = queue.tail /\ queue'.buf = queue.buf
  BY DEF QueueTypes
<1>3. QueueNext(queue.head) = IF queue.head + 1 = FD_QUEUE_CAP THEN 0 ELSE queue.head + 1
  BY <1>1, QueueNextIs
<1>4. QueueTypes'
  BY <1>1, QueueNextIs DEF QueueTypes
<1>5. queue.head \in Occupied
  BY <1>1, OccupiedIs, SizesAssumption
<1>6. \A i : i \in Occupied' <=> i \in Occupied \ {queue.head}
  <2>1. \A i : i \in Occupied' <=>
             /\ i \in Int
             /\ IF queue'.head <= queue'.tail
                  THEN queue'.head <= i /\ i < queue'.tail
                  ELSE (queue'.head <= i /\ i < FD_QUEUE_CAP) \/ (0 <= i /\ i < queue'.tail)
    BY <1>4, OccupiedIsNext
  <2> QED
    BY <1>1, <1>2, <1>3, <2>1, OccupiedIs, SizesAssumption
<1> QED
  BY <1>2, <1>5, <1>6

LEMMA InvOwned ==
    ASSUME IndInv
    PROVE  AllOwned /\ cq \in Seq(Cqe) /\ QueueTypes
BY OneOwnerOwned DEF IndInv, TypeOK, AllOwned, QueueTypes

LEMMA StepsOwned ==
    ASSUME IndInv, NEW t \in Threads, Steps(t)
    PROVE  AllOwned'
<1> SUFFICES ASSUME NEW f \in Fds PROVE Owned(f)'
  BY DEF AllOwned
<1>1. Owned(f) /\ cq \in Seq(Cqe)
  BY InvOwned DEF AllOwned
<1>2. CqSame(f)
  <2>1. CASE cq' = cq
    BY <2>1 DEF CqSame, InCq
  <2>2. ASSUME NEW e \in Cqe, e.tag = "poll", cq' = Append(cq, e) PROVE CqSame(f)
    <3>1. e # [tag |-> "accept", fd |-> f]
      BY <2>2
    <3> QED
      BY <1>1, <2>2, <3>1, CqAppended
  <2> QED
    BY <2>1, <2>2 DEF Steps
<1>3. QueueSame(f)
  BY QueueKept DEF Steps
<1>4. ThreadSame(f)
  BY ThreadsKept DEF Steps, Running
<1> QED
  BY <1>1, <1>2, <1>3, <1>4, OwnedSame DEF Steps

LEMMA KernelOwned ==
    ASSUME IndInv, Clients \/ Kernel
    PROVE  AllOwned'
<1>1. ASSUME NEW f \in Fds, UNCHANGED <<queue, th>> PROVE QueueSame(f) /\ ThreadSame(f)
  BY <1>1, QueueKept, ThreadsKept DEF Running
<1>2. AllOwned /\ cq \in Seq(Cqe) /\ QueueTypes
  BY InvOwned
<1>3. UNCHANGED <<queue, th>>
  BY DEF Clients, Send, HangUp, Kernel, KernelAccept, AcceptError, CompletePoll, memory
<1>4. ASSUME NEW c \in Conns, Send(c) \/ HangUp(c) PROVE AllOwned'
  <2> SUFFICES ASSUME NEW f \in Fds PROVE Owned(f)'
    BY DEF AllOwned
  <2>1. CqSame(f)
    BY <1>4 DEF CqSame, InCq, Send, HangUp
  <2>2. sock' = sock
    BY <1>4 DEF Send, HangUp
  <2> QED
    BY <1>1, <1>2, <1>3, <2>1, <2>2, OwnedSame DEF AllOwned
<1>5. ASSUME NEW e \in Cqe, e.tag = "poll" \/ e.fd = NoFd, cq' = Append(cq, e), sock' = sock
      PROVE  AllOwned'
  <2> SUFFICES ASSUME NEW f \in Fds PROVE Owned(f)'
    BY DEF AllOwned
  <2>1. e # [tag |-> "accept", fd |-> f]
    BY <1>5, SizesAssumption DEF Fds, NoFd
  <2>2. CqSame(f)
    BY <1>2, <1>5, <2>1, CqAppended
  <2> QED
    BY <1>1, <1>2, <1>3, <1>5, <2>2, OwnedSame DEF AllOwned
<1>6. ASSUME AcceptError PROVE AllOwned'
  <2>1. [tag |-> "accept", fd |-> NoFd] \in Cqe /\ [tag |-> "accept", fd |-> NoFd].fd = NoFd
    BY DEF Cqe
  <2> QED
    BY <1>5, <1>6, <2>1 DEF AcceptError
<1>7. ASSUME NEW c \in Conns, NEW u \in Fds \cup {NoFd}, CompletePoll(c, u) PROVE AllOwned'
  <2>1. [tag |-> "poll", fd |-> u] \in Cqe /\ [tag |-> "poll", fd |-> u].tag = "poll"
    BY DEF Cqe
  <2> QED
    BY <1>5, <1>7, <2>1 DEF CompletePoll
<1>8. ASSUME NEW c \in Conns, KernelAccept(c) PROVE AllOwned'
  <2> SUFFICES ASSUME NEW f \in Fds PROVE Owned(f)'
    BY DEF AllOwned
  <2>1. PICK g \in Fds : /\ sock[g] = NoConn /\ sock' = [sock EXCEPT ![g] = c]
                         /\ cq' = Append(cq, [tag |-> "accept", fd |-> g])
    BY <1>8 DEF KernelAccept
  <2>2. [tag |-> "accept", fd |-> g] \in Cqe
    BY DEF Cqe
  <2>3. sock \in [Fds -> Conns \cup {NoConn}] /\ c # NoConn
    BY NamesAssumption DEF IndInv, TypeOK
  <2>4. Owned(f) /\ QueueSame(f) /\ ThreadSame(f)
    BY <1>1, <1>2, <1>3 DEF AllOwned
  <2>5. CASE f # g
    <3>1. CqSame(f)
      BY <1>2, <2>1, <2>2, <2>5, CqAppended
    <3>2. sock'[f] = sock[f]
      BY <2>1, <2>3, <2>5
    <3> QED
      BY <2>4, <3>1, <3>2, OwnedSame
  <2>6. CASE f = g
    <3>1. sock'[f] # NoConn /\ sock[f] = NoConn
      BY <2>1, <2>3, <2>6
    <3>2. /\ Len(cq') = Len(cq) + 1 /\ Len(cq) \in Nat
          /\ \A i \in 1 .. Len(cq) : cq'[i] = cq[i]
          /\ cq'[Len(cq) + 1] = [tag |-> "accept", fd |-> f]
      BY <1>2, <2>1, <2>2, <2>6, AppendProperties, LenProperties
    <3>3. \A i : ~ InCq(f, i) /\ ~ InQueue(f, i) /\ ~ InThread(f, i)
      BY <2>4, <3>1 DEF Owned
    <3>4. \A i : InCq(f, i)' <=> i = Len(cq) + 1
      BY <3>2, <3>3 DEF InCq
    <3>5. \A i : ~ InQueue(f, i)' /\ ~ InThread(f, i)'
      BY <2>4, <3>3 DEF QueueSame, ThreadSame
    <3> QED
      BY <3>1, <3>4, <3>5 DEF Owned
  <2> QED
    BY <2>5, <2>6
<1> QED
  BY <1>4, <1>6, <1>7, <1>8 DEF Clients, Kernel

\* The reactor deals with a completion that is no accept of a descriptor.
LEMMA DrainedOwned ==
    ASSUME IndInv, cq # <<>>, Drained, UNCHANGED <<sock, queue>>,
           Head(cq).tag = "poll" \/ Head(cq).fd = NoFd,
           \A u \in Threads : th'[u].fd = th[u].fd /\ (Running(u)' <=> Running(u))
    PROVE  AllOwned'
<1> SUFFICES ASSUME NEW f \in Fds PROVE Owned(f)'
  BY DEF AllOwned
<1>1. Owned(f) /\ cq \in Seq(Cqe)
  BY InvOwned DEF AllOwned
<1>2. Head(cq) # [tag |-> "accept", fd |-> f]
  BY DEF Fds, NoFd
<1>3. CqShifted(f)
  BY <1>1, <1>2, CqDropped DEF Drained
<1> QED
  BY <1>1, <1>3, QueueKept, ThreadsKept, OwnedSame

LEMMA OnAcceptOwned ==
    ASSUME IndInv, OnAccept
    PROVE  AllOwned'
<1>1. AllOwned /\ cq \in Seq(Cqe) /\ QueueTypes /\ KernelTypes /\ TypeOK
  BY InvOwned, TypeParts DEF IndInv
<1>2. cq # <<>> /\ cq' = Tail(cq) /\ Head(cq).tag = "accept"
  BY DEF OnAccept, Drained
<1>3. PICK f \in Fds : Head(cq) = [tag |-> "accept", fd |-> f]
  <2>1. Head(cq) \in Cqe
    BY <1>1, <1>2, CqTypes
  <2> QED
    BY <1>2, <2>1 DEF OnAccept, Cqe
<1>4. \/ Ensure(f) /\ NewFdPush(f)
      \/ Closed(f) /\ UNCHANGED <<len, th, queue>>
  BY <1>3 DEF OnAccept
<1>5. \A u \in Threads : th'[u].fd = th[u].fd /\ (Running(u)' <=> Running(u))
  <2>1. CASE Ensure(f)
    <3>1. \A t \in Threads : \/ th'[t] = th[t]
                             \/ th'[t] = [th[t] EXCEPT !.moved = Running(t)]
      BY <1>1, <1>3, <2>1, EnsureTypes
    <3>2. th \in [Threads -> Handler]
      BY <1>1 DEF TypeOK
    <3> SUFFICES ASSUME NEW u \in Threads PROVE th'[u].fd = th[u].fd /\ (Running(u)' <=> Running(u))
      OBVIOUS
    <3>3. th[u] \in Handler
      BY <3>2
    <3>4. th'[u].fd = th[u].fd /\ th'[u].pc = th[u].pc
      BY <3>1, <3>3 DEF Handler
    <3> QED
      BY <3>4 DEF Running
  <2>2. CASE th' = th
    BY <2>2 DEF Running
  <2> QED
    BY <1>4, <2>1, <2>2
<1>6. \/ Closed(f) /\ queue' = queue
      \/ /\ ~QueueFull /\ UNCHANGED <<sock, client>>
         /\ queue' = [queue EXCEPT !.buf[queue.tail] = f, !.tail = QueueNext(@)]
  BY <1>4 DEF NewFdPush
<1>7. /\ Len(cq') = Len(cq) - 1 /\ Len(cq) \in Nat /\ Len(cq) > 0
      /\ \A i \in 1 .. Len(cq') : cq'[i] = cq[i + 1]
      /\ cq[1] = Head(cq)
  BY <1>1, <1>2, HeadTailProperties, LenProperties, EmptySeq
<1>8. InCq(f, 1)
  BY <1>3, <1>7 DEF InCq
<1>9. /\ \A i : ~ InQueue(f, i) /\ ~ InThread(f, i)
      /\ \A i : InCq(f, i) => i = 1
  BY <1>1, <1>3, <1>8 DEF AllOwned, Owned
<1>10. \A i : ~ InCq(f, i)'
  <2> SUFFICES ASSUME NEW i, InCq(f, i)' PROVE FALSE
    OBVIOUS
  <2>1. InCq(f, i + 1) /\ i \in 1 .. Len(cq')
    BY <1>7 DEF InCq
  <2>2. i + 1 = 1
    BY <1>9, <2>1
  <2> QED
    BY <1>7, <2>1, <2>2
<1>11. \A g : ThreadSame(g)
  BY <1>5, ThreadsKept
<1>12. \A t : ~ InThread(f, t)'
  BY <1>9, <1>11 DEF ThreadSame
<1>13. sock[f] # NoConn
  BY <1>1, <1>3, <1>8 DEF AllOwned, Owned
<1>14. ASSUME NEW g \in Fds, g # f PROVE CqShifted(g)
  <2>1. Head(cq) # [tag |-> "accept", fd |-> g]
    BY <1>3, <1>14
  <2> QED
    BY <1>1, <1>2, <2>1, CqDropped
<1>15. CASE Closed(f) /\ queue' = queue
  <2>1. sock'[f] = NoConn /\ \A g \in Fds \ {f} : sock'[g] = sock[g]
    BY <1>1, <1>3, <1>15, ClosedTypes
  <2>2. \A g : QueueSame(g)
    BY <1>15, QueueKept
  <2>3. Owned(f)'
    BY <1>9, <1>10, <1>12, <2>1, <2>2 DEF Owned, QueueSame
  <2>4. ASSUME NEW g \in Fds, g # f PROVE Owned(g)'
    BY <1>1, <1>11, <1>14, <2>1, <2>2, <2>4, OwnedSame DEF AllOwned
  <2> QED
    BY <2>3, <2>4 DEF AllOwned
<1>16. CASE /\ ~QueueFull /\ UNCHANGED <<sock, client>>
            /\ queue' = [queue EXCEPT !.buf[queue.tail] = f, !.tail = QueueNext(@)]
  <2>1. /\ Occupied' = Occupied \cup {queue.tail} /\ queue.tail \notin Occupied
        /\ queue'.buf[queue.tail] = f
        /\ \A i \in Occupied : queue'.buf[i] = queue.buf[i]
    BY <1>1, <1>3, <1>16, OccupiedPush
  <2>2. \A i : InQueue(f, i)' <=> i = queue.tail
    <3> SUFFICES ASSUME NEW i PROVE InQueue(f, i)' <=> i = queue.tail
      OBVIOUS
    <3>1. ~ InQueue(f, i)
      BY <1>9
    <3> QED
      BY <2>1, <3>1 DEF InQueue
  <2>3. Owned(f)'
    BY <1>10, <1>12, <1>13, <1>16, <2>2 DEF Owned
  <2>4. ASSUME NEW g \in Fds, g # f PROVE Owned(g)'
    <3>1. QueueSame(g)
      BY <2>1, <2>4 DEF QueueSame, InQueue
    <3> QED
      BY <1>1, <1>11, <1>14, <1>16, <2>4, <3>1, OwnedSame DEF AllOwned
  <2> QED
    BY <2>3, <2>4 DEF AllOwned
<1> QED
  BY <1>6, <1>15, <1>16

LEMMA DispatchOwned ==
    ASSUME IndInv, NEW t \in Threads, Dispatch(t)
    PROVE  AllOwned'
<1>1. AllOwned /\ cq \in Seq(Cqe) /\ QueueTypes /\ th \in [Threads -> Handler]
  BY InvOwned DEF IndInv, TypeOK
<1>2. queue.head \in Occupied /\ \E f \in Fds : f = queue.buf[queue.head]
  BY QueuedConn DEF Dispatch
<1>2a. PICK f \in Fds : f = queue.buf[queue.head]
  BY <1>2
<1>3. /\ Occupied' = Occupied \ {queue.head}
      /\ queue'.buf = queue.buf
  BY <1>1, OccupiedPop DEF Dispatch
<1>4. UNCHANGED <<cq, sock>>
  BY DEF Dispatch, kernel
<1>5. /\ ~Running(t) /\ Running(t)' /\ th'[t].fd = f
      /\ \A u \in Threads \ {t} : th'[u] = th[u]
  BY <1>1, <1>2a DEF Dispatch, At, Running, NoHandler
<1>6. InQueue(f, queue.head)
  BY <1>2, <1>2a DEF InQueue
<1>7. \A g : CqSame(g)
  BY <1>4 DEF CqSame, InCq
<1>8. Owned(f)'
  <2>1. /\ \A i : ~ InCq(f, i) /\ ~ InThread(f, i)
        /\ \A i : InQueue(f, i) => i = queue.head
        /\ sock[f] # NoConn
    BY <1>1, <1>2, <1>6 DEF AllOwned, Owned
  <2>2. \A i : ~ InQueue(f, i)'
    BY <1>3, <2>1 DEF InQueue
  <2>3. \A u : InThread(f, u)' <=> u = t
    BY <1>5, <2>1 DEF InThread, Running
  <2> QED
    BY <1>4, <1>7, <2>1, <2>2, <2>3 DEF Owned, CqSame
<1>9. ASSUME NEW g \in Fds, g # f PROVE Owned(g)'
  <2>1. QueueSame(g)
    BY <1>3, <1>6, <1>9 DEF QueueSame, InQueue
  <2>2. ThreadSame(g)
    BY <1>5, <1>9 DEF ThreadSame, InThread, Running
  <2> QED
    BY <1>1, <1>4, <1>7, <2>1, <2>2, OwnedSame DEF AllOwned
<1> QED
  BY <1>8, <1>9 DEF AllOwned

LEMMA CloseFdOwned ==
    ASSUME IndInv, NEW t \in Threads, CloseFd(t)
    PROVE  AllOwned'
<1>1. AllOwned /\ cq \in Seq(Cqe) /\ QueueTypes /\ th \in [Threads -> Handler] /\ KernelTypes
  BY InvOwned, TypeParts DEF IndInv, TypeOK
<1>2. Running(t) /\ th[t].fd \in Fds
  BY RunningConn DEF CloseFd, At, Running
<1>2a. PICK f \in Fds : f = th[t].fd
  BY <1>2
<1>3. sock'[f] = NoConn /\ \A g \in Fds \ {f} : sock'[g] = sock[g]
  BY <1>1, <1>2a, ClosedTypes DEF CloseFd
<1>4. ~ Running(t)' /\ \A u \in Threads \ {t} : th'[u] = th[u]
  BY <1>1 DEF CloseFd, NoHandler, Running
<1>5. \A g : CqSame(g) /\ QueueSame(g)
  BY QueueKept DEF CloseFd, memory, CqSame, InCq
<1>6. InThread(f, t)
  BY <1>2, <1>2a DEF InThread
<1>7. Owned(f)'
  <2>1. /\ \A i : ~ InCq(f, i) /\ ~ InQueue(f, i)
        /\ \A u : InThread(f, u) => u = t
    BY <1>1, <1>2, <1>6 DEF AllOwned, Owned
  <2>2. \A u : ~ InThread(f, u)'
    BY <1>4, <2>1 DEF InThread, Running
  <2> QED
    BY <1>3, <1>5, <2>1, <2>2 DEF Owned, CqSame, QueueSame
<1>8. ASSUME NEW g \in Fds, g # f PROVE Owned(g)'
  <2>1. ThreadSame(g)
    BY <1>4, <1>6, <1>8 DEF ThreadSame, InThread, Running
  <2> QED
    BY <1>1, <1>3, <1>5, <1>8, <2>1, OwnedSame DEF AllOwned
<1> QED
  BY <1>7, <1>8 DEF AllOwned
-----------------------------------------------------------------------------
(***************************************************************************)
(* The rest of the invariant, one kind of step at a time.                  *)
(***************************************************************************)

\* Appending leaves the completion whose slot is being woken at the head.
LEMMA WakingKept ==
    ASSUME IndInv, wake' = wake, cq' = cq \/ \E e \in Cqe : cq' = Append(cq, e)
    PROVE  Waking'
<1>1. Waking /\ cq \in Seq(Cqe)
  BY DEF IndInv, TypeOK
<1>2. CASE cq' = cq
  BY <1>1, <1>2 DEF Waking
<1>3. ASSUME NEW e \in Cqe, cq' = Append(cq, e) PROVE Waking'
  <2>1. cq # <<>> => Head(cq') = Head(cq)
    BY <1>1, <1>3
  <2>2. cq' # <<>>
    BY <1>1, <1>3
  <2> QED
    BY <1>1, <2>1, <2>2 DEF Waking
<1> QED
  BY <1>2, <1>3

LEMMA HeldKept ==
    ASSUME Held, queue' = queue,
           \A t \in Threads : Running(t)' =>
             /\ Running(t) /\ th'[t].fd = th[t].fd /\ th'[t].conn = th[t].conn
             /\ sock'[th[t].fd] = sock[th[t].fd]
    PROVE  Held'
BY DEF Held, Occupied

\* Descriptors that stay, or one that is closed, leave a connection its own.
LEMMA OneSockKept ==
    ASSUME IndInv, sock' = sock, \A c \in Conns : client'[c] = "waiting" => client[c] = "waiting"
    PROVE  OneSock'
<1>1. \A f \in Fds : sock[f] # NoConn => sock[f] \in Conns
  BY DEF IndInv, TypeOK
<1> QED
  BY <1>1 DEF IndInv, OneSock

LEMMA OneSockClosed ==
    ASSUME IndInv, NEW f \in Fds, Closed(f)
    PROVE  OneSock'
<1>1. /\ KernelTypes
      /\ sock'[f] = NoConn /\ \A g \in Fds \ {f} : sock'[g] = sock[g]
  BY ClosedTypes, TypeParts DEF IndInv
<1>2. \A c \in Conns : client'[c] = "waiting" => client[c] = "waiting"
  BY DEF Closed
<1>3. \A g \in Fds : sock'[g] # NoConn => g # f /\ sock'[g] = sock[g] /\ sock[g] \in Conns
  BY <1>1 DEF KernelTypes
<1> QED
  BY <1>2, <1>3 DEF IndInv, OneSock

\* Two handlers serve two connections.
LEMMA ConnsDistinct ==
    ASSUME IndInv, NEW t \in Threads, NEW u \in Threads, Running(t), Running(u)
    PROVE  /\ th[t].fd = th[u].fd => t = u
           /\ th[t].conn = th[u].conn => t = u
<1>1. /\ th[t].fd \in Fds /\ th[u].fd \in Fds /\ th[t].conn # NoConn
      /\ sock[th[t].fd] = th[t].conn /\ sock[th[u].fd] = th[u].conn
  BY RunningConn, NamesAssumption
<1>2. th[t].fd = th[u].fd => t = u
  <2>1. Owned(th[t].fd)
    BY <1>1, InvOwned DEF AllOwned
  <2> QED
    BY <2>1 DEF Owned, InThread
<1>3. th[t].conn = th[u].conn => th[t].fd = th[u].fd
  BY <1>1 DEF IndInv, OneSock
<1> QED
  BY <1>2, <1>3

-----------------------------------------------------------------------------
(***************************************************************************)
(* SSL objects.                                                            *)
(***************************************************************************)

\* Where a handler may be, as far as its SSL object is concerned.
LEMMA Places ==
    ASSUME NEW t \in Threads
    PROVE  /\ Serving(t) => Running(t) /\ ~Freeing(t) /\ ~At(t, "setup") /\ ~At(t, "clear")
           /\ Freeing(t) => Running(t) /\ ~At(t, "setup") /\ ~At(t, "clear")
           /\ At(t, "clear") \/ At(t, "setup") => Running(t)
BY DEF Serving, Freeing, Running, At

\* A step that touches neither the objects nor where handlers are with theirs.
LEMMA SslKept ==
    ASSUME OwnSsl, queue' = queue, live' = live, astray' = astray,
           \A f \in Fds : slots'[f].ssl = slots[f].ssl,
           Held,
           \A t \in Threads :
             /\ th'[t].fd = th[t].fd /\ th'[t].conn = th[t].conn
             /\ th'[t].pc = th[t].pc \/ (th[t].pc = "asleep" /\ th'[t].pc = "park")
    PROVE  OwnSsl'
<1>1. ASSUME NEW t \in Threads
      PROVE  /\ Serving(t)' <=> Serving(t)
             /\ Freeing(t)' <=> Freeing(t)
             /\ At(t, "clear")' <=> At(t, "clear")
             /\ At(t, "setup")' <=> At(t, "setup")
             /\ Running(t)' <=> Running(t)
  BY DEF Serving, Freeing, At, Running
<1>2. SlotIsOwn'
  <2>1. \A i \in Occupied' : slots'[queue'.buf[i]].ssl = NoConn
    BY DEF OwnSsl, SlotIsOwn, Held, Occupied
  <2>2. ASSUME NEW t \in Threads, Running(t)'
        PROVE  slots'[th'[t].fd].ssl \in (IF At(t, "setup")' THEN {} ELSE {th'[t].conn}) \cup {NoConn}
    <3>1. Running(t) /\ th[t].fd \in Fds
      BY <1>1, <2>2 DEF Held
    <3> QED
      BY <1>1, <3>1 DEF OwnSsl, SlotIsOwn
  <2> QED
    BY <2>1, <2>2 DEF SlotIsOwn
<1>3. FreedOnce'
  <2> SUFFICES ASSUME ~astray PROVE FreedOnce'
    BY DEF FreedOnce
  <2>1. \A t \in Threads : Serving(t) \/ Freeing(t) => th[t].fd \in Fds
    BY Places DEF Held
  <2>2. \A c \in live' : \E t \in Threads : th'[t].conn = c /\ (Serving(t)' \/ Freeing(t)')
    BY <1>1 DEF OwnSsl, FreedOnce
  <2>3. \A t \in Threads : Serving(t)' => th'[t].conn \in live' /\ slots'[th'[t].fd].ssl = th'[t].conn
    BY <1>1, <2>1 DEF OwnSsl, FreedOnce
  <2>4. \A t \in Threads : Freeing(t)' => (th'[t].conn \in live' <=> slots'[th'[t].fd].ssl = th'[t].conn)
    BY <1>1, <2>1 DEF OwnSsl, FreedOnce
  <2>5. \A f \in Fds : slots'[f].ssl # NoConn =>
          \E t \in Threads : /\ th'[t].fd = f /\ th'[t].conn = slots'[f].ssl
                             /\ Serving(t)' \/ Freeing(t)' \/ At(t, "clear")'
    BY <1>1 DEF OwnSsl, FreedOnce
  <2> QED
    BY <2>2, <2>3, <2>4, <2>5 DEF FreedOnce
<1> QED
  BY <1>2, <1>3 DEF OwnSsl

\* Where the steps of a poll's submission lead, and that they leave the table.
LEMMA SubmitLeads ==
    ASSUME th \in [Threads -> Handler], NEW t \in Threads, Submit(t)
    PROVE  /\ slots' = slots /\ live' = live /\ astray' = astray
           /\ Serving(t) /\ Serving(t)' /\ th'[t].pc # "asleep"
<1> USE DEF memory, aux, Serving, At
<1>1. th[t] \in Handler
  OBVIOUS
<1>2. \A p : Goto(t, p) => th'[t].pc = p
  BY <1>1 DEF Goto, Handler
<1>3. \A p, n : th' = [th EXCEPT ![t].pc = p, ![t].seen = n] => th'[t].pc = p
  BY <1>1 DEF Handler
<1>4. CASE TakeEntry(t) \/ SetFd(t) \/ SetUserData(t) \/ Enter(t) \/ EnterRefused(t)
  BY <1>2, <1>4 DEF TakeEntry, SetFd, SetUserData, Enter, EnterRefused
<1>5. CASE LoadTail(t)
  BY <1>3, <1>5 DEF LoadTail
<1>6. CASE NoEntry(t)
  BY <1>3, <1>6 DEF NoEntry
<1>7. CASE LoadForFlush(t)
  BY <1>3, <1>7 DEF LoadForFlush
<1>8. CASE Publish(t)
  BY <1>3, <1>8 DEF Publish
<1> QED
  BY <1>4, <1>5, <1>6, <1>7, <1>8 DEF Submit

LEMMA TlsLeads ==
    ASSUME th \in [Threads -> Handler], NEW t \in Threads, Tls(t)
    PROVE  /\ slots' = slots /\ live' = live /\ astray' = astray
           /\ Serving(t) /\ th'[t].pc \in {"call", "tail", "free"}
<1> USE DEF memory, aux, Serving, At
<1>1. th[t] \in Handler
  OBVIOUS
<1>2. \A p : Goto(t, p) => th'[t].pc = p
  BY <1>1 DEF Goto, Handler
<1>3. \A ph : th' = [th EXCEPT ![t].phase = ph] => th'[t].pc = th[t].pc
  BY <1>1 DEF Handler
<1>4. CASE CallWants(t) \/ CallEnds(t)
  BY <1>2, <1>4 DEF CallWants, CallEnds
<1>5. CASE CallProgresses(t)
  BY <1>3, <1>5 DEF CallProgresses
<1>6. CASE CallWriteFails(t)
  BY <1>3, <1>6 DEF CallWriteFails
<1> QED
  BY <1>4, <1>5, <1>6 DEF Tls

\* What a handler's step does to its slot's futex: it may clear the word, and
\* it falls asleep only on a word that is clear.
LEMMA FutexSteps ==
    ASSUME IndInv, NEW t \in Threads,
           Setup(t) \/ Tls(t) \/ Defer(t) \/ Submit(t) \/ Park(t)
    PROVE  /\ \A f \in Fds : slots'[f].futex = slots[f].futex \/ slots'[f].futex = 0
           /\ th'[t].pc = "asleep" => th'[t].moved \/ slots'[th[t].fd].futex = 0
<1> USE DEF memory
<1>1. /\ th \in [Threads -> Handler]
      /\ slots \in [Fds -> [ssl : Conns \cup {NoConn}, futex : {0, 1}]]
  BY DEF IndInv, TypeOK
<1>1c. \A p : Goto(t, p) => th'[t].pc = p /\ th'[t].moved = th[t].moved
  BY <1>1 DEF Goto, Handler
<1>2. CASE Setup(t) \/ Defer(t)
  <2>1. th'[t].pc # "asleep"
    BY <1>1, <1>1c, <1>2 DEF Setup, Defer, LoadSlot, FreeSsl, ClearSsl, Handler
  <2>2. slots' = slots \/ \E c : slots' = [slots EXCEPT ![th[t].fd].ssl = c]
    BY <1>2 DEF Setup, Defer, LoadSlot, FreeSsl, ClearSsl
  <2>3. ASSUME NEW f \in Fds PROVE slots'[f].futex = slots[f].futex
    <3>1. ASSUME NEW c, slots' = [slots EXCEPT ![th[t].fd].ssl = c]
          PROVE  slots'[f].futex = slots[f].futex
      <4>1. slots'[f] = slots[f] \/ slots'[f] = [slots[f] EXCEPT !.ssl = c]
        BY <1>1, <3>1
      <4> QED
        BY <1>1, <4>1
    <3> QED
      BY <2>2, <3>1
  <2> QED
    BY <2>1, <2>3
<1>3. CASE Tls(t)
  BY <1>3, <1>1, TlsLeads
<1>4. CASE Submit(t)
  BY <1>1, <1>4, SubmitLeads
<1>5. CASE Sleep(t)
  BY <1>1, <1>1c, <1>5 DEF Sleep
<1>6. CASE Woken(t)
  BY <1>1, <1>1c, <1>6 DEF Woken
<1>7. CASE Reset(t)
  BY <1>1, <1>7 DEF Reset, Goto
<1> QED
  BY <1>2, <1>3, <1>4, <1>5, <1>6, <1>7 DEF Park

\* What it does to the SSL objects, as long as no address is astray: it makes its
\* own and puts it into its slot, it frees what it finds there, it empties the
\* slot, or it leaves them alone.
Makes(t) ==
  /\ At(t, "setup") /\ Serving(t)'
  /\ live' = live \cup {th[t].conn} /\ slots'[th[t].fd].ssl = th[t].conn
Frees(t) ==
  /\ Freeing(t) /\ th'[t].pc = (IF slots[th[t].fd].ssl = NoConn THEN "close" ELSE "clear")
  /\ live' = live \ {slots[th[t].fd].ssl} /\ slots'[th[t].fd].ssl = slots[th[t].fd].ssl
Empties(t) ==
  /\ At(t, "clear") /\ At(t, "close")' /\ live' = live /\ slots'[th[t].fd].ssl = NoConn
Leaves(t) ==
  /\ live' = live /\ slots'[th[t].fd].ssl = slots[th[t].fd].ssl
  /\ \/ Serving(t) /\ (Serving(t)' \/ Freeing(t)')
     \/ (Freeing(t) \/ At(t, "setup")) /\ Freeing(t)'

LEMMA SslSteps ==
    ASSUME IndInv, NEW t \in Threads,
           Setup(t) \/ Tls(t) \/ Defer(t) \/ Submit(t) \/ Park(t)
    PROVE  /\ \A f \in Fds \ {th[t].fd} : slots'[f].ssl = slots[f].ssl
           /\ slots'[th[t].fd].ssl \in {slots[th[t].fd].ssl, th[t].conn, NoConn}
           /\ th'[t].pc # "setup" /\ (astray => astray')
           /\ ~astray' => Makes(t) \/ Frees(t) \/ Empties(t) \/ Leaves(t)
<1> USE DEF memory, aux
<1>1. /\ th \in [Threads -> Handler]
      /\ slots \in [Fds -> [ssl : Conns \cup {NoConn}, futex : {0, 1}]]
  BY DEF IndInv, TypeOK
<1>1a. Running(t)
  BY HandlerSteps DEF Steps
<1>1b. th[t].fd \in Fds
  BY <1>1a, RunningConn
<1>1c. \A p : Goto(t, p) => th'[t].pc = p
  BY <1>1 DEF Goto, Handler
<1>1d. ASSUME NEW c, slots' = [slots EXCEPT ![th[t].fd].ssl = c]
       PROVE  slots'[th[t].fd].ssl = c /\ \A f \in Fds \ {th[t].fd} : slots'[f].ssl = slots[f].ssl
  BY <1>1, <1>1b, <1>1d
<1>2. CASE Setup(t)
  <2>1. CASE Goto(t, "free") /\ slots' = slots /\ live' = live /\ astray' = astray
    BY <1>1c, <1>2, <2>1 DEF Leaves, Freeing, At, Setup
  <2>2. CASE /\ Goto(t, "call") /\ live' = live \cup {th[t].conn} /\ astray' = (astray \/ th[t].moved)
             /\ slots' = IF th[t].moved THEN slots ELSE [slots EXCEPT ![th[t].fd].ssl = th[t].conn]
    <3>1. th'[t].pc = "call" /\ At(t, "setup")
      BY <1>1c, <1>2, <2>2 DEF Setup
    <3>2. CASE th[t].moved
      BY <2>2, <3>1, <3>2
    <3>3. CASE ~th[t].moved
      <4>1. /\ slots'[th[t].fd].ssl = th[t].conn
            /\ \A f \in Fds \ {th[t].fd} : slots'[f].ssl = slots[f].ssl
        BY <1>1d, <2>2, <3>3
      <4> QED
        BY <2>2, <3>1, <3>3, <4>1 DEF Makes, Serving
    <3> QED
      BY <3>2, <3>3
  <2> QED
    BY <1>2, <2>1, <2>2 DEF Setup
<1>3. CASE LoadSlot(t)
  <2>1. th'[t].pc = "release"
    BY <1>1, <1>3 DEF LoadSlot, Handler
  <2> QED
    BY <1>3, <2>1 DEF LoadSlot, Leaves, Freeing, At
<1>4. CASE FreeSsl(t)
  <2>1. slots' = slots /\ astray' = (astray \/ th[t].moved) /\ Freeing(t)
    BY <1>4 DEF FreeSsl, Freeing, At
  <2>2. PICK ssl \in IF th[t].moved THEN Conns \cup {NoConn} ELSE {slots[th[t].fd].ssl} :
          Goto(t, IF ssl = NoConn THEN "close" ELSE "clear") /\ live' = live \ {ssl}
    BY <1>4 DEF FreeSsl
  <2>3. th'[t].pc = IF ssl = NoConn THEN "close" ELSE "clear"
    BY <1>1c, <2>2
  <2> QED
    BY <2>1, <2>2, <2>3 DEF Frees
<1>5. CASE ClearSsl(t)
  <2>1. th'[t].pc = "close" /\ astray' = (astray \/ th[t].moved) /\ live' = live /\ At(t, "clear")
    BY <1>1c, <1>5 DEF ClearSsl
  <2>2. slots' = IF th[t].moved THEN slots ELSE [slots EXCEPT ![th[t].fd].ssl = NoConn]
    BY <1>5 DEF ClearSsl
  <2>3. CASE th[t].moved
    BY <2>1, <2>2, <2>3
  <2>4. CASE ~th[t].moved
    <3>1. /\ slots'[th[t].fd].ssl = NoConn
          /\ \A f \in Fds \ {th[t].fd} : slots'[f].ssl = slots[f].ssl
      BY <1>1d, <2>2, <2>4
    <3> QED
      BY <2>1, <2>4, <3>1 DEF Empties, At
  <2> QED
    BY <2>3, <2>4
<1>6. CASE Tls(t)
  <2>1. /\ slots' = slots /\ live' = live /\ astray' = astray
        /\ Serving(t) /\ th'[t].pc \in {"call", "tail", "free"}
    BY <1>1, <1>6, TlsLeads
  <2> QED
    BY <2>1 DEF Leaves, Serving, Freeing
<1>7. CASE Submit(t)
  <2>1. /\ slots' = slots /\ live' = live /\ astray' = astray
        /\ Serving(t) /\ Serving(t)'
    BY <1>1, <1>7, SubmitLeads
  <2> QED
    BY <2>1 DEF Leaves, Serving
<1>8. CASE Sleep(t) \/ Woken(t)
  <2>1. /\ slots' = slots /\ live' = live /\ astray' = astray
        /\ th[t].pc = "park" /\ th'[t].pc \in {"asleep", "reset"}
    BY <1>1c, <1>8 DEF Sleep, Woken, At
  <2> QED
    BY <2>1 DEF Leaves, Serving
<1>9. CASE Reset(t)
  <2>1. /\ live' = live /\ astray' = astray /\ th[t].pc = "reset" /\ th'[t].pc = "call"
    BY <1>1c, <1>9 DEF Reset, At
  <2>2. \A f \in Fds : slots'[f].ssl = slots[f].ssl
    BY <1>1, <1>1b, <1>9 DEF Reset
  <2> QED
    BY <1>1b, <2>1, <2>2 DEF Leaves, Serving
<1> QED
  BY <1>2, <1>3, <1>4, <1>5, <1>6, <1>7, <1>8, <1>9 DEF Park, Defer

\* A handler's step and the slots that are handed over or in use.
LEMMA SlotSteps ==
    ASSUME IndInv, NEW t \in Threads, Steps(t),
           \A f \in Fds \ {th[t].fd} : slots'[f].ssl = slots[f].ssl,
           slots'[th[t].fd].ssl \in {slots[th[t].fd].ssl, th[t].conn, NoConn},
           th'[t].pc # "setup"
    PROVE  SlotIsOwn'
<1>1. /\ queue' = queue /\ Running(t)
      /\ th'[t].fd = th[t].fd /\ th'[t].conn = th[t].conn
      /\ \A u \in Threads \ {t} : th'[u] = th[u]
  BY DEF Steps
<1>2. th[t].fd \in Fds
  BY <1>1, RunningConn
<1>3. ASSUME NEW i \in Occupied PROVE slots'[queue.buf[i]].ssl = NoConn
  <2>1. queue.buf[i] \in Fds /\ slots[queue.buf[i]].ssl = NoConn
    BY DEF IndInv, Held, OwnSsl, SlotIsOwn
  <2>2. queue.buf[i] # th[t].fd
    <3>1. Owned(th[t].fd) /\ InThread(th[t].fd, t)
      BY <1>1, <1>2, InvOwned DEF AllOwned, InThread
    <3> QED
      BY <3>1 DEF Owned, InQueue
  <2> QED
    BY <2>1, <2>2
<1>4. ASSUME NEW u \in Threads, Running(u)'
      PROVE  slots'[th'[u].fd].ssl \in (IF At(u, "setup")' THEN {} ELSE {th'[u].conn}) \cup {NoConn}
  <2>1. CASE u = t
    <3>1. slots[th[t].fd].ssl \in {th[t].conn, NoConn}
      BY <1>1 DEF IndInv, OwnSsl, SlotIsOwn
    <3> QED
      BY <1>1, <2>1, <3>1 DEF At
  <2>2. CASE u # t
    <3>1. th'[u] = th[u] /\ Running(u)
      BY <1>1, <1>4, <2>2 DEF Running
    <3>2. th[u].fd # th[t].fd /\ th[u].fd \in Fds
      BY <1>1, <2>2, <3>1, ConnsDistinct, RunningConn
    <3>3. slots'[th[u].fd].ssl = slots[th[u].fd].ssl
      BY <3>2
    <3> QED
      BY <3>1, <3>3 DEF IndInv, OwnSsl, SlotIsOwn, At
  <2> QED
    BY <2>1, <2>2
<1> QED
  BY <1>1, <1>3, <1>4 DEF SlotIsOwn, Occupied

\* A handler's step and the objects made and freed.
LEMMA FreedSteps ==
    ASSUME IndInv, NEW t \in Threads, Steps(t), ~astray,
           \A f \in Fds \ {th[t].fd} : slots'[f].ssl = slots[f].ssl,
           Makes(t) \/ Frees(t) \/ Empties(t) \/ Leaves(t)
    PROVE  FreedOnce'
<1>1. /\ Running(t) /\ th'[t].fd = th[t].fd /\ th'[t].conn = th[t].conn
      /\ \A u \in Threads \ {t} : th'[u] = th[u]
  BY DEF Steps
<1>2. th[t].fd \in Fds /\ th[t].conn \in Conns /\ th[t].conn # NoConn
  BY <1>1, RunningConn, NamesAssumption
<1>3. /\ \A c \in live : \E u \in Threads : th[u].conn = c /\ (Serving(u) \/ Freeing(u))
      /\ \A u \in Threads : Serving(u) => th[u].conn \in live /\ slots[th[u].fd].ssl = th[u].conn
      /\ \A u \in Threads : Freeing(u) => (th[u].conn \in live <=> slots[th[u].fd].ssl = th[u].conn)
      /\ \A f \in Fds : slots[f].ssl # NoConn =>
           \E u \in Threads : /\ th[u].fd = f /\ th[u].conn = slots[f].ssl
                              /\ Serving(u) \/ Freeing(u) \/ At(u, "clear")
  BY DEF IndInv, OwnSsl, FreedOnce
<1>4. ASSUME NEW u \in Threads \ {t}, Running(u)
      PROVE  /\ th'[u] = th[u] /\ th[u].fd \in Fds /\ th[u].fd # th[t].fd
             /\ th[u].conn # th[t].conn /\ th[u].conn # NoConn
             /\ slots'[th[u].fd].ssl = slots[th[u].fd].ssl
  BY <1>1, <1>4, ConnsDistinct, RunningConn, NamesAssumption
<1>5. slots[th[t].fd].ssl \in {NoConn, th[t].conn} /\ (At(t, "setup") => slots[th[t].fd].ssl = NoConn)
  BY <1>1 DEF IndInv, OwnSsl, SlotIsOwn
\* The handler's object is live just where it serves, or frees what it has.
<1>6. /\ Serving(t) => th[t].conn \in live
      /\ Freeing(t) => (th[t].conn \in live <=> slots[th[t].fd].ssl = th[t].conn)
      /\ ~Serving(t) /\ ~Freeing(t) => th[t].conn \notin live
  <2>1. ASSUME th[t].conn \in live PROVE Serving(t) \/ Freeing(t)
    <3>1. PICK u \in Threads : th[u].conn = th[t].conn /\ (Serving(u) \/ Freeing(u))
      BY <1>3, <2>1
    <3>2. u = t
      BY <1>1, <3>1, ConnsDistinct, Places
    <3> QED
      BY <3>1, <3>2
  <2> QED
    BY <1>3, <2>1
<1>7. \A c : c # th[t].conn => (c \in live' <=> c \in live) \/ c = NoConn
  BY <1>5 DEF Makes, Frees, Empties, Leaves
<1>7a. NoConn \notin live /\ live \subseteq Conns
  BY NamesAssumption DEF IndInv, TypeOK
\* What the step makes true of the handler itself.
<1>8. /\ Serving(t)' => th[t].conn \in live' /\ slots'[th[t].fd].ssl = th[t].conn
      /\ Freeing(t)' => (th[t].conn \in live' <=> slots'[th[t].fd].ssl = th[t].conn)
      /\ th[t].conn \in live' => Serving(t)' \/ Freeing(t)'
      /\ slots'[th[t].fd].ssl # NoConn =>
           /\ slots'[th[t].fd].ssl = th[t].conn
           /\ Serving(t)' \/ Freeing(t)' \/ At(t, "clear")'
  <2>1. CASE Makes(t)
    <3>1. ~Freeing(t)'
      BY <2>1 DEF Makes, Serving, Freeing
    <3> QED
      BY <1>1, <1>2, <2>1, <3>1 DEF Makes
  <2>2. CASE Frees(t)
    <3>1. ~Serving(t)' /\ ~Freeing(t)' /\ (slots[th[t].fd].ssl # NoConn => At(t, "clear")')
      BY <2>2 DEF Frees, Serving, Freeing, At
    <3>2. th[t].conn \notin live'
      BY <1>5, <1>6, <2>2 DEF Frees
    <3> QED
      BY <1>5, <2>2, <3>1, <3>2 DEF Frees
  <2>3. CASE Empties(t)
    <3>1. ~Serving(t) /\ ~Freeing(t) /\ ~Serving(t)' /\ ~Freeing(t)'
      BY <2>3 DEF Empties, Serving, Freeing, At
    <3> QED
      BY <1>6, <2>3, <3>1 DEF Empties
  <2>4. CASE Leaves(t)
    <3>1. /\ Serving(t) => slots[th[t].fd].ssl = th[t].conn
          /\ Serving(t)' => Serving(t)
          /\ At(t, "setup") => ~Serving(t) /\ ~Freeing(t)
      BY <1>3, <2>4 DEF Leaves, Serving, Freeing, At
    <3> QED
      BY <1>2, <1>5, <1>6, <2>4, <3>1 DEF Leaves
  <2> QED
    BY <2>1, <2>2, <2>3, <2>4
<1>9. \A u \in Threads \ {t} : Running(u) =>
        (Serving(u)' <=> Serving(u)) /\ (Freeing(u)' <=> Freeing(u)) /\ (At(u, "clear")' <=> At(u, "clear"))
  BY <1>4 DEF Serving, Freeing, At
<1>10. \A u \in Threads \ {t} : Serving(u)' \/ Freeing(u)' => Running(u)
  BY <1>1 DEF Serving, Freeing, Running
<1>11. ASSUME NEW c \in live' PROVE \E u \in Threads : th'[u].conn = c /\ (Serving(u)' \/ Freeing(u)')
  <2>1. CASE c = th[t].conn
    BY <1>1, <1>8, <1>11, <2>1
  <2>2. CASE c # th[t].conn
    <3>1. c \in live
      BY <1>2, <1>7, <1>7a, <1>11, <2>2 DEF Makes, Frees, Empties, Leaves
    <3>2. PICK u \in Threads : th[u].conn = c /\ (Serving(u) \/ Freeing(u))
      BY <1>3, <3>1
    <3>3. u # t /\ Running(u)
      BY <2>2, <3>2, Places
    <3> QED
      BY <1>4, <1>9, <3>2, <3>3
  <2> QED
    BY <2>1, <2>2
<1>12. ASSUME NEW u \in Threads
       PROVE  /\ Serving(u)' => th'[u].conn \in live' /\ slots'[th'[u].fd].ssl = th'[u].conn
              /\ Freeing(u)' => (th'[u].conn \in live' <=> slots'[th'[u].fd].ssl = th'[u].conn)
  <2>1. CASE u = t
    BY <1>1, <1>8, <2>1
  <2>2. CASE u # t
    BY <1>3, <1>4, <1>7, <1>9, <1>10, <2>2
  <2> QED
    BY <2>1, <2>2
<1>13. ASSUME NEW f \in Fds, slots'[f].ssl # NoConn
       PROVE  \E u \in Threads : /\ th'[u].fd = f /\ th'[u].conn = slots'[f].ssl
                                 /\ Serving(u)' \/ Freeing(u)' \/ At(u, "clear")'
  <2>1. CASE f = th[t].fd
    BY <1>1, <1>8, <1>13, <2>1
  <2>2. CASE f # th[t].fd
    <3>1. PICK u \in Threads : /\ th[u].fd = f /\ th[u].conn = slots[f].ssl
                               /\ Serving(u) \/ Freeing(u) \/ At(u, "clear")
      BY <1>3, <1>13, <2>2
    <3>2. u # t /\ Running(u)
      BY <2>2, <3>1, Places
    <3> QED
      BY <1>4, <1>9, <2>2, <3>1, <3>2
  <2> QED
    BY <2>1, <2>2
<1> QED
  BY <1>11, <1>12, <1>13 DEF FreedOnce

-----------------------------------------------------------------------------
(***************************************************************************)
(* Every kind of step keeps the invariant.                                 *)
(***************************************************************************)

LEMMA KernelKeeps ==
    ASSUME IndInv, Clients \/ Kernel
    PROVE  IndInv'
<1> USE DEF Clients, Send, HangUp, Kernel, KernelAccept, AcceptError, CompletePoll
<1>1. TypeOK' /\ AllOwned'
  BY KernelStep, KernelOwned DEF IndInv
<1>2. UNCHANGED <<queue, th, slots, live, wake, astray>>
  BY DEF memory, aux
<1>3. /\ sock \in [Fds -> Conns \cup {NoConn}]
      /\ client \in [Conns -> {"waiting", "silent", "ready", "more", "gone", "done"}]
  BY DEF IndInv, TypeOK
<1>4. \/ sock' = sock /\ \A c \in Conns : client'[c] = "waiting" => client[c] = "waiting"
      \/ \E c \in Conns, f \in Fds :
           /\ sock[f] = NoConn /\ sock' = [sock EXCEPT ![f] = c]
           /\ client[c] = "waiting" /\ client' = [client EXCEPT ![c] = "silent"]
  BY <1>3
<1>5. Held'
  <2>1. \A t \in Threads : Running(t) => sock'[th[t].fd] = sock[th[t].fd]
    <3>1. \A t \in Threads : Running(t) => th[t].fd \in Fds /\ sock[th[t].fd] # NoConn
      BY RunningConn, NamesAssumption
    <3> QED
      BY <1>3, <1>4, <3>1
  <2> QED
    BY <1>2, <2>1, HeldKept DEF IndInv, Running
<1>6. OneSock'
  <2>1. ASSUME NEW c \in Conns, NEW f \in Fds,
               sock[f] = NoConn, sock' = [sock EXCEPT ![f] = c],
               client[c] = "waiting", client' = [client EXCEPT ![c] = "silent"]
        PROVE  OneSock'
    <3>1. \A g \in Fds : sock[g] # c
      BY <2>1, NamesAssumption DEF IndInv, OneSock
    <3>2. sock'[f] = c /\ \A g \in Fds \ {f} : sock'[g] = sock[g]
      BY <1>3, <2>1
    <3>3. client'[c] = "silent" /\ \A d \in Conns \ {c} : client'[d] = client[d]
      BY <1>3, <2>1
    <3> QED
      BY <1>3, <3>1, <3>2, <3>3 DEF IndInv, OneSock
  <2> QED
    BY <1>4, <2>1, OneSockKept
<1>7. Waking'
  <2>1. cq' = cq \/ \E e \in Cqe : cq' = Append(cq, e)
    BY DEF Cqe
  <2> QED
    BY <1>2, <2>1, WakingKept
<1>8. OwnSsl'
  BY <1>2, SslKept DEF IndInv
<1>9. SleeperIsWoken'
  BY <1>2 DEF IndInv, SleeperIsWoken, At
<1> QED
  BY <1>1, <1>5, <1>6, <1>7, <1>8, <1>9, OwnedOneOwnerNext DEF IndInv, TypeOK

LEMMA DispatchKeeps ==
    ASSUME IndInv, NEW t \in Threads, Dispatch(t)
    PROVE  IndInv'
<1>1. TypeOK' /\ AllOwned'
  BY DispatchTypes, DispatchOwned
<1>2. /\ UNCHANGED <<slots, live, wake, sock, client, cq, astray>>
      /\ th \in [Threads -> Handler] /\ QueueTypes
  BY InvOwned DEF Dispatch, kernel, aux, IndInv, TypeOK
<1>3. queue.buf[queue.head] \in Fds /\ queue.head \in Occupied
  BY QueuedConn DEF Dispatch
<1>4. /\ th[t].pc = "idle" /\ th'[t].pc = "setup"
      /\ th'[t].fd = queue.buf[queue.head] /\ th'[t].conn = sock[queue.buf[queue.head]]
      /\ \A u \in Threads \ {t} : th'[u] = th[u]
  BY <1>2 DEF Dispatch, At, NoHandler
<1>5. Occupied' = Occupied \ {queue.head} /\ queue'.buf = queue.buf
  BY <1>2, OccupiedPop DEF Dispatch
<1>6. Held'
  <2>1. \A i \in Occupied' : queue'.buf[i] \in Fds
    BY <1>5 DEF IndInv, Held
  <2>2. \A u \in Threads : Running(u)' => th'[u].fd \in Fds /\ sock'[th'[u].fd] = th'[u].conn
    BY <1>2, <1>3, <1>4 DEF IndInv, Held, Running
  <2> QED
    BY <2>1, <2>2 DEF Held
<1>7. OneSock'
  BY <1>2, OneSockKept
<1>8. Waking'
  BY <1>2, WakingKept
<1>9. SlotIsOwn'
  <2>1. \A i \in Occupied' : slots'[queue'.buf[i]].ssl = NoConn
    BY <1>2, <1>5 DEF IndInv, OwnSsl, SlotIsOwn
  <2>2. ASSUME NEW u \in Threads, Running(u)'
        PROVE  slots'[th'[u].fd].ssl \in (IF At(u, "setup")' THEN {} ELSE {th'[u].conn}) \cup {NoConn}
    <3>1. CASE u = t
      BY <1>2, <1>3, <1>4, <3>1 DEF IndInv, OwnSsl, SlotIsOwn
    <3>2. CASE u # t
      BY <1>2, <1>4, <2>2, <3>2 DEF IndInv, OwnSsl, SlotIsOwn, At, Running
    <3> QED
      BY <3>1, <3>2
  <2> QED
    BY <2>1, <2>2 DEF SlotIsOwn
<1>10. FreedOnce'
  <2>1. /\ ~Serving(t) /\ ~Freeing(t) /\ ~At(t, "clear")
        /\ ~Serving(t)' /\ ~Freeing(t)' /\ ~At(t, "clear")'
    BY <1>4 DEF Serving, Freeing, At
  <2>2. \A u \in Threads : /\ Serving(u)' <=> Serving(u)
                           /\ Freeing(u)' <=> Freeing(u)
                           /\ At(u, "clear")' <=> At(u, "clear")
    BY <1>4, <2>1 DEF Serving, Freeing, At
  <2> SUFFICES ASSUME ~astray PROVE FreedOnce'
    BY <1>2 DEF FreedOnce
  <2>3. \A c \in live' : \E u \in Threads : th'[u].conn = c /\ (Serving(u)' \/ Freeing(u)')
    BY <1>2, <1>4, <2>1, <2>2 DEF IndInv, OwnSsl, FreedOnce
  <2>4. \A u \in Threads : Serving(u)' => th'[u].conn \in live' /\ slots'[th'[u].fd].ssl = th'[u].conn
    BY <1>2, <1>4, <2>1, <2>2 DEF IndInv, OwnSsl, FreedOnce
  <2>5. \A u \in Threads : Freeing(u)' => (th'[u].conn \in live' <=> slots'[th'[u].fd].ssl = th'[u].conn)
    BY <1>2, <1>4, <2>1, <2>2 DEF IndInv, OwnSsl, FreedOnce
  <2>6. \A f \in Fds : slots'[f].ssl # NoConn =>
          \E u \in Threads : /\ th'[u].fd = f /\ th'[u].conn = slots'[f].ssl
                             /\ Serving(u)' \/ Freeing(u)' \/ At(u, "clear")'
    BY <1>2, <1>4, <2>1, <2>2 DEF IndInv, OwnSsl, FreedOnce
  <2> QED
    BY <2>3, <2>4, <2>5, <2>6 DEF FreedOnce
<1>11. SleeperIsWoken'
  BY <1>2, <1>4 DEF IndInv, SleeperIsWoken, At
<1> QED
  BY <1>1, <1>6, <1>7, <1>8, <1>9, <1>10, <1>11, OwnedOneOwnerNext DEF IndInv, TypeOK, OwnSsl

LEMMA CloseFdKeeps ==
    ASSUME IndInv, NEW t \in Threads, CloseFd(t)
    PROVE  IndInv'
<1>1. TypeOK' /\ AllOwned'
  BY LifeTypes, CloseFdOwned
<1>2. /\ UNCHANGED <<slots, live, wake, queue, cq, astray>> /\ th \in [Threads -> Handler] /\ KernelTypes
  BY TypeParts DEF CloseFd, memory, aux, IndInv, TypeOK
<1>3. th[t].pc = "close" /\ Running(t) /\ th[t].fd \in Fds
  BY RunningConn DEF CloseFd, At, Running
<1>4. th'[t].pc = "idle" /\ \A u \in Threads \ {t} : th'[u] = th[u]
  BY <1>2 DEF CloseFd, NoHandler
<1>5. \A g \in Fds \ {th[t].fd} : sock'[g] = sock[g]
  BY <1>2, <1>3, ClosedTypes DEF CloseFd
<1>6. Held'
  <2>1. ASSUME NEW u \in Threads, Running(u)'
        PROVE  /\ Running(u) /\ th'[u].fd = th[u].fd /\ th'[u].conn = th[u].conn
               /\ sock'[th[u].fd] = sock[th[u].fd]
    <3>1. u # t /\ th'[u] = th[u] /\ Running(u)
      BY <1>4, <2>1 DEF Running
    <3> QED
      BY <1>3, <1>5, <3>1, ConnsDistinct, RunningConn
  <2> QED
    BY <1>2, <2>1, HeldKept DEF IndInv
<1>7. OneSock'
  BY <1>3, OneSockClosed DEF CloseFd
<1>8. Waking'
  BY <1>2, WakingKept
<1>9. SlotIsOwn'
  <2>1. \A i \in Occupied' : slots'[queue'.buf[i]].ssl = NoConn
    BY <1>2 DEF IndInv, OwnSsl, SlotIsOwn, Occupied
  <2> QED
    BY <1>2, <1>4, <2>1 DEF IndInv, OwnSsl, SlotIsOwn, Running, At
<1>10. FreedOnce'
  <2>1. /\ ~Serving(t) /\ ~Freeing(t) /\ ~At(t, "clear")
        /\ ~Serving(t)' /\ ~Freeing(t)' /\ ~At(t, "clear")'
    BY <1>3, <1>4 DEF Serving, Freeing, At
  <2>2. \A u \in Threads : /\ Serving(u)' <=> Serving(u)
                           /\ Freeing(u)' <=> Freeing(u)
                           /\ At(u, "clear")' <=> At(u, "clear")
    BY <1>4, <2>1 DEF Serving, Freeing, At
  <2> SUFFICES ASSUME ~astray PROVE FreedOnce'
    BY <1>2 DEF FreedOnce
  <2>3. \A c \in live' : \E u \in Threads : th'[u].conn = c /\ (Serving(u)' \/ Freeing(u)')
    BY <1>2, <1>4, <2>1, <2>2 DEF IndInv, OwnSsl, FreedOnce
  <2>4. \A u \in Threads : Serving(u)' => th'[u].conn \in live' /\ slots'[th'[u].fd].ssl = th'[u].conn
    BY <1>2, <1>4, <2>1, <2>2 DEF IndInv, OwnSsl, FreedOnce
  <2>5. \A u \in Threads : Freeing(u)' => (th'[u].conn \in live' <=> slots'[th'[u].fd].ssl = th'[u].conn)
    BY <1>2, <1>4, <2>1, <2>2 DEF IndInv, OwnSsl, FreedOnce
  <2>6. \A f \in Fds : slots'[f].ssl # NoConn =>
          \E u \in Threads : /\ th'[u].fd = f /\ th'[u].conn = slots'[f].ssl
                             /\ Serving(u)' \/ Freeing(u)' \/ At(u, "clear")'
    BY <1>2, <1>4, <2>1, <2>2 DEF IndInv, OwnSsl, FreedOnce
  <2> QED
    BY <2>3, <2>4, <2>5, <2>6 DEF FreedOnce
<1>11. SleeperIsWoken'
  BY <1>2, <1>4 DEF IndInv, SleeperIsWoken, At
<1> QED
  BY <1>1, <1>6, <1>7, <1>8, <1>9, <1>10, <1>11, OwnedOneOwnerNext DEF IndInv, TypeOK, OwnSsl

LEMMA HandlerKeeps ==
    ASSUME IndInv, NEW t \in Threads,
           Setup(t) \/ Tls(t) \/ Defer(t) \/ Submit(t) \/ Park(t)
    PROVE  IndInv'
<1>1. Steps(t) /\ th \in [Threads -> Handler]
  BY HandlerSteps DEF IndInv, TypeOK
<1>2. TypeOK' /\ AllOwned'
  BY <1>1, LifeTypes, SubmitTypes, StepsOwned
<1>3. th[t].fd \in Fds /\ th[t].conn \in Conns /\ sock[th[t].fd] = th[t].conn
  BY <1>1, RunningConn DEF Steps
<1>4. /\ UNCHANGED <<queue, sock, wake>> /\ Running(t)
      /\ th'[t].fd = th[t].fd /\ th'[t].conn = th[t].conn
      /\ \A u \in Threads \ {t} : th'[u] = th[u]
      /\ \A c \in Conns : client'[c] = "waiting" => client[c] = "waiting"
  BY <1>1 DEF Steps
<1>5. Held'
  BY <1>4, HeldKept DEF IndInv, Running
<1>6. OneSock'
  BY <1>4, OneSockKept
<1>7. Waking'
  BY <1>1, WakingKept DEF Steps
<1>8. OwnSsl'
  BY <1>1, SslSteps, SlotSteps, FreedSteps DEF OwnSsl, FreedOnce
<1>9. SleeperIsWoken'
  <2> SUFFICES ASSUME NEW u \in Threads, th'[u].pc = "asleep", ~th'[u].moved,
                      slots'[th'[u].fd].futex = 1
               PROVE  wake' = th'[u].fd
    BY DEF SleeperIsWoken, At
  <2>1. CASE u = t
    BY <1>3, <1>4, <2>1, FutexSteps
  <2>2. CASE u # t
    <3>1. th'[u] = th[u] /\ Running(u)
      BY <1>4, <2>2 DEF Running
    <3>2. th[u].fd \in Fds
      BY <3>1, RunningConn
    <3>3. slots[th[u].fd].futex = 1
      BY <3>1, <3>2, FutexSteps
    <3> QED
      BY <1>4, <3>1, <3>3 DEF IndInv, SleeperIsWoken, At
  <2> QED
    BY <2>1, <2>2
<1> QED
  BY <1>2, <1>5, <1>6, <1>7, <1>8, <1>9, OwnedOneOwnerNext DEF IndInv, TypeOK

LEMMA ReactorKeeps ==
    ASSUME IndInv, Reactor
    PROVE  IndInv'
<1>1. /\ th \in [Threads -> Handler] /\ cq \in Seq(Cqe) /\ QueueTypes /\ TypeOK /\ KernelTypes
      /\ slots \in [Fds -> [ssl : Conns \cup {NoConn}, futex : {0, 1}]]
  BY InvOwned, TypeParts DEF IndInv, TypeOK
<1>2. TypeOK'
  BY ReactorStep
<1>3. SUFFICES AllOwned' /\ Held' /\ OneSock' /\ Waking' /\ OwnSsl' /\ SleeperIsWoken'
  BY <1>2, OwnedOneOwnerNext DEF IndInv, TypeOK
<1>3a. live' = live /\ astray' = astray
  BY DEF Reactor, OnAcceptError, OnAccept, OnPoll, Wake, memory, aux
<1>3b. ASSUME UNCHANGED <<sock, client>> PROVE OneSock'
  BY <1>3b, OneSockKept
<1>4. CASE OnAcceptError \/ (OnPoll /\ Head(cq).fd = NoFd)
  <2>1. /\ Drained /\ cq # <<>> /\ UNCHANGED <<sock, client, queue, th, slots, wake>> /\ wake = NoFd
        /\ Head(cq).fd = NoFd
    BY <1>4 DEF OnAcceptError, OnPoll, memory
  <2>2. AllOwned'
    BY <2>1, DrainedOwned DEF Running
  <2>3. Held'
    BY <2>1, HeldKept DEF IndInv, Running
  <2>4. Waking'
    BY <2>1 DEF Waking
  <2>5. SleeperIsWoken'
    BY <2>1 DEF IndInv, SleeperIsWoken, At
  <2>6. OwnSsl'
    BY <1>3a, <2>1, SslKept DEF IndInv
  <2> QED
    BY <1>3b, <2>1, <2>2, <2>3, <2>4, <2>5, <2>6
<1>5. CASE OnPoll /\ Head(cq).fd # NoFd
  <2>1. /\ UNCHANGED <<sock, client, queue, th, cq>> /\ cq # <<>> /\ Head(cq).tag = "poll"
        /\ wake = NoFd /\ wake' = Head(cq).fd
        /\ slots' = [slots EXCEPT ![Head(cq).fd].futex = 1]
    BY <1>5 DEF OnPoll
  <2>2. AllOwned'
    <3> SUFFICES ASSUME NEW f \in Fds PROVE Owned(f)'
      BY DEF AllOwned
    <3>1. Owned(f) /\ CqSame(f) /\ QueueSame(f) /\ ThreadSame(f)
      BY <2>1, InvOwned, QueueKept, ThreadsKept DEF AllOwned, CqSame, InCq, Running
    <3> QED
      BY <2>1, <3>1, OwnedSame
  <2>3. Held'
    BY <2>1, HeldKept DEF IndInv, Running
  <2>4. Waking'
    BY <2>1 DEF Waking
  <2>5. \A f \in Fds : slots'[f].ssl = slots[f].ssl
    BY <1>1, <2>1
  <2>6. OwnSsl'
    BY <1>3a, <2>1, <2>5, SslKept DEF IndInv
  <2>7. SleeperIsWoken'
    <3> SUFFICES ASSUME NEW t \in Threads, th[t].pc = "asleep", ~th[t].moved,
                        slots'[th[t].fd].futex = 1
                 PROVE  wake' = th[t].fd
      BY <2>1 DEF SleeperIsWoken, At
    <3>1. th[t].fd \in Fds
      BY DEF IndInv, Held, Running
    <3>2. CASE th[t].fd # Head(cq).fd
      <4>1. slots[th[t].fd].futex = 1
        BY <1>1, <2>1, <3>1, <3>2
      <4>2. wake = th[t].fd
        BY <4>1 DEF IndInv, SleeperIsWoken, At
      <4> QED
        BY <2>1, <3>1, <4>2 DEF Fds, NoFd
    <3> QED
      BY <2>1, <3>2
  <2> QED
    BY <1>3b, <2>1, <2>2, <2>3, <2>4, <2>6, <2>7
<1>6. CASE Wake
  <2>1. /\ wake # NoFd /\ wake' = NoFd /\ Drained /\ UNCHANGED <<sock, client, slots, queue>>
        /\ cq # <<>> /\ Head(cq).tag = "poll"
    BY <1>6 DEF Wake, IndInv, Waking
  <2>2. \A t \in Threads :
          IF th[t].pc = "asleep" /\ th[t].fd = wake /\ ~th[t].moved
            THEN th'[t] = [th[t] EXCEPT !.pc = "park"] ELSE th'[t] = th[t]
    BY <1>6 DEF Wake, At
  <2>3. ASSUME NEW t \in Threads
        PROVE  /\ th'[t].fd = th[t].fd /\ th'[t].conn = th[t].conn /\ th'[t].moved = th[t].moved
               /\ \/ th'[t].pc = th[t].pc
                  \/ th[t].pc = "asleep" /\ th'[t].pc = "park"
               /\ th'[t].pc = "asleep" => ~ (th[t].fd = wake /\ ~th[t].moved)
    <3>1. th[t] \in Handler
      BY <1>1
    <3>2. CASE th[t].pc = "asleep" /\ th[t].fd = wake /\ ~th[t].moved
      BY <2>2, <3>1, <3>2 DEF Handler
    <3>3. CASE ~ (th[t].pc = "asleep" /\ th[t].fd = wake /\ ~th[t].moved)
      BY <2>2, <3>3
    <3> QED
      BY <3>2, <3>3
  <2>4. \A t \in Threads : Running(t)' <=> Running(t)
    BY <2>3 DEF Running
  <2>5. AllOwned'
    BY <2>1, <2>3, <2>4, DrainedOwned
  <2>6. Held'
    BY <2>1, <2>3, <2>4, HeldKept DEF IndInv
  <2>7. Waking'
    BY <2>1 DEF Waking
  <2>8. OwnSsl'
    BY <1>3a, <2>1, <2>3, SslKept DEF IndInv
  <2>9. SleeperIsWoken'
    BY <2>1, <2>3 DEF IndInv, SleeperIsWoken, At
  <2> QED
    BY <1>3b, <2>1, <2>5, <2>6, <2>7, <2>8, <2>9
<1>7. CASE OnAccept
  <2>1. wake = NoFd /\ wake' = NoFd /\ cq # <<>>
    BY <1>7 DEF OnAccept
  <2>2. PICK f \in Fds : Head(cq) = [tag |-> "accept", fd |-> f]
    <3>1. Head(cq) \in Cqe
      BY <1>1, <2>1, CqTypes
    <3> QED
      BY <1>7, <3>1 DEF OnAccept, Cqe
  <2>3. \/ Ensure(f) /\ NewFdPush(f) /\ slots' = [slots EXCEPT ![f] = FreshSlot]
        \/ Closed(f) /\ UNCHANGED <<th, slots, queue>>
    BY <1>7, <2>2 DEF OnAccept
  <2>3a. ASSUME NEW i \in Occupied PROVE queue.buf[i] # f
    <3>1. InCq(f, 1)
      BY <1>1, <2>1, <2>2, LenProperties, EmptySeq DEF InCq
    <3> QED
      BY <2>3a, <3>1, InvOwned DEF AllOwned, Owned, InQueue
  <2>4. ASSUME NEW t \in Threads, Running(t) PROVE th[t].fd # f /\ th[t].fd \in Fds
    <3>1. InCq(f, 1)
      BY <1>1, <2>1, <2>2, LenProperties, EmptySeq DEF InCq
    <3> QED
      BY <2>4, <3>1, InvOwned, RunningConn DEF AllOwned, Owned, InThread
  <2>5. \A g \in Fds \ {f} : sock'[g] = sock[g] /\ slots'[g] = slots[g]
    <3>1. \A g \in Fds \ {f} : slots'[g] = slots[g]
      BY <1>1, <2>3
    <3>2. \A g \in Fds \ {f} : sock'[g] = sock[g]
      BY <1>1, <2>3, ClosedTypes DEF NewFdPush
    <3> QED
      BY <3>1, <3>2
  <2>6. slots'[f].ssl = NoConn \/ slots'[f].ssl = slots[f].ssl
    BY <1>1, <2>3 DEF FreshSlot
  <2>7. ASSUME NEW t \in Threads
        PROVE  /\ th'[t].fd = th[t].fd /\ th'[t].conn = th[t].conn /\ th'[t].pc = th[t].pc
               /\ ~th'[t].moved /\ Running(t) => ~th[t].moved
    <3>1. th[t] \in Handler
      BY <1>1
    <3>2. CASE Ensure(f)
      <4>1. th' = th \/ th' = [u \in Threads |-> [th[u] EXCEPT !.moved = Running(u)]]
        BY <3>2 DEF Ensure
      <4>2. th'[t] = th[t] \/ th'[t] = [th[t] EXCEPT !.moved = Running(t)]
        BY <4>1
      <4> QED
        BY <3>1, <4>2 DEF Handler
    <3>3. CASE th' = th
      BY <3>3
    <3> QED
      BY <2>3, <3>2, <3>3
  <2>8. Held'
    <3>1. \A t \in Threads : Running(t)' => th'[t].fd \in Fds /\ sock'[th'[t].fd] = th'[t].conn
      BY <2>4, <2>5, <2>7, RunningConn DEF Running
    <3>2. CASE queue' = queue
      BY <3>1, <3>2 DEF IndInv, Held, Occupied
    <3>3. CASE ~QueueFull /\ queue' = [queue EXCEPT !.buf[queue.tail] = f, !.tail = QueueNext(@)]
      <4>1. /\ Occupied' = Occupied \cup {queue.tail} /\ queue'.buf[queue.tail] = f
            /\ \A i \in Occupied : queue'.buf[i] = queue.buf[i]
        BY <1>1, <3>3, OccupiedPush
      <4>2. \A i \in Occupied' : queue'.buf[i] \in Fds
        BY <4>1 DEF IndInv, Held
      <4> QED
        BY <3>1, <4>2 DEF Held
    <3> QED
      BY <2>3, <3>2, <3>3 DEF NewFdPush
  <2>9. SlotIsOwn'
    <3>1. ASSUME NEW i \in Occupied PROVE slots'[queue.buf[i]].ssl = NoConn
      BY <2>3a, <2>5 DEF IndInv, Held, OwnSsl, SlotIsOwn
    <3>2. CASE queue' = queue
      <4>1. \A i \in Occupied' : slots'[queue'.buf[i]].ssl = NoConn
        BY <3>1, <3>2 DEF Occupied
      <4> QED
        BY <2>4, <2>5, <2>7, <4>1 DEF IndInv, OwnSsl, SlotIsOwn, Running, At
    <3>3. CASE /\ ~QueueFull /\ slots' = [slots EXCEPT ![f] = FreshSlot]
               /\ queue' = [queue EXCEPT !.buf[queue.tail] = f, !.tail = QueueNext(@)]
      <4>1. /\ Occupied' = Occupied \cup {queue.tail} /\ queue'.buf[queue.tail] = f
            /\ \A i \in Occupied : queue'.buf[i] = queue.buf[i]
        BY <1>1, <3>3, OccupiedPush
      <4>2. slots'[f].ssl = NoConn
        BY <1>1, <3>3 DEF FreshSlot
      <4>3. \A i \in Occupied' : slots'[queue'.buf[i]].ssl = NoConn
        BY <3>1, <4>1, <4>2
      <4> QED
        BY <2>4, <2>5, <2>7, <4>3 DEF IndInv, OwnSsl, SlotIsOwn, Running, At
    <3> QED
      BY <2>3, <3>2, <3>3 DEF NewFdPush
  <2>9a. FreedOnce'
    <3> SUFFICES ASSUME ~astray PROVE FreedOnce'
      BY <1>3a DEF FreedOnce
    <3>1. \A t \in Threads : /\ Serving(t)' <=> Serving(t)
                             /\ Freeing(t)' <=> Freeing(t)
                             /\ At(t, "clear")' <=> At(t, "clear")
      BY <2>7 DEF Serving, Freeing, At
    <3>2. \A c \in live' : \E t \in Threads : th'[t].conn = c /\ (Serving(t)' \/ Freeing(t)')
      BY <1>3a, <2>7, <3>1 DEF IndInv, OwnSsl, FreedOnce
    <3>3. ASSUME NEW t \in Threads, Serving(t) \/ Freeing(t)
          PROVE  slots'[th'[t].fd].ssl = slots[th[t].fd].ssl
      BY <2>4, <2>5, <2>7, <3>3, Places
    <3>4. \A t \in Threads : Serving(t)' => th'[t].conn \in live' /\ slots'[th'[t].fd].ssl = th'[t].conn
      BY <1>3a, <2>7, <3>1, <3>3 DEF IndInv, OwnSsl, FreedOnce
    <3>5. \A t \in Threads : Freeing(t)' => (th'[t].conn \in live' <=> slots'[th'[t].fd].ssl = th'[t].conn)
      BY <1>3a, <2>7, <3>1, <3>3 DEF IndInv, OwnSsl, FreedOnce
    <3>6. ASSUME NEW g \in Fds, slots'[g].ssl # NoConn
          PROVE  \E t \in Threads : /\ th'[t].fd = g /\ th'[t].conn = slots'[g].ssl
                                    /\ Serving(t)' \/ Freeing(t)' \/ At(t, "clear")'
      <4>1. slots'[g].ssl = slots[g].ssl
        BY <2>5, <2>6, <3>6
      <4> QED
        BY <2>7, <3>1, <3>6, <4>1 DEF IndInv, OwnSsl, FreedOnce
    <3> QED
      BY <3>2, <3>4, <3>5, <3>6 DEF FreedOnce
  <2>9b. OneSock'
    BY <2>3, <1>3b, OneSockClosed DEF NewFdPush, OnAccept
  <2>10. SleeperIsWoken'
    <3> SUFFICES ASSUME NEW t \in Threads, th'[t].pc = "asleep", ~th'[t].moved,
                        slots'[th'[t].fd].futex = 1
                 PROVE  wake' = th'[t].fd
      BY DEF SleeperIsWoken, At
    <3>1. th[t].pc = "asleep" /\ Running(t) /\ ~th[t].moved /\ th'[t].fd = th[t].fd
      BY <2>7 DEF Running
    <3>2. slots[th[t].fd].futex = 1
      BY <2>4, <2>5, <3>1
    <3> QED
      BY <2>1, <3>1, <3>2 DEF IndInv, SleeperIsWoken, At
  <2> QED
    BY <1>7, <2>1, <2>8, <2>9, <2>9a, <2>9b, <2>10, OnAcceptOwned DEF Waking, OwnSsl
<1> QED
  BY <1>4, <1>5, <1>6, <1>7 DEF Reactor

-----------------------------------------------------------------------------
(***************************************************************************)
(* The theorems.                                                           *)
(***************************************************************************)

LEMMA InitIndInv == Init => IndInv
<1> SUFFICES ASSUME Init PROVE IndInv
  OBVIOUS
<1>1. TypeOK
  <2>1. RING_DEPTH - 1 \in Nat /\ 0 \in 0 .. RING_DEPTH - 1 /\ 1 \in 0 .. Wrap - 1
    BY SizesAssumption
  <2>2. RingTypes
    BY <2>1 DEF Init, RingTypes, Sqe, Zeroed
  <2>3. KernelTypes
    <3>1. BagToSet(polls) = {}
      BY DEF Init, EmptyBag, SetToBag, BagToSet
    <3>2. cq \in Seq(Cqe)
      BY DEF Init
    <3> QED
      BY <3>1, <3>2, BoundsAssumption DEF Init, KernelTypes
  <2>4. TableTypes
    <3>1. FreshSlot \in [ssl : Conns \cup {NoConn}, futex : {0, 1}]
      BY DEF FreshSlot
    <3>2. len \in Nat /\ wake \in Fds \cup {NoFd}
      BY SizesAssumption DEF Init
    <3> QED
      BY <3>1, <3>2 DEF Init, TableTypes
  <2>5. QueueTypes
    <3>1. 0 \in 0 .. FD_QUEUE_CAP - 1
      BY SizesAssumption
    <3> QED
      BY <3>1 DEF Init, QueueTypes
  <2>6. AuxTypes
    <3>1. 0 \in 0 .. MaxExtra /\ 0 \in 0 .. MaxRefusals
      BY BoundsAssumption
    <3> QED
      BY <3>1 DEF Init, AuxTypes
  <2>7. th \in [Threads -> Handler]
    BY NoHandlerType DEF Init
  <2> QED
    BY <2>2, <2>3, <2>4, <2>5, <2>6, <2>7, TypeParts
<1>2. Occupied = {}
  BY DEF Init, Occupied
<1>3. \A t \in Threads : th[t].pc = "idle"
  BY DEF Init, NoHandler
<1>4. Held /\ OneSock /\ Waking /\ SleeperIsWoken
  BY <1>2, <1>3 DEF Init, Held, OneSock, Waking, SleeperIsWoken, Running, At
<1>5. OwnSsl
  <2>1. SlotIsOwn
    BY <1>2, <1>3 DEF Init, SlotIsOwn, Running
  <2>2. FreedOnce
    BY <1>3 DEF Init, FreedOnce, Serving, Freeing, FreshSlot
  <2> QED
    BY <2>1, <2>2 DEF OwnSsl
<1>6. OneOwner
  <2>1. \A f \in Fds : Holders(f) = {}
    BY <1>2, <1>3 DEF Init, Holders, Running
  <2> QED
    BY <2>1 DEF Init, OneOwner
<1> QED
  BY <1>1, <1>4, <1>5, <1>6 DEF IndInv

LEMMA NextKeeps == IndInv /\ [Next]_vars => IndInv'
<1> SUFFICES ASSUME IndInv, [Next]_vars PROVE IndInv'
  OBVIOUS
<1>1. CASE UNCHANGED vars
  <2> USE <1>1 DEF vars, kernel, memory, aux
  <2>1. TypeOK'
    BY DEF IndInv, TypeOK
  <2>2. Held' /\ OneSock' /\ Waking'
    BY DEF IndInv, Held, OneSock, Waking, Occupied, Running
  <2>3. OneOwner'
    BY DEF IndInv, OneOwner, Holders, Occupied, Running
  <2>4. OwnSsl' /\ SleeperIsWoken'
    BY SslKept DEF IndInv, SleeperIsWoken, At
  <2> QED
    BY <2>1, <2>2, <2>3, <2>4 DEF IndInv
<1>2. ASSUME NEW t \in Threads, Handle(t) PROVE IndInv'
  BY <1>2, HandlerKeeps, CloseFdKeeps DEF Handle
<1> QED
  BY <1>1, <1>2, KernelKeeps, ReactorKeeps, DispatchKeeps DEF Next

\* Every reachable state of the server satisfies the inductive invariant,
\* whatever its sizes, its clients and the interleaving of its threads.
THEOREM Invariance == Spec => []IndInv
<1> QED
  BY InitIndInv, NextKeeps, PTL DEF Spec

\* The variables keep their types: the ring's counters stay below 2^32 although
\* threads publish over one another (main.zig:161-175), and a descriptor that is
\* popped from the FIFO is inside the buffer (273-293).
THEOREM TypeCorrect == Spec => []TypeOK
<1>1. IndInv => TypeOK
  BY DEF IndInv
<1> QED
  BY <1>1, Invariance, PTL

\* An open descriptor is in exactly one of the completions, the FIFO and the
\* handlers, and a closed one in none (main.zig:273-293, 313-321, 448-461, 477).
THEOREM DescriptorsOwned == Spec => []OneOwner
<1>1. IndInv => OneOwner
  BY DEF IndInv
<1> QED
  BY <1>1, Invariance, PTL

\* Even when the table moves, no handler starts on a slot that holds an object,
\* and it finds none there but its own; and as long as no handler has used an
\* address that the table has left, every object is freed once, by the handler
\* that made it, and none stays behind (main.zig:318-321, 470-486).
THEOREM SslBelongs == Spec => []OwnSsl
<1>1. IndInv => OwnSsl
  BY DEF IndInv
<1> QED
  BY <1>1, Invariance, PTL

\* A thread asleep on a word that is set is about to be woken: no wake-up falls
\* between the check and the sleep (main.zig:326-328, 520-531).
THEOREM NoLostWake == Spec => []SleeperIsWoken
<1>1. IndInv => SleeperIsWoken
  BY DEF IndInv
<1> QED
  BY <1>1, Invariance, PTL
=================================================================================
