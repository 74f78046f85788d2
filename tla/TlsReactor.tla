------------------------------- MODULE TlsReactor -------------------------------
(***************************************************************************)
(* src/zig/concurrent-tls/src/main.zig: a TLS echo server on one io_uring. *)
(* The reactor thread waits for completions and never submits; the         *)
(* dispatcher takes accepted descriptors off a FIFO and starts a handler   *)
(* for each; a handler that OpenSSL tells to wait submits a poll to the    *)
(* ring, which all handlers share without a lock, and sleeps on the futex  *)
(* of its slot until the reactor sees the completion.                      *)
(*                                                                         *)
(* One action is one access to shared memory, or one system call. What TLS *)
(* does is abstracted to whether a call of OpenSSL finds what it needs     *)
(* (bytes, or room to write) or must wait for the client.                  *)
(***************************************************************************)
EXTENDS Integers, Sequences, FiniteSets, Bags

CONSTANTS
  Conns,               \* the connections clients make, each at most once
  NoConn,
  Pool,                \* threads of Io.Threaded besides the one of main
  Dispatcher,          \* the thread of main
  NumFds,              \* descriptors the process may have open for clients
  RING_DEPTH,          \* entries of the submission ring, a power of two
  Wrap,                \* 2^32 in the code: the ring's counters are u32
  CONN_TABLE_INITIAL,  \* slots allocated at the start
  FD_QUEUE_CAP,        \* size of the FIFO of new descriptors
  MaxSends,            \* bound: how often clients give what is waited for
  MaxExtra,            \* bound: entries taken once disturbed
  MaxRefusals          \* bound: calls of io_uring_enter that submit nothing

Fds == 1 .. NumFds
NoFd == 0
Threads == Pool \cup {Dispatcher}

ASSUME SizesAssumption ==
  /\ NumFds \in Nat \ {0}
  /\ RING_DEPTH \in Nat \ {0}
  /\ Wrap \in Nat /\ Wrap > RING_DEPTH /\ Wrap % RING_DEPTH = 0
  /\ CONN_TABLE_INITIAL \in Nat \ {0}
  /\ FD_QUEUE_CAP \in Nat \ {0}
ASSUME BoundsAssumption == MaxSends \in Nat /\ MaxExtra \in Nat /\ MaxRefusals \in Nat
ASSUME NamesAssumption ==
  /\ NoConn \notin Conns
  /\ Dispatcher \notin Pool

VARIABLES
  client,    \* what each client is doing, and what the server has from it
  sends,     \* how often they have given what a handler waits for
  sock,      \* the process's descriptors: the connection behind each
  armed,     \* the multishot accept is active in the kernel
  polls,     \* polls under way in the kernel: <<connection, fd in user_data>>
  cq,        \* completions the reactor has not dealt with
  ring,      \* the submission ring: sqes, arr, head and tail
  slots,     \* g_conns.slots, ssl and futex of each
  len,       \* g_conns.slots.len
  live,      \* the SSL objects made and not freed, by their connections
  queue,     \* g_new_fd_buf, g_new_fd_head, g_new_fd_tail
  wake,      \* the slot whose futex the reactor has set and not yet woken
  th,        \* the handler each thread runs
  extra,     \* how many entries have been taken since disturbed
  refusals,  \* how often io_uring_enter has submitted nothing
  disturbed, \* auxiliary: see Polled
  astray     \* auxiliary: see FreedOnce

kernel == <<client, sends, sock, armed, polls, cq>>
memory == <<slots, len, live, queue, wake>>
aux == <<extra, refusals, disturbed, astray>>
vars == <<kernel, ring, memory, th, aux>>

-----------------------------------------------------------------------------
(* Data                                                                    *)

\* A completion: the tag and the descriptor. For an accept the descriptor is
\* the result, NoFd when that is an error; for a poll it is user_data's.
Cqe == [tag : {"accept", "poll"}, fd : Fds \cup {NoFd}]

\* A submission entry. "nop" is what the zeroed opcode means to the kernel.
Sqe == [op : {"nop", "poll", "accept"}, fd : Fds \cup {NoFd}, ud : Fds \cup {NoFd}]
Zeroed == [op |-> "nop", fd |-> NoFd, ud |-> NoFd]

\* Where a handler is. pc: "setup" has taken its slot's address; "call" is
\* about to call OpenSSL; "tail" .. "enter" submit a poll; "park", "asleep"
\* and "reset" are parkUntilReady; "free" .. "close" are the defer block, which
\* takes the slot's address again: "release" has it, "clear" has freed what it
\* found there. seen: a loaded sq_tail. moved: the slot's address is no longer
\* the slot's.
Handler == [pc : {"idle", "setup", "call", "tail", "entry", "fd", "user_data",
                  "flush", "publish", "enter", "park", "asleep", "reset",
                  "free", "release", "clear", "close"},
            fd : Fds \cup {NoFd}, conn : Conns \cup {NoConn},
            phase : {"accept", "read", "write"}, seen : 0 .. Wrap - 1, moved : BOOLEAN]
NoHandler == [pc |-> "idle", fd |-> NoFd, conn |-> NoConn,
              phase |-> "accept", seen |-> 0, moved |-> FALSE]

FreshSlot == [ssl |-> NoConn, futex |-> 0]

Index(counter) == counter % RING_DEPTH
Next1(counter) == (counter + 1) % Wrap
QueueNext(i) == (i + 1) % FD_QUEUE_CAP

Running(t) == th[t].pc # "idle"
At(t, pc) == th[t].pc = pc
Goto(t, pc) == th' = [th EXCEPT ![t].pc = pc]

\* The thread is between the load of the tail that chooses its entry and the
\* store that publishes it.
InRing(t) == th[t].pc \in {"entry", "fd", "user_data", "flush", "publish"}

\* Once main has armed the accept: the entry it used is behind the head.
Init ==
  /\ client = [c \in Conns |-> "waiting"]
  /\ sends = 0
  /\ sock = [f \in Fds |-> NoConn]
  /\ armed = TRUE
  /\ polls = EmptyBag
  /\ cq = <<>>
  /\ ring = [sqes |-> [i \in 0 .. RING_DEPTH - 1 |->
                         IF i = 0 THEN [op |-> "accept", fd |-> NoFd, ud |-> NoFd]
                                  ELSE Zeroed],
             arr |-> [i \in 0 .. RING_DEPTH - 1 |-> 0], head |-> 1, tail |-> 1]
  /\ slots = [f \in Fds |-> FreshSlot]
  /\ len = CONN_TABLE_INITIAL
  /\ live = {}
  /\ queue = [buf |-> [i \in 0 .. FD_QUEUE_CAP - 1 |-> NoFd], head |-> 0, tail |-> 0]
  /\ wake = NoFd
  /\ th = [t \in Threads |-> NoHandler]
  /\ refusals = 0
  /\ extra = 0
  /\ disturbed = FALSE
  /\ astray = FALSE

-----------------------------------------------------------------------------
(* Clients and the kernel                                                  *)

\* Bytes the handler waits for arrive, or the client makes room to write:
\* "ready" is enough for one call of OpenSSL, "more" for a second one as well.
Send(c) ==
  /\ client[c] = "silent" /\ sends < MaxSends
  /\ \E much \in {"ready", "more"} : client' = [client EXCEPT ![c] = much]
  /\ sends' = sends + 1
  /\ UNCHANGED <<sock, armed, polls, cq, ring, memory, th, aux>>

HangUp(c) ==
  /\ client[c] \in {"silent", "ready", "more"}
  /\ client' = [client EXCEPT ![c] = "gone"]
  /\ UNCHANGED <<sends, sock, armed, polls, cq, ring, memory, th, aux>>

\* The kernel gives the lowest descriptor that is free.
KernelAccept(c) ==
  /\ armed /\ client[c] = "waiting"
  /\ \E f \in Fds :
       /\ sock[f] = NoConn /\ \A g \in 1 .. f - 1 : sock[g] # NoConn
       /\ sock' = [sock EXCEPT ![f] = c]
       /\ cq' = Append(cq, [tag |-> "accept", fd |-> f])
  /\ client' = [client EXCEPT ![c] = "silent"]
  /\ UNCHANGED <<sends, armed, polls, ring, memory, th, aux>>

\* An accept that fails (connection aborted, no memory) ends the multishot
\* request.
AcceptError ==
  /\ armed /\ \E c \in Conns : client[c] = "waiting"
  /\ armed' = FALSE
  /\ cq' = Append(cq, [tag |-> "accept", fd |-> NoFd])
  /\ UNCHANGED <<client, sends, sock, polls, ring, memory, th, aux>>

\* A poll keeps its connection although the descriptor is closed.
CompletePoll(c, u) ==
  /\ BagIn(<<c, u>>, polls)
  /\ client[c] \in {"ready", "more", "gone", "done"}
  /\ polls' = polls (-) SetToBag({<<c, u>>})
  /\ cq' = Append(cq, [tag |-> "poll", fd |-> u])
  /\ UNCHANGED <<client, sends, sock, armed, ring, memory, th, aux>>

Closed(f) ==
  /\ sock' = [sock EXCEPT ![f] = NoConn]
  /\ client' = [c \in Conns |-> IF c = sock[f] THEN "done" ELSE client[c]]

-----------------------------------------------------------------------------
(* Reactor                                                                 *)

\* drain goes on to the next completion.
Drained == cq' = Tail(cq)

QueueFull == QueueNext(queue.tail) = queue.head
QueueEmpty == queue.tail = queue.head

\* Mutant: a descriptor that finds no room is forgotten and left open.
NewFdLost(f) ==
  \/ /\ QueueFull
     /\ UNCHANGED <<queue, sock, client>>
  \/ /\ ~QueueFull
     /\ queue' = [queue EXCEPT !.buf[queue.tail] = f, !.tail = QueueNext(@)]
     /\ UNCHANGED <<sock, client>>

\* newFdPush, all of it under the lock.
NewFdPush(f) ==
  \/ /\ QueueFull
     /\ Closed(f)
     /\ UNCHANGED queue
  \/ /\ ~QueueFull
     /\ queue' = [queue EXCEPT !.buf[queue.tail] = f, !.tail = QueueNext(@)]
     /\ UNCHANGED <<sock, client>>

\* ensure: realloc grows the table where it is, or moves it, and then the
\* handlers keep the old address.
Ensure(f) ==
  \/ /\ f < len
     /\ UNCHANGED <<len, th, disturbed>>
  \/ /\ f >= len
     /\ len' = IF f + 1 > 2 * len THEN f + 1 ELSE 2 * len
     /\ \/ UNCHANGED <<th, disturbed>>
        \/ /\ th' = [t \in Threads |-> [th[t] EXCEPT !.moved = Running(t)]]
           /\ disturbed' = (disturbed \/ \E t \in Threads : Running(t))

OnAcceptError ==
  /\ cq # <<>> /\ wake = NoFd
  /\ Head(cq) = [tag |-> "accept", fd |-> NoFd]
  /\ Drained
  /\ UNCHANGED <<client, sends, sock, armed, polls, ring, memory, th, aux>>

OnAccept ==
  /\ cq # <<>> /\ wake = NoFd
  /\ Head(cq).tag = "accept" /\ Head(cq).fd # NoFd
  /\ LET f == Head(cq).fd
     IN \/ /\ Ensure(f)
           /\ slots' = [slots EXCEPT ![f] = FreshSlot]
           /\ NewFdPush(f)
        \/ /\ f >= len                    \* realloc fails
           /\ Closed(f)
           /\ UNCHANGED <<len, th, disturbed, slots, queue>>
  /\ Drained
  /\ UNCHANGED <<sends, armed, polls, ring, wake, live, extra, refusals, astray>>

\* conn.futex.store(1). A completion whose user_data is zero names no slot in
\* use; its tag is no OpTag, and what the switch does then is undefined: a
\* checked build stops, the release build is taken to go on.
OnPoll ==
  /\ cq # <<>> /\ wake = NoFd /\ Head(cq).tag = "poll"
  /\ \/ /\ Head(cq).fd # NoFd
        /\ slots' = [slots EXCEPT ![Head(cq).fd].futex = 1]
        /\ wake' = Head(cq).fd
        /\ UNCHANGED cq
     \/ /\ Head(cq).fd = NoFd
        /\ Drained
        /\ UNCHANGED <<slots, wake>>
  /\ UNCHANGED <<client, sends, sock, armed, polls, ring, len, live, queue, th, aux>>

\* Mutant: the word is set and nobody is woken.
WakeNobody ==
  /\ wake # NoFd
  /\ wake' = NoFd
  /\ Drained
  /\ UNCHANGED <<client, sends, sock, armed, polls, ring, slots, len, live, queue, th, aux>>

\* FUTEX_WAKE: whoever sleeps at the slot's present address.
Wake ==
  /\ wake # NoFd
  /\ th' = [t \in Threads |->
              IF At(t, "asleep") /\ th[t].fd = wake /\ ~th[t].moved
                THEN [th[t] EXCEPT !.pc = "park"] ELSE th[t]]
  /\ wake' = NoFd
  /\ Drained
  /\ UNCHANGED <<client, sends, sock, armed, polls, ring, slots, len, live, queue, aux>>

-----------------------------------------------------------------------------
(* Dispatcher and the life of a handler                                    *)

\* newFdPop and group.async: a thread of the pool that has nothing to do runs
\* the handler; when there is none, the dispatcher runs it itself.
Dispatch(t) ==
  /\ ~QueueEmpty
  /\ At(Dispatcher, "idle") /\ At(t, "idle")
  /\ t = Dispatcher => \A p \in Pool : Running(p)
  /\ LET f == queue.buf[queue.head]
     IN th' = [th EXCEPT ![t] = [NoHandler EXCEPT !.pc = "setup", !.fd = f, !.conn = sock[f]]]
  /\ queue' = [queue EXCEPT !.head = QueueNext(@)]
  /\ UNCHANGED <<kernel, ring, slots, len, live, wake, aux>>

\* SSL_new, which may fail, and conn.ssl; a write to the old table is lost.
Setup(t) ==
  /\ At(t, "setup")
  /\ \/ /\ Goto(t, "free")
        /\ UNCHANGED <<slots, live, astray>>
     \/ /\ Goto(t, "call")
        /\ live' = live \cup {th[t].conn}
        /\ slots' = IF th[t].moved THEN slots
                    ELSE [slots EXCEPT ![th[t].fd].ssl = th[t].conn]
        /\ astray' = (astray \/ th[t].moved)
  /\ UNCHANGED <<kernel, ring, len, queue, wake, extra, refusals, disturbed>>

\* What the call of OpenSSL in each loop leads to.
NextPhase(phase) == IF phase = "read" THEN "write" ELSE "read"

\* SSL_accept returns 1, SSL_read or SSL_write more than 0. A write can also
\* find room at once.
CallProgresses(t) ==
  LET c == sock[th[t].fd]
  IN /\ At(t, "call")
     /\ \/ client[c] = "more" /\ client' = [client EXCEPT ![c] = "ready"]
        \/ client[c] = "ready" /\ client' = [client EXCEPT ![c] = "silent"]
        \/ client[c] = "silent" /\ th[t].phase = "write" /\ UNCHANGED client
     /\ th' = [th EXCEPT ![t].phase = NextPhase(@)]
     /\ UNCHANGED <<sends, sock, armed, polls, cq, ring, memory, aux>>

\* SSL_ERROR_WANT_READ or _WRITE, with nothing there or not enough of it.
CallWants(t) ==
  LET c == sock[th[t].fd]
  IN /\ At(t, "call")
     /\ client[c] \in {"silent", "ready"}
     /\ client' = [client EXCEPT ![c] = "silent"]
     /\ Goto(t, "tail")
     /\ UNCHANGED <<sends, sock, armed, polls, cq, ring, memory, aux>>

\* tlsWriteAll returns on an error, which the next read finds again.
CallWriteFails(t) ==
  /\ At(t, "call") /\ th[t].phase = "write"
  /\ client[sock[th[t].fd]] \in {"ready", "more", "gone"}
  /\ th' = [th EXCEPT ![t].phase = "read"]
  /\ UNCHANGED <<kernel, ring, memory, aux>>

\* The deadline has passed, the client has hung up, or its bytes are no TLS.
CallEnds(t) ==
  /\ At(t, "call")
  /\ \/ th[t].phase = "accept"
     \/ th[t].phase = "read" /\ client[sock[th[t].fd]] \in {"ready", "more", "gone"}
  /\ Goto(t, "free")
  /\ UNCHANGED <<kernel, ring, memory, aux>>

\* defer: g_conns.get once more, the slot's address as it is now.
LoadSlot(t) ==
  /\ At(t, "free")
  /\ th' = [th EXCEPT ![t].pc = "release", ![t].moved = FALSE]
  /\ UNCHANGED <<kernel, ring, memory, aux>>

\* SSL_shutdown and SSL_free of what is there; null is left alone.
FreeSsl(t) ==
  /\ At(t, "release")
  /\ \E ssl \in IF th[t].moved THEN Conns \cup {NoConn} ELSE {slots[th[t].fd].ssl} :
       /\ Goto(t, IF ssl = NoConn THEN "close" ELSE "clear")
       /\ live' = live \ {ssl}
  /\ astray' = (astray \/ th[t].moved)
  /\ UNCHANGED <<kernel, ring, slots, len, queue, wake, extra, refusals, disturbed>>

\* Mutant: the slot keeps the freed object.
ClearSslNever(t) ==
  /\ At(t, "clear")
  /\ Goto(t, "close")
  /\ UNCHANGED <<kernel, ring, memory, aux>>

\* conn.ssl = null, where the slot was.
ClearSsl(t) ==
  /\ At(t, "clear")
  /\ Goto(t, "close")
  /\ slots' = IF th[t].moved THEN slots ELSE [slots EXCEPT ![th[t].fd].ssl = NoConn]
  /\ astray' = (astray \/ th[t].moved)
  /\ UNCHANGED <<kernel, ring, len, live, queue, wake, extra, refusals, disturbed>>

CloseFd(t) ==
  /\ At(t, "close")
  /\ Closed(th[t].fd)
  /\ th' = [th EXCEPT ![t] = NoHandler]
  /\ UNCHANGED <<sends, armed, polls, cq, ring, memory, aux>>

-----------------------------------------------------------------------------
(* submitPollIn and submitPollOut                                          *)

\* getSqe: the load of the tail.
LoadTail(t) ==
  /\ At(t, "tail")
  /\ disturbed => extra < MaxExtra
  /\ extra' = IF disturbed THEN extra + 1 ELSE extra
  /\ th' = [th EXCEPT ![t].pc = "entry", ![t].seen = ring.tail]
  /\ disturbed' = (disturbed \/ \E u \in Threads \ {t} : InRing(u))
  /\ UNCHANGED <<kernel, ring, memory, refusals, astray>>

\* The ring is full, as it seems: nothing is submitted.
NoEntry(t) ==
  /\ At(t, "entry")
  /\ (th[t].seen - ring.head) % Wrap >= RING_DEPTH
  /\ th' = [th EXCEPT ![t].pc = "park", ![t].seen = 0]
  /\ UNCHANGED <<kernel, ring, memory, aux>>

TakeEntry(t) ==
  LET i == Index(th[t].seen)
  IN /\ At(t, "entry")
     /\ (th[t].seen - ring.head) % Wrap < RING_DEPTH
     /\ ring' = [ring EXCEPT !.arr[i] = i, !.sqes[i] = Zeroed]
     /\ Goto(t, "fd")
     /\ UNCHANGED <<kernel, memory, aux>>

SetFd(t) ==
  LET i == Index(th[t].seen)
  IN /\ At(t, "fd")
     /\ ring' = [ring EXCEPT !.sqes[i].op = "poll", !.sqes[i].fd = th[t].fd]
     /\ Goto(t, "user_data")
     /\ UNCHANGED <<kernel, memory, aux>>

\* Mutant: user_data stays zero.
SetUserDataNever(t) ==
  /\ At(t, "user_data")
  /\ Goto(t, "flush")
  /\ UNCHANGED <<kernel, ring, memory, aux>>

SetUserData(t) ==
  /\ At(t, "user_data")
  /\ ring' = [ring EXCEPT !.sqes[Index(th[t].seen)].ud = th[t].fd]
  /\ Goto(t, "flush")
  /\ UNCHANGED <<kernel, memory, aux>>

\* flush: a load and a store.
LoadForFlush(t) ==
  /\ At(t, "flush")
  /\ th' = [th EXCEPT ![t].pc = "publish", ![t].seen = ring.tail]
  /\ UNCHANGED <<kernel, ring, memory, aux>>

\* Mutant: the tail does not wrap.
PublishUnwrapped(t) ==
  /\ At(t, "publish")
  /\ ring' = [ring EXCEPT !.tail = th[t].seen + 1]
  /\ th' = [th EXCEPT ![t].pc = "enter", ![t].seen = 0]
  /\ UNCHANGED <<kernel, memory, aux>>

Publish(t) ==
  /\ At(t, "publish")
  /\ ring' = [ring EXCEPT !.tail = Next1(th[t].seen)]
  /\ th' = [th EXCEPT ![t].pc = "enter", ![t].seen = 0]
  /\ UNCHANGED <<kernel, memory, aux>>

\* What the kernel does with the entry at the head.
Submitted(e) ==
  \/ /\ e.op = "poll" /\ e.fd # NoFd /\ sock[e.fd] # NoConn
     /\ polls' = polls (+) SetToBag({<<sock[e.fd], e.ud>>})
     /\ UNCHANGED <<cq, armed>>
  \/ /\ e.op = "nop" \/ (e.op = "poll" /\ (e.fd = NoFd \/ sock[e.fd] = NoConn))
     /\ cq' = Append(cq, [tag |-> "poll", fd |-> e.ud])
     /\ UNCHANGED <<polls, armed>>
  \/ /\ e.op = "accept"
     /\ armed' = TRUE
     /\ UNCHANGED <<polls, cq>>

\* enter(1, 0): at most one entry, the one at the head.
Enter(t) ==
  /\ At(t, "enter")
  /\ \/ /\ ring.tail # ring.head
        /\ Submitted(ring.sqes[ring.arr[Index(ring.head)]])
        /\ ring' = [ring EXCEPT !.head = Next1(@)]
     \/ /\ ring.tail = ring.head
        /\ UNCHANGED <<polls, cq, armed, ring>>
  /\ Goto(t, "park")
  /\ UNCHANGED <<client, sends, sock, memory, aux>>

\* The system call fails: catch {} goes on, the entry stays in the ring.
EnterRefused(t) ==
  /\ At(t, "enter") /\ refusals < MaxRefusals
  /\ refusals' = refusals + 1
  /\ disturbed' = TRUE
  /\ Goto(t, "park")
  /\ UNCHANGED <<kernel, ring, memory, extra, astray>>

-----------------------------------------------------------------------------
(* parkUntilReady. A handler whose slot has moved reads freed memory: it    *)
(* may find any value there, and what it stores is lost.                    *)

\* Mutant: the thread goes to sleep without looking at the word.
SleepUnseen(t) ==
  /\ At(t, "park")
  /\ Goto(t, "asleep")
  /\ UNCHANGED <<kernel, ring, memory, aux>>

\* The load, and FUTEX_WAIT which compares again as it puts the thread to sleep.
Sleep(t) ==
  /\ At(t, "park")
  /\ th[t].moved \/ slots[th[t].fd].futex = 0
  /\ Goto(t, "asleep")
  /\ UNCHANGED <<kernel, ring, memory, aux>>

Woken(t) ==
  /\ At(t, "park")
  /\ th[t].moved \/ slots[th[t].fd].futex # 0
  /\ Goto(t, "reset")
  /\ UNCHANGED <<kernel, ring, memory, aux>>

Reset(t) ==
  /\ At(t, "reset")
  /\ slots' = IF th[t].moved THEN slots ELSE [slots EXCEPT ![th[t].fd].futex = 0]
  /\ Goto(t, "call")
  /\ UNCHANGED <<kernel, ring, len, live, queue, wake, aux>>

-----------------------------------------------------------------------------
Clients == \E c \in Conns : Send(c) \/ HangUp(c)
Kernel ==
  \/ \E c \in Conns : KernelAccept(c)
  \/ AcceptError
  \/ \E c \in Conns, u \in Fds \cup {NoFd} : CompletePoll(c, u)
Reactor == OnAcceptError \/ OnAccept \/ OnPoll \/ Wake
Tls(t) == CallProgresses(t) \/ CallWants(t) \/ CallWriteFails(t) \/ CallEnds(t)
Submit(t) ==
  \/ LoadTail(t) \/ NoEntry(t) \/ TakeEntry(t) \/ SetFd(t) \/ SetUserData(t)
  \/ LoadForFlush(t) \/ Publish(t) \/ Enter(t) \/ EnterRefused(t)
Park(t) == Sleep(t) \/ Woken(t) \/ Reset(t)
Defer(t) == LoadSlot(t) \/ FreeSsl(t) \/ ClearSsl(t)
Handle(t) == Setup(t) \/ Tls(t) \/ Submit(t) \/ Park(t) \/ Defer(t) \/ CloseFd(t)

Next ==
  \/ Clients
  \/ Kernel
  \/ Reactor
  \/ \E t \in Threads : Dispatch(t) \/ Handle(t)

Spec == Init /\ [][Next]_vars

\* Every thread is scheduled (that of main dispatches, or runs the handler it had
\* to run itself), and the kernel completes a poll whose event has occurred.
\* Nothing is asked of the clients, and nothing of the accept.
Fairness ==
  /\ WF_vars(Reactor)
  /\ \A t \in Threads : WF_vars(Handle(t) \/ (t = Dispatcher /\ \E u \in Threads : Dispatch(u)))
  /\ \A c \in Conns : WF_vars(client[c] # "done" /\ \E u \in Fds \cup {NoFd} : CompletePoll(c, u))

FairSpec == Spec /\ Fairness

-----------------------------------------------------------------------------
(* Properties                                                              *)

TypeOK ==
  /\ client \in [Conns -> {"waiting", "silent", "ready", "more", "gone", "done"}]
  /\ sends \in 0 .. MaxSends
  /\ sock \in [Fds -> Conns \cup {NoConn}]
  /\ armed \in BOOLEAN
  /\ BagToSet(polls) \subseteq Conns \X (Fds \cup {NoFd})
  /\ cq \in Seq(Cqe)
  /\ ring \in [sqes : [0 .. RING_DEPTH - 1 -> Sqe],
               arr : [0 .. RING_DEPTH - 1 -> 0 .. RING_DEPTH - 1],
               head : 0 .. Wrap - 1, tail : 0 .. Wrap - 1]
  /\ slots \in [Fds -> [ssl : Conns \cup {NoConn}, futex : {0, 1}]]
  /\ len \in Nat
  /\ live \subseteq Conns
  /\ queue \in [buf : [0 .. FD_QUEUE_CAP - 1 -> Fds \cup {NoFd}],
                head : 0 .. FD_QUEUE_CAP - 1, tail : 0 .. FD_QUEUE_CAP - 1]
  /\ wake \in Fds \cup {NoFd}
  /\ th \in [Threads -> Handler]
  /\ extra \in 0 .. MaxExtra
  /\ refusals \in 0 .. MaxRefusals
  /\ disturbed \in BOOLEAN
  /\ astray \in BOOLEAN

\* The positions of the FIFO that hold a descriptor.
Occupied ==
  IF queue.head <= queue.tail
    THEN queue.head .. queue.tail - 1
    ELSE (queue.head .. FD_QUEUE_CAP - 1) \cup (0 .. queue.tail - 1)

\* Where the process keeps descriptor f: a completion of accept not yet dealt
\* with, the FIFO, a handler.
Holders(f) ==
  {<<"cq", i>> : i \in {j \in DOMAIN cq : cq[j] = [tag |-> "accept", fd |-> f]}}
    \cup {<<"queue", i>> : i \in {j \in Occupied : queue.buf[j] = f}}
    \cup {<<"thread", t>> : t \in {u \in Threads : Running(u) /\ th[u].fd = f}}

\* An open descriptor is held in exactly one place: it is neither leaked, when
\* the FIFO is full or the table cannot grow, nor served by two handlers, nor
\* still held by anyone once it is closed (main.zig:277-280, 313-321, 453-454,
\* 477: a descriptor number is given out again as soon as it is closed).
OneOwner ==
  \A f \in Fds : IF sock[f] = NoConn THEN Holders(f) = {} ELSE \E h \in Holders(f) : Holders(f) = {h}

\* Where a handler is when it has made its SSL object, and freed it again.
Serving(t) == th[t].pc \notin {"idle", "setup", "free", "release", "clear", "close"}
Freeing(t) == th[t].pc \in {"free", "release"}

\* A descriptor that is handed over comes with an empty slot, and what is in the
\* slot of a handler is nothing or its own object, even one that an earlier
\* handler left there, freed, when the table moved before its last store: the
\* reactor empties the slot before it gives the number away (main.zig:318-321,
\* 471, 475, 486).
SlotIsOwn ==
  /\ \A i \in Occupied : slots[queue.buf[i]].ssl = NoConn
  /\ \A t \in Threads : Running(t) =>
       slots[th[t].fd].ssl \in (IF At(t, "setup") THEN {} ELSE {th[t].conn}) \cup {NoConn}

\* Every SSL object is freed once, by the handler that made it, and not while
\* that still uses it; no slot keeps one whose handler is gone. A handler that
\* reads or writes ssl at an address its slot has left sets astray: then the
\* object is leaked, freed twice or left in the slot (main.zig:239, 470-486).
FreedOnce ==
  ~astray =>
    /\ \A c \in live : \E t \in Threads : th[t].conn = c /\ (Serving(t) \/ Freeing(t))
    /\ \A t \in Threads : Serving(t) => th[t].conn \in live /\ slots[th[t].fd].ssl = th[t].conn
    /\ \A t \in Threads : Freeing(t) => (th[t].conn \in live <=> slots[th[t].fd].ssl = th[t].conn)
    /\ \A f \in Fds : slots[f].ssl # NoConn =>
         \E t \in Threads : /\ th[t].fd = f /\ th[t].conn = slots[f].ssl
                            /\ Serving(t) \/ Freeing(t) \/ At(t, "clear")

\* SSL objects stay with their connections (main.zig:318, 470-486).
OwnSsl == SlotIsOwn /\ FreedOnce

\* No wake-up is lost between the check of the futex and the sleep: a thread
\* asleep on a word that is already 1 is about to be woken (main.zig:327, 521).
SleeperIsWoken ==
  \A t \in Threads :
    At(t, "asleep") /\ ~th[t].moved /\ slots[th[t].fd].futex = 1 => wake = th[t].fd

\* What these rest on: descriptors in the FIFO and in handlers are real ones, each
\* connection has one descriptor and its handler knows it, and the completion whose
\* slot is being woken is the one the reactor is at.
Held ==
  /\ \A i \in Occupied : queue.buf[i] \in Fds
  /\ \A t \in Threads : Running(t) => th[t].fd \in Fds /\ sock[th[t].fd] = th[t].conn
OneSock ==
  \A f \in Fds : sock[f] # NoConn =>
    client[sock[f]] # "waiting" /\ \A g \in Fds : sock[g] = sock[f] => g = f
Waking == wake # NoFd => cq # <<>> /\ Head(cq).tag = "poll"

\* The invariant that each step keeps: ownership of descriptors and of SSL
\* objects, and no lost wake-up, together (main.zig:277, 326, 470, 521).
IndInv == TypeOK /\ Held /\ OneSock /\ Waking /\ OneOwner /\ OwnSsl /\ SleeperIsWoken

\* A completion for handler t's slot is on its way to the reactor.
Coming(t) == \E i \in DOMAIN cq : cq[i] = [tag |-> "poll", fd |-> th[t].fd]

\* Its poll is an entry of the ring, and every entry there has a thread that
\* is about to enter the kernel for it.
ToSubmit(t) ==
  /\ \E k \in 0 .. RING_DEPTH - 1 :
       /\ k < (ring.tail - ring.head) % Wrap
       /\ ring.sqes[ring.arr[Index(ring.head + k)]] = [op |-> "poll", fd |-> th[t].fd, ud |-> th[t].fd]
  /\ (ring.tail - ring.head) % Wrap = Cardinality({u \in Threads : At(u, "enter")})

\* Something will set the word that handler t waits on.
Reachable(t) ==
  \/ slots[th[t].fd].futex = 1
  \/ BagIn(<<th[t].conn, th[t].fd>>, polls)
  \/ Coming(t)
  \/ ToSubmit(t)

\* A thread that parks has a poll under way, so that "the reactor wakes
\* exactly the right vthread" (main.zig:14).
ParkedIsPolled ==
  \A t \in Threads : th[t].pc \in {"park", "asleep"} => ~th[t].moved /\ Reachable(t)

\* What makes it fail is one of three things, each of which sets disturbed: a
\* handler takes its entry while another has one it has not published yet,
\* io_uring_enter refuses, or the table moves under a running handler. Without
\* them every parked thread is reachable (main.zig:161-175, 235-241, 540), as
\* long as there are no more threads than the ring has entries.
Polled == ~disturbed => ParkedIsPolled

\* What a client has sent and the server not yet read.
Unread(c) == client[c] \in {"ready", "more"}

\* What clients send gets to the handlers of their connections, whatever the
\* other clients do: they send so often, and each time all of it is read in the
\* end (main.zig:326-334, 520-531). Again unless disturbed.
InputIsRead ==
  []<>(disturbed \/ \A t \in Threads : Running(t) => ~Unread(th[t].conn))

\* If the dispatcher is not kept busy for ever by a handler it had to run
\* itself, every accepted client that hangs up is closed in the end, handshake
\* finished or not: the FIFO, the pool and the polls get it there (main.zig:453,
\* 477, 557). Each client hangs up once, so that in the end none is left.
HungUpIsClosed ==
  []<>At(Dispatcher, "idle") => []<>(disturbed \/ \A c \in Conns : client[c] # "gone")
=================================================================================
