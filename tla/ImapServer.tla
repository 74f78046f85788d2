------------------------------- MODULE ImapServer -------------------------------
(***************************************************************************)
(* src/vibecoding/imap/src: one shard of the IMAP server. The accept loop  *)
(* and every connection run as coroutines under a gate; stop() requests    *)
(* the abort and waits for the gate (server.cc). A connection cuts the     *)
(* bytes it reads into commands, with at most one literal each             *)
(* (imap_connection::run, read_line, read_exact); what the commands do is  *)
(* in ImapSession.                                                         *)
(*                                                                         *)
(* The shard runs one coroutine at a time, up to its next co_await that    *)
(* has to wait: an action is such a stretch. A client's bytes are those of *)
(* a script; "{1}" and "{2}" stand for the octets of a literal's size at   *)
(* the end of a line, "CR" and "LF" are the bytes, others are text.        *)
(***************************************************************************)
EXTENDS Integers, Sequences, FiniteSets

CONSTANTS
  Conns,            \* the connections clients make, each at most once
  NoConn,
  Scripts,          \* what a client may send, a set of sequences of bytes
  k_max             \* longest line, 64 KiB in the code

ASSUME ConnsAssumption == IsFiniteSet(Conns) /\ NoConn \notin Conns
ASSUME ScriptsAssumption == \A s \in Scripts : s \in Seq(STRING)
ASSUME LimitAssumption == k_max \in Nat \ {0}

VARIABLES
  script,    \* what the client of each connection will send
  client,    \* "waiting" in the backlog, "open", or "gone" once it hung up
  plus,      \* continuation requests the client has received
  acceptor,  \* the accept loop
  accepted,  \* the connection an accept has given and the loop not yet seen
  abort,     \* _as.abort_requested()
  gate,      \* [count, closed] of the gate
  stop,      \* where stop() is: "no", "waiting" for the gate, "done"
  at,        \* where each connection's coroutine is
  got,       \* bytes taken from the input stream
  left,      \* _line_leftover; while a line is read, what there is of it
  need,      \* octets the literal still lacks
  frame,     \* the command under assembly: its text and its literal
  handled,   \* the commands handed to handle_command or rejected as malformed
  before     \* auxiliary: Len(handled) when the abort was requested

clients == <<script, client>>
server == <<acceptor, accepted, gate, stop>>
wire == <<got, left, need, frame, handled, plus>>
vars == <<clients, server, abort, at, wire, before>>

NoFrame == [text |-> <<>>, literal |-> <<>>]

Init ==
  /\ script \in [Conns -> Scripts]
  /\ client = [c \in Conns |-> "waiting"]
  /\ plus = [c \in Conns |-> 0]
  /\ acceptor = "accepting" /\ accepted = NoConn
  /\ abort = FALSE
  /\ gate = [count |-> 1, closed |-> FALSE]
  /\ stop = "no"
  /\ at = [c \in Conns |-> "none"]
  /\ got = [c \in Conns |-> 0]
  /\ left = [c \in Conns |-> <<>>]
  /\ need = [c \in Conns |-> 0]
  /\ frame = [c \in Conns |-> NoFrame]
  /\ handled = [c \in Conns |-> <<>>]
  /\ before = [c \in Conns |-> 0]

-----------------------------------------------------------------------------
(* Clients                                                                 *)

HangUp(c) ==
  /\ client[c] = "open"
  /\ client' = [client EXCEPT ![c] = "gone"]
  /\ UNCHANGED <<script, server, abort, at, wire, before>>

-----------------------------------------------------------------------------
(* The accept loop                                                         *)

\* The future of accept() becomes ready.
AcceptReady(c) ==
  /\ acceptor = "accepting" /\ accepted = NoConn /\ client[c] = "waiting"
  /\ accepted' = c
  /\ client' = [client EXCEPT ![c] = "open"]
  /\ UNCHANGED <<script, acceptor, gate, stop, abort, at, wire, before>>

\* Coroutines that leave the gate.
Leaves(n) == gate' = [gate EXCEPT !.count = @ - n]

\* Mutant: the connection is detached without entering the gate.
ServeUncounted ==
  /\ acceptor = "accepting" /\ accepted # NoConn
  /\ accepted' = NoConn
  /\ at' = [at EXCEPT ![accepted] = "greet"]
  /\ UNCHANGED <<clients, acceptor, gate, stop, abort, wire, before>>

\* with_gate throws when the gate is closed, and the connection is dropped.
Serve ==
  /\ acceptor = "accepting" /\ accepted # NoConn
  /\ accepted' = NoConn
  /\ \/ /\ ~gate.closed
        /\ at' = [at EXCEPT ![accepted] = "greet"]
        /\ gate' = [gate EXCEPT !.count = @ + 1]
        /\ UNCHANGED acceptor
     \/ /\ gate.closed
        /\ at' = [at EXCEPT ![accepted] = "closed"]
        /\ acceptor' = "ended"
        /\ Leaves(1)
  /\ UNCHANGED <<clients, stop, abort, wire, before>>

\* One of the three errors that stop() causes ends the loop, also when the
\* network causes it. Any other failure before the abort is logged and the loop
\* tries again: nothing changes, so it is no step.
AcceptFails ==
  /\ acceptor = "accepting" /\ accepted = NoConn
  /\ acceptor' = "ended"
  /\ Leaves(1)
  /\ UNCHANGED <<clients, accepted, stop, abort, at, wire, before>>

\* stop(): request_abort, abort_accept, and gate.close up to its wait.
Stop ==
  /\ stop = "no"
  /\ abort' = TRUE
  /\ gate' = [gate EXCEPT !.closed = TRUE]
  /\ stop' = "waiting"
  /\ before' = [c \in Conns |-> Len(handled[c])]
  /\ UNCHANGED <<clients, acceptor, accepted, at, wire>>

\* Mutant: stop() does not wait for the gate.
StoppedAtOnce ==
  /\ stop = "waiting"
  /\ stop' = "done"
  /\ UNCHANGED <<clients, acceptor, accepted, abort, gate, at, wire, before>>

Stopped ==
  /\ stop = "waiting" /\ gate.count = 0
  /\ stop' = "done"
  /\ UNCHANGED <<clients, acceptor, accepted, abort, gate, at, wire, before>>

-----------------------------------------------------------------------------
(* A connection: imap_connection::run                                      *)

\* The first position at which s has CR LF, 0 if there is none.
LineEnd(s) ==
  LET ends == {i \in 1 .. Len(s) - 1 : s[i] = "CR" /\ s[i + 1] = "LF"}
  IN IF ends = {} THEN 0 ELSE CHOOSE i \in ends : \A j \in ends : i <= j

Line(s) == SubSeq(s, 1, LineEnd(s) - 1)
AfterLine(s) == SubSeq(s, LineEnd(s) + 2, Len(s))

\* parse_literal_size: the size at the end of a line, 0 if there is none.
LiteralSize(line) ==
  IF line = <<>> THEN 0
  ELSE IF line[Len(line)] = "{1}" THEN 1
  ELSE IF line[Len(line)] = "{2}" THEN 2 ELSE 0

Command(text, literal) == [text |-> text, literal |-> literal]

\* Where the literals in the bytes s end.
LiteralEnds(s) ==
  {i + 2 + LiteralSize(<<s[i]>>) :
     i \in {i \in 1 .. Len(s) - 2 :
             LiteralSize(<<s[i]>>) > 0 /\ s[i + 1] = "CR" /\ s[i + 2] = "LF"}}

\* The clients modelled send commands with at most one literal: the line that
\* follows a literal asks for none. The code hands over a command at the end of
\* its first literal, although a comment expects more (connection.cc:237).
OneLiteralEach(s) ==
  \A n \in LiteralEnds(s) : LiteralSize(Line(SubSeq(s, n + 1, Len(s)))) = 0
ASSUME OneLiteralAssumption == \A s \in Scripts : OneLiteralEach(s)

\* read_line returns the first line of buffer, and run scans it.
HandleLine(c, buffer) ==
  LET line == Line(buffer)
      size == LiteralSize(line)
  IN /\ left' = [left EXCEPT ![c] = AfterLine(buffer)]
     /\ \/ /\ size > 0
           /\ frame' = [frame EXCEPT ![c].text = SubSeq(line, 1, Len(line) - 1)]
           /\ need' = [need EXCEPT ![c] = size]
           /\ at' = [at EXCEPT ![c] = "ask"]
           /\ UNCHANGED handled
        \/ /\ size = 0
           /\ handled' = [handled EXCEPT ![c] = IF line = <<>> THEN @ ELSE Append(@, Command(line, <<>>))]
           /\ at' = [at EXCEPT ![c] = "top"]
           /\ UNCHANGED <<frame, need>>

\* What is at hand of a line: too long, complete, or to be read on.
ReadOn(c, buffer) ==
  \/ /\ Len(buffer) >= k_max
     /\ left' = [left EXCEPT ![c] = <<>>]
     /\ at' = [at EXCEPT ![c] = "close"]
     /\ UNCHANGED <<frame, need, handled>>
  \/ /\ Len(buffer) < k_max /\ LineEnd(buffer) > 0
     /\ HandleLine(c, buffer)
  \/ /\ Len(buffer) < k_max /\ LineEnd(buffer) = 0
     /\ left' = [left EXCEPT ![c] = buffer]
     /\ at' = [at EXCEPT ![c] = IF abort THEN "close" ELSE "line"]
     /\ UNCHANGED <<frame, need, handled>>

\* The greeting is written; a client that is gone makes the write fail.
Greet(c) ==
  /\ at[c] = "greet"
  /\ \/ at' = [at EXCEPT ![c] = "top"]
     \/ client[c] = "gone" /\ at' = [at EXCEPT ![c] = "close"]
  /\ UNCHANGED <<clients, server, abort, wire, before>>

\* The head of the loop, and read_line up to its wait.
LogsOut(command) == command.text = <<"LOGOUT">>
LoggedOut(c) == handled[c] # <<>> /\ LogsOut(handled[c][Len(handled[c])])

\* Mutant: the loop does not look at the abort.
TopHeedless(c) ==
  /\ at[c] = "top"
  /\ ~LoggedOut(c)
  /\ ReadOn(c, left[c])
  /\ UNCHANGED <<clients, server, abort, got, plus, before>>

Top(c) ==
  /\ at[c] = "top"
  /\ ~abort /\ ~LoggedOut(c)
  /\ ReadOn(c, left[c])
  /\ UNCHANGED <<clients, server, abort, got, plus, before>>

\* The loop ends; or the write of an answer failed.
Leave(c) ==
  /\ \/ at[c] = "top" /\ (abort \/ LoggedOut(c))
     \/ at[c] \in {"top", "ask"} /\ client[c] = "gone"
  /\ at' = [at EXCEPT ![c] = "close"]
  /\ UNCHANGED <<clients, server, abort, wire, before>>

\* What the client of connection c has not sent, or is still on its way.
ToCome(c) == SubSeq(script[c], got[c] + 1, Len(script[c]))

\* _in.read() returns the next bytes, as many as have come.
ReceiveLine(c) ==
  /\ at[c] = "line"
  /\ \E k \in 1 .. Len(ToCome(c)) :
       /\ ReadOn(c, left[c] \o SubSeq(ToCome(c), 1, k))
       /\ got' = [got EXCEPT ![c] = @ + k]
  /\ UNCHANGED <<clients, server, abort, plus, before>>

\* read_exact has all the octets, or reads on.
HaveOctets(c, octets, missing) ==
  \/ /\ missing = 0
     /\ handled' = [handled EXCEPT ![c] = Append(@, Command(frame[c].text, octets))]
     /\ frame' = [frame EXCEPT ![c] = NoFrame]
     /\ at' = [at EXCEPT ![c] = "top"]
  \/ /\ missing > 0
     /\ frame' = [frame EXCEPT ![c].literal = octets]
     /\ at' = [at EXCEPT ![c] = IF abort THEN "close" ELSE "literal"]
     /\ UNCHANGED handled

\* Mutants: the leftover is taken whole, without the minimum; it is not looked
\* at; a literal that is at hand is not asked for.
AskUnbounded(c) ==
  /\ at[c] = "ask"
  /\ plus' = [plus EXCEPT ![c] = @ + 1]
  /\ left' = [left EXCEPT ![c] = <<>>]
  /\ need' = [need EXCEPT ![c] = @ - Len(left[c])]
  /\ HaveOctets(c, left[c], IF Len(left[c]) < need[c] THEN need[c] - Len(left[c]) ELSE 0)
  /\ UNCHANGED <<clients, server, abort, got, before>>
AskPastLeftover(c) ==
  /\ at[c] = "ask"
  /\ plus' = [plus EXCEPT ![c] = @ + 1]
  /\ HaveOctets(c, <<>>, need[c])
  /\ UNCHANGED <<clients, server, abort, got, left, need, before>>
AskIfMissing(c) ==
  LET take == IF need[c] < Len(left[c]) THEN need[c] ELSE Len(left[c])
  IN /\ at[c] = "ask"
     /\ plus' = [plus EXCEPT ![c] = IF take < need[c] THEN @ + 1 ELSE @]
     /\ left' = [left EXCEPT ![c] = SubSeq(@, take + 1, Len(@))]
     /\ need' = [need EXCEPT ![c] = @ - take]
     /\ HaveOctets(c, SubSeq(left[c], 1, take), need[c] - take)
     /\ UNCHANGED <<clients, server, abort, got, before>>

\* The continuation request is written; read_exact takes from the leftover.
Ask(c) ==
  LET take == IF need[c] < Len(left[c]) THEN need[c] ELSE Len(left[c])
  IN /\ at[c] = "ask"
     /\ plus' = [plus EXCEPT ![c] = @ + 1]
     /\ left' = [left EXCEPT ![c] = SubSeq(@, take + 1, Len(@))]
     /\ need' = [need EXCEPT ![c] = @ - take]
     /\ HaveOctets(c, SubSeq(left[c], 1, take), need[c] - take)
     /\ UNCHANGED <<clients, server, abort, got, before>>

ReceiveLiteral(c) ==
  /\ at[c] = "literal"
  /\ \E k \in 1 .. Len(ToCome(c)) :
       /\ k <= need[c]
       /\ got' = [got EXCEPT ![c] = @ + k]
       /\ need' = [need EXCEPT ![c] = @ - k]
       /\ HaveOctets(c, frame[c].literal \o SubSeq(ToCome(c), 1, k), need[c] - k)
  /\ UNCHANGED <<clients, server, abort, left, plus, before>>

\* Mutant: read_exact goes on at the end of the input.
EndOfLine(c) ==
  /\ at[c] = "line"
  /\ client[c] = "gone"
  /\ at' = [at EXCEPT ![c] = "close"]
  /\ UNCHANGED <<clients, server, abort, wire, before>>

\* read() or read_up_to() returns an empty buffer.
EndOfInput(c) ==
  /\ at[c] \in {"line", "literal"}
  /\ client[c] = "gone"
  /\ at' = [at EXCEPT ![c] = "close"]
  /\ UNCHANGED <<clients, server, abort, wire, before>>

\* The streams are closed; the coroutine ends and leaves the gate.
Close(c) ==
  /\ at[c] = "close"
  /\ at' = [at EXCEPT ![c] = "closed"]
  /\ Leaves(1)
  /\ UNCHANGED <<clients, acceptor, accepted, stop, abort, wire, before>>

-----------------------------------------------------------------------------
AcceptLoop == (\E c \in Conns : AcceptReady(c)) \/ Serve \/ AcceptFails
Receive(c) == ReceiveLine(c) \/ ReceiveLiteral(c)
Run(c) == Greet(c) \/ Top(c) \/ Leave(c) \/ Ask(c) \/ EndOfInput(c) \/ Close(c)

Next ==
  \/ \E c \in Conns : HangUp(c)
  \/ AcceptLoop
  \/ Stop
  \/ Stopped
  \/ \E c \in Conns : Receive(c) \/ Run(c)

Spec == Init /\ [][Next]_vars

\* The reactor resumes every coroutine whose future is ready. The stretches of a
\* connection first wait until what was written before is sent (write_line,
\* flush and close, connection.cc:108-119, 285-291), which only a client that
\* reads brings about: they are fair only once the client is gone and the waits
\* fail. Nothing is asked of a client that is there, neither to send nor to
\* read, nor of the signal that stops the server.
Fairness ==
  /\ WF_vars(Serve) /\ WF_vars(abort /\ AcceptFails) /\ WF_vars(Stopped)
  /\ \A c \in Conns : WF_vars(client[c] = "gone" /\ Run(c))

FairSpec == Spec /\ Fairness

-----------------------------------------------------------------------------
(* Properties                                                              *)

Frame == [text : Seq(STRING), literal : Seq(STRING)]

TypeOK ==
  /\ script \in [Conns -> Scripts]
  /\ got \in [Conns -> Nat]
  /\ client \in [Conns -> {"waiting", "open", "gone"}]
  /\ acceptor \in {"accepting", "ended"}
  /\ accepted \in Conns \cup {NoConn}
  /\ abort \in BOOLEAN
  /\ gate \in [count : Nat, closed : BOOLEAN]
  /\ stop \in {"no", "waiting", "done"}
  /\ at \in [Conns -> {"none", "greet", "top", "line", "ask", "literal", "close", "closed"}]
  /\ left \in [Conns -> Seq(STRING)]
  /\ need \in [Conns -> Nat] /\ plus \in [Conns -> Nat]
  /\ frame \in [Conns -> Frame]
  /\ handled \in [Conns -> Seq(Frame)]
  /\ before \in [Conns -> Nat]

Working(c) == at[c] \notin {"none", "closed"}

\* The gate counts the accept loop and the connections at work.
GateCounts ==
  gate.count = Cardinality({c \in Conns : Working(c)}) + (IF acceptor = "ended" THEN 0 ELSE 1)

\* Once stop() has returned, and the server object may be destroyed, no
\* coroutine is left that uses its members (server.cc:28, 43, 92; README.md:66).
StoppedIsQuiet ==
  stop = "done" => acceptor = "ended" /\ \A c \in Conns : ~Working(c)

\* "connection loops check abort" (README.md:67): after the request a
\* connection handles at most the one command it was reading.
AbortIsHeeded == abort => \A c \in Conns : Len(handled[c]) <= before[c] + 1

\* The commands from byte i on of the bytes s, given those from later bytes on:
\* a line that asks for a literal has what follows it as its literal; an empty
\* line is none.
FramesFrom(s, from, i) ==
  LET rest == SubSeq(s, i, Len(s))
      line == Line(rest)
      size == LiteralSize(line)
      next == i + LineEnd(rest) + 1
  IN IF LineEnd(rest) = 0 THEN <<>>
     ELSE IF line = <<>> THEN from[next]
     ELSE IF size = 0 THEN <<Command(line, <<>>)>> \o from[next]
     ELSE IF next + size - 1 > Len(s) THEN <<>>
     ELSE <<Command(SubSeq(line, 1, Len(line) - 1), SubSeq(s, next, next + size - 1))>>
            \o from[next + size]

\* The commands in a sequence of bytes, as if it could be read at once.
Parse(s) ==
  LET from[i \in 1 .. Len(s) + 1] == FramesFrom(s, from, i) IN from
Frames(s) == Parse(s)[1]

Starts(p, s) == Len(p) <= Len(s) /\ p = SubSeq(s, 1, Len(p))

\* However the bytes are cut into reads, and whether a literal's octets (which
\* may be CR LF) come with its line or after the continuation request, the
\* commands handled are those of the byte stream, and a connection that waits
\* for more has handled all that is complete (connection.cc:121-163, 225-236).
\* What a second literal belongs to is left out: see OneLiteralEach.
FramesAreStable ==
  \A c \in Conns :
    /\ Starts(handled[c], Frames(script[c]))
    /\ at[c] \in {"line", "literal"} => handled[c] = Frames(SubSeq(script[c], 1, got[c]))

\* Why it holds: whatever follows, the commands of s are those of h and those
\* from byte p on. What has been read from p on is the beginning of a line, or a
\* line and the beginning of its literal.
Cut(s, h, p) ==
  \A n \in p - 1 .. Len(s) :
    LET sent == SubSeq(s, 1, n) IN Frames(sent) = h \o Parse(sent)[p]

BeginsLine(c, buffer) ==
  /\ at[c] \in {"none", "greet", "top", "line"}
  /\ left[c] = buffer /\ frame[c] = NoFrame
  /\ at[c] = "line" => LineEnd(buffer) = 0

BeginsLiteral(c, buffer) ==
  LET line == Line(buffer)
      octets == AfterLine(buffer)
  IN /\ LineEnd(buffer) > 0 /\ LiteralSize(line) > 0
     /\ frame[c].text = SubSeq(line, 1, Len(line) - 1)
     /\ \/ /\ at[c] = "ask" /\ left[c] = octets
           /\ frame[c].literal = <<>> /\ need[c] = LiteralSize(line)
        \/ /\ at[c] = "literal" /\ left[c] = <<>>
           /\ frame[c].literal = octets
           /\ need[c] = LiteralSize(line) - Len(octets) /\ need[c] > 0

UnderWay(c, p) ==
  LET buffer == SubSeq(script[c], p, got[c])
  IN BeginsLine(c, buffer) \/ BeginsLiteral(c, buffer)

BytesKept(c) ==
  /\ got[c] <= Len(script[c])
  /\ Starts(handled[c], Frames(script[c]))
  /\ at[c] \notin {"close", "closed"} =>
       \E p \in 1 .. got[c] + 1 : UnderWay(c, p) /\ Cut(script[c], handled[c], p)

\* The bytes at hand are those that belong to no command handled yet: none is
\* lost, taken twice or out of turn (connection.cc:121-163, 188-212, 225-236).
NoByteLost == \A c \in Conns : BytesKept(c)

\* The commands of h that have a literal.
Literals(h) == {i \in DOMAIN h : h[i].literal # <<>>}

\* Each literal is asked for once, before the connection waits for its octets:
\* a client that sends them only after the continuation request is never kept
\* waiting by a connection that waits for it (connection.cc:228-229).
AskedOnce ==
  \A c \in Conns :
    at[c] \in {"top", "line", "literal"} =>
      plus[c] = Cardinality(Literals(handled[c])) + (IF at[c] = "literal" THEN 1 ELSE 0)

\* Why these hold: a connection starts once; after the abort only the command
\* being read is finished; a literal that was asked for is never empty.
FreshConns ==
  /\ \A c \in Conns : client[c] = "waiting" => at[c] = "none"
  /\ accepted # NoConn => at[accepted] = "none" /\ client[accepted] # "waiting"

LastIsFinished ==
  abort => \A c \in Conns :
    \/ Len(handled[c]) <= before[c]
    \/ Len(handled[c]) = before[c] + 1 /\ at[c] \in {"top", "close", "closed"}

AskedExactly ==
  \A c \in Conns :
    /\ at[c] = "ask" => need[c] > 0
    /\ at[c] \notin {"close", "closed"} =>
         plus[c] = Cardinality(Literals(handled[c])) + (IF at[c] = "literal" THEN 1 ELSE 0)

\* The invariant that each step keeps: the three hazards of stop() and of the
\* literals, server.cc:92 and connection.cc:132, 228, with what they rest on.
IndInv ==
  /\ TypeOK /\ FreshConns
  /\ GateCounts /\ StoppedIsQuiet
  /\ LastIsFinished
  /\ AskedExactly

\* What the server promises its clients, as ServiceContract has it: a connection
\* is a session while its coroutine runs, and one that is reading a command when
\* stop() is called may finish it.
Session ==
  [c \in Conns |-> IF at[c] = "none" THEN "none" ELSE IF at[c] = "closed" THEN "over" ELSE "open"]
Phase ==
  IF stop = "no" THEN "serving" ELSE IF stop = "waiting" THEN "stopping" ELSE "stopped"
Finishing == {c \in Conns : abort /\ at[c] \in {"line", "ask", "literal"}}

Service == INSTANCE ServiceContract
  WITH CommandsIn <- Frames, EndsSession <- LogsOut, sent <- script, done <- handled,
       session <- Session, phase <- Phase, last <- Finishing

\* Every step of the server is one that the contract allows: the next command of
\* a client and no other, none after LOGOUT, and after stop() only the one being
\* read (server.cc:34-46, 90-94, connection.cc:121-163, 188-212, README.md:66).
ImplementsService == Service!Spec

\* What stop() needs of a client that does not hang up: it does not leave a
\* connection waiting for bytes for ever, and it reads what it is sent.
Silent(c) == at[c] \in {"line", "literal"} /\ client[c] # "gone"
TakesAnswers(c) == WF_vars(client[c] # "gone" /\ Run(c))

\* stop() returns if each client goes on sending or hangs up, and goes on reading
\* or hangs up: its connection notices the abort at the next bytes, when the
\* answer is written or when it is closed (server.cc:90-92, connection.cc:108-119,
\* 132, 153, 201, 285-291). One client that does neither keeps stop() waiting.
StopReturns ==
  (\A c \in Conns : TakesAnswers(c) /\ []<>~Silent(c)) => (stop = "waiting" ~> stop = "done")
=================================================================================
