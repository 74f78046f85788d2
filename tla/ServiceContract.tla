--------------------------- MODULE ServiceContract ---------------------------
(***************************************************************************)
(* What a shard of the IMAP server promises, without bytes, reads, the     *)
(* gate and the accept loop: the commands in what a client sends are       *)
(* carried out one after the other, and once the server is asked to stop   *)
(* no session begins, a session finishes at most the command it was        *)
(* reading, and the server has stopped when no session is left.            *)
(***************************************************************************)
EXTENDS Naturals, Sequences

CONSTANTS
    Conns,
    CommandsIn(_),      \* the commands in what a client sends
    EndsSession(_)      \* the command after which there is none

VARIABLES
    sent,       \* what each client sends, all of it
    done,       \* the commands carried out for it
    session,    \* "none", "open", or "over"
    phase,      \* "serving", "stopping", or "stopped"
    last        \* while stopping, the sessions that may finish a command

vars == <<sent, done, session, phase, last>>

Init ==
    /\ done = [c \in Conns |-> <<>>]
    /\ session = [c \in Conns |-> "none"]
    /\ phase = "serving" /\ last = {}

Begin(c) ==
    /\ phase = "serving" /\ session[c] = "none"
    /\ session' = [session EXCEPT ![c] = "open"]
    /\ UNCHANGED <<sent, done, phase, last>>

TurnAway(c) ==
    /\ phase # "serving" /\ session[c] = "none"
    /\ session' = [session EXCEPT ![c] = "over"]
    /\ UNCHANGED <<sent, done, phase, last>>

Ended(c) == done[c] # <<>> /\ EndsSession(done[c][Len(done[c])])

\* The next command of the client, while the server serves or as the one that
\* was being read when it was asked to stop.
CarryOut(c) ==
    /\ session[c] = "open" /\ ~Ended(c)
    /\ phase = "serving" \/ c \in last
    /\ done'[c] # done[c]
    /\ Len(done[c]) < Len(CommandsIn(sent[c]))
    /\ done' = [done EXCEPT ![c] = Append(@, CommandsIn(sent[c])[Len(@) + 1])]
    /\ last' = last \ {c}
    /\ UNCHANGED <<sent, session, phase>>

\* What was being read does not become a command.
Forgo(c) ==
    /\ c \in last
    /\ last' = last \ {c}
    /\ UNCHANGED <<sent, done, session, phase>>

\* A session may end at any time, by logout or because either side gives up.
Finish(c) ==
    /\ session[c] = "open" /\ c \notin last
    /\ session' = [session EXCEPT ![c] = "over"]
    /\ UNCHANGED <<sent, done, phase, last>>

Stop ==
    /\ phase = "serving" /\ phase' = "stopping"
    /\ last' \in SUBSET {c \in Conns : session[c] = "open"}
    /\ UNCHANGED <<sent, done, session>>

Stopped ==
    /\ phase = "stopping" /\ phase' = "stopped"
    /\ \A c \in Conns : session[c] # "open"
    /\ UNCHANGED <<sent, done, session, last>>

Next ==
    \/ Stop \/ Stopped
    \/ \E c \in Conns : Begin(c) \/ TurnAway(c) \/ CarryOut(c) \/ Forgo(c) \/ Finish(c)

Spec == Init /\ [][Next]_vars
=============================================================================
