----------------------------- MODULE KanbanData -----------------------------
(***************************************************************************)
(* The state shared by the two halves of java/kanban:                      *)
(*                                                                         *)
(*   kanban-local   keeps the cards (MongoDB collection "cards"), runs the *)
(*                  REST API, and pushes every card to the remote, from an *)
(*                  @Async thread pool and from one @Scheduled thread;     *)
(*   kanban-remote  keeps a copy of every card (collection "remote_cards") *)
(*                  and serves PUT and DELETE /api/sync/cards/{cardId}.    *)
(*                                                                         *)
(* The encrypted content of a card is abstracted to its revision number:   *)
(* create writes revision 1 and every successful update the next one.      *)
(***************************************************************************)
EXTENDS Integers, FiniteSets, Sequences

CONSTANTS
    Cards,          \* the ids Mongo may generate for local cards
    Editors,        \* concurrent API clients that update cards
    Workers,        \* threads of the executor behind @Async
    Scheduler,      \* the thread that runs @Scheduled methods
    NoCard,         \* "no card", for an idle thread
    SyncEnabled,    \* sync.enabled in application.yml
    MaxRev,         \* bound: revisions per card
    MaxVersion,     \* bound: no scheduled round retries a card past this @Version
    MaxQueue,       \* bound: jobs waiting for a worker
    MaxDocs,        \* bound: documents the remote ever inserts
    MaxFaults       \* bound: broken connections and local crashes

ASSUME ConstantsAssumption ==
    /\ NoCard \notin Cards
    /\ Scheduler \notin Workers
    /\ SyncEnabled \in BOOLEAN
    /\ MaxRev \in Nat /\ MaxVersion \in Nat /\ MaxQueue \in Nat
    /\ MaxDocs \in Nat /\ MaxFaults \in Nat

VARIABLES
    local,      \* collection "cards" of kanban_local
    editors,    \* what each editor loaded for the update it has begun
    queue,      \* FIFO queue of the @Async executor
    job,        \* what each sync thread is doing
    batch,      \* snapshots syncPending has yet to push in this round
    requests,   \* HTTP requests sent to the remote and not yet answered
    remote,     \* collection "remote_cards" of kanban_remote
    nextDoc,    \* the next _id the remote's Mongo generates
    faults,     \* faults so far; also names the requests a fault cut loose
    applied     \* history: revisions of each card the remote ever stored

localVars  == <<local, editors, queue, batch>>
remoteVars == <<remote, nextDoc, applied>>
vars == <<local, editors, queue, job, batch, requests, remote, nextDoc,
          faults, applied>>

Threads == Workers \cup {Scheduler}

Statuses == {"PENDING", "SYNCED", "FAILED"}

\* A local card. A document that was deleted keeps its last revision here so
\* that properties can refer to it; the code sees it only while "alive".
LocalCard == [life : {"unborn", "alive", "deleted"}, rev : Nat, ver : Nat,
              status : Statuses]

Snapshot == [card : Cards, rev : Nat, ver : Nat]

\* An editor between findById and save, or idle (card = NoCard).
EditorState == [card : Cards \cup {NoCard}, ver : Nat]
NoEdit == [card |-> NoCard, ver |-> 0]

\* "load": a queued push was taken, the card not yet read; "put", "delete":
\* waiting for the HTTP reply; "save": pushCard has its outcome in ok.
Job == [pc : {"idle", "load", "put", "delete", "save"},
        card : Cards \cup {NoCard}, rev : Nat, ver : Nat, ok : BOOLEAN]
Idle == [pc |-> "idle", card |-> NoCard, rev |-> 0, ver |-> 0, ok |-> FALSE]

\* cut = 0 while the sender waits for the reply, else the number of the fault
\* that broke the connection: the remote may still process the request. phase
\* is "found" once the handler holds what findByCardId returned: document doc
\* (0: a new entity) as of version ver.
Request == [thread : Threads, cut : Nat, op : {"PUT", "DELETE"}, card : Cards,
            rev : Nat, phase : {"sent", "found"}, doc : Nat, ver : Nat]

RemoteDoc == [id : Nat, card : Cards, rev : Nat, ver : Nat]

Alive(c) == local[c].life = "alive"
DocsOf(c) == {d \in remote : d.card = c}

(***************************************************************************)
(* RestClient: an HTTP call is a request and the thread waiting for it.    *)
(***************************************************************************)
Call(t, op, c, rev) ==
    requests' = requests \cup
        {[thread |-> t, cut |-> 0, op |-> op, card |-> c, rev |-> rev,
          phase |-> "sent", doc |-> 0, ver |-> 0]}

\* What the waiting thread does with the outcome: pushCard goes on to save
\* the card as SYNCED or FAILED, syncDeleteAsync logs a failure and ends.
Resume(j, ok) == IF j.pc = "put" THEN [j EXCEPT !.pc = "save", !.ok = ok] ELSE Idle
=============================================================================
