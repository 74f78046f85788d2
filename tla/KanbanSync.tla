------------------------------ MODULE KanbanSync ------------------------------
(***************************************************************************)
(* kanban-local and kanban-remote together, with connections that break    *)
(* and a local service that crashes and restarts.                          *)
(***************************************************************************)
EXTENDS KanbanLocal, KanbanRemote

Init ==
    /\ local = [c \in Cards |->
                  [life |-> "unborn", rev |-> 0, ver |-> 0, status |-> "PENDING"]]
    /\ editors = [e \in Editors |-> NoEdit]
    /\ queue = <<>>
    /\ job = [t \in Threads |-> Idle]
    /\ batch = {}
    /\ requests = {}
    /\ remote = {}
    /\ nextDoc = 1
    /\ faults = 0
    /\ applied = [c \in Cards |-> {}]

(***************************************************************************)
(* Faults                                                                  *)
(***************************************************************************)

\* The connections of the threads in T break: each request is either lost
\* (never arrives, or its handler dies before it writes) or still served.
Sever(T) ==
    LET live == {r \in requests : r.cut = 0 /\ r.thread \in T}
    IN  /\ faults < MaxFaults
        /\ faults' = faults + 1
        /\ \E lost \in SUBSET live :
             requests' = (requests \ live) \cup
                           {[r EXCEPT !.cut = faults + 1] : r \in live \ lost}

\* A call to the remote throws: it cannot be reached, the connection is
\* reset, or its answer is lost.
ConnectionLost(t) ==
    /\ job[t].pc \in {"put", "delete"}
    /\ Sever({t})
    /\ job' = [job EXCEPT ![t] = Resume(@, FALSE)]
    /\ UNCHANGED <<localVars, remoteVars>>

\* The local service dies and restarts: only MongoDB survives.
LocalCrash ==
    /\ Sever(Threads)
    /\ editors' = [e \in Editors |-> NoEdit]
    /\ queue' = <<>>
    /\ job' = [t \in Threads |-> Idle]
    /\ batch' = {}
    /\ UNCHANGED <<local, remoteVars>>

-----------------------------------------------------------------------------
Api ==
    \/ \E c \in Cards : Create(c) \/ Delete(c)
    \/ \E e \in Editors : UpdateSave(e) \/ UpdateConflict(e)
    \/ \E e \in Editors, c \in Cards : UpdateLoad(e, c)

Sync ==
    \/ \E w \in Workers : Take(w) \/ Load(w)
    \/ SyncPending \/ PushNext
    \/ \E t \in Threads : Save(t)

Fault == LocalCrash \/ \E t \in Threads : ConnectionLost(t)

Next == Api \/ Sync \/ Fault \/ \E r \in requests : Serve(r)

Spec == Init /\ [][Next]_vars

\* A request somebody waits for.
ServeCall(t) == \E r \in requests : r.thread = t /\ r.cut = 0 /\ Serve(r)

\* Threads are scheduled and the remote answers; nobody has to edit a card,
\* and a request whose sender is gone may never be served.
Fairness ==
    /\ \A w \in Workers : WF_vars(Take(w)) /\ WF_vars(Load(w))
    /\ \A t \in Threads : WF_vars(Save(t)) /\ WF_vars(ServeCall(t))
    /\ WF_vars(SyncPending) /\ WF_vars(PushNext)

FairSpec == Spec /\ Fairness

(***************************************************************************)
(* Properties                                                              *)
(***************************************************************************)

\* Every variable of the two services has its type; a status is one of the
\* three of SyncStatus.
TypeOK ==
    /\ local \in [Cards -> LocalCard]
    /\ editors \in [Editors -> EditorState]
    /\ queue \in Seq([op : {"push", "delete"}, card : Cards])
    /\ job \in [Threads -> Job]
    /\ batch \in SUBSET Snapshot
    /\ requests \in SUBSET Request
    /\ remote \in SUBSET RemoteDoc
    /\ nextDoc \in Nat /\ faults \in Nat
    /\ applied \in [Cards -> SUBSET Nat]

\* A card the API shows as SYNCED is one whose present revision the remote
\* did store, whatever pushes of older revisions and edits overlapped.
SyncedWasStored ==
    \A c \in Cards : Alive(c) /\ local[c].status = "SYNCED"
                       => local[c].rev \in applied[c]

\* While a card lives, the remote never loses its last copy of it: a DELETE
\* of an earlier call, or one racing a push, cannot hit a living card.
LiveCardKeepsCopy ==
    \A c \in Cards : Alive(c) /\ applied[c] # {} => DocsOf(c) # {}

\* No save of a sync thread brings back an older revision over a newer edit,
\* although it writes the whole card as it was before the HTTP call.
NoLostEdit == [][\A c \in Cards : Alive(c) /\ Alive(c)' => local'[c].rev >= local[c].rev]_vars

\* A push that is in flight while its card is deleted does not restore it.
NoResurrection == [][\A c \in Cards : local[c].life = "deleted" => local'[c] = local[c]]_vars

\* What the contract sees of the system.
Shown == [c \in Cards |-> [life |-> local[c].life, rev |-> local[c].rev,
                           status |-> local[c].status]]
Copies == [c \in Cards |-> {d.rev : d \in DocsOf(c)}]

Contract == INSTANCE CardSyncContract
              WITH card <- Shown, copies <- Copies, stored <- applied

\* Seen card by card, every step is one the contract allows, or nothing.
ImplementsContract == Contract!Spec

HasTwins(c) == Cardinality(DocsOf(c)) > 1

\* Once edits, crashes and broken connections end, every living card ends up
\* SYNCED, however pushes conflicted: unless the remote has two documents for
\* it, which makes all its handlers for the card throw.
EventuallySynced ==
    \A c \in Cards : <>[](Alive(c) => local[c].status = "SYNCED" \/ HasTwins(c))

(***************************************************************************)
(* The inductive invariant behind the safety properties                    *)
(***************************************************************************)
Born(c) == local[c].life # "unborn"

\* What a thread remembers of a card: a revision the card has or had, and the
\* present one if the version it would save over is still the present one.
Fresh(s) ==
    /\ Born(s.card)
    /\ s.rev \in 1..local[s.card].rev
    /\ Alive(s.card) => /\ s.ver <= local[s.card].ver
                        /\ s.ver = local[s.card].ver => s.rev = local[s.card].rev

CardInv ==
    \A c \in Cards : /\ Born(c) => local[c].rev >= 1
                     /\ ~Born(c) => applied[c] = {}
                     /\ local[c].life = "deleted" =>
                          local[c].ver = 0 /\ local[c].status = "PENDING"

JobOK(j) ==
    /\ j.pc # "idle" => j.card \in Cards /\ Born(j.card)
    /\ j.pc \in {"put", "save"} => Fresh(j)
    /\ j.pc = "save" /\ j.ok => j.rev \in applied[j.card]
    /\ j.pc = "delete" => local[j.card].life = "deleted"

JobInv == \A t \in Threads : JobOK(job[t])

BatchInv == \A s \in batch : Fresh(s)

QueuedOK(q) == Born(q.card) /\ (q.op = "delete" => local[q.card].life = "deleted")

QueueInv == \A i \in 1..Len(queue) : QueuedOK(queue[i])

\* A DELETE is sent only for a card that is gone; a PUT carries a revision of
\* the card.
RequestOK(r) ==
    /\ Born(r.card)
    /\ r.op = "PUT" => r.rev \in 1..local[r.card].rev
    /\ r.op = "DELETE" => local[r.card].life = "deleted"

RequestInv == \A r \in requests : RequestOK(r)

\* The thread that waits for a reply waits for the reply to this request.
WaitOK(r, j) ==
    /\ j.card = r.card
    /\ r.op = "PUT" => j.pc = "put" /\ j.rev = r.rev
    /\ r.op = "DELETE" => j.pc = "delete"

WaitInv ==
    /\ \A r \in requests : r.cut = 0 => WaitOK(r, job[r.thread])
    /\ \A r1, r2 \in requests :
         r1.cut = 0 /\ r2.cut = 0 /\ r1.thread = r2.thread => r1 = r2

\* _id is a key, and an entity found under an _id is of the request's card.
DocInv ==
    /\ nextDoc >= 1
    /\ \A d \in remote : d.id \in 1..(nextDoc - 1)
    /\ \A d1, d2 \in remote : d1.id = d2.id => d1 = d2
    /\ \A r \in requests : /\ r.doc < nextDoc
                           /\ \A d \in remote : d.id = r.doc => d.card = r.card

\* The conjunction that every step preserves.
IndInv ==
    /\ TypeOK
    /\ CardInv /\ JobInv /\ BatchInv /\ QueueInv /\ RequestInv /\ WaitInv /\ DocInv
    /\ SyncedWasStored /\ LiveCardKeepsCopy

(***************************************************************************)
(* What the documents say and the code does not keep                       *)
(***************************************************************************)
Quiet(c) ==
    /\ \A r \in requests : r.card # c
    /\ \A t \in Threads : job[t].card # c
    /\ \A i \in DOMAIN queue : queue[i].card # c

\* "Remote RemoteCard is updated (upsert on cardId)": one document per card.
OneRemoteDoc == \A c \in Cards : ~HasTwins(c)

\* A SYNCED card nobody is working on: the remote holds what the API shows.
SyncedMeansEqual ==
    \A c \in Cards : Quiet(c) /\ Alive(c) /\ local[c].status = "SYNCED"
                       => \A d \in DocsOf(c) : d.rev = local[c].rev

\* "Delete card -> verify removed from remote".
DeletedIsGone ==
    \A c \in Cards : Quiet(c) /\ local[c].life = "deleted" => DocsOf(c) = {}
=============================================================================
