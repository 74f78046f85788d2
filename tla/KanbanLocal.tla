----------------------------- MODULE KanbanLocal -----------------------------
(***************************************************************************)
(* kanban-local: CardService (the API's create, update and delete) and     *)
(* SyncService (syncAsync, syncDeleteAsync, syncPending, pushCard).        *)
(*                                                                         *)
(* A save and the @Async call after it are one step: a delay between them  *)
(* is a delay of the queued job.                                           *)
(***************************************************************************)
EXTENDS KanbanData

PushJob(c) == [op |-> "push", card |-> c]
DeleteJob(c) == [op |-> "delete", card |-> c]

(***************************************************************************)
(* CardRepository                                                          *)
(***************************************************************************)

\* A save that upserts: it does not need the document to exist.
UpsertMatches(c, ver) == local[c].life # "unborn"
\* A save without @Version.
UnversionedMatches(c, ver) == Alive(c)
\* Spring Data's optimistic lock: a save of an entity read at version ver
\* replaces the document with that _id and version, or throws.
VersionMatches(c, ver) == Alive(c) /\ local[c].ver = ver

\* syncPending asks only for PENDING cards.
OnlyPending == {"PENDING"}
Retryable == {"PENDING", "FAILED"}

\* An entity as findById or findBySyncStatusIn(PENDING, FAILED) reads it now.
\* MaxVersion bounds the retries of a card whose pushes fail for ever.
SnapshotOf(c) == [card |-> c, rev |-> local[c].rev, ver |-> local[c].ver]
Unsynced == {c \in Cards : /\ Alive(c) /\ local[c].status \in Retryable
                           /\ local[c].ver < MaxVersion}

(***************************************************************************)
(* CardService                                                             *)
(***************************************************************************)
Create(c) ==
    /\ local[c].life = "unborn"
    /\ Len(queue) < MaxQueue
    /\ local' = [local EXCEPT ![c] =
                   [life |-> "alive", rev |-> 1, ver |-> 0, status |-> "PENDING"]]
    /\ queue' = Append(queue, PushJob(c))
    /\ UNCHANGED <<editors, batch, job, requests, faults, remoteVars>>

\* update up to findById; an unknown id throws and changes nothing.
UpdateLoad(e, c) ==
    /\ editors[e] = NoEdit
    /\ Alive(c)
    /\ local[c].rev < MaxRev
    /\ editors' = [editors EXCEPT ![e] = [card |-> c, ver |-> local[c].ver]]
    /\ UNCHANGED <<local, queue, batch, job, requests, faults, remoteVars>>

\* The rest of update: save throws if the card changed or vanished meanwhile.
UpdateSave(e) ==
    LET c == editors[e].card
    IN  /\ c # NoCard
        /\ VersionMatches(c, editors[e].ver)
        /\ Len(queue) < MaxQueue
        /\ local' = [local EXCEPT ![c] =
                       [life |-> "alive", rev |-> @.rev + 1, ver |-> @.ver + 1,
                        status |-> "PENDING"]]
        /\ queue' = Append(queue, PushJob(c))
        /\ editors' = [editors EXCEPT ![e] = NoEdit]
        /\ UNCHANGED <<batch, job, requests, faults, remoteVars>>

UpdateConflict(e) ==
    /\ editors[e] # NoEdit
    /\ ~VersionMatches(editors[e].card, editors[e].ver)
    /\ editors' = [editors EXCEPT ![e] = NoEdit]
    /\ UNCHANGED <<local, queue, batch, job, requests, faults, remoteVars>>

\* The order the other way round: the remote's copy is deleted first.
DeleteRemoteOnly(c) ==
    /\ local[c].life # "unborn"
    /\ Len(queue) < MaxQueue
    /\ queue' = Append(queue, DeleteJob(c))
    /\ UNCHANGED <<local, editors, batch, job, requests, faults, remoteVars>>

\* A soft delete that marks the document.
DeleteSoft(c) ==
    /\ local[c].life # "unborn"
    /\ Len(queue) < MaxQueue
    /\ local' = [local EXCEPT ![c].ver = 0, ![c].status = "DELETED"]
    /\ queue' = Append(queue, DeleteJob(c))
    /\ UNCHANGED <<editors, batch, job, requests, faults, remoteVars>>

\* deleteById has no version check and accepts an id that is already gone.
Delete(c) ==
    /\ local[c].life # "unborn"
    /\ Len(queue) < MaxQueue
    /\ local' = [local EXCEPT ![c] = [life |-> "deleted", rev |-> @.rev, ver |-> 0,
                                      status |-> "PENDING"]]
    /\ queue' = Append(queue, DeleteJob(c))
    /\ UNCHANGED <<editors, batch, job, requests, faults, remoteVars>>

(***************************************************************************)
(* SyncService                                                             *)
(***************************************************************************)

\* pushCard up to the PUT, on an entity read earlier.
Push(t, s) ==
    /\ job' = [job EXCEPT ![t] = [pc |-> "put", card |-> s.card, rev |-> s.rev,
                                  ver |-> s.ver, ok |-> FALSE]]
    /\ Call(t, "PUT", s.card, s.rev)

\* A worker takes the next job. syncDeleteAsync is its DELETE call.
Take(w) ==
    /\ job[w].pc = "idle"
    /\ queue # <<>>
    /\ queue' = Tail(queue)
    /\ LET j == Head(queue)
       IN \/ /\ j.op = "push"
             /\ job' = [job EXCEPT ![w] = [Idle EXCEPT !.pc = "load", !.card = j.card]]
             /\ UNCHANGED requests
          \/ /\ j.op = "delete"
             /\ job' = [job EXCEPT ![w] = [Idle EXCEPT !.pc = "delete", !.card = j.card]]
             /\ Call(w, "DELETE", j.card, 0)
    /\ UNCHANGED <<local, editors, batch, faults, remoteVars>>

\* syncAsync: findById(cardId).ifPresent(this::pushCard).
Load(w) ==
    /\ job[w].pc = "load"
    /\ \/ /\ Alive(job[w].card)
          /\ Push(w, SnapshotOf(job[w].card))
       \/ /\ ~Alive(job[w].card)
          /\ job' = [job EXCEPT ![w] = Idle]
          /\ UNCHANGED requests
    /\ UNCHANGED <<localVars, faults, remoteVars>>

\* A scheduled round reads every unsynced card at once...
SyncPending ==
    /\ SyncEnabled
    /\ job[Scheduler].pc = "idle" /\ batch = {}
    /\ Unsynced # {}
    /\ batch' = {SnapshotOf(c) : c \in Unsynced}
    /\ UNCHANGED <<local, editors, queue, job, requests, faults, remoteVars>>

\* ... and pushes the snapshots one after another.
PushNext ==
    /\ job[Scheduler].pc = "idle"
    /\ \E s \in batch : Push(Scheduler, s) /\ batch' = batch \ {s}
    /\ UNCHANGED <<local, editors, queue, faults, remoteVars>>

\* The exception cancels the periodic task, as a bare ScheduledExecutorService
\* would: the thread never comes back.
CancelAfterConflict(t) == IF t = Scheduler THEN [Idle EXCEPT !.pc = "delete"] ELSE Idle
\* Spring logs an exception of an @Async or @Scheduled method; the thread
\* goes on with the next job or round.
AfterConflict(t) == Idle

\* The end of pushCard: save the snapshot with its new status. It is outside
\* the try: a version conflict leaves the card alone, and ends the round that
\* called pushCard.
Save(t) ==
    LET j == job[t] IN
    /\ j.pc = "save"
    /\ \/ /\ VersionMatches(j.card, j.ver)
          /\ local' = [local EXCEPT ![j.card] =
                         [life |-> "alive", rev |-> j.rev, ver |-> j.ver + 1,
                          status |-> IF j.ok THEN "SYNCED" ELSE "FAILED"]]
          /\ job' = [job EXCEPT ![t] = Idle]
          /\ UNCHANGED batch
       \/ /\ ~VersionMatches(j.card, j.ver)
          /\ batch' = IF t = Scheduler THEN {} ELSE batch
          /\ job' = [job EXCEPT ![t] = AfterConflict(t)]
          /\ UNCHANGED local
    /\ UNCHANGED <<editors, queue, requests, faults, remoteVars>>
=============================================================================
