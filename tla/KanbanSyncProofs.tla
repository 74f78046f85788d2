--------------------------- MODULE KanbanSyncProofs ---------------------------
(***************************************************************************)
(* Proofs about KanbanSync, for any sets of cards, editors and workers and *)
(* any bounds: IndInv is inductive, so the safety properties hold, and     *)
(* every step implements a step of CardSyncContract.                       *)
(***************************************************************************)
EXTENDS KanbanSync, SequenceTheorems, TLAPS

\* What every step does to every card: it is born once and dies once, its
\* revision never goes back, and only a step that raises its version can
\* change its revision.
CardsAdvance ==
    \A c \in Cards : Born(c) =>
      /\ Born(c)'
      /\ local[c].rev <= local'[c].rev
      /\ local[c].life = "deleted" => local'[c] = local[c]
      /\ Alive(c)' => /\ local[c].ver <= local'[c].ver
                      /\ local[c].ver = local'[c].ver => local'[c].rev = local[c].rev

\* The history of what the remote stored only grows.
AppliedGrows == \A c \in Cards : applied[c] \subseteq applied'[c]

-----------------------------------------------------------------------------
(***************************************************************************)
(* What threads, queue and requests know of a card survives its advance.   *)
(***************************************************************************)

\* A snapshot that was Fresh before a step is Fresh after it.
LEMMA FreshAdvances ==
    ASSUME TypeOK, TypeOK', CardsAdvance, NEW s, s.card \in Cards,
           s.rev \in Nat, s.ver \in Nat, Fresh(s)
    PROVE  /\ local'[s.card].life # "unborn"
           /\ s.rev \in 1..local'[s.card].rev
           /\ local'[s.card].life = "alive" =>
                /\ s.ver <= local'[s.card].ver
                /\ s.ver = local'[s.card].ver => s.rev = local'[s.card].rev
BY DEF TypeOK, LocalCard, CardsAdvance, Born, Fresh, Alive

\* What a thread that does not move knows of its card stays true.
LEMMA JobAdvances ==
    ASSUME TypeOK, TypeOK', CardsAdvance, AppliedGrows,
           NEW t \in Threads, job'[t] = job[t], JobOK(job[t])
    PROVE  JobOK(job[t])'
<1>1. job[t] \in Job
  BY DEF TypeOK
<1>2. CASE job[t].pc = "idle"
  BY <1>2 DEF JobOK
<1>3. CASE job[t].pc # "idle"
  <2>1. job[t].card \in Cards /\ Born(job[t].card)
    BY <1>3 DEF JobOK
  <2>2. Born(job[t].card)'
    BY <2>1 DEF CardsAdvance
  <2>3. job[t].pc \in {"put", "save"} => Fresh(job[t])'
    BY <1>1, <2>1, FreshAdvances DEF JobOK, Job, Fresh, Born, Alive
  <2>4. job[t].pc = "save" /\ job[t].ok => job[t].rev \in applied'[job[t].card]
    BY <2>1 DEF JobOK, AppliedGrows
  <2>5. job[t].pc = "delete" => local'[job[t].card].life = "deleted"
    BY <2>1 DEF JobOK, CardsAdvance
  <2> QED
    BY <2>1, <2>2, <2>3, <2>4, <2>5 DEF JobOK
<1> QED
  BY <1>2, <1>3

\* The snapshots a round has yet to push stay Fresh.
LEMMA BatchAdvances ==
    ASSUME TypeOK, TypeOK', CardsAdvance, BatchInv, batch' \subseteq batch
    PROVE  BatchInv'
BY FreshAdvances DEF BatchInv, TypeOK, Snapshot, Fresh, Born, Alive

\* A queued job stays about a card that exists, a queued delete about one that
\* is gone.
LEMMA QueueAdvances ==
    ASSUME TypeOK, CardsAdvance, NEW q, q.card \in Cards, QueuedOK(q)
    PROVE  /\ local'[q.card].life # "unborn"
           /\ q.op = "delete" => local'[q.card].life = "deleted"
BY DEF CardsAdvance, QueuedOK, Born

\* A request under way stays one for a revision its card has or had.
LEMMA RequestAdvances ==
    ASSUME TypeOK, TypeOK', CardsAdvance, NEW r \in Request, RequestOK(r)
    PROVE  RequestOK(r)'
BY DEF TypeOK, LocalCard, CardsAdvance, RequestOK, Born, Request

\* A step that leaves the cards and the history alone advances trivially.
LEMMA SameCards ==
    ASSUME TypeOK, UNCHANGED <<local, applied>>
    PROVE  CardsAdvance /\ AppliedGrows
BY DEF TypeOK, LocalCard, CardsAdvance, AppliedGrows, Born, Alive

\* The queue keeps its invariant in a step that does not touch it.
LEMMA SameQueue ==
    ASSUME TypeOK, CardsAdvance, QueueInv, queue' = queue
    PROVE  QueueInv'
<1>1. \A i \in 1..Len(queue) : queue[i].card \in Cards
  <2>1. \A i \in 1..Len(queue) : queue[i] \in [op : {"push", "delete"}, card : Cards]
    BY ElementOfSeq DEF TypeOK
  <2> QED
    BY <2>1
<1>2. \A i \in 1..Len(queue) : QueuedOK(queue[i])'
  BY <1>1, QueueAdvances DEF QueueInv, QueuedOK, Born
<1> QED
  BY <1>2 DEF QueueInv

\* The queue keeps its invariant when a job is added that satisfies it.
LEMMA QueueGrows ==
    ASSUME TypeOK, CardsAdvance, QueueInv,
           NEW q \in [op : {"push", "delete"}, card : Cards], queue' = Append(queue, q),
           local'[q.card].life # "unborn",
           q.op = "delete" => local'[q.card].life = "deleted"
    PROVE  QueueInv'
<1>1. queue \in Seq([op : {"push", "delete"}, card : Cards]) /\ Len(queue) \in Nat
  BY LenProperties DEF TypeOK
<1>2. /\ Len(queue') = Len(queue) + 1 /\ queue'[Len(queue) + 1] = q
      /\ \A i \in 1..Len(queue) : queue'[i] = queue[i]
  BY <1>1, AppendProperties
<1>3. \A i \in 1..Len(queue) : /\ local'[queue[i].card].life # "unborn"
                               /\ queue[i].op = "delete" => local'[queue[i].card].life = "deleted"
  <2>1. \A i \in 1..Len(queue) : queue[i].card \in Cards
    <3>1. \A i \in 1..Len(queue) : queue[i] \in [op : {"push", "delete"}, card : Cards]
      BY <1>1, ElementOfSeq
    <3> QED
      BY <3>1
  <2> QED
    BY <2>1, QueueAdvances DEF QueueInv
<1>4. ASSUME NEW i \in 1..Len(queue')
      PROVE  /\ local'[queue'[i].card].life # "unborn"
             /\ queue'[i].op = "delete" => local'[queue'[i].card].life = "deleted"
  <2>1. CASE i \in 1..Len(queue)
    BY <1>2, <1>3, <2>1
  <2>2. CASE i = Len(queue) + 1
    BY <1>2, <2>2
  <2> QED
    BY <1>1, <1>2, <2>1, <2>2
<1> QED
  BY <1>4 DEF QueueInv, QueuedOK, Born

\* The threads keep their invariant in a step that moves none of them.
LEMMA SameJobs ==
    ASSUME TypeOK, TypeOK', CardsAdvance, AppliedGrows, JobInv, job' = job
    PROVE  JobInv'
BY JobAdvances DEF JobInv

\* The requests keep their invariant in a step that sends none.
LEMMA FewerRequests ==
    ASSUME TypeOK, TypeOK', CardsAdvance, RequestInv, requests' \subseteq requests
    PROVE  RequestInv'
BY RequestAdvances DEF RequestInv, TypeOK

\* If one thread moves, it is enough to look at that thread.
LEMMA OneJobChanges ==
    ASSUME TypeOK, TypeOK', CardsAdvance, AppliedGrows, JobInv, NEW w \in Threads,
           \A t \in Threads \ {w} : job'[t] = job[t],
           JobOK(job[w])'
    PROVE  JobInv'
BY JobAdvances DEF JobInv

\* A thread that calls the remote had no request out, and now has this one.
LEMMA CallWaits ==
    ASSUME TypeOK, WaitInv, NEW t \in Threads, job[t].pc \in {"idle", "load"},
           NEW op \in {"PUT", "DELETE"}, NEW c \in Cards, NEW n \in Nat, Call(t, op, c, n),
           NEW j, j.pc = IF op = "PUT" THEN "put" ELSE "delete", j.card = c, j.rev = n,
           job' = [job EXCEPT ![t] = j]
    PROVE  WaitInv'
<1> DEFINE new == [thread |-> t, cut |-> 0, op |-> op, card |-> c, rev |-> n,
                   phase |-> "sent", doc |-> 0, ver |-> 0]
<1>1. requests' = requests \cup {new}
  BY DEF Call
<1>2. \A r \in requests : r.cut = 0 => r.thread # t
  BY DEF WaitInv, WaitOK, TypeOK, Request
<1>3. \A r \in requests : r.cut = 0 => WaitOK(r, job'[r.thread])
  BY <1>2 DEF WaitInv, TypeOK, Request
<1>4. WaitOK(new, job'[t])
  BY DEF WaitOK, TypeOK
<1> QED
  BY <1>1, <1>2, <1>3, <1>4 DEF WaitInv, WaitOK

\* pushCard's call, from whichever thread, on a snapshot that is Fresh.
LEMMA PushPreserves ==
    ASSUME IndInv, NEW t \in Threads, job[t].pc \in {"idle", "load"},
           NEW s \in Snapshot, Fresh(s), Push(t, s), batch' \subseteq batch,
           UNCHANGED <<local, editors, queue, faults, remote, nextDoc, applied>>
    PROVE  IndInv' /\ CardsAdvance
<1> USE DEF IndInv
<1>1. TypeOK'
  BY DEF TypeOK, Push, Call, Snapshot, Job, Request
<1>2. CardsAdvance /\ AppliedGrows
  BY SameCards
<1>3. JobOK(job[t])'
  BY DEF Push, JobOK, Fresh, Born, Alive, TypeOK, Snapshot
<1>4. JobInv' /\ BatchInv' /\ QueueInv'
  <2>1. \A u \in Threads \ {t} : job'[u] = job[u]
    BY DEF Push, TypeOK
  <2> QED
    BY <1>1, <1>2, <1>3, <2>1, OneJobChanges, BatchAdvances, SameQueue
<1>5. RequestInv'
  BY <1>1, <1>2, RequestAdvances
     DEF RequestInv, Push, Call, RequestOK, Fresh, Born, TypeOK, Snapshot
<1>6. WaitInv'
  BY CallWaits DEF Push, Snapshot
<1>7. CardInv' /\ SyncedWasStored' /\ LiveCardKeepsCopy'
  BY DEF CardInv, Born, SyncedWasStored, LiveCardKeepsCopy, Alive, DocsOf
<1>8. DocInv'
  <2>1. nextDoc \in Nat /\ requests \subseteq Request
    BY DEF TypeOK
  <2>2. \A r \in requests' : r \in requests \/ r.doc = 0
    BY DEF Push, Call
  <2> QED
    BY <2>1, <2>2 DEF DocInv, TypeOK, RemoteDoc
<1> QED
  BY <1>1, <1>2, <1>4, <1>5, <1>6, <1>7, <1>8

\* The end of a thread that only waited or held work of its own.
LEMMA NotWaiting ==
    ASSUME TypeOK, WaitInv, NEW t \in Threads, job[t].pc \in {"idle", "load", "save"}
    PROVE  \A r \in requests : r.cut = 0 => r.thread # t
BY DEF WaitInv, WaitOK, TypeOK, Request

\* A reply leaves requests and threads well typed.
LEMMA AnswerTypes ==
    ASSUME TypeOK, NEW r \in requests, NEW ok \in BOOLEAN, Answer(r, ok)
    PROVE  requests' \in SUBSET Request /\ job' \in [Threads -> Job]
<1>1. r \in Request /\ requests' \in SUBSET Request
  BY DEF TypeOK, Answer
<1>2. r.thread \in Threads /\ job \in [Threads -> Job]
  BY <1>1 DEF Request, TypeOK
<1>3. \A j \in Job : Resume(j, ok) \in Job
  BY DEF Resume, Job, Idle
<1> QED
  BY <1>1, <1>2, <1>3 DEF Answer

\* A reply is for the thread that waits for it, and changes only that thread;
\* a successful PUT finds its revision among those applied.
LEMMA AnswerResumes ==
    ASSUME TypeOK, TypeOK', CardsAdvance, AppliedGrows, JobInv, RequestInv, WaitInv,
           NEW r \in requests, NEW ok \in BOOLEAN, Answer(r, ok),
           ok /\ r.op = "PUT" => r.rev \in applied'[r.card]
    PROVE  JobInv' /\ RequestInv' /\ WaitInv'
<1>1. r \in Request /\ requests' = requests \ {r}
  BY DEF Answer, TypeOK
<1>2. RequestInv'
  BY <1>1, FewerRequests
<1>3. CASE r.cut # 0
  <2>1. job' = job
    BY <1>3 DEF Answer
  <2>2. JobInv'
    BY <2>1, SameJobs
  <2>3. WaitInv'
    BY <1>1, <2>1 DEF WaitInv, WaitOK
  <2> QED
    BY <1>2, <2>2, <2>3
<1>4. CASE r.cut = 0
  <2> DEFINE t == r.thread
  <2>1. t \in Threads /\ WaitOK(r, job[t]) /\ JobOK(job[t]) /\ job[t] \in Job
    BY <1>1, <1>4 DEF WaitInv, JobInv, TypeOK, Request
  <2>2. job' = [job EXCEPT ![t] = Resume(job[t], ok)]
    BY <1>4 DEF Answer
  <2> HIDE DEF t
  <2>3. \A u \in Threads \ {t} : job'[u] = job[u]
    BY <2>2 DEF TypeOK
  <2>4. JobOK(job[t])'
    <3>1. CASE r.op = "PUT"
      <4>1. /\ job'[t].pc = "save" /\ job'[t].ok = ok /\ job'[t].card = job[t].card
            /\ job'[t].rev = job[t].rev /\ job'[t].ver = job[t].ver
        BY <2>1, <2>2, <3>1 DEF Resume, WaitOK, Job, TypeOK
      <4>2. Fresh(job[t]) /\ job[t].card \in Cards
        BY <2>1, <3>1 DEF WaitOK, JobOK
      <4>3. Fresh(job[t])'
        BY <2>1, <4>1, <4>2, FreshAdvances DEF Fresh, Born, Alive, Job
      <4> QED
        BY <2>1, <3>1, <4>1, <4>2, <4>3 DEF JobOK, WaitOK, Fresh, Born
    <3>2. CASE r.op = "DELETE"
      BY <2>1, <2>2, <3>2 DEF Resume, WaitOK, Idle, JobOK, TypeOK
    <3> QED
      BY <1>1, <3>1, <3>2 DEF Request
  <2>5. JobInv'
    BY <2>1, <2>3, <2>4, OneJobChanges
  <2>6. \A x \in requests \ {r} : x.cut = 0 => x.thread # t
    BY <1>4 DEF WaitInv, t
  <2>7. \A x \in requests' : x.cut = 0 => job'[x.thread] = job[x.thread]
    BY <1>1, <2>3, <2>6 DEF TypeOK, Request
  <2>8. WaitInv'
    BY <1>1, <2>7 DEF WaitInv, WaitOK
  <2> QED
    BY <1>2, <2>5, <2>8
<1> QED
  BY <1>3, <1>4

-----------------------------------------------------------------------------
(***************************************************************************)
(* One lemma per action                                                    *)
(***************************************************************************)

\* CardService.create keeps the invariant.
LEMMA CreatePreserves ==
    ASSUME IndInv, NEW c \in Cards, Create(c)
    PROVE  IndInv' /\ CardsAdvance
<1> USE DEF IndInv, Create, localVars, remoteVars
<1>1. TypeOK'
  BY DEF TypeOK, LocalCard, Statuses, PushJob
<1>2. CardsAdvance /\ AppliedGrows
  BY DEF TypeOK, LocalCard, CardsAdvance, AppliedGrows, Born, Alive
<1>3. CardInv'
  BY DEF TypeOK, LocalCard, CardInv, Born
<1>4. JobInv' /\ BatchInv' /\ RequestInv'
  BY <1>1, <1>2, SameJobs, BatchAdvances, FewerRequests
<1>5. QueueInv'
  BY <1>1, <1>2, QueueAdvances DEF TypeOK, LocalCard, QueueInv, QueuedOK, Born, PushJob
<1>6. WaitInv' /\ DocInv'
  BY DEF WaitInv, WaitOK, DocInv
<1>7. SyncedWasStored' /\ LiveCardKeepsCopy'
  BY DEF TypeOK, LocalCard, SyncedWasStored, LiveCardKeepsCopy, CardInv, Born, Alive, DocsOf
<1> QED
  BY <1>1, <1>2, <1>3, <1>4, <1>5, <1>6, <1>7

\* CardService.update up to findById keeps the invariant.
LEMMA UpdateLoadPreserves ==
    ASSUME IndInv, NEW e \in Editors, NEW c \in Cards, UpdateLoad(e, c)
    PROVE  IndInv' /\ CardsAdvance
<1> USE DEF IndInv, UpdateLoad, localVars, remoteVars
<1>1. TypeOK'
  BY DEF TypeOK, LocalCard, EditorState, NoEdit
<1>2. CardsAdvance /\ AppliedGrows
  BY SameCards
<1>3. JobInv' /\ BatchInv' /\ QueueInv' /\ RequestInv'
  BY <1>1, <1>2, SameJobs, BatchAdvances, SameQueue, FewerRequests
<1>4. CardInv' /\ WaitInv' /\ DocInv'
  BY DEF CardInv, Born, WaitInv, WaitOK, DocInv
<1>5. SyncedWasStored' /\ LiveCardKeepsCopy'
  BY DEF SyncedWasStored, LiveCardKeepsCopy, Alive, DocsOf
<1> QED
  BY <1>1, <1>2, <1>3, <1>4, <1>5

\* A successful save of CardService.update keeps the invariant: every snapshot
\* of the card is outdated by its version.
LEMMA UpdateSavePreserves ==
    ASSUME IndInv, NEW e \in Editors, UpdateSave(e)
    PROVE  IndInv' /\ CardsAdvance
<1> DEFINE c == editors[e].card
<1> USE DEF IndInv, UpdateSave, VersionMatches, localVars, remoteVars
<1>1. c \in Cards /\ Alive(c) /\ local[c] \in LocalCard
  BY DEF TypeOK, EditorState
<1>2. local' = [local EXCEPT ![c] = [life |-> "alive", rev |-> local[c].rev + 1,
                               ver |-> local[c].ver + 1, status |-> "PENDING"]]
  OBVIOUS
<1>3. queue' = Append(queue, PushJob(c)) /\ editors' = [editors EXCEPT ![e] = NoEdit]
  OBVIOUS
<1>4. UNCHANGED <<batch, job, requests, faults, remote, nextDoc, applied>>
  OBVIOUS
<1> HIDE DEF UpdateSave, c
<1>5. TypeOK'
  BY <1>1, <1>2, <1>3, <1>4 DEF TypeOK, LocalCard, Statuses, PushJob, EditorState, NoEdit
<1>6. CardsAdvance /\ AppliedGrows
  BY <1>1, <1>2, <1>4 DEF TypeOK, LocalCard, CardsAdvance, AppliedGrows, Born, Alive
<1>7. CardInv'
  BY <1>1, <1>2, <1>4 DEF TypeOK, LocalCard, CardInv, Born
<1>8. JobInv' /\ BatchInv' /\ RequestInv'
  BY <1>4, <1>5, <1>6, SameJobs, BatchAdvances, FewerRequests
<1>9. QueueInv'
  <2>1. PushJob(c) \in [op : {"push", "delete"}, card : Cards]
    BY <1>1 DEF PushJob
  <2>2. /\ local'[PushJob(c).card].life # "unborn"
        /\ PushJob(c).op = "push"
    BY <1>1, <1>2 DEF TypeOK, PushJob
  <2> QED
    BY <1>3, <1>6, <2>1, <2>2, QueueGrows
<1>10. WaitInv' /\ DocInv'
  BY <1>4 DEF WaitInv, WaitOK, DocInv
<1>11. SyncedWasStored' /\ LiveCardKeepsCopy'
  BY <1>1, <1>2, <1>4 DEF TypeOK, LocalCard, SyncedWasStored, LiveCardKeepsCopy, Alive, DocsOf
<1> QED
  BY <1>5, <1>6, <1>7, <1>8, <1>9, <1>10, <1>11

\* A save of CardService.update that throws keeps the invariant.
LEMMA UpdateConflictPreserves ==
    ASSUME IndInv, NEW e \in Editors, UpdateConflict(e)
    PROVE  IndInv' /\ CardsAdvance
<1> USE DEF IndInv, UpdateConflict, localVars, remoteVars
<1>1. TypeOK'
  BY DEF TypeOK, EditorState, NoEdit
<1>2. CardsAdvance /\ AppliedGrows
  BY SameCards
<1>3. JobInv' /\ BatchInv' /\ QueueInv' /\ RequestInv'
  BY <1>1, <1>2, SameJobs, BatchAdvances, SameQueue, FewerRequests
<1>4. CardInv' /\ WaitInv' /\ DocInv'
  BY DEF CardInv, Born, WaitInv, WaitOK, DocInv
<1>5. SyncedWasStored' /\ LiveCardKeepsCopy'
  BY DEF SyncedWasStored, LiveCardKeepsCopy, Alive, DocsOf
<1> QED
  BY <1>1, <1>2, <1>3, <1>4, <1>5

\* CardService.delete keeps the invariant: no snapshot of the card can be saved.
LEMMA DeletePreserves ==
    ASSUME IndInv, NEW c \in Cards, Delete(c)
    PROVE  IndInv' /\ CardsAdvance
<1> USE DEF IndInv, Delete, localVars, remoteVars
<1>1. local' = [local EXCEPT ![c] = [life |-> "deleted", rev |-> local[c].rev,
                               ver |-> 0, status |-> "PENDING"]]
  OBVIOUS
<1>2. queue' = Append(queue, DeleteJob(c))
  OBVIOUS
<1>3. UNCHANGED <<editors, batch, job, requests, faults, remote, nextDoc, applied>>
  OBVIOUS
<1>4. Born(c) /\ (local[c].life = "deleted" => local[c].ver = 0 /\ local[c].status = "PENDING")
  BY DEF Born, CardInv
<1> HIDE DEF Delete
<1>5. TypeOK'
  BY <1>1, <1>2, <1>3 DEF TypeOK, LocalCard, Statuses, DeleteJob
<1>6. CardsAdvance /\ AppliedGrows
  BY <1>1, <1>3, <1>4 DEF TypeOK, LocalCard, CardsAdvance, AppliedGrows, Born, Alive
<1>7. CardInv'
  BY <1>1, <1>3, <1>4 DEF TypeOK, LocalCard, CardInv, Born
<1>8. JobInv' /\ BatchInv' /\ RequestInv'
  BY <1>3, <1>5, <1>6, SameJobs, BatchAdvances, FewerRequests
<1>9. QueueInv'
  <2>1. DeleteJob(c) \in [op : {"push", "delete"}, card : Cards]
    BY DEF DeleteJob
  <2>2. local'[DeleteJob(c).card].life = "deleted"
    BY <1>1 DEF TypeOK, DeleteJob
  <2> QED
    BY <1>2, <1>6, <2>1, <2>2, QueueGrows
<1>10. WaitInv' /\ DocInv'
  BY <1>3 DEF WaitInv, WaitOK, DocInv
<1>11. SyncedWasStored' /\ LiveCardKeepsCopy'
  BY <1>1, <1>3 DEF TypeOK, LocalCard, SyncedWasStored, LiveCardKeepsCopy, Alive, DocsOf
<1> QED
  BY <1>5, <1>6, <1>7, <1>8, <1>9, <1>10, <1>11

\* A worker that takes a job keeps the invariant; a DELETE goes out only for a
\* card that is gone.
LEMMA TakePreserves ==
    ASSUME IndInv, NEW w \in Workers, Take(w)
    PROVE  IndInv' /\ CardsAdvance
<1> DEFINE q == Head(queue)
<1> USE DEF IndInv, localVars, remoteVars
<1>1. w \in Threads /\ job[w].pc = "idle" /\ queue # <<>> /\ queue' = Tail(queue)
  BY DEF Take, Threads
<1>2. UNCHANGED <<local, editors, batch, faults, remote, nextDoc, applied>>
  BY DEF Take
<1>3. queue \in Seq([op : {"push", "delete"}, card : Cards])
  BY DEF TypeOK
<1>4. /\ Len(queue) \in Nat /\ 1 \in 1..Len(queue) /\ q = queue[1]
      /\ queue' \in Seq([op : {"push", "delete"}, card : Cards])
      /\ Len(queue') = Len(queue) - 1
      /\ \A i \in 1..Len(queue') : queue'[i] = queue[i + 1]
  <2>1. Len(queue) \in Nat /\ Len(queue) # 0
    BY <1>1, <1>3, EmptySeq, LenProperties
  <2>2. q = queue[1]
    BY <1>1, <1>3
  <2> QED
    BY <1>1, <1>3, <2>1, <2>2, HeadTailProperties
<1>5. q \in [op : {"push", "delete"}, card : Cards] /\ QueuedOK(q)
  <2>1. queue[1] \in [op : {"push", "delete"}, card : Cards]
    BY <1>3, <1>4, ElementOfSeq
  <2> QED
    BY <1>4, <2>1 DEF QueueInv
<1> HIDE DEF q
<1>6. CardsAdvance /\ AppliedGrows
  BY <1>2, SameCards
<1>7. QueueInv'
  BY <1>2, <1>4 DEF QueueInv, QueuedOK, Born
<1>8. /\ CardInv' /\ SyncedWasStored' /\ LiveCardKeepsCopy'
      /\ BatchInv'
  BY <1>2 DEF CardInv, Born, SyncedWasStored, LiveCardKeepsCopy, Alive, DocsOf, BatchInv, Fresh
<1>9. CASE q.op = "push"
  <2>1. /\ requests' = requests
        /\ job' = [job EXCEPT ![w] = [pc |-> "load", card |-> q.card, rev |-> 0,
                                     ver |-> 0, ok |-> FALSE]]
    BY <1>9 DEF Take, Idle, q
  <2>2. TypeOK'
    BY <1>1, <1>2, <1>4, <1>5, <2>1 DEF TypeOK, Job
  <2>3. JobOK(job[w])'
    BY <1>1, <1>2, <1>5, <2>1 DEF JobOK, QueuedOK, Born, TypeOK
  <2>4. JobInv'
    BY <1>1, <1>6, <2>1, <2>2, <2>3, OneJobChanges DEF TypeOK
  <2>5. RequestInv' /\ DocInv'
    BY <1>2, <2>1 DEF RequestInv, RequestOK, Born, DocInv
  <2>6. \A r \in requests : r.cut = 0 => r.thread # w
    BY <1>1 DEF WaitInv, WaitOK, TypeOK, Request
  <2>7. WaitInv'
    BY <2>1, <2>6 DEF WaitInv, WaitOK, TypeOK, Request
  <2> QED
    BY <1>6, <1>7, <1>8, <2>2, <2>4, <2>5, <2>7
<1>10. CASE q.op = "delete"
  <2>1. /\ Call(w, "DELETE", q.card, 0)
        /\ job' = [job EXCEPT ![w] = [pc |-> "delete", card |-> q.card, rev |-> 0,
                                     ver |-> 0, ok |-> FALSE]]
    BY <1>10 DEF Take, Idle, q
  <2>2. TypeOK'
    BY <1>1, <1>2, <1>4, <1>5, <2>1 DEF TypeOK, Job, Call, Request
  <2>3. JobOK(job[w])'
    BY <1>1, <1>2, <1>5, <1>10, <2>1 DEF JobOK, QueuedOK, Born, TypeOK
  <2>4. JobInv'
    BY <1>1, <1>6, <2>1, <2>2, <2>3, OneJobChanges DEF TypeOK
  <2>5. RequestInv'
    <3>1. RequestOK([thread |-> w, cut |-> 0, op |-> "DELETE", card |-> q.card, rev |-> 0,
                     phase |-> "sent", doc |-> 0, ver |-> 0])
      BY <1>5, <1>10 DEF RequestOK, QueuedOK, Born
    <3> QED
      BY <1>2, <2>1, <3>1 DEF RequestInv, RequestOK, Born, Call
  <2>6. DocInv'
    <3>1. nextDoc \in Nat
      BY DEF TypeOK
    <3>2. \A r \in requests' : r \in requests \/ r.doc = 0
      BY <2>1 DEF Call
    <3> QED
      BY <1>2, <3>1, <3>2 DEF DocInv, TypeOK, RemoteDoc
  <2>7. WaitInv'
    BY <1>1, <1>5, <2>1, CallWaits
  <2> QED
    BY <1>6, <1>7, <1>8, <2>2, <2>4, <2>5, <2>6, <2>7
<1> QED
  BY <1>5, <1>9, <1>10

\* SyncService.syncAsync keeps the invariant: what it reads is Fresh.
LEMMA LoadPreserves ==
    ASSUME IndInv, NEW w \in Workers, Load(w)
    PROVE  IndInv' /\ CardsAdvance
<1> USE DEF IndInv
<1>1. w \in Threads /\ job[w].pc = "load"
  BY DEF Load, Threads
<1>2. UNCHANGED <<local, editors, queue, batch, faults, remote, nextDoc, applied>>
  BY DEF Load, localVars, remoteVars
<1>3. job[w].card \in Cards /\ Born(job[w].card)
  BY <1>1 DEF JobInv, JobOK
<1>4. CASE Alive(job[w].card)
  <2> DEFINE s == SnapshotOf(job[w].card)
  <2>1. s \in Snapshot /\ Fresh(s)
    BY <1>3, <1>4 DEF SnapshotOf, Snapshot, Fresh, TypeOK, LocalCard, CardInv, Alive, Born
  <2>2. Push(w, s)
    BY <1>4 DEF Load
  <2> HIDE DEF s
  <2> QED
    BY <1>1, <1>2, <2>1, <2>2, PushPreserves
<1>5. CASE ~Alive(job[w].card)
  <2>1. job' = [job EXCEPT ![w] = Idle] /\ requests' = requests
    BY <1>5 DEF Load
  <2>2. TypeOK'
    BY <1>2, <2>1 DEF TypeOK, Job, Idle
  <2>3. CardsAdvance /\ AppliedGrows
    BY <1>2, SameCards
  <2>4. JobOK(job[w])'
    BY <1>1, <2>1 DEF JobOK, Idle, TypeOK
  <2>5. JobInv'
    BY <1>1, <2>1, <2>2, <2>3, <2>4, OneJobChanges DEF TypeOK
  <2>6. BatchInv' /\ QueueInv' /\ RequestInv'
    BY <1>2, <2>1, <2>2, <2>3, BatchAdvances, SameQueue, FewerRequests
  <2>7. \A r \in requests : r.cut = 0 => r.thread # w
    BY <1>1 DEF WaitInv, WaitOK, TypeOK, Request
  <2>8. WaitInv'
    BY <2>1, <2>7 DEF WaitInv, WaitOK, TypeOK, Request
  <2>9. CardInv' /\ SyncedWasStored' /\ LiveCardKeepsCopy' /\ DocInv'
    BY <1>2, <2>1 DEF CardInv, Born, SyncedWasStored, LiveCardKeepsCopy, Alive, DocsOf, DocInv
  <2> QED
    BY <2>2, <2>3, <2>5, <2>6, <2>8, <2>9
<1> QED
  BY <1>4, <1>5

\* The scheduled query keeps the invariant: what it reads is Fresh.
LEMMA SyncPendingPreserves ==
    ASSUME IndInv, SyncPending
    PROVE  IndInv' /\ CardsAdvance
<1> USE DEF IndInv, SyncPending, remoteVars
<1>1. \A c \in Unsynced : SnapshotOf(c) \in Snapshot /\ Fresh(SnapshotOf(c))
  BY DEF Unsynced, SnapshotOf, Snapshot, Fresh, TypeOK, LocalCard, CardInv, Alive, Born
<1>2. TypeOK'
  BY <1>1 DEF TypeOK
<1>3. CardsAdvance /\ AppliedGrows
  BY SameCards
<1>4. JobInv' /\ QueueInv' /\ RequestInv'
  BY <1>2, <1>3, SameJobs, SameQueue, FewerRequests
<1>5. BatchInv'
  BY <1>1 DEF BatchInv, Fresh, Born, Alive
<1>6. CardInv' /\ SyncedWasStored' /\ LiveCardKeepsCopy' /\ WaitInv' /\ DocInv'
  BY DEF CardInv, Born, SyncedWasStored, LiveCardKeepsCopy, Alive, DocsOf, WaitInv, WaitOK, DocInv
<1> QED
  BY <1>2, <1>3, <1>4, <1>5, <1>6

\* The next push of a scheduled round keeps the invariant.
LEMMA PushNextPreserves ==
    ASSUME IndInv, PushNext
    PROVE  IndInv' /\ CardsAdvance
<1>1. PICK s \in batch : Push(Scheduler, s) /\ batch' = batch \ {s}
  BY DEF PushNext
<1>2. s \in Snapshot /\ Fresh(s)
  BY DEF IndInv, TypeOK, BatchInv
<1>3. Scheduler \in Threads /\ job[Scheduler].pc = "idle"
  BY DEF Threads, PushNext
<1>4. UNCHANGED <<local, editors, queue, faults, remote, nextDoc, applied>>
  BY DEF PushNext, remoteVars
<1> QED
  BY <1>1, <1>2, <1>3, <1>4, PushPreserves

\* The save at the end of pushCard keeps the invariant: over the version it read
\* lies the revision it pushed.
LEMMA SavePreserves ==
    ASSUME IndInv, NEW t \in Threads, Save(t)
    PROVE  IndInv' /\ CardsAdvance
<1> DEFINE j == job[t]
<1> USE DEF IndInv
<1>1. j.pc = "save" /\ j \in Job /\ JobOK(j) /\ job' = [job EXCEPT ![t] = Idle]
  BY DEF Save, TypeOK, JobInv, AfterConflict
<1>2. UNCHANGED <<editors, queue, requests, faults, remote, nextDoc, applied>>
  BY DEF Save, remoteVars
<1>3. j.card \in Cards /\ Fresh(j) /\ (j.ok => j.rev \in applied[j.card])
  BY <1>1 DEF JobOK
<1>4. batch' \subseteq batch
  BY DEF Save
<1>5. /\ TypeOK' /\ CardsAdvance /\ CardInv'
      /\ SyncedWasStored' /\ LiveCardKeepsCopy'
  <2>1. CASE VersionMatches(j.card, j.ver)
    <3>1. local' = [local EXCEPT ![j.card] =
                      [life |-> "alive", rev |-> j.rev, ver |-> j.ver + 1,
                       status |-> IF j.ok THEN "SYNCED" ELSE "FAILED"]]
      BY <2>1 DEF Save
    <3>2. /\ Alive(j.card) /\ local[j.card].ver = j.ver
          /\ local[j.card].rev = j.rev
      BY <1>3, <2>1 DEF VersionMatches, Fresh
    <3> HIDE DEF j
    <3>3. TypeOK'
      <4>1. local' \in [Cards -> LocalCard]
        BY <1>1, <1>3, <3>1 DEF TypeOK, LocalCard, Statuses, Job
      <4>2. job' \in [Threads -> Job]
        BY <1>1, <1>2, <3>1 DEF TypeOK, Job, Idle
      <4> QED
        BY <1>2, <1>4, <4>1, <4>2 DEF TypeOK
    <3>4. CardsAdvance
      BY <1>1, <1>3, <3>1, <3>2 DEF TypeOK, LocalCard, CardsAdvance, Born, Alive, Job
    <3>5. CardInv'
      BY <1>2, <1>3, <3>1, <3>2 DEF TypeOK, LocalCard, CardInv, Born, Alive
    <3>6. SyncedWasStored'
      BY <1>2, <1>3, <3>1, <3>2 DEF TypeOK, LocalCard, SyncedWasStored, Alive
    <3>7. LiveCardKeepsCopy'
      BY <1>2, <1>3, <3>1, <3>2 DEF TypeOK, LocalCard, LiveCardKeepsCopy, Alive, DocsOf
    <3> QED
      BY <3>3, <3>4, <3>5, <3>6, <3>7
  <2>2. CASE ~VersionMatches(j.card, j.ver)
    <3>1. local' = local
      BY <2>2 DEF Save
    <3>2. TypeOK'
      BY <1>1, <1>2, <1>4, <3>1 DEF TypeOK, Job, Idle
    <3>3. CardsAdvance
      BY <1>2, <3>1, SameCards
    <3> QED
      BY <1>2, <3>1, <3>2, <3>3
         DEF CardInv, Born, SyncedWasStored, LiveCardKeepsCopy, Alive, DocsOf
  <2> QED
    BY <2>1, <2>2
<1>6. AppliedGrows
  BY <1>2 DEF AppliedGrows
<1>7. JobOK(job[t])'
  BY <1>1 DEF JobOK, Idle, TypeOK
<1>8. JobInv'
  BY <1>1, <1>5, <1>6, <1>7, OneJobChanges DEF TypeOK
<1>9. BatchInv' /\ QueueInv' /\ RequestInv'
  BY <1>2, <1>4, <1>5, BatchAdvances, SameQueue, FewerRequests
<1>10. WaitInv'
  BY <1>1, <1>2, NotWaiting DEF WaitInv, WaitOK, TypeOK, Request
<1>11. DocInv'
  BY <1>2 DEF DocInv
<1> QED
  BY <1>5, <1>8, <1>9, <1>10, <1>11

\* findByCardId in either handler keeps the invariant.
LEMMA FindPreserves ==
    ASSUME IndInv, NEW r \in requests, Find(r)
    PROVE  IndInv' /\ CardsAdvance
<1> USE DEF IndInv
<1>1. UNCHANGED <<local, editors, queue, batch, faults, remote, nextDoc, applied>>
  BY DEF Find, localVars, remoteVars
<1>2. CardsAdvance /\ AppliedGrows
  BY <1>1, SameCards
<1>3. CardInv' /\ SyncedWasStored' /\ LiveCardKeepsCopy' /\ BatchInv' /\ QueueInv'
  BY <1>1 DEF CardInv, Born, SyncedWasStored, LiveCardKeepsCopy, Alive, DocsOf,
              BatchInv, Fresh, QueueInv, QueuedOK
<1>4. ASSUME NEW ok \in BOOLEAN, Answer(r, ok), ok => r.op = "DELETE"
      PROVE  IndInv'
  <2>1. TypeOK'
    BY <1>1, <1>4, AnswerTypes DEF TypeOK
  <2>2. JobInv' /\ RequestInv' /\ WaitInv'
    BY <1>2, <1>4, <2>1, AnswerResumes
  <2>3. DocInv'
    BY <1>1, <1>4 DEF DocInv, Answer
  <2> QED
    BY <1>3, <2>1, <2>2, <2>3
<1>5. ASSUME NEW n \in Nat, NEW v \in Nat, n < nextDoc,
             \A d \in remote : d.id = n => d.card = r.card,
             requests' = (requests \ {r}) \cup
                           {[r EXCEPT !.phase = "found", !.doc = n, !.ver = v]},
             job' = job
      PROVE  IndInv'
  <2> DEFINE new == [r EXCEPT !.phase = "found", !.doc = n, !.ver = v]
  <2>1. r \in Request
    BY DEF TypeOK
  <2>2. /\ new \in Request /\ new.doc = n /\ new.thread = r.thread /\ new.cut = r.cut
        /\ new.op = r.op /\ new.card = r.card /\ new.rev = r.rev
    BY <2>1 DEF Request
  <2>3. requests' = (requests \ {r}) \cup {new}
    BY <1>5
  <2> HIDE DEF new
  <2>4. TypeOK'
    BY <1>1, <1>5, <2>2, <2>3 DEF TypeOK
  <2>5. JobInv'
    BY <1>2, <1>5, <2>4, SameJobs
  <2>6. RequestInv'
    BY <1>1, <2>2, <2>3 DEF RequestInv, RequestOK, Born
  <2>7. WaitInv'
    BY <1>5, <2>2, <2>3 DEF WaitInv, WaitOK
  <2>8. DocInv'
    BY <1>1, <1>5, <2>2, <2>3 DEF DocInv
  <2> QED
    BY <1>3, <2>4, <2>5, <2>6, <2>7, <2>8
<1>6. CASE Answer(r, FALSE)
  BY <1>2, <1>4, <1>6
<1>7. CASE r.op = "DELETE" /\ Answer(r, TRUE)
  BY <1>2, <1>4, <1>7
<1>8. CASE /\ requests' = (requests \ {r}) \cup
                             {[r EXCEPT !.phase = "found", !.doc = 0, !.ver = 0]}
           /\ job' = job
  <2>1. 0 < nextDoc /\ \A d \in remote : d.id # 0
    BY DEF DocInv, TypeOK
  <2> QED
    BY <1>2, <1>5, <1>8, <2>1
<1>9. ASSUME NEW d \in DocsOf(r.card), job' = job,
             requests' = (requests \ {r}) \cup
                           {[r EXCEPT !.phase = "found", !.doc = d.id, !.ver = d.ver]}
      PROVE  IndInv'
  <2>1. d \in remote /\ d.card = r.card /\ d \in RemoteDoc /\ nextDoc \in Nat
    BY DEF DocsOf, TypeOK
  <2>2. d.id \in Nat /\ d.ver \in Nat /\ d.id < nextDoc
    BY <2>1 DEF RemoteDoc, DocInv
  <2>3. \A x \in remote : x.id = d.id => x.card = r.card
    BY <2>1 DEF DocInv
  <2> QED
    BY <1>5, <1>9, <2>2, <2>3
<1> QED
  BY <1>2, <1>6, <1>7, <1>8, <1>9 DEF Find

\* A save of a new entity at the remote keeps the invariant: its _id is new.
LEMMA InsertPreserves ==
    ASSUME IndInv, NEW r \in requests, Insert(r)
    PROVE  IndInv' /\ CardsAdvance
<1> DEFINE new == [id |-> nextDoc, card |-> r.card, rev |-> r.rev, ver |-> 0]
<1> USE DEF IndInv
<1>1. r \in Request /\ RequestOK(r) /\ r.op = "PUT" /\ nextDoc \in Nat
  BY DEF Insert, TypeOK, RequestInv
<1>2. UNCHANGED <<local, editors, queue, batch, faults>>
  BY DEF Insert, localVars
<1>3. /\ remote' = remote \cup {new} /\ nextDoc' = nextDoc + 1
      /\ applied' = [applied EXCEPT ![r.card] = @ \cup {r.rev}]
      /\ Answer(r, TRUE)
  BY DEF Insert
<1>4. new \in RemoteDoc /\ new.id = nextDoc /\ new.card = r.card
  BY <1>1 DEF RemoteDoc, Request
<1> HIDE DEF new
<1>5. TypeOK'
  <2>1. requests' \in SUBSET Request /\ job' \in [Threads -> Job]
    BY <1>3, AnswerTypes
  <2>2. applied' \in [Cards -> SUBSET Nat]
    BY <1>1, <1>3 DEF TypeOK, Request
  <2> QED
    BY <1>1, <1>2, <1>3, <1>4, <2>1, <2>2 DEF TypeOK
<1>6. CardsAdvance
  BY <1>2 DEF CardsAdvance, TypeOK, LocalCard, Born, Alive
<1>7. AppliedGrows /\ r.rev \in applied'[r.card]
  BY <1>1, <1>3 DEF AppliedGrows, TypeOK, Request
<1>8. JobInv' /\ RequestInv' /\ WaitInv'
  BY <1>3, <1>5, <1>6, <1>7, AnswerResumes
<1>9. CardInv' /\ BatchInv' /\ QueueInv'
  BY <1>1, <1>2, <1>3 DEF CardInv, Born, BatchInv, Fresh, Alive, QueueInv, QueuedOK,
                          RequestOK, TypeOK
<1>10. DocInv'
  <2>1. requests' \subseteq requests
    BY <1>3 DEF Answer
  <2>2. nextDoc' \in Nat /\ nextDoc' >= 1 /\ nextDoc' = nextDoc + 1
    BY <1>1, <1>3
  <2>3. \A d \in remote' : d.id \in 1..(nextDoc' - 1)
    BY <1>1, <1>3, <1>4, <2>2 DEF DocInv, TypeOK, RemoteDoc
  <2>4. \A d1, d2 \in remote' : d1.id = d2.id => d1 = d2
    BY <1>1, <1>3, <1>4 DEF DocInv, TypeOK, RemoteDoc
  <2>5. ASSUME NEW x \in requests' PROVE x.doc < nextDoc'
    BY <1>1, <2>1, <2>2 DEF DocInv, TypeOK, Request
  <2>6. ASSUME NEW x \in requests', NEW d \in remote', d.id = x.doc PROVE d.card = x.card
    <3>1. x \in requests /\ x.doc < nextDoc /\ x.doc \in Nat
      BY <2>1 DEF DocInv, TypeOK, Request
    <3>2. d # new
      BY <1>1, <1>4, <2>6, <3>1
    <3> QED
      BY <1>3, <2>6, <3>1, <3>2 DEF DocInv
  <2> QED
    BY <2>2, <2>3, <2>4, <2>5, <2>6 DEF DocInv
<1>11. SyncedWasStored'
  BY <1>1, <1>2, <1>3, <1>7 DEF SyncedWasStored, Alive, AppliedGrows
<1>12. LiveCardKeepsCopy'
  BY <1>1, <1>2, <1>3, <1>4 DEF LiveCardKeepsCopy, Alive, DocsOf, TypeOK, Request
<1> QED
  BY <1>5, <1>6, <1>8, <1>9, <1>10, <1>11, <1>12

\* A save over a found entity: the matched document keeps its _id and card.
LEMMA ReplacePreserves ==
    ASSUME IndInv, NEW r \in requests, Replace(r)
    PROVE  IndInv' /\ CardsAdvance
<1> USE DEF IndInv
<1>1. r \in Request /\ RequestOK(r) /\ r.op = "PUT" /\ nextDoc \in Nat
  BY DEF Replace, TypeOK, RequestInv
<1>2. UNCHANGED <<local, editors, queue, batch, faults, nextDoc>>
  BY DEF Replace, localVars
<1>3. CardsAdvance
  BY <1>2 DEF CardsAdvance, TypeOK, LocalCard, Born, Alive
<1>4. CASE Matching(r) = {} /\ Answer(r, FALSE) /\ UNCHANGED <<remote, applied>>
  <2>1. TypeOK'
    BY <1>2, <1>4, AnswerTypes DEF TypeOK
  <2>2. AppliedGrows
    BY <1>4 DEF AppliedGrows
  <2>3. JobInv' /\ RequestInv' /\ WaitInv'
    BY <1>3, <1>4, <2>1, <2>2, AnswerResumes
  <2>4. CardInv' /\ BatchInv' /\ QueueInv' /\ SyncedWasStored' /\ LiveCardKeepsCopy'
    BY <1>2, <1>4 DEF CardInv, Born, BatchInv, Fresh, Alive, QueueInv, QueuedOK,
                      SyncedWasStored, LiveCardKeepsCopy, DocsOf
  <2>5. DocInv'
    BY <1>2, <1>4 DEF DocInv, Answer
  <2> QED
    BY <1>3, <2>1, <2>3, <2>4, <2>5
<1>5. ASSUME NEW d \in Matching(r), Answer(r, TRUE),
             remote' = (remote \ {d}) \cup
               {[id |-> d.id, card |-> d.card, rev |-> r.rev, ver |-> d.ver + 1]},
             applied' = [applied EXCEPT ![r.card] = @ \cup {r.rev}]
      PROVE  IndInv'
  <2> DEFINE new == [id |-> d.id, card |-> d.card, rev |-> r.rev, ver |-> d.ver + 1]
  <2>1. d \in remote /\ d \in RemoteDoc
    BY DEF Matching, TypeOK
  <2>2. new \in RemoteDoc /\ new.id = d.id /\ new.card = d.card
    BY <1>1, <2>1 DEF RemoteDoc, Request
  <2>3. remote' = (remote \ {d}) \cup {new}
    BY <1>5
  <2> HIDE DEF new
  <2>4. TypeOK'
    <3>1. requests' \in SUBSET Request /\ job' \in [Threads -> Job]
      BY <1>5, AnswerTypes
    <3>2. applied' \in [Cards -> SUBSET Nat]
      BY <1>1, <1>5 DEF TypeOK, Request
    <3> QED
      BY <1>1, <1>2, <2>2, <2>3, <3>1, <3>2 DEF TypeOK
  <2>5. AppliedGrows /\ r.rev \in applied'[r.card]
    BY <1>1, <1>5 DEF AppliedGrows, TypeOK, Request
  <2>6. JobInv' /\ RequestInv' /\ WaitInv'
    BY <1>3, <1>5, <2>4, <2>5, AnswerResumes
  <2>7. CardInv' /\ BatchInv' /\ QueueInv'
    BY <1>1, <1>2, <1>5 DEF CardInv, Born, BatchInv, Fresh, Alive, QueueInv, QueuedOK,
                            RequestOK, TypeOK
  <2>8. DocInv'
    <3>1. requests' \subseteq requests
      BY <1>5 DEF Answer
    <3> QED
      BY <1>2, <2>1, <2>2, <2>3, <3>1 DEF DocInv
  <2>9. SyncedWasStored'
    BY <1>2, <2>5 DEF SyncedWasStored, Alive, AppliedGrows
  <2>10. LiveCardKeepsCopy'
    <3>1. d.card = r.card
      BY <2>1 DEF Matching, DocInv
    <3>2. \A c \in Cards : applied'[c] # {} => applied[c] # {} \/ c = r.card
      BY <1>1, <1>5 DEF TypeOK
    <3>3. \A c \in Cards : DocsOf(c) # {} => DocsOf(c)' # {}
      BY <2>2, <2>3 DEF DocsOf
    <3>4. DocsOf(r.card)' # {}
      BY <2>2, <2>3, <3>1 DEF DocsOf
    <3> QED
      BY <1>2, <3>2, <3>3, <3>4 DEF LiveCardKeepsCopy, Alive
  <2> QED
    BY <2>4, <2>6, <2>7, <2>8, <2>9, <2>10
<1> QED
  BY <1>3, <1>4, <1>5 DEF Replace

\* SyncController.deleteCard keeps the invariant: the card is gone by then.
LEMMA RemovePreserves ==
    ASSUME IndInv, NEW r \in requests, Remove(r)
    PROVE  IndInv' /\ CardsAdvance
<1> USE DEF IndInv
<1>1. r \in Request /\ RequestOK(r) /\ r.op = "DELETE" /\ local[r.card].life = "deleted"
  BY DEF Remove, TypeOK, RequestInv, RequestOK
<1>2. UNCHANGED <<local, editors, queue, batch, faults, nextDoc, applied>>
  BY DEF Remove, localVars
<1>3. remote' = remote \ Matching(r) /\ Answer(r, Matching(r) # {})
  BY DEF Remove
<1>4. CardsAdvance /\ AppliedGrows
  BY <1>2, SameCards
<1>5. TypeOK'
  BY <1>2, <1>3, AnswerTypes DEF TypeOK
<1>6. JobInv' /\ RequestInv' /\ WaitInv'
  BY <1>1, <1>3, <1>4, <1>5, AnswerResumes
<1>7. CardInv' /\ BatchInv' /\ QueueInv' /\ SyncedWasStored'
  BY <1>2 DEF CardInv, Born, BatchInv, Fresh, Alive, QueueInv, QueuedOK, SyncedWasStored
<1>8. DocInv'
  BY <1>2, <1>3 DEF DocInv, Answer
<1>9. LiveCardKeepsCopy'
  <2>1. \A d \in Matching(r) : d.card = r.card
    BY DEF Matching, DocInv
  <2>2. \A c \in Cards : Alive(c) => DocsOf(c)' = DocsOf(c)
    BY <1>1, <1>3, <2>1 DEF DocsOf, Alive
  <2> QED
    BY <1>2, <2>2 DEF LiveCardKeepsCopy, Alive
<1> QED
  BY <1>4, <1>5, <1>6, <1>7, <1>8, <1>9

\* Requests a fault cuts loose keep everything but the thread that waits.
LEMMA SeverKeeps ==
    ASSUME IndInv, NEW T \in SUBSET Threads, Sever(T)
    PROVE  /\ faults' = faults + 1 /\ requests' \in SUBSET Request
           /\ \A x \in requests' : \E r \in requests :
                /\ x.op = r.op /\ x.card = r.card /\ x.rev = r.rev /\ x.doc = r.doc
                /\ x.thread = r.thread
                /\ x.cut = 0 => x = r /\ r.thread \notin T
<1> DEFINE live == {r \in requests : r.cut = 0 /\ r.thread \in T}
<1>1. requests \subseteq Request /\ faults \in Nat
  BY DEF IndInv, TypeOK
<1>2. PICK lost \in SUBSET live :
         requests' = (requests \ live) \cup {[r EXCEPT !.cut = faults + 1] : r \in live \ lost}
  BY DEF Sever
<1>3. ASSUME NEW x \in requests'
      PROVE  /\ x \in Request
             /\ \E r \in requests :
                  /\ x.op = r.op /\ x.card = r.card /\ x.rev = r.rev /\ x.doc = r.doc
                  /\ x.thread = r.thread
                  /\ x.cut = 0 => x = r /\ r.thread \notin T
  <2>1. CASE x \in requests \ live
    BY <1>1, <2>1
  <2>2. ASSUME NEW r \in live, x = [r EXCEPT !.cut = faults + 1]
        PROVE  /\ x \in Request /\ r \in requests /\ x.cut # 0
               /\ x.op = r.op /\ x.card = r.card /\ x.rev = r.rev /\ x.doc = r.doc
               /\ x.thread = r.thread
    BY <1>1, <2>2 DEF Request
  <2> QED
    BY <1>2, <2>1, <2>2
<1> QED
  BY <1>3 DEF Sever

\* A call that throws keeps the invariant.
LEMMA ConnectionLostPreserves ==
    ASSUME IndInv, NEW t \in Threads, ConnectionLost(t)
    PROVE  IndInv' /\ CardsAdvance
<1> USE DEF IndInv
<1>1. /\ job[t].pc \in {"put", "delete"} /\ Sever({t})
      /\ job' = [job EXCEPT ![t] = Resume(job[t], FALSE)]
      /\ UNCHANGED <<local, editors, queue, batch, remote, nextDoc, applied>>
  BY DEF ConnectionLost, localVars, remoteVars
<1>2. job[t] \in Job /\ JobOK(job[t])
  BY DEF TypeOK, JobInv
<1>3. /\ faults' = faults + 1 /\ requests' \in SUBSET Request
      /\ \A x \in requests' : \E r \in requests :
           /\ x.op = r.op /\ x.card = r.card /\ x.rev = r.rev /\ x.doc = r.doc
           /\ x.thread = r.thread
           /\ x.cut = 0 => x = r /\ r.thread # t
  BY <1>1, SeverKeeps
<1>4. Resume(job[t], FALSE) \in Job
  BY <1>2 DEF Resume, Job, Idle
<1>5. TypeOK'
  <2>1. job' \in [Threads -> Job]
    BY <1>1, <1>4 DEF TypeOK
  <2>2. requests' \in SUBSET Request /\ faults' \in Nat
    BY <1>3 DEF TypeOK
  <2> QED
    BY <1>1, <2>1, <2>2 DEF TypeOK
<1>6. CardsAdvance /\ AppliedGrows
  BY <1>1, SameCards
<1>7. JobOK(job[t])'
  BY <1>1, <1>2 DEF JobOK, Resume, Idle, Fresh, Born, Alive, Job, TypeOK
<1>8. JobInv'
  BY <1>1, <1>5, <1>6, <1>7, OneJobChanges DEF TypeOK
<1>9. RequestInv'
  BY <1>1, <1>3 DEF RequestInv, RequestOK, Born
<1>10. WaitInv'
  <2>1. \A x \in requests' : x.cut = 0 => x \in requests /\ x.thread \in Threads \ {t}
    BY <1>3 DEF TypeOK, Request
  <2>2. \A u \in Threads \ {t} : job'[u] = job[u]
    BY <1>1 DEF TypeOK
  <2> QED
    BY <2>1, <2>2 DEF WaitInv, WaitOK
<1>11. DocInv'
  BY <1>1, <1>3 DEF DocInv
<1>12. CardInv' /\ BatchInv' /\ QueueInv' /\ SyncedWasStored' /\ LiveCardKeepsCopy'
  BY <1>1 DEF CardInv, Born, BatchInv, Fresh, Alive, QueueInv, QueuedOK,
              SyncedWasStored, LiveCardKeepsCopy, DocsOf
<1> QED
  BY <1>5, <1>6, <1>8, <1>9, <1>10, <1>11, <1>12

\* A crash and restart of kanban-local keeps the invariant.
LEMMA LocalCrashPreserves ==
    ASSUME IndInv, LocalCrash
    PROVE  IndInv' /\ CardsAdvance
<1> USE DEF IndInv
<1>1. /\ Sever(Threads) /\ queue' = <<>> /\ batch' = {}
      /\ editors' = [e \in Editors |-> NoEdit] /\ job' = [t \in Threads |-> Idle]
      /\ UNCHANGED <<local, remote, nextDoc, applied>>
  BY DEF LocalCrash, remoteVars
<1>2. /\ faults' = faults + 1 /\ requests' \in SUBSET Request
      /\ \A x \in requests' : \E r \in requests :
           /\ x.op = r.op /\ x.card = r.card /\ x.rev = r.rev /\ x.doc = r.doc
           /\ x.thread = r.thread
           /\ x.cut = 0 => x = r /\ r.thread \notin Threads
  BY <1>1, SeverKeeps
<1>3. \A x \in requests' : x.cut # 0
  BY <1>2 DEF Request
<1>4. TypeOK'
  BY <1>1, <1>2 DEF TypeOK, Job, Idle, EditorState, NoEdit
<1>5. CardsAdvance
  BY <1>1, SameCards
<1>6. JobInv' /\ BatchInv' /\ QueueInv' /\ WaitInv'
  BY <1>1, <1>3 DEF JobInv, JobOK, Idle, BatchInv, QueueInv, WaitInv
<1>7. RequestInv' /\ DocInv'
  BY <1>1, <1>2 DEF RequestInv, RequestOK, Born, DocInv
<1>8. CardInv' /\ SyncedWasStored' /\ LiveCardKeepsCopy'
  BY <1>1 DEF CardInv, Born, SyncedWasStored, LiveCardKeepsCopy, Alive, DocsOf
<1> QED
  BY <1>4, <1>5, <1>6, <1>7, <1>8

-----------------------------------------------------------------------------
(***************************************************************************)
(* The theorems                                                            *)
(***************************************************************************)

\* The invariant holds before the first card.
LEMMA InitEstablishes == Init => IndInv
<1> SUFFICES ASSUME Init PROVE IndInv
  OBVIOUS
<1> USE DEF Init
<1>1. TypeOK
  BY DEF TypeOK, LocalCard, Statuses, EditorState, NoEdit, Job, Idle
<1>2. CardInv /\ JobInv /\ BatchInv /\ QueueInv /\ RequestInv /\ WaitInv /\ DocInv
  BY DEF CardInv, Born, JobInv, JobOK, Idle, BatchInv, QueueInv, RequestInv, WaitInv, DocInv
<1>3. SyncedWasStored /\ LiveCardKeepsCopy
  BY DEF SyncedWasStored, LiveCardKeepsCopy, Alive
<1> QED
  BY <1>1, <1>2, <1>3 DEF IndInv

\* A step that changes nothing keeps the invariant.
LEMMA StutterPreserves ==
    ASSUME IndInv, UNCHANGED vars
    PROVE  IndInv' /\ CardsAdvance
<1> USE DEF IndInv, vars
<1>1. TypeOK' /\ CardsAdvance
  BY SameCards DEF TypeOK
<1>2. CardInv' /\ JobInv' /\ BatchInv' /\ QueueInv' /\ RequestInv' /\ WaitInv' /\ DocInv'
  BY DEF CardInv, Born, JobInv, JobOK, BatchInv, Fresh, Alive, QueueInv, QueuedOK,
         RequestInv, RequestOK, WaitInv, WaitOK, DocInv
<1>3. SyncedWasStored' /\ LiveCardKeepsCopy'
  BY DEF SyncedWasStored, LiveCardKeepsCopy, Alive, DocsOf
<1> QED
  BY <1>1, <1>2, <1>3

\* The invariant is inductive, and every card only advances.
LEMMA StepPreserves == IndInv /\ [Next]_vars => IndInv' /\ CardsAdvance
<1> SUFFICES ASSUME IndInv, [Next]_vars PROVE IndInv' /\ CardsAdvance
  OBVIOUS
<1>1. CASE Api
  BY <1>1, CreatePreserves, DeletePreserves, UpdateLoadPreserves, UpdateSavePreserves,
     UpdateConflictPreserves DEF Api
<1>2. CASE Sync
  BY <1>2, TakePreserves, LoadPreserves, SyncPendingPreserves, PushNextPreserves,
     SavePreserves DEF Sync
<1>3. CASE Fault
  BY <1>3, LocalCrashPreserves, ConnectionLostPreserves DEF Fault
<1>4. CASE \E r \in requests : Serve(r)
  BY <1>4, FindPreserves, InsertPreserves, ReplacePreserves, RemovePreserves DEF Serve
<1>5. CASE UNCHANGED vars
  BY <1>5, StutterPreserves
<1> QED
  BY <1>1, <1>2, <1>3, <1>4, <1>5 DEF Next

\* The inductive invariant holds in every reachable state.
THEOREM Invariant == Spec => []IndInv
<1>1. IndInv /\ [Next]_vars => IndInv'
  BY StepPreserves
<1> QED
  BY <1>1, InitEstablishes, PTL DEF Spec

\* Every variable keeps its type.
THEOREM TypeCorrect == Spec => []TypeOK
<1>1. IndInv => TypeOK
  BY DEF IndInv
<1> QED
  BY <1>1, Invariant, PTL

\* SyncService.pushCard marks a card SYNCED only if the revision the card has
\* by then is one the remote stored.
THEOREM SyncedCardsWereStored == Spec => []SyncedWasStored
<1>1. IndInv => SyncedWasStored
  BY DEF IndInv
<1> QED
  BY <1>1, Invariant, PTL

\* No DELETE, late or repeated, takes the last remote copy of a living card.
THEOREM LiveCardsKeepCopy == Spec => []LiveCardKeepsCopy
<1>1. IndInv => LiveCardKeepsCopy
  BY DEF IndInv
<1> QED
  BY <1>1, Invariant, PTL

\* The optimistic lock of cardRepository.save keeps a slow push from undoing
\* an edit made while it waited for the remote.
THEOREM EditsAreNotLost == Spec => NoLostEdit
<1>1. IndInv /\ [Next]_vars =>
        [\A c \in Cards : Alive(c) /\ Alive(c)' => local'[c].rev >= local[c].rev]_vars
  <2> SUFFICES ASSUME IndInv, [Next]_vars, NEW c \in Cards, Alive(c), Alive(c)'
               PROVE  local'[c].rev >= local[c].rev
    OBVIOUS
  <2>1. TypeOK /\ TypeOK' /\ CardsAdvance
    BY StepPreserves DEF IndInv
  <2> QED
    BY <2>1 DEF CardsAdvance, Born, Alive, TypeOK, LocalCard
<1> QED
  BY <1>1, Invariant, PTL DEF Spec, NoLostEdit

\* A push that was under way when its card was deleted does not restore it.
THEOREM DeletedStaysDeleted == Spec => NoResurrection
<1>1. IndInv /\ [Next]_vars =>
        [\A c \in Cards : local[c].life = "deleted" => local'[c] = local[c]]_vars
  <2> SUFFICES ASSUME IndInv, [Next]_vars, NEW c \in Cards, local[c].life = "deleted"
               PROVE  local'[c] = local[c]
    OBVIOUS
  <2>1. CardsAdvance
    BY StepPreserves
  <2> QED
    BY <2>1 DEF CardsAdvance, Born
<1> QED
  BY <1>1, Invariant, PTL DEF Spec, NoResurrection

-----------------------------------------------------------------------------
(***************************************************************************)
(* The system implements the contract                                      *)
(***************************************************************************)

\* A step that rewrites the document of one card is seen as a change of that
\* card alone.
LEMMA ShownChanges ==
    ASSUME TypeOK, NEW c \in Cards, NEW d \in LocalCard, local' = [local EXCEPT ![c] = d]
    PROVE  Shown' = [Shown EXCEPT ![c] =
                       [life |-> d.life, rev |-> d.rev, status |-> d.status]]
BY DEF Shown, TypeOK

\* A step that changes neither cards nor documents is invisible to the contract.
LEMMA SameView ==
    ASSUME UNCHANGED <<local, remote, applied>>
    PROVE  UNCHANGED Contract!vars
BY DEF Contract!vars, Shown, Copies, DocsOf

\* The copies the contract sees depend on the documents alone.
LEMMA SameCopies == ASSUME UNCHANGED remote PROVE Copies' = Copies
BY DEF Copies, DocsOf

\* CardService.create is the contract's Create.
LEMMA CreateImplements ==
    ASSUME IndInv, NEW c \in Cards, Create(c)
    PROVE  Contract!Create(c)
<1> DEFINE d == [life |-> "alive", rev |-> 1, ver |-> 0, status |-> "PENDING"]
<1>1. d \in LocalCard /\ local' = [local EXCEPT ![c] = d] /\ UNCHANGED <<remote, applied>>
  BY DEF Create, LocalCard, Statuses, remoteVars
<1>2. Shown' = [Shown EXCEPT ![c] = [life |-> "alive", rev |-> 1, status |-> "PENDING"]]
  BY <1>1, ShownChanges DEF IndInv
<1>3. Shown[c].life = "unborn"
  BY DEF Create, Shown
<1> QED
  BY <1>1, <1>2, <1>3, SameCopies DEF Contract!Create

\* A successful update is the contract's Edit.
LEMMA UpdateSaveImplements ==
    ASSUME IndInv, NEW e \in Editors, UpdateSave(e)
    PROVE  \E c \in Cards : Contract!Edit(c)
<1> DEFINE c == editors[e].card
           d == [life |-> "alive", rev |-> local[c].rev + 1,
                 ver |-> local[c].ver + 1, status |-> "PENDING"]
<1>1. c \in Cards /\ Alive(c) /\ local[c] \in LocalCard
  BY DEF UpdateSave, VersionMatches, IndInv, TypeOK, EditorState
<1>2. local' = [local EXCEPT ![c] = d] /\ UNCHANGED <<remote, applied>>
  BY DEF UpdateSave, remoteVars
<1>3. d \in LocalCard
  BY <1>1 DEF LocalCard, Statuses
<1>4. d.life = "alive" /\ d.rev = local[c].rev + 1 /\ d.status = "PENDING"
  OBVIOUS
<1> HIDE DEF c, d
<1>5. Shown' = [Shown EXCEPT ![c] = [life |-> "alive", rev |-> local[c].rev + 1,
                                    status |-> "PENDING"]]
  BY <1>1, <1>2, <1>3, <1>4, ShownChanges DEF IndInv
<1>6. Shown[c].life = "alive" /\ Shown[c].rev = local[c].rev
  BY <1>1 DEF Shown, Alive
<1>7. Contract!Edit(c)
  BY <1>2, <1>5, <1>6, SameCopies DEF Contract!Edit
<1> QED
  BY <1>1, <1>7

\* A delete is the contract's Delete, and the second one of a card is nothing.
LEMMA DeleteImplements ==
    ASSUME IndInv, NEW c \in Cards, Delete(c)
    PROVE  Contract!Delete(c) \/ UNCHANGED Contract!vars
<1> DEFINE d == [life |-> "deleted", rev |-> local[c].rev, ver |-> 0, status |-> "PENDING"]
<1>1. local[c] \in LocalCard /\ UNCHANGED <<remote, applied>>
  BY DEF Delete, remoteVars, IndInv, TypeOK
<1>2. d \in LocalCard /\ local' = [local EXCEPT ![c] = d]
  BY <1>1 DEF Delete, LocalCard, Statuses
<1>3. Shown' = [Shown EXCEPT ![c] = [life |-> "deleted", rev |-> local[c].rev,
                                    status |-> "PENDING"]]
  BY <1>2, ShownChanges DEF IndInv
<1>4. Shown[c].life = local[c].life /\ Shown[c].rev = local[c].rev
  BY DEF Shown
<1>5. CASE Alive(c)
  BY <1>1, <1>3, <1>4, <1>5, SameCopies DEF Contract!Delete, Alive
<1>6. CASE ~Alive(c)
  <2>1. CardsAdvance /\ local[c].life = "deleted"
    BY <1>1, <1>6, DeletePreserves DEF Delete, Alive, LocalCard
  <2>2. local'[c] = local[c]
    BY <2>1 DEF CardsAdvance, Born
  <2>3. local' = local
    BY <1>2, <2>2 DEF IndInv, TypeOK
  <2> QED
    BY <1>1, <2>3, SameView
<1> QED
  BY <1>5, <1>6

\* The save of pushCard is Acknowledge or Fail, or nothing on a conflict.
LEMMA SaveImplements ==
    ASSUME IndInv, NEW t \in Threads, Save(t)
    PROVE  \/ \E c \in Cards : Contract!Acknowledge(c) \/ Contract!Fail(c)
           \/ UNCHANGED Contract!vars
<1> DEFINE j == job[t]
           c == job[t].card
           d == [life |-> "alive", rev |-> j.rev, ver |-> j.ver + 1,
                 status |-> IF j.ok THEN "SYNCED" ELSE "FAILED"]
<1>1. /\ j.pc = "save" /\ j \in Job /\ JobOK(j) /\ c \in Cards /\ Fresh(j)
      /\ j.ok => j.rev \in applied[c]
  BY DEF Save, IndInv, TypeOK, JobInv, JobOK
<1>2. UNCHANGED <<remote, applied>>
  BY DEF Save, remoteVars
<1>3. CASE ~VersionMatches(j.card, j.ver)
  <2>1. local' = local
    BY <1>3 DEF Save
  <2> QED
    BY <1>2, <2>1, SameView
<1>4. CASE VersionMatches(j.card, j.ver)
  <2>1. Alive(c) /\ local[c].rev = j.rev
    BY <1>1, <1>4 DEF VersionMatches, Fresh
  <2>2. local' = [local EXCEPT ![c] = d]
    BY <1>4 DEF Save
  <2>3. /\ d \in LocalCard /\ d.life = "alive" /\ d.rev = j.rev
        /\ d.status = IF j.ok THEN "SYNCED" ELSE "FAILED"
    BY <1>1 DEF LocalCard, Statuses, Job
  <2> HIDE DEF d, c, j
  <2>4. Shown' = [Shown EXCEPT ![c] = [life |-> "alive", rev |-> j.rev,
                    status |-> IF j.ok THEN "SYNCED" ELSE "FAILED"]]
    <3>1. TypeOK
      BY DEF IndInv
    <3>2. Shown' = [Shown EXCEPT ![c] =
                      [life |-> d.life, rev |-> d.rev, status |-> d.status]]
      BY <1>1, <2>2, <2>3, <3>1, ShownChanges
    <3> QED
      BY <2>3, <3>2
  <2>5. Shown[c].life = "alive" /\ Shown[c].rev = j.rev
    BY <1>1, <2>1 DEF Shown, Alive
  <2>6. CASE j.ok
    BY <1>1, <1>2, <2>4, <2>5, <2>6, SameCopies DEF Contract!Acknowledge
  <2>7. CASE ~j.ok
    BY <1>1, <1>2, <2>4, <2>5, <2>7, SameCopies DEF Contract!Fail
  <2> QED
    BY <2>6, <2>7
<1> QED
  BY <1>3, <1>4

\* What the contract sees of the cards depends on the cards alone.
LEMMA SameShown == ASSUME UNCHANGED local PROVE Shown' = Shown
BY DEF Shown

\* A save of a new entity is the contract's Store, adding a copy.
LEMMA InsertImplements ==
    ASSUME IndInv, NEW r \in requests, Insert(r)
    PROVE  \E c \in Cards : Contract!Store(c)
<1> DEFINE c == r.card
           new == [id |-> nextDoc, card |-> c, rev |-> r.rev, ver |-> 0]
<1>1. c \in Cards /\ Born(c) /\ r.rev \in 1..local[c].rev
  BY DEF IndInv, TypeOK, Request, RequestInv, RequestOK, Insert
<1>2. /\ remote' = remote \cup {new} /\ UNCHANGED local
      /\ applied' = [applied EXCEPT ![c] = @ \cup {r.rev}]
      /\ new.card = c /\ new.rev = r.rev
  BY DEF Insert, localVars
<1> HIDE DEF new, c
<1>3. \A x \in Cards : Copies'[x] = IF x = c THEN Copies[x] \cup {r.rev} ELSE Copies[x]
  BY <1>2 DEF Copies, DocsOf
<1>4. Copies' = [Copies EXCEPT ![c] = @ \cup {r.rev}]
  BY <1>3 DEF Copies
<1>5. Shown[c].life = local[c].life /\ Shown[c].rev = local[c].rev /\ Shown' = Shown
  BY <1>1, <1>2, SameShown DEF Shown
<1>6. Contract!Store(c)
  BY <1>1, <1>2, <1>4, <1>5 DEF Contract!Store, Born
<1> QED
  BY <1>1, <1>6

\* A save over a found entity is the contract's Store, adding a copy or
\* replacing one, or nothing if the entity changed meanwhile.
LEMMA ReplaceImplements ==
    ASSUME IndInv, NEW r \in requests, Replace(r)
    PROVE  (\E c \in Cards : Contract!Store(c)) \/ UNCHANGED Contract!vars
<1> DEFINE c == r.card
<1>1. c \in Cards /\ Born(c) /\ r.rev \in 1..local[c].rev
  BY DEF IndInv, TypeOK, Request, RequestInv, RequestOK, Replace
<1>2. UNCHANGED local
  BY DEF Replace, localVars
<1>3. CASE UNCHANGED <<remote, applied>>
  BY <1>2, <1>3, SameView
<1>4. ASSUME NEW d \in Matching(r),
             remote' = (remote \ {d}) \cup
               {[id |-> d.id, card |-> d.card, rev |-> r.rev, ver |-> d.ver + 1]},
             applied' = [applied EXCEPT ![c] = @ \cup {r.rev}]
      PROVE  Contract!Store(c)
  <2> DEFINE new == [id |-> d.id, card |-> d.card, rev |-> r.rev, ver |-> d.ver + 1]
  <2>1. d \in remote /\ d.card = c
    BY DEF Matching, IndInv, DocInv
  <2>2. remote' = (remote \ {d}) \cup {new} /\ new.card = c /\ new.rev = r.rev
    BY <1>4, <2>1
  <2> HIDE DEF new, c
  <2>3. \A x \in Cards \ {c} : Copies'[x] = Copies[x]
    BY <2>1, <2>2 DEF Copies, DocsOf
  <2>4. d.rev \in Copies[c]
    BY <1>1, <2>1 DEF Copies, DocsOf
  <2>5. Copies'[c] = Copies[c] \cup {r.rev} \/ Copies'[c] = (Copies[c] \ {d.rev}) \cup {r.rev}
    <3>1. CASE \E x \in remote \ {d} : x.card = c /\ x.rev = d.rev
      <4>1. Copies'[c] = Copies[c] \cup {r.rev}
        BY <1>1, <2>1, <2>2, <3>1 DEF Copies, DocsOf
      <4> QED
        BY <4>1
    <3>2. CASE ~\E x \in remote \ {d} : x.card = c /\ x.rev = d.rev
      <4>1. Copies'[c] = (Copies[c] \ {d.rev}) \cup {r.rev}
        BY <1>1, <2>1, <2>2, <3>2 DEF Copies, DocsOf
      <4> QED
        BY <4>1
    <3> QED
      BY <3>1, <3>2
  <2>6. \/ Copies' = [Copies EXCEPT ![c] = @ \cup {r.rev}]
        \/ Copies' = [Copies EXCEPT ![c] = (@ \ {d.rev}) \cup {r.rev}]
    BY <2>3, <2>5 DEF Copies
  <2>7. Shown[c].life = local[c].life /\ Shown[c].rev = local[c].rev /\ Shown' = Shown
    BY <1>1, <1>2, SameShown DEF Shown
  <2> QED
    BY <1>1, <1>4, <2>4, <2>6, <2>7 DEF Contract!Store, Born
<1> QED
  BY <1>1, <1>3, <1>4 DEF Replace

\* deleteCard is the contract's Discard, or nothing the contract sees.
LEMMA RemoveImplements ==
    ASSUME IndInv, NEW r \in requests, Remove(r)
    PROVE  (\E c \in Cards : Contract!Discard(c)) \/ UNCHANGED Contract!vars
<1> DEFINE c == r.card
<1>1. c \in Cards /\ local[c].life = "deleted"
  BY DEF IndInv, TypeOK, Request, RequestInv, RequestOK, Remove
<1>2. remote' = remote \ Matching(r) /\ UNCHANGED <<local, applied>>
  BY DEF Remove, localVars
<1>3. CASE Matching(r) = {}
  <2>1. remote' = remote
    BY <1>2, <1>3
  <2> QED
    BY <1>2, <2>1, SameView
<1>4. ASSUME NEW d \in Matching(r)
      PROVE  Contract!Discard(c) \/ UNCHANGED Contract!vars
  <2>1. d \in remote /\ d.card = c /\ Matching(r) = {d}
    BY DEF Matching, IndInv, DocInv
  <2> HIDE DEF c
  <2>2. \A x \in Cards \ {c} : Copies'[x] = Copies[x]
    BY <1>2, <2>1 DEF Copies, DocsOf
  <2>3. d.rev \in Copies[c]
    BY <1>1, <2>1 DEF Copies, DocsOf
  <2>4. Shown[c].life = "deleted" /\ Shown' = Shown
    BY <1>1, <1>2, SameShown DEF Shown
  <2>5. CASE \E x \in remote \ {d} : x.card = c /\ x.rev = d.rev
    <3>1. Copies'[c] = Copies[c]
      BY <1>1, <1>2, <2>1, <2>5 DEF Copies, DocsOf
    <3>2. Copies' = Copies
      BY <2>2, <3>1 DEF Copies
    <3> QED
      BY <1>2, <2>4, <3>2 DEF Contract!vars
  <2>6. CASE ~\E x \in remote \ {d} : x.card = c /\ x.rev = d.rev
    <3>1. Copies'[c] = Copies[c] \ {d.rev}
      BY <1>1, <1>2, <2>1, <2>6 DEF Copies, DocsOf
    <3>2. Copies' = [Copies EXCEPT ![c] = @ \ {d.rev}]
      BY <2>2, <3>1 DEF Copies
    <3> QED
      BY <1>2, <2>3, <2>4, <3>2 DEF Contract!Discard
  <2> QED
    BY <2>5, <2>6
<1> QED
  BY <1>1, <1>3, <1>4

\* Every step of the system is a step of the contract, or one it cannot see.
LEMMA StepImplements == IndInv /\ [Next]_vars => [Contract!Next]_(Contract!vars)
<1> SUFFICES ASSUME IndInv, [Next]_vars PROVE [Contract!Next]_(Contract!vars)
  OBVIOUS
<1>1. CASE Api
  <2>1. ASSUME NEW e \in Editors, UpdateConflict(e) \/ \E c \in Cards : UpdateLoad(e, c)
        PROVE  UNCHANGED Contract!vars
    BY <2>1, SameView DEF UpdateConflict, UpdateLoad, remoteVars
  <2> QED
    BY <1>1, <2>1, CreateImplements, UpdateSaveImplements, DeleteImplements
       DEF Api, Contract!Next
<1>2. CASE Sync
  <2>1. ASSUME NEW w \in Workers, Take(w) \/ Load(w)
        PROVE  UNCHANGED Contract!vars
    BY <2>1, SameView DEF Take, Load, localVars, remoteVars
  <2>2. ASSUME SyncPending \/ PushNext
        PROVE  UNCHANGED Contract!vars
    BY <2>2, SameView DEF SyncPending, PushNext, remoteVars
  <2> QED
    BY <1>2, <2>1, <2>2, SaveImplements DEF Sync, Contract!Next
<1>3. CASE Fault
  BY <1>3, SameView DEF Fault, LocalCrash, ConnectionLost, localVars, remoteVars
<1>4. CASE \E r \in requests : Serve(r)
  <2>1. ASSUME NEW r \in requests, Find(r)
        PROVE  UNCHANGED Contract!vars
    BY <2>1, SameView DEF Find, localVars, remoteVars
  <2> QED
    BY <1>4, <2>1, InsertImplements, ReplaceImplements, RemoveImplements
       DEF Serve, Contract!Next
<1>5. CASE UNCHANGED vars
  BY <1>5, SameView DEF vars
<1> QED
  BY <1>1, <1>2, <1>3, <1>4, <1>5 DEF Next

\* CardService, SyncService and SyncController together do what the contract
\* says of each card, whatever the number of threads and the faults.
THEOREM Refinement == Spec => ImplementsContract
<1>1. Init => Contract!Init
  BY DEF Init, Contract!Init, Shown, Copies, DocsOf
<1>2. IndInv /\ [Next]_vars => [Contract!Next]_(Contract!vars)
  BY StepImplements
<1> QED
  BY <1>1, <1>2, Invariant, PTL DEF Spec, ImplementsContract, Contract!Spec
=============================================================================
