----------------------------- MODULE KanbanRemote -----------------------------
(***************************************************************************)
(* kanban-remote: SyncController. A handler is two steps, findByCardId and *)
(* then save or delete of the entity it found; handlers of several         *)
(* requests interleave. A handler that throws answers with an error.       *)
(***************************************************************************)
EXTENDS KanbanData

\* A client that takes any reply for success.
AnswerIgnored(r, ok) ==
    /\ requests' = requests \ {r}
    /\ job' = IF r.cut = 0
              THEN [job EXCEPT ![r.thread] = Resume(@, TRUE)]
              ELSE job

\* The reply, if anyone still waits for it. retrieve() turns an error status
\* into an exception, so the caller learns which it was.
Answer(r, ok) ==
    /\ requests' = requests \ {r}
    /\ job' = IF r.cut = 0
              THEN [job EXCEPT ![r.thread] = Resume(@, ok)]
              ELSE job

\* findByCardId returns an Optional: two documents make it throw. No document
\* is a new entity for PUT, and nothing to do for DELETE.
Find(r) ==
    /\ r.phase = "sent"
    /\ LET docs == DocsOf(r.card)
       IN \/ /\ Cardinality(docs) > 1
             /\ Answer(r, FALSE)
          \/ /\ docs = {} /\ r.op = "DELETE"
             /\ Answer(r, TRUE)
          \/ /\ docs = {} /\ r.op = "PUT"
             /\ requests' = (requests \ {r}) \cup
                  {[r EXCEPT !.phase = "found", !.doc = 0, !.ver = 0]}
             /\ UNCHANGED job
          \/ \E d \in docs :
             /\ docs = {d}
             /\ requests' = (requests \ {r}) \cup
                  {[r EXCEPT !.phase = "found", !.doc = d.id, !.ver = d.ver]}
             /\ UNCHANGED job
    /\ UNCHANGED <<localVars, faults, remoteVars>>

\* The document a found entity still matches, by _id and @Version.
Matching(r) == {d \in remote : d.id = r.doc /\ d.ver = r.ver}

\* upsertCard's save of a new entity: nothing makes cardId unique.
Insert(r) ==
    /\ r.op = "PUT" /\ r.phase = "found" /\ r.doc = 0
    /\ nextDoc <= MaxDocs
    /\ remote' = remote \cup {[id |-> nextDoc, card |-> r.card, rev |-> r.rev, ver |-> 0]}
    /\ nextDoc' = nextDoc + 1
    /\ applied' = [applied EXCEPT ![r.card] = @ \cup {r.rev}]
    /\ Answer(r, TRUE)
    /\ UNCHANGED <<localVars, faults>>

\* upsertCard's save of an existing entity: every field is overwritten,
\* whatever revision the document holds; a lost race for the version throws.
Replace(r) ==
    /\ r.op = "PUT" /\ r.phase = "found" /\ r.doc # 0
    /\ \/ \E d \in Matching(r) :
             /\ remote' = (remote \ {d}) \cup
                  {[id |-> d.id, card |-> d.card, rev |-> r.rev, ver |-> d.ver + 1]}
             /\ applied' = [applied EXCEPT ![r.card] = @ \cup {r.rev}]
             /\ Answer(r, TRUE)
       \/ /\ Matching(r) = {}
          /\ Answer(r, FALSE)
          /\ UNCHANGED <<remote, applied>>
    /\ UNCHANGED <<localVars, faults, nextDoc>>

\* deleteCard: delete(entity) is versioned too.
Remove(r) ==
    /\ r.op = "DELETE" /\ r.phase = "found"
    /\ remote' = remote \ Matching(r)
    /\ Answer(r, Matching(r) # {})
    /\ UNCHANGED <<localVars, faults, nextDoc, applied>>

Serve(r) == Find(r) \/ Insert(r) \/ Replace(r) \/ Remove(r)
=============================================================================
