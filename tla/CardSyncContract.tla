--------------------------- MODULE CardSyncContract ---------------------------
(***************************************************************************)
(* What card synchronisation promises, card by card, with no threads,      *)
(* requests or versions: what the API shows of a card, and the revisions   *)
(* of it the remote holds.                                                 *)
(***************************************************************************)
EXTENDS Naturals

CONSTANT Cards

VARIABLES
    card,       \* what the API shows: [life, rev, status]
    copies,     \* revisions of each card the remote now holds
    stored      \* revisions of each card the remote ever stored

vars == <<card, copies, stored>>

Init ==
    /\ card = [c \in Cards |-> [life |-> "unborn", rev |-> 0, status |-> "PENDING"]]
    /\ copies = [c \in Cards |-> {}]
    /\ stored = [c \in Cards |-> {}]

Create(c) ==
    /\ card[c].life = "unborn"
    /\ card' = [card EXCEPT ![c] = [life |-> "alive", rev |-> 1, status |-> "PENDING"]]
    /\ UNCHANGED <<copies, stored>>

\* An edit makes the next revision, not yet synchronised.
Edit(c) ==
    /\ card[c].life = "alive"
    /\ card' = [card EXCEPT ![c] =
                 [life |-> "alive", rev |-> card[c].rev + 1, status |-> "PENDING"]]
    /\ UNCHANGED <<copies, stored>>

\* A deleted card never comes back: no action leaves "deleted".
Delete(c) ==
    /\ card[c].life = "alive"
    /\ card' = [card EXCEPT ![c] =
                 [life |-> "deleted", rev |-> card[c].rev, status |-> "PENDING"]]
    /\ UNCHANGED <<copies, stored>>

\* The remote stores a revision the card has or had; it may replace one copy.
Store(c) ==
    /\ card[c].life # "unborn"
    /\ \E n \in 1..card[c].rev :
         /\ \/ copies' = [copies EXCEPT ![c] = @ \cup {n}]
            \/ \E m \in copies[c] :
                 copies' = [copies EXCEPT ![c] = (@ \ {m}) \cup {n}]
         /\ stored' = [stored EXCEPT ![c] = @ \cup {n}]
    /\ UNCHANGED card

\* The remote gives up a copy only of a deleted card.
Discard(c) ==
    /\ card[c].life = "deleted"
    /\ \E m \in copies[c] : copies' = [copies EXCEPT ![c] = @ \ {m}]
    /\ UNCHANGED <<card, stored>>

\* A card is shown SYNCED only once its present revision was stored.
Acknowledge(c) ==
    /\ card[c].life = "alive"
    /\ card[c].rev \in stored[c]
    /\ card' = [card EXCEPT ![c] =
                 [life |-> "alive", rev |-> card[c].rev, status |-> "SYNCED"]]
    /\ UNCHANGED <<copies, stored>>

Fail(c) ==
    /\ card[c].life = "alive"
    /\ card' = [card EXCEPT ![c] =
                 [life |-> "alive", rev |-> card[c].rev, status |-> "FAILED"]]
    /\ UNCHANGED <<copies, stored>>

Next == \E c \in Cards :
    Create(c) \/ Edit(c) \/ Delete(c) \/ Store(c) \/ Discard(c)
      \/ Acknowledge(c) \/ Fail(c)

Spec == Init /\ [][Next]_vars
=============================================================================
