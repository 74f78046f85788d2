----------------------------- MODULE MCImapSession -----------------------------
(***************************************************************************)
(* Instances of ImapSession: INBOX with two messages, and seeded folders,  *)
(* which are interchangeable.                                              *)
(***************************************************************************)
EXTENDS ImapSession, TLC

\* The state without the history of FETCH, which no action reads: two states
\* that differ only there have the same futures. Only FetchedIsSeen is about it.
WithoutMissed == <<state, store, selected, readOnly, busy, view>>

Symmetry == Permutations(Folders)
=============================================================================
