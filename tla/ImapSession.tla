----------------------------- MODULE ImapSession -----------------------------
(***************************************************************************)
(* vibecoding/imap: one session of the IMAP server, that is a connection's *)
(* state machine, the in-memory mailboxes LOGIN makes for it, and what its *)
(* client concludes from the responses. Commands run one at a time; the    *)
(* loops of EXPUNGE, CLOSE and COPY are taken message by message.          *)
(*                                                                         *)
(* Of a message the model keeps the UID, \Deleted and \Seen: the other     *)
(* flags, the dates and the text are stored and returned, never consulted. *)
(***************************************************************************)
EXTENDS Integers, Sequences, FiniteSets, SequencesExt

CONSTANTS
    Inbox,          \* "INBOX"
    Alias,          \* the same name in another case, "inbox"
    Folders,        \* other mailbox names a client uses
    Seeded,         \* the folders seed_demo makes beside INBOX
    NoBox,          \* no mailbox selected
    Demo,           \* bound: messages seed_demo puts into INBOX, 3 in the code
    MaxUid,         \* bound: UIDs given out in one mailbox
    MaxMessages     \* bound: messages in all mailboxes together

ASSUME NamesAssumption ==
    /\ Inbox \notin Folders /\ Alias \notin Folders /\ Inbox # Alias
    /\ NoBox \notin Folders \cup {Inbox, Alias}
    /\ Seeded \subseteq Folders
    /\ Demo \in Nat /\ MaxUid \in Nat /\ MaxMessages \in Nat

Boxes == Folders \cup {Inbox}       \* names as the store keeps them
Names == Boxes \cup {Alias}         \* names as a client spells them

\* Every name as it is spelt.
Verbatim(name) == name
\* INBOX is the one name that ignores case.
Normalize(name) == IF name = Alias THEN Inbox ELSE name

VARIABLES
    state,      \* session_state
    store,      \* user_store: the mailboxes that exist, by name
    selected,   \* _selected_name
    readOnly,   \* _selected_ro
    busy,       \* the loop a command is in: [op, todo, dest]
    view,       \* UIDs by sequence number, as the client has been told
    missed      \* history: UIDs whose text the last FETCH returned, still unseen

vars == <<state, store, selected, readOnly, busy, view, missed>>

Message == [uid : Nat, deleted : BOOLEAN, seen : BOOLEAN]
Mailbox == [uidnext : Nat, messages : Seq(Message)]
NotBusy == [op |-> "none", todo |-> {}, dest |-> NoBox]

Exists(name) == Normalize(name) \in DOMAIN store
Current == store[selected].messages
Uids(messages) == [i \in DOMAIN messages |-> messages[i].uid]

\* require_state(authenticated) and require_state(selected), between commands.
Authenticated == state \in {"authenticated", "selected"} /\ busy = NotBusy
Selected == state = "selected" /\ busy = NotBusy

Total == MapThenSumSet(LAMBDA b : Len(store[b].messages), DOMAIN store)
RoomFor(n, box) == store[box].uidnext + n <= MaxUid + 1 /\ Total + n <= MaxMessages

(***************************************************************************)
(* user_store                                                              *)
(***************************************************************************)
Seed ==
    [b \in Seeded \cup {Inbox} |->
        IF b = Inbox
        THEN [uidnext |-> Demo + 1,
              messages |-> [i \in 1..Demo |-> [uid |-> i, deleted |-> FALSE, seen |-> i = 1]]]
        ELSE [uidnext |-> 1, messages |-> <<>>]]

\* Numbers messages by their position.
AddedByCount(box, m) ==
    [store EXCEPT ![box].messages = Append(@, [m EXCEPT !.uid = Len(store[box].messages) + 1]),
                  ![box].uidnext = @ + 1]
\* append and copy_messages: a new message gets uidnext++.
Added(box, m) ==
    [store EXCEPT ![box].messages = Append(@, [m EXCEPT !.uid = store[box].uidnext]),
                  ![box].uidnext = @ + 1]

\* Looks at the wrong flag.
SeenOnes(messages) == {i \in DOMAIN messages : messages[i].seen}
Deleted(messages) == {i \in DOMAIN messages : messages[i].deleted}

Changed(S, f, value) ==
    [store EXCEPT ![selected].messages =
        [i \in DOMAIN @ |-> IF i \in S THEN [@[i] EXCEPT ![f] = value] ELSE @[i]]]

(***************************************************************************)
(* Commands of a session that is logged in                                 *)
(***************************************************************************)
Init ==
    /\ state = "not_authenticated" /\ store = <<>>
    /\ selected = NoBox /\ readOnly = FALSE
    /\ busy = NotBusy /\ view = <<>> /\ missed = {}

Login ==
    /\ state = "not_authenticated"
    /\ state' = "authenticated" /\ store' = Seed
    /\ UNCHANGED <<selected, readOnly, busy, view, missed>>

\* SELECT and EXAMINE. A name that does not exist leaves the selection alone.
Select(name, ro) ==
    /\ Authenticated /\ Exists(name)
    /\ state' = "selected" /\ selected' = Normalize(name) /\ readOnly' = ro
    /\ view' = Uids(store[Normalize(name)].messages) /\ missed' = {}
    /\ UNCHANGED <<store, busy>>

Create(name) ==
    /\ Authenticated /\ ~Exists(name)
    /\ store' = [b \in DOMAIN store \cup {Normalize(name)} |->
                   IF b \in DOMAIN store THEN store[b]
                   ELSE [uidnext |-> 1, messages |-> <<>>]]
    /\ missed' = {}
    /\ UNCHANGED <<state, selected, readOnly, busy, view>>

\* Deletes without looking whether the mailbox is selected.
DeleteSelected(name) ==
    /\ Authenticated /\ Normalize(name) # Inbox /\ Exists(name)
    /\ store' = [b \in DOMAIN store \ {name} |-> store[b]]
    /\ missed' = {}
    /\ UNCHANGED <<state, selected, readOnly, busy, view>>

\* DELETE of the selected mailbox deselects it first.
Delete(name) ==
    /\ Authenticated /\ Normalize(name) # Inbox /\ Exists(name)
    /\ store' = [b \in DOMAIN store \ {name} |-> store[b]]
    /\ missed' = {}
    /\ IF selected = name
       THEN selected' = NoBox /\ state' = "authenticated" /\ view' = <<>>
       ELSE UNCHANGED <<selected, state, view>>
    /\ UNCHANGED <<readOnly, busy>>

\* Makes the new name before it fetches what the old one held.
RenameEmpty(from, to) ==
    /\ Authenticated
    /\ Normalize(from) # Inbox /\ Exists(from) /\ ~Exists(to)
    /\ store' = [b \in (DOMAIN store \ {from}) \cup {Normalize(to)} |->
                   IF b = Normalize(to) THEN [uidnext |-> 1, messages |-> <<>>] ELSE store[b]]
    /\ selected' = IF selected = from THEN to ELSE selected
    /\ missed' = {}
    /\ UNCHANGED <<state, readOnly, busy, view>>

\* RENAME of the selected mailbox goes on with the new name.
Rename(from, to) ==
    /\ Authenticated
    /\ Normalize(from) # Inbox /\ Exists(from) /\ ~Exists(to)
    /\ store' = [b \in (DOMAIN store \ {from}) \cup {Normalize(to)} |->
                   IF b = Normalize(to) THEN store[from] ELSE store[b]]
    /\ selected' = IF selected = from THEN to ELSE selected
    /\ missed' = {}
    /\ UNCHANGED <<state, readOnly, busy, view>>

\* The untagged EXISTS is sent if the name is spelt as the selected one.
AppendTo(name, deleted, seen) ==
    LET box == Normalize(name) IN
    /\ Authenticated /\ Exists(name) /\ RoomFor(1, box)
    /\ store' = Added(box, [uid |-> 0, deleted |-> deleted, seen |-> seen])
    /\ view' = IF selected = name THEN Uids(store'[box].messages) ELSE view
    /\ missed' = {}
    /\ UNCHANGED <<state, selected, readOnly, busy>>

(***************************************************************************)
(* Commands on the selected mailbox. A sequence set or UID set picks some  *)
(* of its messages, S.                                                     *)
(***************************************************************************)

\* Whether an item list of FETCH leaves \Seen alone: the last item that names
\* a body section decides. Items are "text" (BODY[...]) and "peek".
Peek(items) == Last(items) = "peek"

\* Messages whose text is returned without .PEEK from a mailbox that was
\* SELECTed, and that are not \Seen after this.
Unmarked(S, items) ==
    {Current[i].uid : i \in {j \in S : /\ "text" \in Range(items) /\ Peek(items)
                                      /\ ~readOnly /\ ~Current[j].seen}}

\* \Seen is set although the mailbox was only EXAMINEd.
FetchAndMark(S, items) ==
    /\ Selected /\ S # {}
    /\ store' = IF ~Peek(items) THEN Changed(S, "seen", TRUE) ELSE store
    /\ missed' = Unmarked(S, items)
    /\ UNCHANGED <<state, selected, readOnly, busy, view>>

Fetch(S, items) ==
    /\ Selected /\ S # {}
    /\ store' = IF ~Peek(items) /\ ~readOnly THEN Changed(S, "seen", TRUE) ELSE store
    /\ missed' = Unmarked(S, items)
    /\ UNCHANGED <<state, selected, readOnly, busy, view>>

\* FLAGS clears the flags that are not named, +FLAGS and -FLAGS touch only
\* the named ones.
NewFlag(mode, flags, f, old) ==
    CASE mode = "FLAGS" -> f \in flags
      [] mode = "+FLAGS" -> old \/ f \in flags
      [] mode = "-FLAGS" -> old /\ f \notin flags

Store(S, mode, flags) ==
    /\ Selected /\ ~readOnly /\ S # {}
    /\ store' = [store EXCEPT ![selected].messages =
                   [i \in DOMAIN @ |->
                      IF i \in S
                      THEN [uid |-> @[i].uid,
                            deleted |-> NewFlag(mode, flags, "deleted", @[i].deleted),
                            seen |-> NewFlag(mode, flags, "seen", @[i].seen)]
                      ELSE @[i]]]
    /\ missed' = {}
    /\ UNCHANGED <<state, selected, readOnly, busy, view>>

\* EXPUNGE, CLOSE and COPY begin; the mailbox is changed by the steps below.
Begin(op, todo, dest) ==
    /\ Selected
    /\ busy' = [op |-> op, todo |-> todo, dest |-> dest]
    /\ missed' = {}
    /\ UNCHANGED <<state, store, selected, readOnly, view>>

Expunge == ~readOnly /\ Begin("expunge", {}, NoBox)
Close == Begin("close", {}, NoBox)
Copy(S, name) ==
    /\ Exists(name) /\ RoomFor(Cardinality(S), Normalize(name))
    /\ Begin("copy", S, Normalize(name))

\* Removes messages as CLOSE does, without telling the client.
ExpungeUnreported ==
    /\ busy.op = "expunge"
    /\ \E i \in Deleted(Current) :
         /\ \A j \in Deleted(Current) : i <= j
         /\ store' = [store EXCEPT ![selected].messages = RemoveAt(@, i)]
    /\ UNCHANGED <<state, selected, readOnly, busy, view, missed>>

\* EXPUNGE: the first deleted message goes, reported under its present number.
ExpungeNext ==
    /\ busy.op = "expunge"
    /\ \E i \in Deleted(Current) :
         /\ \A j \in Deleted(Current) : i <= j
         /\ store' = [store EXCEPT ![selected].messages = RemoveAt(@, i)]
         /\ view' = IF i \in DOMAIN view THEN RemoveAt(view, i) ELSE view
    /\ UNCHANGED <<state, selected, readOnly, busy, missed>>

\* CLOSE: from the back, and unreported.
CloseNext ==
    /\ busy.op = "close" /\ ~readOnly
    /\ \E i \in Deleted(Current) :
         /\ \A j \in Deleted(Current) : j <= i
         /\ store' = [store EXCEPT ![selected].messages = RemoveAt(@, i)]
    /\ UNCHANGED <<state, selected, readOnly, busy, view, missed>>

\* COPY: the next message of the set, also into the mailbox it comes from.
CopyNext ==
    /\ busy.op = "copy"
    /\ \E i \in busy.todo :
         /\ \A j \in busy.todo : i <= j
         /\ store' = Added(busy.dest, Current[i])
         /\ busy' = [busy EXCEPT !.todo = @ \ {i}]
    /\ UNCHANGED <<state, selected, readOnly, view, missed>>

\* The tagged OK. CLOSE has left the mailbox.
Done ==
    /\ \/ busy.op = "expunge" /\ Deleted(Current) = {}
       \/ busy.op = "close" /\ (readOnly \/ Deleted(Current) = {})
       \/ busy.op = "copy" /\ busy.todo = {}
    /\ IF busy.op = "close"
       THEN selected' = NoBox /\ state' = "authenticated" /\ view' = <<>>
       ELSE UNCHANGED <<selected, state, view>>
    /\ busy' = NotBusy
    /\ UNCHANGED <<store, readOnly, missed>>

\* LOGOUT, a connection that breaks or a server that stops: run ends and the
\* mailboxes go with the connection.
End ==
    /\ state # "logout"
    /\ state' = "logout" /\ store' = <<>> /\ selected' = NoBox
    /\ readOnly' = FALSE /\ busy' = NotBusy /\ view' = <<>> /\ missed' = {}

\* "n", or "1:*".
Picks == {{i} : i \in DOMAIN Current} \cup {DOMAIN Current}
Items == {<<"text">>, <<"peek">>, <<"text", "peek">>, <<"peek", "text">>}
Modes == {"FLAGS", "+FLAGS", "-FLAGS"}

OnMailboxes ==
    \E name \in Names :
        \/ Create(name) \/ Delete(name)
        \/ \E ro \in BOOLEAN : Select(name, ro)
        \/ \E to \in Names : Rename(name, to)
        \/ \E deleted, seen \in BOOLEAN : AppendTo(name, deleted, seen)

OnMessages ==
    /\ Selected
    /\ \/ \E S \in Picks, items \in Items : Fetch(S, items)
       \/ \E S \in Picks, mode \in Modes, flags \in SUBSET {"deleted", "seen"} :
            Store(S, mode, flags)
       \/ \E S \in Picks, name \in Names : Copy(S, name)
       \/ Expunge \/ Close

Loops == ExpungeNext \/ CloseNext \/ CopyNext \/ Done

Next == Login \/ OnMailboxes \/ OnMessages \/ Loops \/ End

Spec == Init /\ [][Next]_vars

(***************************************************************************)
(* Properties                                                              *)
(***************************************************************************)
\* Every variable has its type; the store keeps each mailbox under the
\* normalised spelling of its name.
TypeOK ==
    /\ state \in {"not_authenticated", "authenticated", "selected", "logout"}
    /\ DOMAIN store \subseteq Boxes
    /\ \A b \in DOMAIN store : store[b] \in Mailbox
    /\ selected \in Boxes \cup {NoBox} /\ readOnly \in BOOLEAN
    /\ busy.op \in {"none", "expunge", "close", "copy"}
    /\ view \in Seq(Nat) /\ missed \subseteq Nat

\* A session is in the selected state exactly while it has a selection, and
\* that mailbox exists: no DELETE or RENAME, under whatever spelling of the
\* name, pulls it away. selected_mailbox() is never null in the loops.
SelectionExists ==
    /\ state = "selected" <=> selected # NoBox
    /\ selected # NoBox => selected \in DOMAIN store
    /\ busy # NotBusy => state = "selected"

\* The sequence numbers the client has learnt from EXISTS and EXPUNGE mean
\* the messages the server takes them for, also in the middle of an EXPUNGE.
\* The client may not know yet of messages at the end.
ViewAgrees ==
    state = "selected" /\ busy.op # "close" => IsPrefix(view, Uids(Current))

\* UIDs rise with the sequence numbers and stay below UIDNEXT, across COPY
\* into the same mailbox, APPEND and RENAME.
UidsAscend ==
    \A b \in DOMAIN store :
        LET uids == Uids(store[b].messages)
        IN  /\ \A i, j \in DOMAIN uids : i < j => uids[i] < uids[j]
            /\ \A i \in DOMAIN uids : uids[i] < store[b].uidnext

UidSet(b) == Range(Uids(store[b].messages))

\* A UID seen once is never given to another message of that mailbox: what
\* appears is numbered from the UIDNEXT the client knew.
UidsAreNew == [][\A b \in DOMAIN store \cap DOMAIN store' :
    /\ store'[b].uidnext >= store[b].uidnext
    /\ \A u \in UidSet(b)' \ UidSet(b) : u >= store[b].uidnext]_vars

\* A message leaves an existing mailbox only if it is marked deleted.
OnlyDeletedLeave == [][\A b \in DOMAIN store \cap DOMAIN store' :
    \A m \in Range(store[b].messages) : m.deleted \/ m.uid \in UidSet(b)']_vars

\* A mailbox that is only EXAMINEd keeps its messages and their flags,
\* whatever FETCH, STORE, EXPUNGE and CLOSE are tried on it.
ExaminedKept == [][state = "selected" /\ readOnly /\ selected \in DOMAIN store' =>
    Range(Current) \subseteq Range(store'[selected].messages)]_vars

\* What the contract sees of the session.
ShownBoxes ==
    [b \in DOMAIN store |-> [next |-> store[b].uidnext, mail |-> Range(store[b].messages)]]
ShownMode ==
    IF selected = NoBox THEN "none"
    ELSE IF readOnly THEN "read"
    ELSE IF busy.op = "close" THEN "closing" ELSE "write"

Contract == INSTANCE MailboxContract
              WITH boxes <- ShownBoxes, open <- selected, mode <- ShownMode, known <- Range(view)

\* Every step of a command is one the contract allows, or nothing: a message
\* comes, is marked or goes one at a time, and a mailbox that is made, dropped
\* or renamed leaves the others and its own messages alone.
ImplementsContract == Contract!Spec

(***************************************************************************)
(* The inductive invariant behind the safety properties                    *)
(***************************************************************************)

\* INBOX is there as long as somebody is logged in, so no other mailbox is ever
\* renamed to a spelling of it; before and after there are no mailboxes.
StoreInv ==
    IF state \in {"authenticated", "selected"} THEN Inbox \in DOMAIN store
    ELSE DOMAIN store = {}

\* A loop has what it works on: a mailbox opened for writing to EXPUNGE, a
\* mailbox to COPY to, and messages that are still there.
BusyInv ==
    /\ busy \in [op : {"none", "expunge", "close", "copy"}, todo : SUBSET (Nat \ {0}),
                 dest : Boxes \cup {NoBox}]
    /\ busy.op = "none" => busy = NotBusy
    /\ busy.op = "expunge" => ~readOnly
    /\ busy.op = "copy" => /\ busy.dest \in DOMAIN store
                           /\ \A i \in busy.todo : i <= Len(Current)

\* The conjunction that every step preserves.
IndInv ==
    /\ TypeOK /\ SelectionExists /\ StoreInv /\ BusyInv
    /\ UidsAscend /\ ViewAgrees

(***************************************************************************)
(* What a comment says and the code does not keep                          *)
(***************************************************************************)

\* "Implicit \Seen for non-peek body fetches": a message whose text was
\* returned without .PEEK, from a mailbox selected read-write, is seen.
FetchedIsSeen == missed = {}
=============================================================================
