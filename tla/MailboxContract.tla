--------------------------- MODULE MailboxContract ---------------------------
(***************************************************************************)
(* What the IMAP session promises its client of the mailboxes, without     *)
(* commands, loops, positions and spellings of names: a mailbox is a set   *)
(* of messages, and number n means the n-th lowest UID the client knows.   *)
(***************************************************************************)
EXTENDS Naturals

CONSTANTS Boxes, Inbox, NoBox

VARIABLES
    boxes,      \* the mailboxes that exist: the next UID, and the messages
    open,       \* the mailbox the client works in
    mode,       \* "none", "read", "write", or "closing" while it is closed
    known       \* UIDs the client has numbers for

vars == <<boxes, open, mode, known>>

UidsIn(mail) == {m.uid : m \in mail}

\* One message to a UID, each below the next one.
Proper(box) ==
    /\ \A m, n \in box.mail : m.uid = n.uid => m = n
    /\ \A m \in box.mail : m.uid < box.next

Empty == [next |-> 1, mail |-> {}]
Nowhere == open = NoBox /\ mode = "none" /\ known = {}

Init == DOMAIN boxes = {} /\ Nowhere

\* The session gets mailboxes, INBOX among them.
Begin ==
    /\ DOMAIN boxes = {}
    /\ DOMAIN boxes' \subseteq Boxes /\ Inbox \in DOMAIN boxes'
    /\ \A b \in DOMAIN boxes' : Proper(boxes'[b])
    /\ UNCHANGED <<open, mode, known>>

End == DOMAIN boxes' = {} /\ Nowhere'

\* The client opens a mailbox and learns of all its messages.
Open ==
    /\ mode # "closing"
    /\ open' \in DOMAIN boxes /\ mode' \in {"read", "write"}
    /\ known' = UidsIn(boxes[open'].mail)
    /\ UNCHANGED boxes

\* It leaves one it has closed: what was marked deleted is gone by then.
Leave ==
    /\ mode = "closing" => \A m \in boxes[open].mail : ~m.deleted
    /\ mode \in {"closing", "read"} /\ Nowhere'
    /\ UNCHANGED boxes

StartClosing ==
    /\ mode = "write" /\ mode' = "closing"
    /\ UNCHANGED <<boxes, open, known>>

Make(b) ==
    /\ b \notin DOMAIN boxes /\ mode # "closing"
    /\ boxes' = [c \in DOMAIN boxes \cup {b} |-> IF c = b THEN Empty ELSE boxes[c]]
    /\ UNCHANGED <<open, mode, known>>

\* A mailbox that is dropped takes no other one with it.
Drop(b) ==
    /\ b # Inbox /\ b \in DOMAIN boxes /\ mode # "closing"
    /\ boxes' = [c \in DOMAIN boxes \ {b} |-> boxes[c]]
    /\ IF open = b THEN Nowhere' ELSE UNCHANGED <<open, mode, known>>

\* A mailbox that gets a new name keeps its messages, and stays open.
Move(b, to) ==
    /\ b # Inbox /\ b \in DOMAIN boxes /\ to \notin DOMAIN boxes /\ mode # "closing"
    /\ boxes' = [c \in (DOMAIN boxes \ {b}) \cup {to} |-> IF c = to THEN boxes[b] ELSE boxes[c]]
    /\ open' = IF open = b THEN to ELSE open
    /\ UNCHANGED <<mode, known>>

\* Nothing happens to the other mailboxes.
Only(b, box) == b \in DOMAIN boxes /\ boxes' = [boxes EXCEPT ![b] = box]

\* A message comes, under the next UID. The client may be told.
Deliver(b) ==
    /\ mode # "closing"
    /\ \E deleted, seen \in BOOLEAN :
         Only(b, [next |-> boxes[b].next + 1,
                  mail |-> boxes[b].mail \cup
                             {[uid |-> boxes[b].next, deleted |-> deleted, seen |-> seen]}])
    /\ known' \in {known} \cup (IF open = b THEN {UidsIn(boxes'[b].mail)} ELSE {})
    /\ UNCHANGED <<open, mode>>

\* Flags change in a mailbox that was opened for writing.
Mark ==
    /\ mode = "write"
    /\ DOMAIN boxes' = DOMAIN boxes
    /\ \A c \in DOMAIN boxes \ {open} : boxes'[c] = boxes[c]
    /\ boxes'[open].next = boxes[open].next
    /\ Proper(boxes'[open]) /\ UidsIn(boxes'[open].mail) = UidsIn(boxes[open].mail)
    /\ UNCHANGED <<open, mode, known>>

\* One message that is marked deleted goes; the client is told, unless it is
\* closing the mailbox.
Purge ==
    /\ mode \in {"write", "closing"}
    /\ \E m \in boxes[open].mail :
         /\ m.deleted
         /\ Only(open, [next |-> boxes[open].next, mail |-> boxes[open].mail \ {m}])
         /\ known' = IF mode = "closing" THEN known ELSE known \ {m.uid}
    /\ UNCHANGED <<open, mode>>

Next ==
    \/ Begin \/ End \/ Open \/ Leave \/ StartClosing
    \/ Mark \/ Purge
    \/ \E b \in Boxes : Make(b) \/ Drop(b) \/ Deliver(b) \/ \E to \in Boxes : Move(b, to)

Spec == Init /\ [][Next]_vars
=============================================================================
