--------------------------- MODULE ImapSessionProofs ---------------------------
(***************************************************************************)
(* Proofs about ImapSession, for any mailbox names and any bounds: IndInv  *)
(* is inductive, so the invariants hold, and what a step does to a mailbox *)
(* is one of four things, from which the action properties follow.         *)
(***************************************************************************)
EXTENDS ImapSession, SequenceTheorems, TLAPS

\* UidsAscend, of one mailbox.
Ascending(box) ==
    /\ \A i, j \in 1..Len(box.messages) :
         i < j => box.messages[i].uid < box.messages[j].uid
    /\ \A i \in 1..Len(box.messages) : box.messages[i].uid < box.uidnext

\* The three ways a mailbox changes: a message arrives, flags change, a
\* message that was marked deleted goes.
Extends(old, new) ==
    \E m \in Message :
        /\ m.uid = old.uidnext
        /\ new = [uidnext |-> old.uidnext + 1, messages |-> Append(old.messages, m)]

Reflags(old, new) ==
    /\ new \in Mailbox /\ new.uidnext = old.uidnext
    /\ Len(new.messages) = Len(old.messages)
    /\ \A i \in 1..Len(old.messages) : new.messages[i].uid = old.messages[i].uid

Purges(old, new) ==
    \E i \in 1..Len(old.messages) :
        /\ old.messages[i].deleted
        /\ new = [uidnext |-> old.uidnext, messages |-> RemoveAt(old.messages, i)]

\* What a step does to the mailboxes: those that stay change in one of these
\* ways, and only the one opened for writing loses messages or flags.
StoreSteps ==
    /\ DOMAIN store' \subseteq Boxes
    /\ \A b \in DOMAIN store \cap DOMAIN store' :
         \/ store'[b] = store[b]
         \/ Extends(store[b], store'[b])
         \/ /\ b = selected /\ ~readOnly
            /\ Reflags(store[b], store'[b]) \/ Purges(store[b], store'[b])
    /\ \A b \in DOMAIN store' \ DOMAIN store : store'[b] \in Mailbox /\ Ascending(store'[b])

\* TypeOK without the mailboxes.
SessionTypes ==
    /\ state \in {"not_authenticated", "authenticated", "selected", "logout"}
    /\ selected \in Boxes \cup {NoBox} /\ readOnly \in BOOLEAN
    /\ view \in Seq(Nat) /\ missed \subseteq Nat

-----------------------------------------------------------------------------
(***************************************************************************)
(* Sequences of messages                                                   *)
(***************************************************************************)

\* What RemoveAt returns, element by element.
LEMMA RemoveAtProperties ==
    ASSUME NEW S, NEW s \in Seq(S), NEW i \in 1..Len(s)
    PROVE  /\ RemoveAt(s, i) \in Seq(S)
           /\ Len(RemoveAt(s, i)) = Len(s) - 1
           /\ \A j \in 1..(Len(s) - 1) : RemoveAt(s, i)[j] = IF j < i THEN s[j] ELSE s[j + 1]
<1> DEFINE a == SubSeq(s, 1, i - 1)
           b == SubSeq(s, i + 1, Len(s))
<1>0. Len(s) \in Nat
  BY LenProperties
<1>1. a \in Seq(S) /\ Len(a) = i - 1 /\ \A j \in 1..(i - 1) : a[j] = s[j]
  BY <1>0, SubSeqProperties
<1>2. b \in Seq(S) /\ Len(b) = Len(s) - i /\ \A j \in 1..(Len(s) - i) : b[j] = s[i + j]
  BY <1>0, SubSeqProperties
<1>3. RemoveAt(s, i) = a \o b
  BY DEF RemoveAt
<1> HIDE DEF a, b
<1>4. /\ a \o b \in Seq(S)
      /\ Len(a \o b) = Len(a) + Len(b)
      /\ \A j \in 1..(Len(a) + Len(b)) :
           (a \o b)[j] = IF j <= Len(a) THEN a[j] ELSE b[j - Len(a)]
  BY <1>1, <1>2, ConcatProperties, Zenon
<1>5. Len(a) + Len(b) = Len(s) - 1
  BY <1>0, <1>1, <1>2
<1>6. ASSUME NEW j \in 1..(Len(s) - 1)
      PROVE  (a \o b)[j] = IF j < i THEN s[j] ELSE s[j + 1]
  BY <1>0, <1>1, <1>2, <1>4, <1>5
<1> QED
  BY <1>3, <1>4, <1>5, <1>6

\* The UIDs of a mailbox, message by message.
LEMMA UidsProperties ==
    ASSUME NEW s \in Seq(Message)
    PROVE  /\ Uids(s) \in Seq(Nat) /\ Len(Uids(s)) = Len(s) /\ DOMAIN Uids(s) = 1..Len(s)
           /\ \A i \in 1..Len(s) : Uids(s)[i] = s[i].uid
<1>1. Len(s) \in Nat /\ DOMAIN s = 1..Len(s) /\ \A i \in 1..Len(s) : s[i] \in Message
  BY LenProperties, ElementOfSeq
<1>2. Uids(s) = [i \in 1..Len(s) |-> s[i].uid]
  BY <1>1 DEF Uids
<1>3. \A i \in 1..Len(s) : s[i].uid \in Nat
  BY <1>1 DEF Message
<1> QED
  BY <1>1, <1>2, <1>3, IsASeq, LenProperties

\* A prefix, element by element.
LEMMA PrefixOfUids ==
    ASSUME NEW v \in Seq(Nat), NEW s \in Seq(Message)
    PROVE  IsPrefix(v, Uids(s)) <=> /\ Len(v) <= Len(s)
                                    /\ \A i \in 1..Len(v) : v[i] = s[i].uid
<1>1. Uids(s) \in Seq(Nat) /\ Len(Uids(s)) = Len(s) /\ Len(v) \in Nat /\ Len(s) \in Nat
  BY UidsProperties, LenProperties
<1>2. \A i \in 1..Len(s) : Uids(s)[i] = s[i].uid
  BY UidsProperties
<1>3. ASSUME Len(v) <= Len(s)
      PROVE  SubSeq(v, 1, Len(v)) = SubSeq(Uids(s), 1, Len(v))
               <=> \A i \in 1..Len(v) : v[i] = s[i].uid
  <2> DEFINE a == SubSeq(v, 1, Len(v))
             b == SubSeq(Uids(s), 1, Len(v))
  <2>1. a \in Seq(Nat) /\ Len(a) = Len(v) /\ \A i \in 1..Len(v) : a[i] = v[i]
    BY <1>1, SubSeqProperties
  <2>2. b \in Seq(Nat) /\ Len(b) = Len(v) /\ \A i \in 1..Len(v) : b[i] = Uids(s)[i]
    BY <1>1, <1>3, SubSeqProperties
  <2> HIDE DEF a, b
  <2>3. a = b <=> \A i \in 1..Len(v) : a[i] = b[i]
    BY <1>1, <2>1, <2>2, SeqEqual
  <2>4. a = b <=> \A i \in 1..Len(v) : v[i] = s[i].uid
    BY <1>1, <1>2, <1>3, <2>1, <2>2, <2>3
  <2> QED
    BY <2>4 DEF a, b
<1> QED
  BY <1>1, <1>3 DEF IsPrefix

\* UidsAscend is Ascending of every mailbox.
LEMMA AscendingUids ==
    ASSUME NEW box \in Mailbox
    PROVE  (LET uids == Uids(box.messages)
            IN  /\ \A i, j \in DOMAIN uids : i < j => uids[i] < uids[j]
                /\ \A i \in DOMAIN uids : uids[i] < box.uidnext)
           <=> Ascending(box)
<1>1. LET uids == Uids(box.messages)
      IN  /\ DOMAIN uids = 1..Len(box.messages)
          /\ \A i \in 1..Len(box.messages) : uids[i] = box.messages[i].uid
  BY UidsProperties DEF Mailbox
<1> QED
  BY <1>1 DEF Ascending

-----------------------------------------------------------------------------
(***************************************************************************)
(* Mailboxes                                                               *)
(***************************************************************************)

\* A message that arrives gets the highest UID.
LEMMA ExtendsKeeps ==
    ASSUME NEW old \in Mailbox, Ascending(old), NEW new, Extends(old, new)
    PROVE  new \in Mailbox /\ Ascending(new)
<1>1. PICK m \in Message : /\ m.uid = old.uidnext
                           /\ new = [uidnext |-> old.uidnext + 1,
                                     messages |-> Append(old.messages, m)]
  BY DEF Extends
<1>2. old.messages \in Seq(Message) /\ old.uidnext \in Nat /\ Len(old.messages) \in Nat
  BY LenProperties DEF Mailbox
<1>3. /\ new.messages \in Seq(Message) /\ Len(new.messages) = Len(old.messages) + 1
      /\ \A i \in 1..Len(old.messages) : new.messages[i] = old.messages[i]
      /\ new.messages[Len(old.messages) + 1] = m
  <2>1. new.messages = Append(old.messages, m)
    BY <1>1
  <2> QED
    BY <1>2, <2>1, AppendProperties
<1>4. new \in Mailbox
  BY <1>1, <1>2, <1>3 DEF Mailbox
<1>5. ASSUME NEW i \in 1..Len(old.messages)
      PROVE  old.messages[i].uid \in Nat
  <2>1. old.messages[i] \in Message
    BY <1>2, ElementOfSeq
  <2> QED
    BY <2>1 DEF Message
<1>6. new.uidnext = old.uidnext + 1 /\ m.uid = old.uidnext
  BY <1>1
<1>7. ASSUME NEW i \in 1..Len(new.messages)
      PROVE  /\ new.messages[i].uid < new.uidnext
             /\ \A j \in 1..Len(new.messages) :
                  i < j => new.messages[i].uid < new.messages[j].uid
  <2>1. CASE i = Len(old.messages) + 1
    BY <1>2, <1>3, <1>6, <2>1
  <2>2. CASE i \in 1..Len(old.messages)
    <3>1. /\ new.messages[i].uid \in Nat /\ new.messages[i].uid < old.uidnext
          /\ new.messages[i] = old.messages[i]
      BY <1>3, <1>5, <2>2 DEF Ascending
    <3>2. \A j \in 1..Len(old.messages) : i < j => new.messages[i].uid < new.messages[j].uid
      BY <1>3, <2>2 DEF Ascending
    <3> QED
      BY <1>2, <1>3, <1>6, <3>1, <3>2
  <2> QED
    BY <1>2, <1>3, <2>1, <2>2
<1>8. Ascending(new)
  BY <1>7 DEF Ascending
<1> QED
  BY <1>4, <1>8

\* Flags have nothing to do with UIDs.
LEMMA ReflagsKeeps ==
    ASSUME NEW old \in Mailbox, Ascending(old), NEW new, Reflags(old, new)
    PROVE  new \in Mailbox /\ Ascending(new)
BY DEF Reflags, Ascending

\* Taking a message out leaves the others in their order.
LEMMA PurgesKeeps ==
    ASSUME NEW old \in Mailbox, Ascending(old), NEW new, Purges(old, new)
    PROVE  new \in Mailbox /\ Ascending(new)
<1>1. PICK i \in 1..Len(old.messages) :
        new = [uidnext |-> old.uidnext, messages |-> RemoveAt(old.messages, i)]
  BY DEF Purges
<1>2. old.messages \in Seq(Message) /\ old.uidnext \in Nat /\ Len(old.messages) \in Nat
  BY LenProperties DEF Mailbox
<1>3. /\ new.messages \in Seq(Message) /\ Len(new.messages) = Len(old.messages) - 1
      /\ \A j \in 1..(Len(old.messages) - 1) :
           new.messages[j] = IF j < i THEN old.messages[j] ELSE old.messages[j + 1]
  BY <1>1, <1>2, RemoveAtProperties
<1>4. new \in Mailbox
  BY <1>1, <1>2, <1>3 DEF Mailbox
<1>5. ASSUME NEW j \in 1..Len(old.messages)
      PROVE  old.messages[j].uid \in Nat
  <2>1. old.messages[j] \in Message
    BY <1>2, ElementOfSeq
  <2> QED
    BY <2>1 DEF Message
<1>6. new.uidnext = old.uidnext
  BY <1>1
<1>7. \A j \in 1..Len(new.messages) : \E k \in 1..Len(old.messages) :
        new.messages[j] = old.messages[k] /\ k = IF j < i THEN j ELSE j + 1
  BY <1>2, <1>3
<1>8. ASSUME NEW j \in 1..Len(new.messages), NEW k \in 1..Len(new.messages), j < k
      PROVE  new.messages[j].uid < new.messages[k].uid
  <2>1. PICK a \in 1..Len(old.messages) :
          new.messages[j] = old.messages[a] /\ a = IF j < i THEN j ELSE j + 1
    BY <1>7
  <2>2. PICK b \in 1..Len(old.messages) :
          new.messages[k] = old.messages[b] /\ b = IF k < i THEN k ELSE k + 1
    BY <1>7
  <2>3. a < b
    BY <1>2, <1>3, <1>8, <2>1, <2>2
  <2> QED
    BY <2>1, <2>2, <2>3 DEF Ascending
<1>9. ASSUME NEW j \in 1..Len(new.messages)
      PROVE  new.messages[j].uid < new.uidnext
  BY <1>6, <1>7 DEF Ascending
<1>10. Ascending(new)
  BY <1>8, <1>9 DEF Ascending
<1> QED
  BY <1>4, <1>10

\* What StoreSteps says keeps the mailboxes in order.
LEMMA StoreStepsKeep ==
    ASSUME TypeOK, UidsAscend, StoreSteps
    PROVE  /\ \A b \in DOMAIN store' : store'[b] \in Mailbox
           /\ UidsAscend'
<1>1. ASSUME NEW b \in DOMAIN store
      PROVE  store[b] \in Mailbox /\ Ascending(store[b])
  <2>1. store[b] \in Mailbox
    BY DEF TypeOK
  <2> QED
    BY <2>1, AscendingUids DEF UidsAscend
<1>2. ASSUME NEW b \in DOMAIN store'
      PROVE  store'[b] \in Mailbox /\ Ascending(store'[b])
  <2>1. CASE b \in DOMAIN store
    <3>1. store[b] \in Mailbox /\ Ascending(store[b])
      BY <1>1, <2>1
    <3> QED
      BY <2>1, <3>1, ExtendsKeeps, ReflagsKeeps, PurgesKeeps DEF StoreSteps
  <2>2. CASE b \notin DOMAIN store
    BY <2>2 DEF StoreSteps
  <2> QED
    BY <2>1, <2>2
<1> QED
  BY <1>2, AscendingUids DEF UidsAscend

-----------------------------------------------------------------------------
(***************************************************************************)
(* What a step keeps besides the mailboxes                                 *)
(***************************************************************************)

\* All a step has to show.
Keeps ==
    /\ StoreSteps /\ SessionTypes'
    /\ SelectionExists' /\ StoreInv' /\ BusyInv' /\ ViewAgrees'

\* The view and the mailbox, element by element.
Fits(v, s) == Len(v) <= Len(s) /\ \A i \in 1..Len(v) : v[i] = s[i].uid

\* Nothing happens to the mailboxes.
LEMMA SameStore ==
    ASSUME TypeOK, store' = store
    PROVE  StoreSteps
BY DEF StoreSteps, TypeOK

\* What the invariant says while a mailbox is selected.
LEMMA SelectedFacts ==
    ASSUME IndInv, state = "selected"
    PROVE  /\ selected \in DOMAIN store /\ selected \in Boxes
           /\ store[selected] \in Mailbox /\ Current \in Seq(Message)
           /\ Len(Current) \in Nat /\ DOMAIN Current = 1..Len(Current)
           /\ busy.op # "close" => Fits(view, Current)
<1>1. NoBox \notin Boxes
  BY NamesAssumption DEF Boxes
<1>2. selected \in DOMAIN store /\ store[selected] \in Mailbox
  BY DEF IndInv, SelectionExists, TypeOK
<1>3. selected \in Boxes
  BY <1>2 DEF IndInv, TypeOK
<1>4. Current \in Seq(Message)
  BY <1>2 DEF Current, Mailbox
<1>5. Len(Current) \in Nat /\ DOMAIN Current = 1..Len(Current)
  BY <1>4, LenProperties
<1>6. view \in Seq(Nat)
  BY DEF IndInv, TypeOK
<1>7. busy.op # "close" => IsPrefix(view, Uids(Current))
  BY DEF IndInv, ViewAgrees
<1>8. busy.op # "close" => Fits(view, Current)
  BY <1>4, <1>6, <1>7, PrefixOfUids DEF Fits
<1> QED
  BY <1>2, <1>3, <1>4, <1>5, <1>8

\* A view that fits the selected mailbox after a step agrees with it.
LEMMA FitsAgrees ==
    ASSUME view' \in Seq(Nat), store'[selected'].messages \in Seq(Message),
           Fits(view', store'[selected'].messages)
    PROVE  ViewAgrees'
BY PrefixOfUids DEF Fits, ViewAgrees, Current

\* Nothing the client knows of changes.
LEMMA SameView ==
    ASSUME ViewAgrees, busy' = busy, view' = view, state' = state,
           state = "selected" => store'[selected'] = store[selected]
    PROVE  ViewAgrees'
BY DEF ViewAgrees, Current

-----------------------------------------------------------------------------
(***************************************************************************)
(* One lemma per action                                                    *)
(***************************************************************************)

\* LOGIN makes mailboxes that are in order.
LEMMA LoginKeeps == ASSUME IndInv, Login PROVE Keeps
<1>1. DOMAIN store' = Seeded \cup {Inbox} /\ DOMAIN store' \subseteq Boxes
  BY NamesAssumption DEF Login, Seed, Boxes
<1>2. ASSUME NEW b \in DOMAIN store'
      PROVE  store'[b] \in Mailbox /\ Ascending(store'[b])
  <2> DEFINE demo == [i \in 1..Demo |-> [uid |-> i, deleted |-> FALSE, seen |-> i = 1]]
  <2>1. CASE b = Inbox
    <3>1. store'[b] = [uidnext |-> Demo + 1, messages |-> demo]
      BY <1>1, <2>1 DEF Login, Seed
    <3>2. demo \in Seq(Message) /\ Len(demo) = Demo /\ Demo \in Nat
      BY NamesAssumption DEF Message
    <3>3. \A i \in 1..Demo : demo[i].uid = i
      OBVIOUS
    <3> HIDE DEF demo
    <3>4. store'[b] \in Mailbox
      BY <3>1, <3>2 DEF Mailbox
    <3>5. store'[b].messages = demo /\ store'[b].uidnext = Demo + 1
      BY <3>1
    <3>6. Ascending(store'[b])
      BY <3>2, <3>3, <3>5 DEF Ascending
    <3> QED
      BY <3>4, <3>6
  <2>2. CASE b # Inbox
    <3>1. store'[b] = [uidnext |-> 1, messages |-> <<>>]
      BY <1>1, <2>2 DEF Login, Seed
    <3> QED
      BY <3>1 DEF Mailbox, Ascending
  <2> QED
    BY <2>1, <2>2
<1>3. DOMAIN store = {}
  BY DEF IndInv, StoreInv, Login
<1>4. StoreSteps
  BY <1>1, <1>2, <1>3 DEF StoreSteps
<1>5. busy = NotBusy /\ selected = NoBox
  BY DEF IndInv, SelectionExists, Login
<1>6. SessionTypes' /\ SelectionExists'
  BY <1>5 DEF IndInv, TypeOK, SessionTypes, SelectionExists, Login
<1>7. StoreInv' /\ ViewAgrees'
  BY <1>1 DEF StoreInv, ViewAgrees, Login
<1>8. BusyInv'
  BY <1>5 DEF IndInv, BusyInv, NotBusy, Login
<1> QED
  BY <1>4, <1>6, <1>7, <1>8 DEF Keeps

\* SELECT shows the client the mailbox it selects.
LEMMA SelectKeeps ==
    ASSUME IndInv, NEW name \in Names, NEW ro \in BOOLEAN, Select(name, ro)
    PROVE  Keeps
<1> DEFINE box == Normalize(name)
<1>1. box \in DOMAIN store /\ box \in Boxes /\ store[box] \in Mailbox
  BY DEF Select, Exists, IndInv, TypeOK
<1>2. /\ state' = "selected" /\ selected' = box /\ readOnly' = ro
      /\ view' = Uids(store[box].messages) /\ missed' = {} /\ store' = store
      /\ busy' = busy /\ busy = NotBusy /\ state \in {"authenticated", "selected"}
  BY DEF Select, Authenticated
<1> HIDE DEF box
<1>3. StoreSteps
  BY <1>2, SameStore DEF IndInv
<1>4. store[box].messages \in Seq(Message)
  BY <1>1 DEF Mailbox
<1>5. view' \in Seq(Nat) /\ Fits(view', store[box].messages)
  BY <1>2, <1>4, UidsProperties DEF Fits
<1>6. SessionTypes'
  BY <1>1, <1>2, <1>5 DEF SessionTypes
<1>7. ViewAgrees'
  BY <1>2, <1>4, <1>5, FitsAgrees
<1>8. SelectionExists'
  <2>1. NoBox \notin Boxes
    BY NamesAssumption DEF Boxes
  <2> QED
    BY <1>1, <1>2, <2>1 DEF SelectionExists
<1>9. StoreInv'
  BY <1>2 DEF IndInv, StoreInv
<1>10. BusyInv'
  BY <1>2 DEF IndInv, BusyInv, NotBusy
<1> QED
  BY <1>3, <1>6, <1>7, <1>8, <1>9, <1>10 DEF Keeps

\* A new mailbox is empty.
LEMMA CreateKeeps ==
    ASSUME IndInv, NEW name \in Names, Create(name)
    PROVE  Keeps
<1> DEFINE box == Normalize(name)
<1>1. box \notin DOMAIN store /\ box \in Boxes
  BY DEF Create, Exists, Normalize, Names, Boxes
<1>2. /\ DOMAIN store' = DOMAIN store \cup {box}
      /\ \A b \in DOMAIN store : store'[b] = store[b]
      /\ store'[box] = [uidnext |-> 1, messages |-> <<>>]
  BY <1>1 DEF Create
<1>3. /\ UNCHANGED <<state, selected, readOnly, busy, view>> /\ missed' = {}
      /\ busy = NotBusy /\ state \in {"authenticated", "selected"}
  BY DEF Create, Authenticated
<1> HIDE DEF box
<1>4. store'[box] \in Mailbox /\ Ascending(store'[box])
  BY <1>2 DEF Mailbox, Ascending
<1>5. StoreSteps
  BY <1>1, <1>2, <1>4 DEF StoreSteps, IndInv, TypeOK
<1>6. SessionTypes' /\ SelectionExists'
  BY <1>2, <1>3 DEF IndInv, TypeOK, SessionTypes, SelectionExists
<1>7. StoreInv' /\ BusyInv'
  BY <1>2, <1>3 DEF IndInv, StoreInv, BusyInv, NotBusy
<1>8. ViewAgrees'
  BY <1>2, <1>3, SelectedFacts, SameView DEF IndInv
<1> QED
  BY <1>5, <1>6, <1>7, <1>8 DEF Keeps

\* DELETE takes the selection away before the mailbox.
LEMMA DeleteKeeps ==
    ASSUME IndInv, NEW name \in Names, Delete(name)
    PROVE  Keeps
<1>1. name \in DOMAIN store /\ name # Inbox /\ name \in Boxes
  BY DEF Delete, Exists, Normalize, Names, Boxes
<1>2. /\ DOMAIN store' = DOMAIN store \ {name}
      /\ \A b \in DOMAIN store' : store'[b] = store[b]
  BY DEF Delete
<1>3. /\ UNCHANGED <<readOnly, busy>> /\ missed' = {}
      /\ busy = NotBusy /\ state \in {"authenticated", "selected"}
  BY DEF Delete, Authenticated
<1>4. IF selected = name
      THEN selected' = NoBox /\ state' = "authenticated" /\ view' = <<>>
      ELSE selected' = selected /\ state' = state /\ view' = view
  BY DEF Delete
<1>5. StoreSteps
  BY <1>2 DEF StoreSteps, IndInv, TypeOK
<1>6. SessionTypes' /\ SelectionExists'
  <2>1. name # NoBox
    BY <1>1, NamesAssumption DEF Boxes
  <2>2. CASE selected = name
    BY <1>1, <1>3, <1>4, <2>2 DEF IndInv, TypeOK, SessionTypes, SelectionExists
  <2>3. CASE selected # name
    <3>1. SessionTypes'
      BY <1>3, <1>4, <2>3 DEF IndInv, TypeOK, SessionTypes
    <3>2. SelectionExists'
      BY <1>2, <1>3, <1>4, <2>3 DEF IndInv, SelectionExists
    <3> QED
      BY <3>1, <3>2
  <2> QED
    BY <2>2, <2>3
<1>7. StoreInv' /\ BusyInv'
  BY <1>1, <1>2, <1>3, <1>4 DEF IndInv, StoreInv, BusyInv, NotBusy
<1>8. ViewAgrees'
  <2>1. CASE selected = name
    BY <1>4, <2>1 DEF ViewAgrees
  <2>2. CASE selected # name
    <3>1. state = "selected" => store'[selected'] = store[selected]
      BY <1>2, <1>4, <2>2, SelectedFacts
    <3> QED
      BY <1>3, <1>4, <2>2, <3>1, SameView DEF IndInv
  <2> QED
    BY <2>1, <2>2
<1> QED
  BY <1>5, <1>6, <1>7, <1>8 DEF Keeps

\* RENAME takes the selection along; the new name is no spelling of INBOX,
\* because INBOX exists.
LEMMA RenameKeeps ==
    ASSUME IndInv, NEW from \in Names, NEW to \in Names, Rename(from, to)
    PROVE  Keeps
<1>1. /\ UNCHANGED <<state, readOnly, busy, view>> /\ missed' = {}
      /\ busy = NotBusy /\ state \in {"authenticated", "selected"}
      /\ selected' = IF selected = from THEN to ELSE selected
  BY DEF Rename, Authenticated
<1>2. Inbox \in DOMAIN store
  BY <1>1 DEF IndInv, StoreInv
<1>3. from \in DOMAIN store /\ from \in Boxes /\ from # Inbox
  BY DEF Rename, Exists, Normalize, Names, Boxes
<1>4. to # Alias /\ to \in Boxes /\ to \notin DOMAIN store /\ Normalize(to) = to
  BY <1>2, NamesAssumption DEF Rename, Exists, Normalize, Names, Boxes
<1>5. /\ DOMAIN store' = (DOMAIN store \ {from}) \cup {to}
      /\ store'[to] = store[from]
      /\ \A b \in DOMAIN store \ {from} : store'[b] = store[b]
  BY <1>3, <1>4 DEF Rename
<1>6. store[from] \in Mailbox /\ Ascending(store[from])
  BY <1>3, AscendingUids DEF IndInv, TypeOK, UidsAscend
<1>7. StoreSteps
  BY <1>3, <1>4, <1>5, <1>6 DEF StoreSteps, IndInv, TypeOK
<1>8. SessionTypes' /\ SelectionExists'
  <2>1. to # NoBox /\ from # NoBox
    BY <1>3, <1>4, NamesAssumption DEF Boxes
  <2> QED
    BY <1>1, <1>3, <1>4, <1>5, <2>1 DEF IndInv, TypeOK, SessionTypes, SelectionExists
<1>9. StoreInv' /\ BusyInv'
  BY <1>1, <1>2, <1>3, <1>5 DEF IndInv, StoreInv, BusyInv, NotBusy
<1>10. ViewAgrees'
  <2>1. state = "selected" => store'[selected'] = store[selected]
    BY <1>1, <1>5, SelectedFacts
  <2> QED
    BY <1>1, <2>1, SameView DEF IndInv
<1> QED
  BY <1>7, <1>8, <1>9, <1>10 DEF Keeps

\* What append and copy_messages do to the store.
LEMMA AddedProperties ==
    ASSUME TypeOK, NEW box \in DOMAIN store, NEW m \in Message
    PROVE  LET new == Added(box, m)
           IN  /\ DOMAIN new = DOMAIN store
               /\ \A b \in DOMAIN store \ {box} : new[b] = store[b]
               /\ Extends(store[box], new[box])
               /\ new[box].messages \in Seq(Message)
               /\ Len(new[box].messages) = Len(store[box].messages) + 1
               /\ \A i \in 1..Len(store[box].messages) :
                    new[box].messages[i] = store[box].messages[i]
<1> DEFINE n == [m EXCEPT !.uid = store[box].uidnext]
           old == store[box]
<1>1. old \in Mailbox
  BY DEF TypeOK
<1>2. old.messages \in Seq(Message) /\ old.uidnext \in Nat
      /\ old = [uidnext |-> old.uidnext, messages |-> old.messages]
  BY <1>1 DEF Mailbox
<1>3. n \in Message /\ n.uid = old.uidnext
  BY <1>2 DEF Message
<1>4. /\ DOMAIN Added(box, m) = DOMAIN store
      /\ \A b \in DOMAIN store \ {box} : Added(box, m)[b] = store[b]
      /\ Added(box, m)[box] = [uidnext |-> old.uidnext + 1, messages |-> Append(old.messages, n)]
  BY <1>2 DEF Added
<1> HIDE DEF n
<1>5. /\ Append(old.messages, n) \in Seq(Message)
      /\ Len(Append(old.messages, n)) = Len(old.messages) + 1
      /\ \A i \in 1..Len(old.messages) : Append(old.messages, n)[i] = old.messages[i]
  BY <1>2, <1>3, AppendProperties
<1>6. Extends(old, Added(box, m)[box])
  BY <1>3, <1>4 DEF Extends
<1> QED
  BY <1>4, <1>5, <1>6

\* APPEND puts a message at the end, and may tell the client.
LEMMA AppendKeeps ==
    ASSUME IndInv, NEW name \in Names, NEW deleted \in BOOLEAN, NEW seen \in BOOLEAN,
           AppendTo(name, deleted, seen)
    PROVE  Keeps
<1> DEFINE box == Normalize(name)
           m == [uid |-> 0, deleted |-> deleted, seen |-> seen]
<1>1. box \in DOMAIN store /\ m \in Message
  BY DEF AppendTo, Exists, Message
<1>2. /\ UNCHANGED <<state, selected, readOnly, busy>> /\ missed' = {}
      /\ busy = NotBusy /\ state \in {"authenticated", "selected"}
  BY DEF AppendTo, Authenticated
<1>3. store' = Added(box, m)
  BY DEF AppendTo
<1>4. view' = IF selected = name THEN Uids(store'[box].messages) ELSE view
  BY DEF AppendTo
<1>5. selected = name => selected = box \/ state # "selected"
  BY NamesAssumption, SelectedFacts DEF Normalize, Boxes
<1> HIDE DEF m, box
<1>6. /\ DOMAIN store' = DOMAIN store
      /\ \A b \in DOMAIN store \ {box} : store'[b] = store[b]
      /\ Extends(store[box], store'[box])
      /\ store'[box].messages \in Seq(Message)
      /\ Len(store'[box].messages) = Len(store[box].messages) + 1
      /\ \A i \in 1..Len(store[box].messages) :
           store'[box].messages[i] = store[box].messages[i]
  BY <1>1, <1>3, AddedProperties DEF IndInv
<1>7. StoreSteps
  BY <1>1, <1>6 DEF StoreSteps, IndInv, TypeOK
<1>8. view' \in Seq(Nat)
  BY <1>4, <1>6, UidsProperties DEF IndInv, TypeOK
<1>9. SessionTypes' /\ SelectionExists'
  BY <1>2, <1>6, <1>8 DEF IndInv, TypeOK, SessionTypes, SelectionExists
<1>10. StoreInv' /\ BusyInv'
  BY <1>2, <1>6 DEF IndInv, StoreInv, BusyInv, NotBusy
<1>11. ViewAgrees'
  <2>1. CASE state # "selected"
    BY <1>2, <2>1 DEF ViewAgrees
  <2>2. CASE state = "selected" /\ selected # box
    <3>1. store'[selected'] = store[selected] /\ view' = view
      BY <1>2, <1>4, <1>5, <1>6, <2>2, SelectedFacts
    <3> QED
      BY <1>2, <3>1, SameView DEF IndInv
  <2>3. CASE state = "selected" /\ selected = box
    <3>1. Fits(view, store[box].messages) /\ Len(store[box].messages) \in Nat
      BY <1>2, <2>3, SelectedFacts DEF Current, NotBusy
    <3>2. Len(view) \in Nat
      BY LenProperties DEF IndInv, TypeOK
    <3> DEFINE new == store'[box].messages
    <3>3. new \in Seq(Message) /\ Len(new) \in Nat
      BY <1>6, LenProperties
    <3> HIDE DEF new
    <3>4. Fits(view', new)
      <4>1. CASE selected = name
        <5>1. view' = Uids(new)
          BY <1>4, <4>1 DEF new
        <5> QED
          BY <3>3, <5>1, UidsProperties DEF Fits
      <4>2. CASE selected # name
        <5>1. /\ view' = view /\ Len(new) = Len(store[box].messages) + 1
              /\ \A i \in 1..Len(store[box].messages) : new[i] = store[box].messages[i]
          BY <1>4, <1>6, <4>2 DEF new
        <5> QED
          BY <3>1, <3>2, <5>1, SMTT(30) DEF Fits
      <4> QED
        BY <4>1, <4>2
    <3> QED
      BY <1>2, <1>8, <2>3, <3>3, <3>4, FitsAgrees DEF new
  <2> QED
    BY <2>1, <2>2, <2>3
<1> QED
  BY <1>7, <1>9, <1>10, <1>11 DEF Keeps

\* Flags of the selected mailbox change, and nothing else but the history.
LEMMA FlagsKeep ==
    ASSUME IndInv, state = "selected", busy = NotBusy, missed' \subseteq Nat,
           UNCHANGED <<state, selected, readOnly, busy, view>>,
           DOMAIN store' = DOMAIN store,
           \A b \in DOMAIN store \ {selected} : store'[b] = store[b],
           store'[selected] = store[selected]
             \/ (~readOnly /\ Reflags(store[selected], store'[selected]))
    PROVE  Keeps
<1>1. /\ selected \in DOMAIN store /\ store[selected] \in Mailbox
      /\ Current \in Seq(Message) /\ Fits(view, Current)
  BY SelectedFacts DEF NotBusy
<1>2. StoreSteps
  BY <1>1 DEF StoreSteps, IndInv, TypeOK
<1>3. SessionTypes' /\ SelectionExists'
  BY DEF IndInv, TypeOK, SessionTypes, SelectionExists
<1>4. StoreInv' /\ BusyInv'
  BY DEF IndInv, StoreInv, BusyInv, NotBusy
<1>5. ViewAgrees'
  <2>1. CASE store'[selected] = store[selected]
    BY <2>1, SameView DEF IndInv
  <2>2. CASE Reflags(store[selected], store'[selected])
    <3>1. store'[selected].messages \in Seq(Message)
      BY <2>2 DEF Reflags, Mailbox
    <3>2. Len(view) \in Nat /\ Len(Current) \in Nat /\ view \in Seq(Nat)
      BY <1>1, LenProperties DEF IndInv, TypeOK
    <3>3. Fits(view, store'[selected].messages)
      BY <1>1, <2>2, <3>2 DEF Fits, Reflags, Current
    <3> QED
      BY <3>1, <3>2, <3>3, FitsAgrees
  <2> QED
    BY <2>1, <2>2
<1> QED
  BY <1>2, <1>3, <1>4, <1>5 DEF Keeps

\* EXPUNGE, CLOSE and COPY begin without touching a mailbox.
LEMMA BeginKeeps ==
    ASSUME IndInv, NEW op \in {"expunge", "close", "copy"}, NEW todo, NEW dest,
           todo \subseteq DOMAIN Current, dest \in Boxes \cup {NoBox},
           op = "expunge" => ~readOnly, op = "copy" => dest \in DOMAIN store,
           Begin(op, todo, dest)
    PROVE  Keeps
<1>1. /\ UNCHANGED <<state, store, selected, readOnly, view>> /\ missed' = {}
      /\ busy' = [op |-> op, todo |-> todo, dest |-> dest]
      /\ state = "selected" /\ busy = NotBusy
  BY DEF Begin, Selected
<1>2. /\ Len(Current) \in Nat /\ DOMAIN Current = 1..Len(Current) /\ Current' = Current
      /\ Current \in Seq(Message) /\ Fits(view, Current) /\ view \in Seq(Nat)
  BY <1>1, SelectedFacts DEF Current, NotBusy, IndInv, TypeOK
<1>3. StoreSteps
  BY <1>1, SameStore DEF IndInv
<1>4. SessionTypes' /\ SelectionExists'
  BY <1>1 DEF IndInv, TypeOK, SessionTypes, SelectionExists
<1>5. StoreInv'
  BY <1>1 DEF IndInv, StoreInv
<1>6. BusyInv'
  BY <1>1, <1>2 DEF BusyInv
<1>7. ViewAgrees'
  BY <1>1, <1>2, FitsAgrees DEF Current
<1> QED
  BY <1>3, <1>4, <1>5, <1>6, <1>7 DEF Keeps

\* Rewriting flags message by message is what Reflags says.
LEMMA RewritesReflag ==
    ASSUME NEW old \in Mailbox, NEW g \in [DOMAIN old.messages -> Message],
           \A i \in DOMAIN old.messages : g[i].uid = old.messages[i].uid
    PROVE  Reflags(old, [old EXCEPT !.messages = g])
<1>1. /\ old.messages \in Seq(Message) /\ Len(old.messages) \in Nat
      /\ DOMAIN old.messages = 1..Len(old.messages)
  BY LenProperties DEF Mailbox
<1>2. g \in Seq(Message) /\ Len(g) = Len(old.messages)
  BY <1>1
<1> DEFINE new == [old EXCEPT !.messages = g]
<1>3. new \in Mailbox /\ new.messages = g /\ new.uidnext = old.uidnext
  BY <1>2 DEF Mailbox
<1> QED
  BY <1>1, <1>2, <1>3 DEF Reflags

\* The flags of the selected mailbox are all that changes in the store.
OnlyFlags ==
    /\ DOMAIN store' = DOMAIN store
    /\ \A b \in DOMAIN store \ {selected} : store'[b] = store[b]
    /\ ~readOnly /\ Reflags(store[selected], store'[selected])

\* FETCH sets \Seen, if anything.
LEMMA FetchReflags ==
    ASSUME IndInv, NEW S \in Picks, NEW items, Fetch(S, items)
    PROVE  store' = store \/ OnlyFlags
<1>1. /\ state = "selected"
      /\ store' = IF ~Peek(items) /\ ~readOnly THEN Changed(S, "seen", TRUE) ELSE store
  BY DEF Fetch, Selected
<1>2. /\ selected \in DOMAIN store /\ store[selected] \in Mailbox
      /\ Current \in Seq(Message) /\ DOMAIN Current = 1..Len(Current)
  BY <1>1, SelectedFacts
<1>3. SUFFICES ASSUME store' = Changed(S, "seen", TRUE), ~readOnly
               PROVE  OnlyFlags
  BY <1>1
<1> DEFINE g == [i \in DOMAIN store[selected].messages |->
                   IF i \in S THEN [store[selected].messages[i] EXCEPT !["seen"] = TRUE]
                   ELSE store[selected].messages[i]]
<1>4. /\ DOMAIN store' = DOMAIN store
      /\ \A b \in DOMAIN store \ {selected} : store'[b] = store[b]
      /\ store'[selected] = [store[selected] EXCEPT !.messages = g]
  BY <1>2, <1>3 DEF Changed
<1>5. /\ g \in [DOMAIN store[selected].messages -> Message]
      /\ \A i \in DOMAIN store[selected].messages :
           g[i].uid = store[selected].messages[i].uid
  <2>1. \A i \in DOMAIN store[selected].messages : store[selected].messages[i] \in Message
    BY <1>2, ElementOfSeq DEF Current
  <2> QED
    BY <2>1 DEF Message
<1> HIDE DEF g
<1>6. Reflags(store[selected], store'[selected])
  BY <1>2, <1>4, <1>5, RewritesReflag
<1> QED
  BY <1>3, <1>4, <1>6 DEF OnlyFlags

\* FETCH keeps the rest.
LEMMA FetchKeeps ==
    ASSUME IndInv, NEW S \in Picks, NEW items, Fetch(S, items)
    PROVE  Keeps
<1>1. /\ state = "selected" /\ busy = NotBusy
      /\ UNCHANGED <<state, selected, readOnly, busy, view>>
  BY DEF Fetch, Selected
<1>2. /\ selected \in DOMAIN store /\ store[selected] \in Mailbox
      /\ Current \in Seq(Message) /\ DOMAIN Current = 1..Len(Current)
  BY <1>1, SelectedFacts
<1>3. missed' \subseteq Nat
  <2>1. ASSUME NEW i \in DOMAIN Current
        PROVE  Current[i].uid \in Nat
    <3>1. Current[i] \in Message
      BY <1>2, ElementOfSeq
    <3> QED
      BY <3>1 DEF Message
  <2>2. S \subseteq DOMAIN Current
    BY DEF Picks
  <2> QED
    BY <2>1, <2>2 DEF Fetch, Unmarked
<1>4. CASE store' = store
  <2>1. /\ DOMAIN store' = DOMAIN store /\ store'[selected] = store[selected]
        /\ \A b \in DOMAIN store \ {selected} : store'[b] = store[b]
    BY <1>4
  <2> QED
    BY <1>1, <1>3, <2>1, FlagsKeep
<1>5. CASE OnlyFlags
  BY <1>1, <1>3, <1>5, FlagsKeep DEF OnlyFlags
<1> QED
  BY <1>4, <1>5, FetchReflags

\* STORE sets and clears flags of a mailbox opened for writing.
LEMMA StoreReflags ==
    ASSUME IndInv, NEW S \in Picks, NEW mode \in Modes,
           NEW flags \in SUBSET {"deleted", "seen"}, Store(S, mode, flags)
    PROVE  OnlyFlags
<1>1. state = "selected" /\ ~readOnly
  BY DEF Store, Selected
<1>2. /\ selected \in DOMAIN store /\ store[selected] \in Mailbox
      /\ Current \in Seq(Message) /\ DOMAIN Current = 1..Len(Current)
  BY <1>1, SelectedFacts
<1> DEFINE old == store[selected].messages
           g == [i \in DOMAIN old |->
                   IF i \in S
                   THEN [uid |-> old[i].uid,
                         deleted |-> NewFlag(mode, flags, "deleted", old[i].deleted),
                         seen |-> NewFlag(mode, flags, "seen", old[i].seen)]
                   ELSE old[i]]
<1>3. /\ DOMAIN store' = DOMAIN store
      /\ \A b \in DOMAIN store \ {selected} : store'[b] = store[b]
      /\ store'[selected] = [store[selected] EXCEPT !.messages = g]
  BY <1>2 DEF Store
<1>4. /\ g \in [DOMAIN old -> Message]
      /\ \A i \in DOMAIN old : g[i].uid = old[i].uid
  <2>1. \A i \in DOMAIN old : old[i] \in Message
    BY <1>2, ElementOfSeq DEF Current
  <2>2. ASSUME NEW f, NEW b \in BOOLEAN
        PROVE  NewFlag(mode, flags, f, b) \in BOOLEAN
    <3>1. CASE mode = "FLAGS"
      <4>1. NewFlag(mode, flags, f, b) = (f \in flags)
        BY <3>1 DEF NewFlag
      <4> QED
        BY <4>1
    <3>2. CASE mode = "+FLAGS"
      <4>1. NewFlag(mode, flags, f, b) = (b \/ f \in flags)
        BY <3>2 DEF NewFlag
      <4>2. (b \/ f \in flags) \in BOOLEAN
        BY Zenon
      <4> QED
        BY <4>1, <4>2, Zenon
    <3>3. CASE mode = "-FLAGS"
      <4>1. NewFlag(mode, flags, f, b) = (b /\ f \notin flags)
        BY <3>3 DEF NewFlag
      <4>2. (b /\ f \notin flags) \in BOOLEAN
        BY Zenon
      <4> QED
        BY <4>1, <4>2, Zenon
    <3> QED
      BY <3>1, <3>2, <3>3 DEF Modes
  <2> QED
    BY <2>1, <2>2 DEF Message
<1> HIDE DEF g
<1>5. Reflags(store[selected], store'[selected])
  BY <1>2, <1>3, <1>4, RewritesReflag
<1> QED
  BY <1>1, <1>3, <1>5 DEF OnlyFlags

\* STORE keeps the rest.
LEMMA StoreKeeps ==
    ASSUME IndInv, NEW S \in Picks, NEW mode \in Modes,
           NEW flags \in SUBSET {"deleted", "seen"}, Store(S, mode, flags)
    PROVE  Keeps
<1>1. /\ state = "selected" /\ busy = NotBusy /\ missed' \subseteq Nat
      /\ UNCHANGED <<state, selected, readOnly, busy, view>>
  BY DEF Store, Selected
<1> QED
  BY <1>1, StoreReflags, FlagsKeep DEF OnlyFlags

\* What the loops of EXPUNGE and CLOSE do to the store.
LEMMA RemovalPurges ==
    ASSUME IndInv, state = "selected", ~readOnly, NEW i \in Deleted(Current),
           store' = [store EXCEPT ![selected].messages = RemoveAt(@, i)]
    PROVE  /\ StoreSteps /\ DOMAIN store' = DOMAIN store
           /\ i \in 1..Len(Current)
           /\ store'[selected].messages = RemoveAt(Current, i)
<1>1. /\ selected \in DOMAIN store /\ store[selected] \in Mailbox
      /\ Current \in Seq(Message) /\ DOMAIN Current = 1..Len(Current)
  BY SelectedFacts
<1>2. i \in 1..Len(Current) /\ Current[i].deleted
  BY <1>1 DEF Deleted
<1>3. store[selected] = [uidnext |-> store[selected].uidnext, messages |-> Current]
  BY <1>1 DEF Mailbox, Current
<1>4. /\ DOMAIN store' = DOMAIN store
      /\ \A b \in DOMAIN store \ {selected} : store'[b] = store[b]
      /\ store'[selected] = [uidnext |-> store[selected].uidnext,
                             messages |-> RemoveAt(Current, i)]
  BY <1>1, <1>3 DEF Current
<1>5. Purges(store[selected], store'[selected])
  BY <1>2, <1>4 DEF Purges, Current
<1> QED
  BY <1>1, <1>2, <1>4, <1>5 DEF StoreSteps, IndInv, TypeOK

\* EXPUNGE takes the same message out of the mailbox and out of the view.
LEMMA ExpungeNextKeeps == ASSUME IndInv, ExpungeNext PROVE Keeps
<1>1. PICK i \in Deleted(Current) :
        /\ store' = [store EXCEPT ![selected].messages = RemoveAt(@, i)]
        /\ view' = IF i \in DOMAIN view THEN RemoveAt(view, i) ELSE view
  BY DEF ExpungeNext
<1>2. /\ UNCHANGED <<state, selected, readOnly, busy, missed>> /\ busy.op = "expunge"
      /\ busy # NotBusy
  BY DEF ExpungeNext, NotBusy
<1>3. state = "selected" /\ ~readOnly
  BY <1>2 DEF IndInv, SelectionExists, BusyInv
<1>4. /\ StoreSteps /\ DOMAIN store' = DOMAIN store /\ i \in 1..Len(Current)
      /\ store'[selected].messages = RemoveAt(Current, i)
  BY <1>1, <1>3, RemovalPurges
<1>5. /\ Current \in Seq(Message) /\ Len(Current) \in Nat /\ Fits(view, Current)
      /\ view \in Seq(Nat) /\ Len(view) \in Nat /\ DOMAIN view = 1..Len(view)
  BY <1>2, <1>3, SelectedFacts, LenProperties DEF IndInv, TypeOK
<1> DEFINE new == RemoveAt(Current, i)
<1>6. /\ new \in Seq(Message) /\ Len(new) = Len(Current) - 1
      /\ \A j \in 1..(Len(Current) - 1) :
           new[j] = IF j < i THEN Current[j] ELSE Current[j + 1]
  BY <1>4, <1>5, RemoveAtProperties
<1> HIDE DEF new
<1>7. view' \in Seq(Nat) /\ Fits(view', new)
  <2>1. CASE i \in DOMAIN view
    <3>1. /\ view' \in Seq(Nat) /\ Len(view') = Len(view) - 1
          /\ \A j \in 1..(Len(view) - 1) :
               view'[j] = IF j < i THEN view[j] ELSE view[j + 1]
      <4>1. view' = RemoveAt(view, i) /\ i \in 1..Len(view)
        BY <1>1, <1>5, <2>1
      <4> QED
        BY <1>5, <4>1, RemoveAtProperties
    <3>2. Len(view') <= Len(new) /\ i \in 1..Len(view)
      <4>1. Len(view) <= Len(Current)
        BY <1>5 DEF Fits
      <4> QED
        BY <1>5, <1>6, <2>1, <3>1, <4>1
    <3>3. ASSUME NEW j \in 1..Len(view')
          PROVE  view'[j] = new[j].uid
      <4>1. PICK k \in 1..Len(view) : k = IF j < i THEN j ELSE j + 1
        BY <1>5, <3>1, <3>2, SMTT(30)
      <4>2. view'[j] = view[k]
        <5>1. j \in 1..(Len(view) - 1)
          BY <3>1
        <5> QED
          BY <3>1, <4>1, <5>1
      <4>4. view[k] = Current[k].uid
        BY <1>5, <4>1 DEF Fits
      <4>3. new[j] = Current[k]
        <5>1. j \in 1..(Len(Current) - 1)
          BY <1>5, <1>6, <3>1, <3>2
        <5>2. new[j] = IF j < i THEN Current[j] ELSE Current[j + 1]
          BY <1>6, <5>1
        <5> QED
          BY <4>1, <5>2
      <4> QED
        BY <4>2, <4>3, <4>4
    <3> QED
      BY <3>1, <3>2, <3>3 DEF Fits
  <2>2. CASE i \notin DOMAIN view
    <3>1. Len(view) < i /\ view' = view
      BY <1>1, <1>4, <1>5, <2>2
    <3> QED
      BY <1>4, <1>5, <1>6, <3>1 DEF Fits
  <2> QED
    BY <2>1, <2>2
<1>8. SessionTypes' /\ SelectionExists'
  BY <1>2, <1>4, <1>7 DEF IndInv, TypeOK, SessionTypes, SelectionExists
<1>9. StoreInv' /\ BusyInv'
  BY <1>2, <1>4 DEF IndInv, StoreInv, BusyInv
<1>10. ViewAgrees'
  BY <1>2, <1>4, <1>6, <1>7, FitsAgrees DEF new
<1> QED
  BY <1>4, <1>8, <1>9, <1>10 DEF Keeps

\* CLOSE removes without telling; the view no longer counts.
LEMMA CloseNextKeeps == ASSUME IndInv, CloseNext PROVE Keeps
<1>1. PICK i \in Deleted(Current) :
        store' = [store EXCEPT ![selected].messages = RemoveAt(@, i)]
  BY DEF CloseNext
<1>2. /\ UNCHANGED <<state, selected, readOnly, busy, view, missed>> /\ busy.op = "close"
      /\ busy # NotBusy /\ ~readOnly
  BY DEF CloseNext, NotBusy
<1>3. state = "selected"
  BY <1>2 DEF IndInv, SelectionExists
<1>4. StoreSteps /\ DOMAIN store' = DOMAIN store
  BY <1>1, <1>2, <1>3, RemovalPurges
<1>5. SessionTypes' /\ SelectionExists'
  BY <1>2, <1>4 DEF IndInv, TypeOK, SessionTypes, SelectionExists
<1>6. StoreInv' /\ BusyInv' /\ ViewAgrees'
  BY <1>2, <1>4 DEF IndInv, StoreInv, BusyInv, ViewAgrees
<1> QED
  BY <1>4, <1>5, <1>6 DEF Keeps

\* COPY puts a message at the end, also of the mailbox it comes from.
LEMMA CopyNextKeeps == ASSUME IndInv, CopyNext PROVE Keeps
<1>1. PICK i \in busy.todo : /\ store' = Added(busy.dest, Current[i])
                             /\ busy' = [busy EXCEPT !.todo = @ \ {i}]
  BY DEF CopyNext
<1>2. /\ UNCHANGED <<state, selected, readOnly, view, missed>> /\ busy.op = "copy"
      /\ busy # NotBusy
  BY DEF CopyNext, NotBusy
<1>3. state = "selected" /\ busy.dest \in DOMAIN store
  BY <1>2 DEF IndInv, SelectionExists, BusyInv
<1>4. /\ selected \in DOMAIN store /\ Current \in Seq(Message) /\ Len(Current) \in Nat
      /\ Fits(view, Current) /\ view \in Seq(Nat) /\ Len(view) \in Nat
  BY <1>2, <1>3, SelectedFacts, LenProperties DEF IndInv, TypeOK
<1>5. /\ busy.todo \subseteq Nat \ {0} /\ \A j \in busy.todo : j <= Len(Current)
      /\ busy \in [op : {"none", "expunge", "close", "copy"}, todo : SUBSET (Nat \ {0}),
                    dest : Boxes \cup {NoBox}]
  BY <1>2 DEF IndInv, BusyInv
<1>6. Current[i] \in Message
  <2>1. i \in 1..Len(Current)
    BY <1>1, <1>4, <1>5
  <2> QED
    BY <1>4, <2>1, ElementOfSeq
<1> DEFINE box == busy.dest
<1>7. /\ DOMAIN store' = DOMAIN store
      /\ \A b \in DOMAIN store \ {box} : store'[b] = store[b]
      /\ Extends(store[box], store'[box])
      /\ store'[box].messages \in Seq(Message)
      /\ Len(store'[box].messages) = Len(store[box].messages) + 1
      /\ \A j \in 1..Len(store[box].messages) :
           store'[box].messages[j] = store[box].messages[j]
  <2>1. TypeOK
    BY DEF IndInv
  <2> HIDE DEF TypeOK
  <2> QED
    BY <1>1, <1>3, <1>6, <2>1, AddedProperties
<1>8. StoreSteps
  BY <1>3, <1>7 DEF StoreSteps, IndInv, TypeOK
<1>9. SessionTypes' /\ SelectionExists'
  BY <1>2, <1>3, <1>7 DEF IndInv, TypeOK, SessionTypes, SelectionExists
<1> DEFINE old == store[selected].messages
           new == store'[selected].messages
<1>10. /\ new \in Seq(Message) /\ Len(new) \in Nat /\ Len(old) \in Nat
       /\ Len(new) >= Len(old) /\ \A j \in 1..Len(old) : new[j] = old[j]
  <2>1. CASE selected = box
    BY <1>4, <1>7, <2>1, LenProperties DEF Current
  <2>2. CASE selected # box
    BY <1>4, <1>7, <2>2, LenProperties DEF Current
  <2> QED
    BY <2>1, <2>2
<1> HIDE DEF new, old
<1>11. StoreInv'
  BY <1>2, <1>7 DEF IndInv, StoreInv
<1>12. BusyInv'
  <2>1. /\ busy'.op = "copy" /\ busy'.dest = busy.dest /\ busy'.todo = busy.todo \ {i}
        /\ busy' \in [op : {"none", "expunge", "close", "copy"},
                       todo : SUBSET (Nat \ {0}), dest : Boxes \cup {NoBox}]
    BY <1>1, <1>2, <1>5
  <2>2. \A j \in busy'.todo : j <= Len(new)
    BY <1>4, <1>5, <1>10, <2>1 DEF Current, old
  <2>3. /\ busy'.op # "none" /\ busy'.op # "expunge"
        /\ \A j \in busy'.todo : j <= Len(Current')
    BY <1>2, <2>1, <2>2 DEF Current, new
  <2> QED
    BY <1>3, <1>7, <2>1, <2>3, ZenonT(30) DEF BusyInv
<1>13. ViewAgrees'
  <2>1. Fits(view, new)
    BY <1>4, <1>10 DEF Fits, Current, old
  <2> QED
    BY <1>2, <1>4, <1>10, <2>1, FitsAgrees DEF new
<1> QED
  BY <1>8, <1>9, <1>11, <1>12, <1>13 DEF Keeps

\* The end of a loop; CLOSE gives up the selection.
LEMMA DoneKeeps == ASSUME IndInv, Done PROVE Keeps
<1>1. /\ UNCHANGED <<store, readOnly, missed>> /\ busy' = NotBusy
      /\ busy.op \in {"expunge", "close", "copy"} /\ busy # NotBusy
      /\ IF busy.op = "close"
         THEN selected' = NoBox /\ state' = "authenticated" /\ view' = <<>>
         ELSE selected' = selected /\ state' = state /\ view' = view
  BY DEF Done, NotBusy
<1>2. state = "selected"
  BY <1>1 DEF IndInv, SelectionExists
<1>3. StoreSteps
  BY <1>1, SameStore DEF IndInv
<1>4. SessionTypes' /\ SelectionExists'
  <2>1. CASE busy.op = "close"
    BY <1>1, <2>1 DEF IndInv, TypeOK, SessionTypes, SelectionExists
  <2>2. CASE busy.op # "close"
    BY <1>1, <2>2 DEF IndInv, TypeOK, SessionTypes, SelectionExists
  <2> QED
    BY <2>1, <2>2
<1>5. StoreInv' /\ BusyInv'
  <2>1. StoreInv'
    BY <1>1, <1>2 DEF IndInv, StoreInv
  <2>2. BusyInv'
    BY <1>1 DEF BusyInv, NotBusy
  <2> QED
    BY <2>1, <2>2
<1>6. ViewAgrees'
  <2>1. CASE busy.op = "close"
    BY <1>1, <2>1 DEF ViewAgrees
  <2>2. CASE busy.op # "close"
    <3>1. Current \in Seq(Message) /\ Fits(view, Current) /\ view \in Seq(Nat)
      BY <1>2, <2>2, SelectedFacts DEF IndInv, TypeOK
    <3> QED
      BY <1>1, <2>2, <3>1, FitsAgrees DEF Current
  <2> QED
    BY <2>1, <2>2
<1> QED
  BY <1>3, <1>4, <1>5, <1>6 DEF Keeps

\* The mailboxes go with the connection.
LEMMA EndKeeps == ASSUME IndInv, End PROVE Keeps
<1>1. StoreSteps
  BY DEF End, StoreSteps
<1>2. SessionTypes' /\ SelectionExists'
  <2>1. /\ state' = "logout" /\ selected' = NoBox /\ readOnly' = FALSE
        /\ busy' = NotBusy /\ view' = <<>> /\ missed' = {}
    BY DEF End
  <2>2. SessionTypes'
    <3>1. <<>> \in Seq(Nat) /\ {} \subseteq Nat /\ FALSE \in BOOLEAN
      OBVIOUS
    <3> QED
      BY <2>1, <3>1, Zenon DEF SessionTypes
  <2>3. SelectionExists'
    BY <2>1 DEF SelectionExists
  <2> QED
    BY <2>2, <2>3
<1>3. StoreInv' /\ ViewAgrees'
  BY DEF End, StoreInv, ViewAgrees
<1>4. BusyInv'
  BY DEF End, BusyInv, NotBusy
<1> QED
  BY <1>1, <1>2, <1>3, <1>4 DEF Keeps

-----------------------------------------------------------------------------
(***************************************************************************)
(* The invariant                                                           *)
(***************************************************************************)

\* Every step, and a step of none, keeps what has to be kept.
LEMMA StepKeeps == ASSUME IndInv, [Next]_vars PROVE Keeps
<1>1. CASE Login
  BY <1>1, LoginKeeps
<1>2. CASE OnMailboxes
  <2>1. PICK name \in Names :
          \/ Create(name) \/ Delete(name)
          \/ \E ro \in BOOLEAN : Select(name, ro)
          \/ \E to \in Names : Rename(name, to)
          \/ \E deleted, seen \in BOOLEAN : AppendTo(name, deleted, seen)
    BY <1>2 DEF OnMailboxes
  <2> QED
    BY <2>1, CreateKeeps, DeleteKeeps, SelectKeeps, RenameKeeps, AppendKeeps
<1>3. CASE OnMessages
  <2>1. \A S \in Picks : S \subseteq DOMAIN Current
    BY DEF Picks
  <2>2. CASE \E S \in Picks, items \in Items : Fetch(S, items)
    BY <2>2, FetchKeeps
  <2>3. CASE \E S \in Picks, mode \in Modes, flags \in SUBSET {"deleted", "seen"} :
               Store(S, mode, flags)
    BY <2>3, StoreKeeps
  <2>4. CASE \E S \in Picks, name \in Names : Copy(S, name)
    <3>1. PICK S \in Picks, name \in Names : Copy(S, name)
      BY <2>4
    <3>2. Begin("copy", S, Normalize(name)) /\ Normalize(name) \in DOMAIN store
      BY <3>1 DEF Copy, Exists
    <3>3. Normalize(name) \in Boxes
      BY <3>2 DEF IndInv, TypeOK
    <3> QED
      BY <2>1, <3>2, <3>3, BeginKeeps
  <2>5. CASE Expunge
    <3>1. Begin("expunge", {}, NoBox) /\ ~readOnly
      BY <2>5 DEF Expunge
    <3> QED
      BY <3>1, BeginKeeps
  <2>6. CASE Close
    <3>1. Begin("close", {}, NoBox)
      BY <2>6 DEF Close
    <3> QED
      BY <3>1, BeginKeeps
  <2> QED
    BY <1>3, <2>2, <2>3, <2>4, <2>5, <2>6 DEF OnMessages
<1>4. CASE Loops
  BY <1>4, ExpungeNextKeeps, CloseNextKeeps, CopyNextKeeps, DoneKeeps DEF Loops
<1>5. CASE End
  BY <1>5, EndKeeps
<1>6. CASE UNCHANGED vars
  <2>1. UNCHANGED <<state, store, selected, readOnly, busy, view, missed>>
    BY <1>6 DEF vars
  <2>2. StoreSteps
    BY <2>1, SameStore DEF IndInv
  <2>3. SessionTypes' /\ SelectionExists'
    BY <2>1 DEF IndInv, TypeOK, SessionTypes, SelectionExists
  <2>4. StoreInv' /\ BusyInv'
    BY <2>1 DEF IndInv, StoreInv, BusyInv, Current
  <2>5. ViewAgrees'
    BY <2>1 DEF IndInv, ViewAgrees, Current
  <2> QED
    BY <2>2, <2>3, <2>4, <2>5 DEF Keeps
<1> QED
  BY <1>1, <1>2, <1>3, <1>4, <1>5, <1>6 DEF Next

\* Nobody is logged in yet.
LEMMA InitEstablishes == ASSUME Init PROVE IndInv
<1>1. DOMAIN store = {}
  BY DEF Init
<1>2. TypeOK /\ SelectionExists
  <2>1. busy.op = "none"
    BY DEF Init, NotBusy
  <2>2. <<>> \in Seq(Nat) /\ {} \subseteq Nat /\ FALSE \in BOOLEAN
    OBVIOUS
  <2>3. TypeOK
    BY <1>1, <2>1, <2>2 DEF Init, TypeOK
  <2>4. SelectionExists
    BY DEF Init, SelectionExists
  <2> QED
    BY <2>3, <2>4
<1>3. StoreInv /\ UidsAscend
  BY <1>1 DEF Init, StoreInv, UidsAscend
<1>4. BusyInv
  BY DEF Init, BusyInv, NotBusy
<1>5. ViewAgrees
  BY DEF Init, ViewAgrees
<1> QED
  BY <1>2, <1>3, <1>4, <1>5 DEF IndInv

\* What is kept adds up to the invariant.
LEMMA KeepsSuffices == ASSUME IndInv, Keeps PROVE IndInv'
<1>1. /\ \A b \in DOMAIN store' : store'[b] \in Mailbox
      /\ UidsAscend'
  BY StoreStepsKeep DEF IndInv, Keeps
<1>2. DOMAIN store' \subseteq Boxes
  BY DEF Keeps, StoreSteps
<1>3. busy'.op \in {"none", "expunge", "close", "copy"}
  BY DEF Keeps, BusyInv
<1>4. TypeOK'
  BY <1>1, <1>2, <1>3 DEF Keeps, SessionTypes, TypeOK
<1> QED
  BY <1>1, <1>4 DEF Keeps, IndInv

\* Every reachable state satisfies IndInv: whatever the commands of a session
\* and wherever its loops are.
THEOREM Invariant == Spec => []IndInv
<1>1. Init => IndInv
  BY InitEstablishes
<1>2. IndInv /\ [Next]_vars => IndInv'
  BY StepKeeps, KeepsSuffices
<1> QED
  BY <1>1, <1>2, PTL DEF Spec

\* TypeOK always holds: names are normalised and mailboxes well formed.
THEOREM TypeCorrect == Spec => []TypeOK
<1>1. IndInv => TypeOK
  BY DEF IndInv
<1> QED
  BY <1>1, Invariant, PTL

\* SelectionExists always holds: no DELETE or RENAME pulls the selected
\* mailbox away, and the loops always have it.
THEOREM SelectionStays == Spec => []SelectionExists
<1>1. IndInv => SelectionExists
  BY DEF IndInv
<1> QED
  BY <1>1, Invariant, PTL

\* ViewAgrees always holds: a client's sequence numbers mean the messages the
\* server takes them for.
THEOREM NumbersAgree == Spec => []ViewAgrees
<1>1. IndInv => ViewAgrees
  BY DEF IndInv
<1> QED
  BY <1>1, Invariant, PTL

\* UidsAscend always holds: UIDs rise with the sequence numbers, below UIDNEXT.
THEOREM UidsStayInOrder == Spec => []UidsAscend
<1>1. IndInv => UidsAscend
  BY DEF IndInv
<1> QED
  BY <1>1, Invariant, PTL

-----------------------------------------------------------------------------
(***************************************************************************)
(* What a step may never do to a mailbox                                   *)
(***************************************************************************)

\* The UIDs of a mailbox as a set.
LEMMA UidsOfRange ==
    ASSUME NEW s \in Seq(Message)
    PROVE  Range(Uids(s)) = {s[i].uid : i \in 1..Len(s)}
<1>1. DOMAIN Uids(s) = 1..Len(s) /\ \A i \in 1..Len(s) : Uids(s)[i] = s[i].uid
  BY UidsProperties
<1> QED
  BY <1>1 DEF Range

\* A message that arrives has the UID that was next, and all others stay.
Adds(old, new) ==
    /\ new \in Mailbox /\ new.uidnext = old.uidnext + 1
    /\ Range(old.messages) \subseteq Range(new.messages)
    /\ \A i \in 1..Len(new.messages) :
         new.messages[i].uid = old.uidnext
           \/ \E k \in 1..Len(old.messages) : new.messages[i] = old.messages[k]

\* Extends adds a message.
LEMMA ExtendsAdds ==
    ASSUME NEW old \in Mailbox, NEW new, Extends(old, new)
    PROVE  Adds(old, new)
<1>1. PICK m \in Message : /\ m.uid = old.uidnext
                           /\ new = [uidnext |-> old.uidnext + 1,
                                     messages |-> Append(old.messages, m)]
  BY DEF Extends
<1>2. /\ old.messages \in Seq(Message) /\ old.uidnext \in Nat /\ Len(old.messages) \in Nat
      /\ DOMAIN old.messages = 1..Len(old.messages)
  BY LenProperties DEF Mailbox
<1>3. new.messages = Append(old.messages, m) /\ new.uidnext = old.uidnext + 1
  BY <1>1
<1>4. /\ new.messages \in Seq(Message) /\ Len(new.messages) = Len(old.messages) + 1
      /\ \A i \in 1..Len(old.messages) : new.messages[i] = old.messages[i]
      /\ new.messages[Len(old.messages) + 1] = m
  BY <1>2, <1>3, AppendProperties
<1>5. DOMAIN new.messages = 1..Len(new.messages)
  BY <1>4, LenProperties
<1>6. new \in Mailbox
  BY <1>1, <1>2, <1>3, <1>4 DEF Mailbox
<1>7. Range(old.messages) \subseteq Range(new.messages)
  BY <1>2, <1>4, <1>5 DEF Range
<1>8. ASSUME NEW i \in 1..Len(new.messages)
      PROVE  new.messages[i].uid = old.uidnext
               \/ \E k \in 1..Len(old.messages) : new.messages[i] = old.messages[k]
  BY <1>1, <1>2, <1>4
<1> QED
  BY <1>3, <1>6, <1>7, <1>8, Zenon DEF Adds

\* What any of the changes does to the UIDs of a mailbox: new ones come from
\* UIDNEXT on, and only those of deleted messages go.
UidsKept(old, new) ==
    /\ new.messages \in Seq(Message) /\ new.uidnext >= old.uidnext
    /\ \A i \in 1..Len(new.messages) :
         new.messages[i].uid >= old.uidnext
           \/ \E k \in 1..Len(old.messages) : new.messages[i].uid = old.messages[k].uid
    /\ \A k \in 1..Len(old.messages) : old.messages[k].deleted
         \/ \E i \in 1..Len(new.messages) : new.messages[i].uid = old.messages[k].uid

\* A message that arrives keeps the UIDs.
LEMMA ExtendsKeepsUids ==
    ASSUME NEW old \in Mailbox, NEW new, Extends(old, new)
    PROVE  UidsKept(old, new)
<1>0. /\ old.messages \in Seq(Message) /\ old.uidnext \in Nat /\ Len(old.messages) \in Nat
      /\ DOMAIN old.messages = 1..Len(old.messages)
  BY LenProperties DEF Mailbox
<1>1. /\ new \in Mailbox /\ new.uidnext = old.uidnext + 1
      /\ Range(old.messages) \subseteq Range(new.messages)
      /\ \A i \in 1..Len(new.messages) :
           new.messages[i].uid = old.uidnext
             \/ \E k \in 1..Len(old.messages) : new.messages[i] = old.messages[k]
  <2>1. Adds(old, new)
    BY ExtendsAdds
  <2> QED
    BY <2>1 DEF Adds
<1>2. new.messages \in Seq(Message) /\ DOMAIN new.messages = 1..Len(new.messages)
  BY <1>1, LenProperties DEF Mailbox
<1>3. ASSUME NEW k \in 1..Len(old.messages)
      PROVE  \E i \in 1..Len(new.messages) : new.messages[i].uid = old.messages[k].uid
  <2>1. old.messages[k] \in Range(new.messages)
    BY <1>0, <1>1 DEF Range
  <2> QED
    BY <1>2, <2>1 DEF Range
<1>4. ASSUME NEW i \in 1..Len(new.messages)
      PROVE  new.messages[i].uid >= old.uidnext
               \/ \E k \in 1..Len(old.messages) : new.messages[i].uid = old.messages[k].uid
  <2>1. CASE new.messages[i].uid = old.uidnext
    BY <1>0, <2>1
  <2>2. CASE \E k \in 1..Len(old.messages) : new.messages[i] = old.messages[k]
    BY <2>2
  <2> QED
    BY <1>1, <2>1, <2>2
<1>5. new.uidnext >= old.uidnext
  BY <1>0, <1>1
<1> QED
  BY <1>2, <1>3, <1>4, <1>5, Zenon DEF UidsKept

\* So does a message that goes.
LEMMA PurgesKeepsUids ==
    ASSUME NEW old \in Mailbox, NEW new, Purges(old, new)
    PROVE  UidsKept(old, new)
<1>1. PICK i \in 1..Len(old.messages) :
        /\ old.messages[i].deleted
        /\ new = [uidnext |-> old.uidnext, messages |-> RemoveAt(old.messages, i)]
  BY DEF Purges
<1>2. old.messages \in Seq(Message) /\ Len(old.messages) \in Nat /\ old.uidnext \in Nat
  BY LenProperties DEF Mailbox
<1>3. new.messages = RemoveAt(old.messages, i) /\ new.uidnext = old.uidnext
  BY <1>1
<1>4. /\ new.messages \in Seq(Message) /\ Len(new.messages) = Len(old.messages) - 1
      /\ \A j \in 1..(Len(old.messages) - 1) :
           new.messages[j] = IF j < i THEN old.messages[j] ELSE old.messages[j + 1]
  BY <1>2, <1>3, RemoveAtProperties
<1>5. ASSUME NEW j \in 1..Len(new.messages)
      PROVE  \E k \in 1..Len(old.messages) : new.messages[j] = old.messages[k]
  BY <1>2, <1>4
<1>6. ASSUME NEW k \in 1..Len(old.messages)
      PROVE  old.messages[k].deleted
               \/ \E j \in 1..Len(new.messages) : new.messages[j] = old.messages[k]
  <2>1. CASE k = i
    BY <1>1, <2>1
  <2>2. CASE k < i
    <3>1. k \in 1..(Len(old.messages) - 1) /\ new.messages[k] = old.messages[k]
      BY <1>2, <1>4, <2>2
    <3> QED
      BY <1>4, <3>1
  <2>3. CASE k > i
    <3>1. k - 1 \in 1..(Len(old.messages) - 1) /\ ~(k - 1 < i) /\ (k - 1) + 1 = k
      BY <1>2, <2>3
    <3>2. new.messages[k - 1] = old.messages[k]
      BY <1>4, <3>1
    <3> QED
      BY <1>4, <3>1, <3>2
  <2> QED
    BY <2>1, <2>2, <2>3
<1>7. new.messages \in Seq(Message) /\ new.uidnext >= old.uidnext
  BY <1>2, <1>3, <1>4
<1>8. ASSUME NEW i1 \in 1..Len(new.messages)
      PROVE  \E k \in 1..Len(old.messages) : new.messages[i1].uid = old.messages[k].uid
  BY <1>5
<1>9. ASSUME NEW k \in 1..Len(old.messages)
      PROVE  old.messages[k].deleted
               \/ \E j \in 1..Len(new.messages) : new.messages[j].uid = old.messages[k].uid
  BY <1>6
<1> QED
  BY <1>7, <1>8, <1>9, Zenon DEF UidsKept

\* So does every change of a mailbox.
LEMMA ChangeKeepsUids ==
    ASSUME NEW old \in Mailbox, NEW new,
           new = old \/ Extends(old, new) \/ Reflags(old, new) \/ Purges(old, new)
    PROVE  UidsKept(old, new)
<1>1. /\ old.messages \in Seq(Message) /\ old.uidnext \in Nat /\ Len(old.messages) \in Nat
      /\ DOMAIN old.messages = 1..Len(old.messages)
  BY LenProperties DEF Mailbox
<1>2. CASE new = old
  BY <1>1, <1>2 DEF UidsKept
<1>3. CASE Extends(old, new)
  BY <1>3, ExtendsKeepsUids
<1>4. CASE Reflags(old, new)
  BY <1>1, <1>4 DEF Reflags, Mailbox, UidsKept
<1>5. CASE Purges(old, new)
  BY <1>5, PurgesKeepsUids
<1> QED
  BY <1>2, <1>3, <1>4, <1>5

\* A step changes a mailbox in no other way.
LEMMA BoxChanges ==
    ASSUME IndInv, [Next]_vars, NEW b \in DOMAIN store \cap DOMAIN store'
    PROVE  /\ store[b] \in Mailbox
           /\ \/ store'[b] = store[b] \/ Extends(store[b], store'[b])
              \/ Reflags(store[b], store'[b]) \/ Purges(store[b], store'[b])
           /\ b = selected /\ readOnly =>
                store'[b] = store[b] \/ Extends(store[b], store'[b])
<1>1. StoreSteps
  BY StepKeeps DEF Keeps
<1> QED
  BY <1>1 DEF StoreSteps, IndInv, TypeOK

\* A UID is never given to a second message of a mailbox.
THEOREM UidsNeverReused == Spec => UidsAreNew
<1>1. ASSUME IndInv, [Next]_vars, NEW b \in DOMAIN store \cap DOMAIN store'
      PROVE  /\ store'[b].uidnext >= store[b].uidnext
             /\ \A u \in UidSet(b)' \ UidSet(b) : u >= store[b].uidnext
  <2> DEFINE old == store[b]
             new == store'[b]
  <2>1. /\ old \in Mailbox
        /\ new = old \/ Extends(old, new) \/ Reflags(old, new) \/ Purges(old, new)
    BY <1>1, BoxChanges
  <2>2. old.messages \in Seq(Message)
    BY <2>1 DEF Mailbox
  <2>3. UidSet(b) = Range(Uids(old.messages)) /\ UidSet(b)' = Range(Uids(new.messages))
    BY DEF UidSet
  <2> HIDE DEF old, new
  <2>4. /\ new.messages \in Seq(Message) /\ new.uidnext >= old.uidnext
        /\ \A i \in 1..Len(new.messages) :
             new.messages[i].uid >= old.uidnext
               \/ \E k \in 1..Len(old.messages) : new.messages[i].uid = old.messages[k].uid
    BY <2>1, ChangeKeepsUids DEF UidsKept
  <2>5. /\ UidSet(b) = {old.messages[i].uid : i \in 1..Len(old.messages)}
        /\ UidSet(b)' = {new.messages[i].uid : i \in 1..Len(new.messages)}
    BY <2>2, <2>3, <2>4, UidsOfRange
  <2>6. \A u \in UidSet(b)' \ UidSet(b) : u >= old.uidnext
    BY <2>4, <2>5
  <2> QED
    BY <2>4, <2>6 DEF old, new
<1> DEFINE Step == \A b \in DOMAIN store \cap DOMAIN store' :
                     /\ store'[b].uidnext >= store[b].uidnext
                     /\ \A u \in UidSet(b)' \ UidSet(b) : u >= store[b].uidnext
<1>2. IndInv /\ [Next]_vars => [Step]_vars
  BY <1>1
<1>3. UidsAreNew <=> [][Step]_vars
  BY DEF UidsAreNew
<1> HIDE DEF Step
<1> QED
  BY <1>2, <1>3, Invariant, PTL DEF Spec

\* A message leaves a mailbox that stays only if it is marked deleted.
THEOREM OnlyDeletedMessagesLeave == Spec => OnlyDeletedLeave
<1>1. ASSUME IndInv, [Next]_vars, NEW b \in DOMAIN store \cap DOMAIN store',
             NEW m \in Range(store[b].messages)
      PROVE  m.deleted \/ m.uid \in UidSet(b)'
  <2> DEFINE old == store[b]
             new == store'[b]
  <2>1. /\ old \in Mailbox
        /\ new = old \/ Extends(old, new) \/ Reflags(old, new) \/ Purges(old, new)
    BY <1>1, BoxChanges
  <2>2. DOMAIN old.messages = 1..Len(old.messages)
    BY <2>1, LenProperties DEF Mailbox
  <2>3. UidSet(b)' = Range(Uids(new.messages)) /\ m \in Range(old.messages)
    BY DEF UidSet
  <2> HIDE DEF old, new
  <2>4. /\ new.messages \in Seq(Message)
        /\ \A k \in 1..Len(old.messages) : old.messages[k].deleted
             \/ \E i \in 1..Len(new.messages) : new.messages[i].uid = old.messages[k].uid
    BY <2>1, ChangeKeepsUids DEF UidsKept
  <2>5. UidSet(b)' = {new.messages[i].uid : i \in 1..Len(new.messages)}
    BY <2>3, <2>4, UidsOfRange
  <2>6. PICK k \in 1..Len(old.messages) : m = old.messages[k]
    BY <2>2, <2>3 DEF Range
  <2> QED
    BY <2>4, <2>5, <2>6
<1> DEFINE Step == \A b \in DOMAIN store \cap DOMAIN store' :
                     \A m \in Range(store[b].messages) : m.deleted \/ m.uid \in UidSet(b)'
<1>2. IndInv /\ [Next]_vars => [Step]_vars
  BY <1>1
<1>3. OnlyDeletedLeave <=> [][Step]_vars
  BY DEF OnlyDeletedLeave
<1> HIDE DEF Step
<1> QED
  BY <1>2, <1>3, Invariant, PTL DEF Spec

\* No command changes a mailbox that was only EXAMINEd, or takes from it.
THEOREM ExaminedStaysUnchanged == Spec => ExaminedKept
<1> DEFINE Step == state = "selected" /\ readOnly /\ selected \in DOMAIN store' =>
                     Range(Current) \subseteq Range(store'[selected].messages)
<1>1. ASSUME IndInv, [Next]_vars, state = "selected", readOnly, selected \in DOMAIN store'
      PROVE  Range(Current) \subseteq Range(store'[selected].messages)
  <2>1. selected \in DOMAIN store \cap DOMAIN store' /\ store[selected] \in Mailbox
    BY <1>1, SelectedFacts
  <2>2. store'[selected] = store[selected] \/ Extends(store[selected], store'[selected])
    BY <1>1, <2>1, BoxChanges
  <2>3. CASE store'[selected] = store[selected]
    BY <2>3 DEF Current
  <2>4. CASE Extends(store[selected], store'[selected])
    BY <2>1, <2>4, ExtendsAdds DEF Adds, Current
  <2> QED
    BY <2>2, <2>3, <2>4
<1>2. IndInv /\ [Next]_vars => [Step]_vars
  BY <1>1
<1>3. ExaminedKept <=> [][Step]_vars
  BY DEF ExaminedKept
<1> HIDE DEF Step
<1> QED
  BY <1>2, <1>3, Invariant, PTL DEF Spec

=============================================================================
