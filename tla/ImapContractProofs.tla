--------------------------- MODULE ImapContractProofs ---------------------------
(***************************************************************************)
(* The IMAP session implements MailboxContract, for any mailbox names and  *)
(* any bounds: every step of a command is one the contract allows, or      *)
(* changes nothing the contract speaks of.                                 *)
(***************************************************************************)
EXTENDS ImapSessionProofs

\* A mailbox as the contract sees it.
Show(box) == [next |-> box.uidnext, mail |-> Range(box.messages)]

\* Nothing the contract sees changes.
Stutter == UNCHANGED <<ShownBoxes, selected, ShownMode, Range(view)>>

\* What every step has to show.
Implements == Contract!Next \/ Stutter

-----------------------------------------------------------------------------
(* Mailboxes as sets                                                       *)

LEMMA RangeIs ==
    ASSUME NEW S, NEW s \in Seq(S)
    PROVE  Range(s) = {s[i] : i \in 1..Len(s)}
BY LenProperties DEF Range

\* Without repetitions, what goes from a sequence goes from its range.
LEMMA RangeRemoveAt ==
    ASSUME NEW S, NEW s \in Seq(S), NEW i \in 1..Len(s),
           \A j, k \in 1..Len(s) : j # k => s[j] # s[k]
    PROVE  Range(RemoveAt(s, i)) = Range(s) \ {s[i]}
<1> DEFINE r == RemoveAt(s, i)
<1>1. /\ r \in Seq(S) /\ Len(r) = Len(s) - 1 /\ Len(s) \in Nat
      /\ \A j \in 1..(Len(s) - 1) : r[j] = IF j < i THEN s[j] ELSE s[j + 1]
  BY RemoveAtProperties, LenProperties
<1> HIDE DEF r
<1>2. Range(r) = {r[j] : j \in 1..(Len(s) - 1)} /\ Range(s) = {s[j] : j \in 1..Len(s)}
  BY <1>1, RangeIs
<1>3. ASSUME NEW j \in 1..(Len(s) - 1)
      PROVE  \E k \in 1..Len(s) : k # i /\ r[j] = s[k]
  <2>1. CASE j < i
    BY <1>1, <2>1
  <2>2. CASE ~ (j < i)
    <3>1. j + 1 \in 1..Len(s) /\ j + 1 # i
      BY <1>1, <2>2
    <3> QED
      BY <1>1, <2>2, <3>1
  <2> QED
    BY <2>1, <2>2
<1>4. ASSUME NEW k \in 1..Len(s), k # i
      PROVE  \E j \in 1..(Len(s) - 1) : r[j] = s[k]
  <2>1. CASE k < i
    <3>1. k \in 1..(Len(s) - 1)
      BY <1>1, <2>1
    <3> QED
      BY <1>1, <2>1, <3>1
  <2>2. CASE k > i
    <3>1. k - 1 \in 1..(Len(s) - 1) /\ ~ (k - 1 < i) /\ (k - 1) + 1 = k
      BY <1>1, <2>2
    <3> QED
      BY <1>1, <3>1
  <2> QED
    BY <1>1, <1>4, <2>1, <2>2
<1>5. Range(r) \subseteq Range(s) \ {s[i]}
  BY <1>2, <1>3
<1>6. Range(s) \ {s[i]} \subseteq Range(r)
  BY <1>2, <1>4
<1> QED
  BY <1>5, <1>6 DEF r

\* The UIDs of a mailbox, as the contract collects them.
LEMMA UidsInIs ==
    ASSUME NEW s \in Seq(Message)
    PROVE  Range(Uids(s)) = Contract!UidsIn(Range(s))
<1>1. Range(Uids(s)) = {s[i].uid : i \in 1..Len(s)}
  BY UidsOfRange
<1>2. Range(s) = {s[i] : i \in 1..Len(s)}
  BY RangeIs
<1> QED
  BY <1>1, <1>2 DEF Contract!UidsIn

\* UIDs that ascend are distinct.
LEMMA AscendingIsProper ==
    ASSUME NEW box \in Mailbox, Ascending(box)
    PROVE  /\ Contract!Proper(Show(box))
           /\ \A j, k \in 1..Len(box.messages) :
                  j # k => box.messages[j].uid # box.messages[k].uid
<1>1. /\ box.messages \in Seq(Message) /\ Len(box.messages) \in Nat
      /\ \A i \in 1..Len(box.messages) : box.messages[i] \in Message
  BY LenProperties, ElementOfSeq DEF Mailbox
<1>2. \A i \in 1..Len(box.messages) : box.messages[i].uid \in Nat
  BY <1>1 DEF Message
<1>3. \A j, k \in 1..Len(box.messages) : j # k => box.messages[j].uid # box.messages[k].uid
  <2> SUFFICES ASSUME NEW j \in 1..Len(box.messages), NEW k \in 1..Len(box.messages), j # k
               PROVE  box.messages[j].uid # box.messages[k].uid
    OBVIOUS
  <2>1. j < k \/ k < j
    BY <1>1
  <2> QED
    BY <1>2, <2>1 DEF Ascending
<1>4. Range(box.messages) = {box.messages[i] : i \in 1..Len(box.messages)}
  BY <1>1, RangeIs
<1>5. Contract!Proper(Show(box))
  BY <1>3, <1>4 DEF Contract!Proper, Show, Ascending
<1> QED
  BY <1>3, <1>5

\* A message that comes.
LEMMA ShowExtends ==
    ASSUME NEW old \in Mailbox, NEW new, Extends(old, new)
    PROVE  \E deleted, seen \in BOOLEAN :
             Show(new) = [next |-> Show(old).next + 1,
                          mail |-> Show(old).mail \cup
                            {[uid |-> Show(old).next, deleted |-> deleted, seen |-> seen]}]
<1>1. PICK m \in Message : /\ m.uid = old.uidnext
                           /\ new = [uidnext |-> old.uidnext + 1,
                                     messages |-> Append(old.messages, m)]
  BY DEF Extends
<1>2. /\ old.messages \in Seq(Message) /\ Len(old.messages) \in Nat
      /\ new.messages = Append(old.messages, m) /\ new.uidnext = old.uidnext + 1
  BY <1>1, LenProperties DEF Mailbox
<1>3. /\ new.messages \in Seq(Message) /\ Len(new.messages) = Len(old.messages) + 1
      /\ \A i \in 1..Len(old.messages) : new.messages[i] = old.messages[i]
      /\ new.messages[Len(old.messages) + 1] = m
  BY <1>2, AppendProperties
<1>4. /\ Range(old.messages) = {old.messages[i] : i \in 1..Len(old.messages)}
      /\ Range(new.messages) = {new.messages[i] : i \in 1..Len(old.messages) + 1}
  BY <1>2, <1>3, RangeIs
<1>5. Range(new.messages) = Range(old.messages) \cup {m}
  <2>1. \A i \in 1..Len(old.messages) + 1 : i = Len(old.messages) + 1 \/ i \in 1..Len(old.messages)
    BY <1>2
  <2>2. Len(old.messages) + 1 \in 1..Len(old.messages) + 1
        /\ \A i \in 1..Len(old.messages) : i \in 1..Len(old.messages) + 1
    BY <1>2
  <2> QED
    BY <1>3, <1>4, <2>1, <2>2
<1>6. m = [uid |-> old.uidnext, deleted |-> m.deleted, seen |-> m.seen]
      /\ m.deleted \in BOOLEAN /\ m.seen \in BOOLEAN
  BY <1>1 DEF Message
<1>7. Show(new) = [next |-> Show(old).next + 1, mail |-> Show(old).mail \cup {m}]
      /\ Show(old).next = old.uidnext
  BY <1>2, <1>5 DEF Show
<1> QED
  BY <1>6, <1>7

\* Flags that change.
LEMMA ShowReflags ==
    ASSUME NEW old \in Mailbox, NEW new, Ascending(old), Reflags(old, new)
    PROVE  /\ Show(new).next = Show(old).next
           /\ Contract!Proper(Show(new))
           /\ Contract!UidsIn(Show(new).mail) = Contract!UidsIn(Show(old).mail)
<1>1. new \in Mailbox /\ Ascending(new)
  BY ReflagsKeeps
<1>2. /\ new.messages \in Seq(Message) /\ old.messages \in Seq(Message)
      /\ Len(new.messages) = Len(old.messages) /\ new.uidnext = old.uidnext
      /\ \A i \in 1..Len(old.messages) : new.messages[i].uid = old.messages[i].uid
  BY <1>1 DEF Mailbox, Reflags
<1>3. /\ Range(Uids(new.messages)) = {new.messages[i].uid : i \in 1..Len(new.messages)}
      /\ Range(Uids(old.messages)) = {old.messages[i].uid : i \in 1..Len(old.messages)}
  BY <1>2, UidsOfRange
<1>4. Range(Uids(new.messages)) = Range(Uids(old.messages))
  BY <1>2, <1>3
<1>5. Contract!UidsIn(Range(new.messages)) = Contract!UidsIn(Range(old.messages))
  BY <1>2, <1>4, UidsInIs
<1>6. Contract!Proper(Show(new))
  BY <1>1, AscendingIsProper
<1> QED
  BY <1>2, <1>5, <1>6 DEF Show

\* The parts of what is shown.
LEMMA ShowNext ==
    ASSUME NEW box
    PROVE  Show(box).next = box.uidnext /\ Show(box).mail = Range(box.messages)
BY DEF Show

\* A message that goes.
LEMMA ShowPurges ==
    ASSUME NEW old \in Mailbox, Ascending(old), NEW i \in 1..Len(old.messages)
    PROVE  Show([uidnext |-> old.uidnext, messages |-> RemoveAt(old.messages, i)])
             = [next |-> Show(old).next, mail |-> Show(old).mail \ {old.messages[i]}]
           /\ old.messages[i] \in Show(old).mail
<1>1. old.messages \in Seq(Message)
  BY DEF Mailbox
<1>2. Range(RemoveAt(old.messages, i)) = Range(old.messages) \ {old.messages[i]}
  <2>1. \A j, k \in 1..Len(old.messages) : j # k => old.messages[j] # old.messages[k]
    BY AscendingIsProper
  <2> QED
    BY <1>1, <2>1, RangeRemoveAt
<1>3. old.messages[i] \in Range(old.messages)
  BY <1>1, RangeIs
<1>4. Show(old).next = old.uidnext /\ Show(old).mail = Range(old.messages)
  BY ShowNext
<1> DEFINE r == RemoveAt(old.messages, i)
<1> HIDE DEF r
<1>5. Show([uidnext |-> old.uidnext, messages |-> r]) = [next |-> old.uidnext, mail |-> Range(r)]
  BY DEF Show
<1> QED
  BY <1>2, <1>3, <1>4, <1>5 DEF r

-----------------------------------------------------------------------------
(* The state as the contract sees it                                       *)

\* What the invariant says of each mailbox.
LEMMA BoxFacts ==
    ASSUME IndInv, NEW b \in DOMAIN store
    PROVE  /\ b \in Boxes /\ b # NoBox
           /\ store[b] \in Mailbox /\ Ascending(store[b])
           /\ DOMAIN ShownBoxes = DOMAIN store /\ ShownBoxes[b] = Show(store[b])
<1>1. b \in Boxes /\ store[b] \in Mailbox
  BY DEF IndInv, TypeOK
<1>2. Ascending(store[b])
  BY <1>1, AscendingUids DEF IndInv, UidsAscend
<1>3. b # NoBox
  BY <1>1, NamesAssumption DEF Boxes
<1> QED
  BY <1>1, <1>2, <1>3 DEF ShownBoxes, Show

\* One mailbox changes.
LEMMA OneBoxChanges ==
    ASSUME NEW b \in DOMAIN store, DOMAIN store' = DOMAIN store,
           \A c \in DOMAIN store \ {b} : store'[c] = store[c]
    PROVE  /\ ShownBoxes' = [ShownBoxes EXCEPT ![b] = Show(store'[b])]
           /\ DOMAIN ShownBoxes = DOMAIN store
           /\ ShownBoxes[b] = Show(store[b])
BY DEF ShownBoxes, Show

LEMMA LoginImplements == ASSUME IndInv, Login PROVE Contract!Begin
<1>1. DOMAIN store = {}
  BY DEF Login, IndInv, StoreInv
<1>2. IndInv'
  BY LoginKeeps, KeepsSuffices
<1>3. DOMAIN store' \subseteq Boxes /\ Inbox \in DOMAIN store'
  BY <1>2 DEF Login, IndInv, StoreInv, TypeOK
<1>4. ASSUME NEW b \in DOMAIN store'
      PROVE  Contract!Proper(ShownBoxes'[b])
  <2>1. store'[b] \in Mailbox /\ Ascending(store'[b])
    BY <1>1, LoginKeeps DEF Keeps, StoreSteps
  <2>2. ShownBoxes'[b] = Show(store'[b])
    BY DEF ShownBoxes, Show
  <2> QED
    BY <2>1, <2>2, AscendingIsProper
<1>5. UNCHANGED <<selected, ShownMode, Range(view)>>
  BY DEF Login, ShownMode
<1>6. DOMAIN ShownBoxes = DOMAIN store /\ DOMAIN ShownBoxes' = DOMAIN store'
  BY DEF ShownBoxes
<1> QED
  BY <1>1, <1>3, <1>4, <1>5, <1>6 DEF Contract!Begin

LEMMA SelectImplements ==
    ASSUME IndInv, NEW name \in Names, NEW ro \in BOOLEAN, Select(name, ro)
    PROVE  Contract!Open
<1> DEFINE box == Normalize(name)
<1>1. box \in DOMAIN store
  BY DEF Select, Exists
<1>2. /\ selected' = box /\ readOnly' = ro /\ store' = store /\ busy = NotBusy /\ busy' = busy
      /\ view' = Uids(store[box].messages)
  BY DEF Select, Authenticated
<1> HIDE DEF box
<1>3. ShownMode # "closing" /\ ShownMode' \in {"read", "write"}
  BY <1>1, <1>2, BoxFacts DEF ShownMode, NotBusy
<1>4. ShownBoxes' = ShownBoxes
  BY <1>2 DEF ShownBoxes
<1>5. Range(view)' = Contract!UidsIn(ShownBoxes[box].mail)
  <2>1. store[box].messages \in Seq(Message) /\ ShownBoxes[box].mail = Range(store[box].messages)
    BY <1>1, BoxFacts, ShowNext DEF Mailbox
  <2> QED
    BY <1>2, <2>1, UidsInIs
<1>6. box \in DOMAIN ShownBoxes
  BY <1>1, BoxFacts
<1> QED
  BY <1>2, <1>3, <1>4, <1>5, <1>6 DEF Contract!Open

LEMMA CreateImplements ==
    ASSUME IndInv, NEW name \in Names, Create(name)
    PROVE  \E b \in Boxes : Contract!Make(b)
<1> DEFINE box == Normalize(name)
<1>1. box \notin DOMAIN store /\ box \in Boxes
  BY DEF Create, Exists, Normalize, Names, Boxes
<1>2. /\ store' = [b \in DOMAIN store \cup {box} |->
                     IF b \in DOMAIN store THEN store[b] ELSE [uidnext |-> 1, messages |-> <<>>]]
      /\ UNCHANGED <<state, selected, readOnly, busy, view>> /\ busy = NotBusy
  BY DEF Create, Authenticated
<1> HIDE DEF box
<1>3. ShownBoxes' = [c \in DOMAIN ShownBoxes \cup {box} |->
                       IF c = box THEN Contract!Empty ELSE ShownBoxes[c]]
  <2>1. Range(<<>>) = {}
    BY DEF Range
  <2> QED
    BY <1>1, <1>2, <2>1 DEF ShownBoxes, Contract!Empty
<1>4. /\ ShownMode # "closing" /\ UNCHANGED <<selected, ShownMode, Range(view)>>
      /\ box \notin DOMAIN ShownBoxes
  BY <1>1, <1>2 DEF ShownMode, NotBusy, ShownBoxes
<1> QED
  BY <1>1, <1>3, <1>4 DEF Contract!Make

LEMMA DeleteImplements ==
    ASSUME IndInv, NEW name \in Names, Delete(name)
    PROVE  \E b \in Boxes : Contract!Drop(b)
<1>1. name \in DOMAIN store /\ name # Inbox /\ name \in Boxes
  BY DEF Delete, Exists, Normalize, Names, Boxes
<1>2. /\ store' = [b \in DOMAIN store \ {name} |-> store[b]]
      /\ UNCHANGED <<readOnly, busy>> /\ busy = NotBusy
      /\ IF selected = name THEN selected' = NoBox /\ view' = <<>>
         ELSE selected' = selected /\ view' = view
  BY DEF Delete, Authenticated
<1>3. ShownBoxes' = [c \in DOMAIN ShownBoxes \ {name} |-> ShownBoxes[c]]
  BY <1>2 DEF ShownBoxes
<1>4. ShownMode # "closing" /\ name \in DOMAIN ShownBoxes
  BY <1>1, <1>2 DEF ShownMode, NotBusy, ShownBoxes
<1>5. CASE selected = name
  <2>1. selected' = NoBox /\ ShownMode' = "none" /\ Range(view)' = {}
    BY <1>2, <1>5 DEF ShownMode, Range
  <2> QED
    BY <1>1, <1>3, <1>4, <1>5, <2>1 DEF Contract!Drop, Contract!Nowhere
<1>6. CASE selected # name
  <2>1. UNCHANGED <<selected, ShownMode, Range(view)>>
    BY <1>2, <1>6 DEF ShownMode
  <2> QED
    BY <1>1, <1>3, <1>4, <1>6, <2>1 DEF Contract!Drop
<1> QED
  BY <1>5, <1>6

LEMMA RenameImplements ==
    ASSUME IndInv, NEW from \in Names, NEW to \in Names, Rename(from, to)
    PROVE  \E b, c \in Boxes : Contract!Move(b, c)
<1>1. /\ UNCHANGED <<state, readOnly, busy, view>>
      /\ busy = NotBusy /\ state \in {"authenticated", "selected"}
      /\ selected' = IF selected = from THEN to ELSE selected
  BY DEF Rename, Authenticated
<1>2. Inbox \in DOMAIN store
  BY <1>1 DEF IndInv, StoreInv
<1>3. from \in DOMAIN store /\ from \in Boxes /\ from # Inbox
  BY DEF Rename, Exists, Normalize, Names, Boxes
<1>4. to # Alias /\ to \in Boxes /\ to \notin DOMAIN store /\ Normalize(to) = to
  BY <1>2, NamesAssumption DEF Rename, Exists, Normalize, Names, Boxes
<1>5. store' = [b \in (DOMAIN store \ {from}) \cup {to} |-> IF b = to THEN store[from] ELSE store[b]]
  BY <1>4 DEF Rename
<1>6. ShownBoxes' = [c \in (DOMAIN ShownBoxes \ {from}) \cup {to} |->
                       IF c = to THEN ShownBoxes[from] ELSE ShownBoxes[c]]
  BY <1>3, <1>5 DEF ShownBoxes
<1>7. /\ ShownMode # "closing" /\ from \in DOMAIN ShownBoxes /\ to \notin DOMAIN ShownBoxes
      /\ from # NoBox /\ to # NoBox
  BY <1>1, <1>3, <1>4, NamesAssumption DEF ShownMode, NotBusy, ShownBoxes, Boxes
<1>8. UNCHANGED <<ShownMode, Range(view)>>
  BY <1>1, <1>7 DEF ShownMode
<1>9. Contract!Move(from, to)
  BY <1>1, <1>3, <1>6, <1>7, <1>8 DEF Contract!Move
<1> QED
  BY <1>3, <1>4, <1>9

\* A message is appended to box, and the client is told or not.
LEMMA AddedDelivers ==
    ASSUME IndInv, NEW box \in DOMAIN store, NEW m \in Message, store' = Added(box, m),
           ShownMode # "closing", UNCHANGED <<selected, ShownMode>>,
           view' = view \/ (selected = box /\ view' = Uids(store'[box].messages))
    PROVE  Contract!Deliver(box)
<1>1. TypeOK
  BY DEF IndInv
<1>2. /\ DOMAIN store' = DOMAIN store /\ Extends(store[box], store'[box])
      /\ \A b \in DOMAIN store \ {box} : store'[b] = store[b]
      /\ store'[box].messages \in Seq(Message)
  BY <1>1, AddedProperties
<1>3. store[box] \in Mailbox /\ box \in DOMAIN ShownBoxes /\ ShownBoxes[box] = Show(store[box])
  BY BoxFacts
<1>4. ShownBoxes' = [ShownBoxes EXCEPT ![box] = Show(store'[box])]
  BY <1>2, OneBoxChanges
<1>5. PICK deleted \in BOOLEAN, seen \in BOOLEAN :
         Show(store'[box]) = [next |-> Show(store[box]).next + 1,
                              mail |-> Show(store[box]).mail \cup
                                {[uid |-> Show(store[box]).next, deleted |-> deleted, seen |-> seen]}]
  BY <1>2, <1>3, ShowExtends
<1>6. ShownBoxes'[box].mail = Range(store'[box].messages)
  BY <1>3, <1>4, ShowNext
<1>7. Range(view)' \in {Range(view)} \cup
        (IF selected = box THEN {Contract!UidsIn(ShownBoxes'[box].mail)} ELSE {})
  BY <1>2, <1>6, UidsInIs
<1>8. Contract!Only(box, [next |-> ShownBoxes[box].next + 1,
                          mail |-> ShownBoxes[box].mail \cup
                            {[uid |-> ShownBoxes[box].next, deleted |-> deleted, seen |-> seen]}])
  BY <1>3, <1>4, <1>5 DEF Contract!Only
<1> QED
  BY <1>7, <1>8 DEF Contract!Deliver

LEMMA AppendImplements ==
    ASSUME IndInv, NEW name \in Names, NEW deleted \in BOOLEAN, NEW seen \in BOOLEAN,
           AppendTo(name, deleted, seen)
    PROVE  \E b \in Boxes : Contract!Deliver(b)
<1> DEFINE box == Normalize(name)
           m == [uid |-> 0, deleted |-> deleted, seen |-> seen]
<1>1. box \in DOMAIN store /\ m \in Message /\ store' = Added(box, m)
  BY DEF AppendTo, Exists, Message
<1>2. /\ UNCHANGED <<selected, readOnly, busy>> /\ busy = NotBusy
      /\ view' = IF selected = name THEN Uids(store'[box].messages) ELSE view
  BY DEF AppendTo, Authenticated
<1>3. selected = name => selected = box
  <2>1. selected # Alias
    BY NamesAssumption DEF IndInv, TypeOK, Boxes
  <2> QED
    BY <2>1 DEF Normalize
<1>4. ShownMode # "closing" /\ UNCHANGED ShownMode
  BY <1>2 DEF ShownMode, NotBusy
<1> HIDE DEF box, m
<1> QED
  BY <1>1, <1>2, <1>3, <1>4, AddedDelivers, BoxFacts

LEMMA CopyNextImplements ==
    ASSUME IndInv, CopyNext
    PROVE  \E b \in Boxes : Contract!Deliver(b)
<1>1. PICK i \in busy.todo : /\ store' = Added(busy.dest, Current[i])
                             /\ busy' = [busy EXCEPT !.todo = @ \ {i}]
  BY DEF CopyNext
<1>2. /\ UNCHANGED <<selected, readOnly, view>> /\ busy.op = "copy" /\ busy # NotBusy
      /\ busy \in [op : {"none", "expunge", "close", "copy"}, todo : SUBSET (Nat \ {0}),
                   dest : Boxes \cup {NoBox}]
  BY DEF CopyNext, NotBusy, IndInv, BusyInv
<1>3. /\ state = "selected" /\ busy.dest \in DOMAIN store
      /\ i \in Nat \ {0} /\ i <= Len(Current)
  BY <1>1, <1>2 DEF IndInv, SelectionExists, BusyInv
<1>4. Current[i] \in Message
  <2>1. Current \in Seq(Message) /\ Len(Current) \in Nat
    BY <1>3, SelectedFacts
  <2>2. i \in 1..Len(Current)
    BY <1>3, <2>1
  <2> QED
    BY <2>1, <2>2, ElementOfSeq
<1>5. ShownMode # "closing" /\ UNCHANGED ShownMode
  <2>1. busy'.op = "copy"
    BY <1>1, <1>2
  <2> QED
    BY <1>2, <2>1 DEF ShownMode
<1> DEFINE box == busy.dest
           m == Current[i]
<1>6. box \in DOMAIN store /\ m \in Message /\ store' = Added(box, m) /\ view' = view
      /\ selected' = selected
  BY <1>1, <1>2, <1>3, <1>4
<1> HIDE DEF box, m
<1> QED
  BY <1>5, <1>6, AddedDelivers, BoxFacts

\* Flags of the selected mailbox change.
LEMMA FlagsImplement ==
    ASSUME IndInv, state = "selected", busy = NotBusy, ~readOnly,
           UNCHANGED <<selected, readOnly, busy, view>>,
           DOMAIN store' = DOMAIN store,
           \A b \in DOMAIN store \ {selected} : store'[b] = store[b],
           Reflags(store[selected], store'[selected])
    PROVE  Contract!Mark
<1>1. selected \in DOMAIN store
  BY SelectedFacts
<1>2. /\ selected # NoBox /\ store[selected] \in Mailbox /\ Ascending(store[selected])
      /\ DOMAIN ShownBoxes = DOMAIN store /\ ShownBoxes[selected] = Show(store[selected])
  BY <1>1, BoxFacts
<1>3. ShownBoxes' = [ShownBoxes EXCEPT ![selected] = Show(store'[selected])]
  BY <1>1, OneBoxChanges
<1>4. /\ Show(store'[selected]).next = Show(store[selected]).next
      /\ Contract!Proper(Show(store'[selected]))
      /\ Contract!UidsIn(Show(store'[selected]).mail) = Contract!UidsIn(Show(store[selected]).mail)
  BY <1>2, ShowReflags
<1>5. /\ DOMAIN ShownBoxes' = DOMAIN ShownBoxes
      /\ \A c \in DOMAIN ShownBoxes \ {selected} : ShownBoxes'[c] = ShownBoxes[c]
      /\ ShownBoxes'[selected] = Show(store'[selected])
  BY <1>1, <1>2, <1>3
<1>6. ShownMode = "write" /\ UNCHANGED <<selected, ShownMode, Range(view)>>
  BY <1>2 DEF ShownMode, NotBusy
<1> QED
  BY <1>2, <1>4, <1>5, <1>6 DEF Contract!Mark

\* A message leaves the selected mailbox.
LEMMA RemovalImplements ==
    ASSUME IndInv, state = "selected", ~readOnly, NEW i \in Deleted(Current),
           store' = [store EXCEPT ![selected].messages = RemoveAt(@, i)],
           UNCHANGED <<selected, ShownMode>>,
           Range(view)' = IF ShownMode = "closing" THEN Range(view)
                          ELSE Range(view) \ {Current[i].uid},
           ShownMode \in {"write", "closing"}
    PROVE  Contract!Purge
<1>1. /\ selected \in DOMAIN store /\ store[selected] \in Mailbox /\ Ascending(store[selected])
      /\ DOMAIN Current = 1..Len(Current)
      /\ DOMAIN ShownBoxes = DOMAIN store /\ ShownBoxes[selected] = Show(store[selected])
  BY SelectedFacts, BoxFacts
<1>2. i \in 1..Len(Current) /\ Current[i].deleted
  BY <1>1 DEF Deleted
<1>3. store[selected] = [uidnext |-> store[selected].uidnext, messages |-> Current]
  BY <1>1 DEF Mailbox, Current
<1>4. /\ DOMAIN store' = DOMAIN store
      /\ \A b \in DOMAIN store \ {selected} : store'[b] = store[b]
      /\ store'[selected] = [uidnext |-> store[selected].uidnext,
                             messages |-> RemoveAt(Current, i)]
  BY <1>1, <1>3 DEF Current
<1>5. ShownBoxes' = [ShownBoxes EXCEPT ![selected] = Show(store'[selected])]
  BY <1>1, <1>4, OneBoxChanges
<1>6. /\ Show(store'[selected]) = [next |-> Show(store[selected]).next, mail |-> Show(store[selected]).mail \ {Current[i]}]
      /\ Current[i] \in Show(store[selected]).mail
  <2> DEFINE old == store[selected]
  <2>1. old \in Mailbox /\ Ascending(old) /\ i \in 1..Len(old.messages)
    BY <1>1, <1>2 DEF Current
  <2>2. store'[selected] = [uidnext |-> old.uidnext, messages |-> RemoveAt(old.messages, i)]
    BY <1>4 DEF Current
  <2>3. Current[i] = old.messages[i]
    BY DEF Current
  <2> HIDE DEF old
  <2>4. /\ Show(store'[selected]) = [next |-> Show(old).next, mail |-> Show(old).mail \ {old.messages[i]}]
        /\ old.messages[i] \in Show(old).mail
    BY <2>1, <2>2, ShowPurges
  <2> QED
    BY <2>3, <2>4 DEF old
<1>7. Contract!Only(selected, [next |-> ShownBoxes[selected].next, mail |-> ShownBoxes[selected].mail \ {Current[i]}])
  BY <1>1, <1>5, <1>6 DEF Contract!Only
<1>8. Current[i] \in ShownBoxes[selected].mail
  BY <1>1, <1>6
<1> DEFINE m == Current[i]
<1> HIDE DEF m
<1>9. /\ m \in ShownBoxes[selected].mail /\ m.deleted
      /\ Contract!Only(selected, [next |-> ShownBoxes[selected].next, mail |-> ShownBoxes[selected].mail \ {m}])
      /\ Range(view)' = IF ShownMode = "closing" THEN Range(view) ELSE Range(view) \ {m.uid}
  BY <1>2, <1>7, <1>8 DEF m
<1> QED
  BY <1>9 DEF Contract!Purge

\* EXPUNGE takes the number of the message away too.
LEMMA ExpungeNextImplements == ASSUME IndInv, ExpungeNext PROVE Contract!Purge
<1>1. PICK i \in Deleted(Current) :
        /\ store' = [store EXCEPT ![selected].messages = RemoveAt(@, i)]
        /\ view' = IF i \in DOMAIN view THEN RemoveAt(view, i) ELSE view
  BY DEF ExpungeNext
<1>2. /\ UNCHANGED <<selected, readOnly, busy>> /\ busy.op = "expunge" /\ busy # NotBusy
  BY DEF ExpungeNext, NotBusy
<1>3. state = "selected" /\ ~readOnly /\ selected # NoBox
  BY <1>2 DEF IndInv, SelectionExists, BusyInv
<1>4. ShownMode = "write" /\ UNCHANGED ShownMode
  BY <1>2, <1>3 DEF ShownMode
<1>5. /\ Current \in Seq(Message) /\ Len(Current) \in Nat /\ Fits(view, Current)
      /\ DOMAIN Current = 1..Len(Current)
      /\ view \in Seq(Nat) /\ Len(view) \in Nat /\ DOMAIN view = 1..Len(view)
  BY <1>2, <1>3, SelectedFacts, LenProperties DEF IndInv, TypeOK
<1>6. i \in 1..Len(Current)
  BY <1>5 DEF Deleted
<1>7. \A j, k \in 1..Len(Current) : j # k => Current[j].uid # Current[k].uid
  <2>1. store[selected] \in Mailbox /\ Ascending(store[selected])
    BY <1>3, SelectedFacts, BoxFacts
  <2> QED
    BY <2>1, AscendingIsProper DEF Current
<1>8. /\ Len(view) <= Len(Current) /\ \A j \in 1..Len(view) : view[j] = Current[j].uid
      /\ \A j \in 1..Len(view) : j \in 1..Len(Current)
  BY <1>5 DEF Fits
<1>9. Range(view)' = Range(view) \ {Current[i].uid}
  <2>1. CASE i \in DOMAIN view
    <3>1. \A j, k \in 1..Len(view) : j # k => view[j] # view[k]
      BY <1>7, <1>8
    <3>2. Range(RemoveAt(view, i)) = Range(view) \ {view[i]}
      BY <1>5, <2>1, <3>1, RangeRemoveAt
    <3> QED
      BY <1>1, <1>5, <1>8, <2>1, <3>2
  <2>2. CASE i \notin DOMAIN view
    <3>1. Range(view) = {view[j] : j \in 1..Len(view)}
      BY <1>5, RangeIs
    <3>2. Current[i].uid \notin Range(view)
      BY <1>5, <1>6, <1>7, <1>8, <2>2, <3>1
    <3> QED
      BY <1>1, <2>2, <3>2
  <2> QED
    BY <2>1, <2>2
<1>10. UNCHANGED selected
  BY <1>2
<1> QED
  BY <1>1, <1>3, <1>4, <1>9, <1>10, RemovalImplements

LEMMA CloseNextImplements == ASSUME IndInv, CloseNext PROVE Contract!Purge
<1>1. PICK i \in Deleted(Current) :
        store' = [store EXCEPT ![selected].messages = RemoveAt(@, i)]
  BY DEF CloseNext
<1>2. /\ UNCHANGED <<selected, readOnly, busy, view>> /\ busy.op = "close" /\ busy # NotBusy
      /\ ~readOnly
  BY DEF CloseNext, NotBusy
<1>3. state = "selected" /\ selected # NoBox
  BY <1>2 DEF IndInv, SelectionExists
<1>4. ShownMode = "closing" /\ UNCHANGED ShownMode /\ UNCHANGED selected
  BY <1>2, <1>3 DEF ShownMode
<1>5. Range(view)' = Range(view)
  BY <1>2
<1> QED
  BY <1>1, <1>2, <1>3, <1>4, <1>5, RemovalImplements

\* EXPUNGE and COPY begin unseen; CLOSE of a mailbox opened for writing is seen.
LEMMA BeginImplements ==
    ASSUME IndInv, NEW op \in {"expunge", "close", "copy"}, NEW todo, NEW dest, Begin(op, todo, dest)
    PROVE  Implements
<1>1. /\ UNCHANGED <<store, selected, readOnly, view>> /\ busy'.op = op
      /\ state = "selected" /\ busy = NotBusy
  BY DEF Begin, Selected
<1>2. selected # NoBox
  BY <1>1 DEF IndInv, SelectionExists
<1>3. UNCHANGED <<ShownBoxes, selected, Range(view)>>
  BY <1>1 DEF ShownBoxes
<1>4. CASE op = "close" /\ ~readOnly
  <2>1. ShownMode = "write" /\ ShownMode' = "closing"
    BY <1>1, <1>2, <1>4 DEF ShownMode, NotBusy
  <2>2. Contract!StartClosing
    BY <1>3, <2>1 DEF Contract!StartClosing
  <2> QED
    BY <2>2 DEF Implements, Contract!Next
<1>5. CASE ~ (op = "close" /\ ~readOnly)
  <2>1. UNCHANGED ShownMode
    BY <1>1, <1>2, <1>5 DEF ShownMode, NotBusy
  <2> QED
    BY <1>3, <2>1 DEF Implements, Stutter
<1> QED
  BY <1>4, <1>5

\* When CLOSE ends, nothing that was marked deleted is left.
LEMMA DoneImplements == ASSUME IndInv, Done PROVE Implements
<1>1. /\ UNCHANGED <<store, readOnly>> /\ busy'.op = "none"
      /\ busy.op \in {"expunge", "close", "copy"} /\ busy # NotBusy
  BY DEF Done, NotBusy
<1>2. state = "selected" /\ selected # NoBox
  BY <1>1 DEF IndInv, SelectionExists
<1>3. UNCHANGED ShownBoxes
  BY <1>1 DEF ShownBoxes
<1>4. CASE busy.op = "close"
  <2>1. selected' = NoBox /\ view' = <<>> /\ (readOnly \/ Deleted(Current) = {})
    BY <1>4 DEF Done
  <2>2. ShownMode' = "none" /\ Range(view)' = {}
    BY <2>1 DEF ShownMode, Range
  <2>3. ShownMode = IF readOnly THEN "read" ELSE "closing"
    BY <1>2, <1>4 DEF ShownMode
  <2>4. ~readOnly => \A m \in ShownBoxes[selected].mail : ~m.deleted
    <3>1. /\ Current \in Seq(Message) /\ ShownBoxes[selected].mail = Range(Current)
          /\ DOMAIN Current = 1..Len(Current)
      BY <1>2, SelectedFacts, BoxFacts, ShowNext DEF Current
    <3>2. Range(Current) = {Current[i] : i \in DOMAIN Current}
      BY <3>1, RangeIs
    <3> QED
      BY <2>1, <3>1, <3>2 DEF Deleted
  <2>5. Contract!Leave
    BY <1>3, <2>1, <2>2, <2>3, <2>4 DEF Contract!Leave, Contract!Nowhere
  <2> QED
    BY <2>5 DEF Implements, Contract!Next
<1>5. CASE busy.op # "close"
  <2>1. selected' = selected /\ view' = view
    BY <1>5 DEF Done
  <2>2. UNCHANGED ShownMode
    BY <1>1, <1>5, <2>1 DEF ShownMode
  <2> QED
    BY <1>3, <2>1, <2>2 DEF Implements, Stutter
<1> QED
  BY <1>4, <1>5

LEMMA EndImplements == ASSUME End PROVE Contract!End
<1>1. DOMAIN ShownBoxes' = {}
  BY DEF End, ShownBoxes
<1>2. selected' = NoBox /\ ShownMode' = "none" /\ Range(view)' = {}
  BY DEF End, ShownMode, Range
<1> QED
  BY <1>1, <1>2 DEF Contract!End, Contract!Nowhere

-----------------------------------------------------------------------------
(* The refinement                                                          *)

LEMMA StepImplements == ASSUME IndInv, [Next]_vars PROVE Implements
<1>1. CASE Login
  BY <1>1, LoginImplements DEF Implements, Contract!Next
<1>2. CASE OnMailboxes
  <2>1. PICK name \in Names :
          \/ Create(name) \/ Delete(name)
          \/ \E ro \in BOOLEAN : Select(name, ro)
          \/ \E to \in Names : Rename(name, to)
          \/ \E deleted, seen \in BOOLEAN : AppendTo(name, deleted, seen)
    BY <1>2 DEF OnMailboxes
  <2>2. Contract!Next
    BY <2>1, CreateImplements, DeleteImplements, SelectImplements, RenameImplements,
       AppendImplements DEF Contract!Next
  <2> QED
    BY <2>2 DEF Implements
<1>3. CASE OnMessages
  <2>1. CASE \E S \in Picks, items \in Items : Fetch(S, items)
    <3>1. /\ state = "selected" /\ busy = NotBusy
          /\ UNCHANGED <<selected, readOnly, busy, view>>
          /\ store' = store \/ OnlyFlags
      BY <2>1, FetchReflags DEF Fetch, Selected
    <3>2. CASE store' = store
      BY <3>1, <3>2 DEF Implements, Stutter, ShownBoxes, ShownMode
    <3>3. CASE OnlyFlags
      BY <3>1, <3>3, FlagsImplement DEF Implements, Contract!Next, OnlyFlags
    <3> QED
      BY <3>1, <3>2, <3>3
  <2>2. CASE \E S \in Picks, mode \in Modes, flags \in SUBSET {"deleted", "seen"} :
               Store(S, mode, flags)
    <3>1. /\ state = "selected" /\ busy = NotBusy
          /\ UNCHANGED <<selected, readOnly, busy, view>> /\ OnlyFlags
      BY <2>2, StoreReflags DEF Store, Selected
    <3> QED
      BY <3>1, FlagsImplement DEF Implements, Contract!Next, OnlyFlags
  <2>3. CASE \E S \in Picks, name \in Names : Copy(S, name)
    BY <2>3, BeginImplements DEF Copy
  <2>4. CASE Expunge \/ Close
    BY <2>4, BeginImplements DEF Expunge, Close
  <2> QED
    BY <1>3, <2>1, <2>2, <2>3, <2>4 DEF OnMessages
<1>4. CASE Loops
  <2>1. CASE ExpungeNext \/ CloseNext
    BY <2>1, ExpungeNextImplements, CloseNextImplements DEF Implements, Contract!Next
  <2>2. CASE CopyNext
    BY <2>2, CopyNextImplements DEF Implements, Contract!Next
  <2>3. CASE Done
    BY <2>3, DoneImplements
  <2> QED
    BY <1>4, <2>1, <2>2, <2>3 DEF Loops
<1>5. CASE End
  BY <1>5, EndImplements DEF Implements, Contract!Next
<1>6. CASE UNCHANGED vars
  BY <1>6 DEF vars, Implements, Stutter, ShownBoxes, ShownMode
<1> QED
  BY <1>1, <1>2, <1>3, <1>4, <1>5, <1>6 DEF Next

\* The session implements the contract: every step of a command, in the middle
\* of EXPUNGE, CLOSE and COPY too, is a step of it or none.
THEOREM Refinement == Spec => ImplementsContract
<1>1. Init => Contract!Init
  BY DEF Init, Contract!Init, Contract!Nowhere, ShownBoxes, ShownMode, Range
<1>2. IndInv /\ [Next]_vars => [Contract!Next]_(Contract!vars)
  BY StepImplements DEF Implements, Stutter, Contract!vars
<1> QED
  BY <1>1, <1>2, Invariant, PTL DEF Spec, ImplementsContract, Contract!Spec
=============================================================================
