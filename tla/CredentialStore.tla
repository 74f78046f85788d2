--------------------------- MODULE CredentialStore ---------------------------
(***************************************************************************)
(* git-credential-helper: processes that git and the user start at any     *)
(* time, sharing one store file. Every command that changes the file loads *)
(* it whole, edits the list in memory, writes a temporary file and renames *)
(* it over the store: no lock spans these steps.                           *)
(*                                                                         *)
(* A NULL string is None and an empty one is Blank: they differ in memory, *)
(* where None matches anything, and become the same once written and read  *)
(* back. The path field is left out: it is stored but never compared.      *)
(***************************************************************************)
EXTENDS Integers, Sequences, FiniteSets, FiniteSetsExt

CONSTANTS
    Procs,          \* processes that may run at the same time
    Saves,          \* credentials given to the store and add commands
    Erasures,       \* patterns given to the erase and remove commands
    None,           \* a field that is not given
    Blank,          \* a field given as an empty string
    Torn,           \* a password cut short in the file, down to nothing
    DefaultProtocol,\* "https", what add puts for a missing protocol
    MaxEntries,     \* bound: entries in the store
    DiskFull,       \* whether a write may fall short
    ReadsFail       \* whether the store may be unreadable for one process

Fields == {"protocol", "host", "username", "password"}

ASSUME InputsAssumption ==
    /\ \A c \in Saves \cup Erasures : c = [f \in Fields |-> c[f]]
    /\ None # Blank /\ None # Torn /\ Torn # Blank
    /\ DefaultProtocol \notin {None, Blank}
    /\ MaxEntries \in Nat
    /\ DiskFull \in BOOLEAN /\ ReadsFail \in BOOLEAN

VARIABLES
    file,       \* the entries of the store file as load_all reads them
    proc        \* each process: what it was asked and the list it will write

vars == <<file, proc>>

Idle == [op |-> "none", cred |-> None, base |-> <<>>, list |-> <<>>]

(***************************************************************************)
(* Matching                                                                *)
(***************************************************************************)
Wild(a, b) == a = None \/ b = None \/ a = b
Equal(a, b) == a # None /\ b # None /\ a = b

\* A match on user name only when both sides have one.
MatchesByName(c, e) ==
    Wild(c.protocol, e.protocol) /\ Equal(c.host, e.host) /\ Equal(c.username, e.username)
\* A match that forgets the host.
MatchesAnyHost(c, e) == Wild(c.protocol, e.protocol) /\ Wild(c.username, e.username)
\* store_save and store_find: the host must be there, the rest is optional.
Matches(c, e) ==
    Wild(c.protocol, e.protocol) /\ Equal(c.host, e.host) /\ Wild(c.username, e.username)

\* store_remove asks for the protocol too.
Erases(c, e) ==
    Equal(c.protocol, e.protocol) /\ Equal(c.host, e.host) /\ Wild(c.username, e.username)

Hits(list, c) == {i \in DOMAIN list : Matches(c, list[i])}

\* What get answers: the first entry that matches, None if there is none.
Find(list, c) == IF Hits(list, c) = {} THEN None ELSE list[Min(Hits(list, c))]

(***************************************************************************)
(* What a command makes of the list it loaded                              *)
(***************************************************************************)

\* An entry that is found gets the new password, and a user name if it had none.
Updated(e, c) ==
    [e EXCEPT !.password = c.password,
              !.username = IF e.username = None THEN c.username ELSE @]

\* Appends without looking for an entry to update.
SavedTwice(list, c) == Append(list, c)
Saved(list, c) ==
    IF Hits(list, c) = {} THEN Append(list, c)
    ELSE [list EXCEPT ![Min(Hits(list, c))] = Updated(@, c)]

\* Forgets the user name.
RemovedAllUsers(list, c) ==
    SelectSeq(list, LAMBDA e : ~Erases([c EXCEPT !.username = None], e))
\* Stops at the first entry.
RemovedFirst(list, c) ==
    LET hits == {i \in DOMAIN list : Erases(c, list[i])}
    IN  IF hits = {} THEN list
        ELSE SubSeq(list, 1, Min(hits) - 1) \o SubSeq(list, Min(hits) + 1, Len(list))

\* The entries up to each position that are kept.
Removed(list, c) ==
    LET kept[n \in 0..Len(list)] ==
            IF n = 0 THEN <<>>
            ELSE IF Erases(c, list[n]) THEN kept[n - 1] ELSE Append(kept[n - 1], list[n])
    IN  kept[Len(list)]

(***************************************************************************)
(* The file                                                                *)
(***************************************************************************)

\* A line keeps an empty field as it is written.
FieldVerbatim(x) == x
\* save_all prints a missing field as an empty one, parse_line reads an empty
\* field as a missing one.
Field(x) == IF x = Blank THEN None ELSE x

ReadBack(list) ==
    [i \in DOMAIN list |-> [f \in Fields |-> Field(list[i][f])]]

\* A full disk: neither fprintf nor fclose is checked, so the file that is
\* renamed may end early, in the middle of a password.
ShortOf(list) ==
    {SubSeq(list, 1, n) : n \in 0..(Len(list) - 1)} \cup
    {Append(SubSeq(list, 1, n - 1), [list[n] EXCEPT !.password = Torn]) :
        n \in {m \in DOMAIN list : list[m].password # None}}

(***************************************************************************)
(* Commands                                                                *)
(***************************************************************************)
Init == file = <<>> /\ proc = [p \in Procs |-> Idle]

\* load_all: a store that cannot be opened reads as an empty one.
Readings == {file} \cup (IF ReadsFail THEN {<<>>} ELSE {})

\* A command that read base goes on to make list of it.
Load(p, op, c, base, list) ==
    /\ proc[p] = Idle
    /\ proc' = [proc EXCEPT ![p] = [op |-> op, cred |-> c, base |-> base, list |-> list]]
    /\ UNCHANGED file

\* git store, or add with its default protocol.
Store(p, c) ==
    /\ Len(Saved(file, c)) <= MaxEntries
    /\ \E base \in Readings : Load(p, "save", c, base, Saved(base, c))

WithDefault(c) == IF c.protocol = None THEN [c EXCEPT !.protocol = DefaultProtocol] ELSE c
Add(p, c) ==
    /\ c.host # None /\ c.username # None /\ c.password # None
    /\ Store(p, WithDefault(c))

\* git erase and remove; only remove insists on a host.
Erase(p, c) == \E base \in Readings : Load(p, "erase", c, base, Removed(base, c))

\* store_remove saves the list only if it removed an entry.
Writes(p) ==
    \/ proc[p].op = "save"
    \/ proc[p].op = "erase" /\ proc[p].list # proc[p].base

\* save_all: the temporary file takes the place of the store.
Commit(p) ==
    /\ Writes(p)
    /\ \/ file' = ReadBack(proc[p].list)
       \/ DiskFull /\ file' \in ShortOf(ReadBack(proc[p].list))
    /\ proc' = [proc EXCEPT ![p] = Idle]

NothingToErase(p) ==
    /\ proc[p].op = "erase" /\ ~Writes(p)
    /\ proc' = [proc EXCEPT ![p] = Idle]
    /\ UNCHANGED file

\* The process is killed, or open, fdopen or rename fails, before the rename.
GiveUp(p) ==
    /\ proc[p] # Idle
    /\ proc' = [proc EXCEPT ![p] = Idle]
    /\ UNCHANGED file

Next == \E p \in Procs :
    \/ \E c \in Saves : Store(p, c) \/ Add(p, c)
    \/ \E c \in Erasures : Erase(p, c)
    \/ Commit(p) \/ NothingToErase(p) \/ GiveUp(p)

Spec == Init /\ [][Next]_vars

(***************************************************************************)
(* Properties                                                              *)
(***************************************************************************)
Given(S, f) == {c[f] : c \in S} \ {Blank}

\* What a line can hold. Fields that were given empty never survive.
Entry(e) ==
    /\ DOMAIN e = Fields
    /\ \A f \in Fields : e[f] \in Given(Saves, f) \cup {None, Torn, DefaultProtocol}

\* The store only ever holds entries some command could have meant, and no
\* field that was given empty.
TypeOK ==
    /\ \A i \in DOMAIN file : Entry(file[i])
    /\ \A p \in Procs : proc[p].op \in {"none", "save", "erase"}

\* Hosts for which nobody passes an empty string: such a field is compared as
\* a string when it comes in and matches anything once it is read back. An
\* entry without a host matches nothing and is never updated.
PlainHosts == {c.host : c \in Saves} \
                ({None} \cup {c.host : c \in {d \in Saves : d.protocol = Blank \/ d.username = Blank}})

\* A complete query could be answered by either entry.
Clash(d, e) ==
    Wild(d.protocol, e.protocol) /\ d.host = e.host /\ Wild(d.username, e.username)

\* No two entries of the store match each other, in whatever order commands
\* came and however they overlapped: so a complete query has one answer, and
\* an update never leaves an outdated twin behind.
Unambiguous ==
    \A i, j \in DOMAIN file :
        i # j /\ file[i].host \in PlainHosts => ~Clash(file[i], file[j])

\* A password is only ever found under a key it was given for.
PasswordBelongs ==
    \A i \in DOMAIN file : file[i].password \notin {None, Torn} =>
        \E c \in Saves \cup {WithDefault(d) : d \in Saves} :
            c.password = file[i].password /\ Clash(ReadBack(<<c>>)[1], file[i])

\* When a save has been written in full, get finds the password it wrote,
\* although other commands may have come between load and rename.
SaveIsFound == [][\A p \in Procs :
    proc[p].op = "save" /\ file' # file /\ file' = ReadBack(proc[p].list) /\ proc'[p] = Idle
        => proc[p].cred.host \in {None, Blank}
             \/ Find(file', proc[p].cred).password = Field(proc[p].cred.password)]_vars

\* A command that overlapped with no other change leaves every entry it was
\* not about as it was.
OthersKept == [][\A p \in Procs :
    proc[p] # Idle /\ proc[p].base = file /\ file' = ReadBack(proc[p].list)
        => \A i \in DOMAIN file :
             ~Matches(proc[p].cred, file[i]) => \E j \in DOMAIN file' : file'[j] = file[i]]_vars

\* After an erase that names a protocol, get finds nothing for the pattern
\* but an entry stored without a protocol.
EraseIsComplete == [][\A p \in Procs :
    proc[p].op = "erase" /\ proc[p].cred.protocol # None /\ proc[p].base = file
      /\ proc'[p] = Idle /\ file' = ReadBack(proc[p].list)
        => LET e == Find(file', proc[p].cred) IN e = None \/ e.protocol = None]_vars
=============================================================================
