# TLA+ models of the applications in this repository

The repository is a collection of independent programs. This directory holds
TLA+ specifications of those that have a protocol or a persistent state of their
own, the TLC configurations that check them on small instances, and proofs that
TLAPS checks. `PROJECT.json` lists, in machine-readable form, the components, the
runs, the source lines behind every definition, the hazards and the theorems.

## 1. Inventory

| part | state it keeps | operations | hard behaviour | status |
|---|---|---|---|---|
| **kanban-local** (`java/kanban`, port 8080) | MongoDB `cards` with `@Version`; queue of the `@Async` executor; the list of a scheduled round | create, update, delete over REST; `syncAsync`, `syncDeleteAsync`, `syncPending`, `pushCard` | every push is a slow HTTP call between a read and a versioned save; several threads push one card; a crash drops the queue; a reply may be lost | modelled |
| **kanban-remote** (port 8081) | MongoDB `remote_cards` with `@Version`, no unique `cardId` | PUT, DELETE, GET of `/api/sync/cards/{cardId}` | find-then-save handlers interleave; a request outlives its sender | modelled |
| **kanban boards, encryption** | MongoDB `boards`; keys in the card | CRUD; AES-GCM of a field | none beyond a card whose board is gone | not modelled |
| **git-credential-helper** (C) | one text file | `store`, `add`, `erase`, `remove`, `get`, `list`, `config` | processes read, edit and rename without a lock; fields that are absent match anything; full disk | modelled |
| **imap: session and mailboxes** (C++, Seastar) | per connection: state, selection, mailboxes in memory | LOGIN ... LOGOUT | sequence numbers shift while EXPUNGE runs; DELETE, RENAME and COPY touch the selection; UIDs must never come back | partly (section 9) |
| **imap: parsing and literals** | the leftover of a read, the command under assembly | cut lines, ask for and read literals, scan a command, sequence sets | bytes come in any pieces; line and literal share a leftover | partly (section 9) |
| **imap: server life cycle** | listener, abort source, gate | accept, serve, stop | stop waits for every connection; a connection blocked in a read; errors of accept | modelled |
| **zig concurrent-tls** | io_uring, table of connections, FIFO of descriptors, futexes | reactor, dispatcher, one handler per connection on a pool | unlocked ring, descriptor reuse, lost wake-ups, growth of the table, deadline of a parked thread | modelled |
| smtp, ssh, udp, tls, asio demos under `vibecoding` | per connection | one event loop each | little | later |
| drafts: commander, quic tunnel, uuid.v7, nftmgr, single io_uring and libuv programs | per program | one loop each | commander does not compile, the tunnel is not in its build | not modelled |
| web applications, front ends, blogs | a framework's | screens and CRUD | none of their own | not modelled |
| arduino, esp32, gps, measurement tools | device registers | I/O | outside a model's reach | not modelled |
| templates, vendored and generated code | - | - | - | not modelled |

How the parts interact: the only two programs that talk to each other are the two
halves of kanban. kanban-local sends PUT and DELETE requests through a
`RestClient` and waits for the answer; kanban-remote never calls back. The
credential helper's processes share only the store file. An IMAP connection shares
nothing but the authenticator with other connections: `user_store` is made by
LOGIN and belongs to the connection. The threads of the zig server share the ring,
the table and the FIFO.

What makes each part correct:

* **kanban**: a card shown SYNCED has had its present revision stored; no edit is
  lost to a slow push; a deleted card stays deleted; the remote never loses its copy
  of a living card; a card does not stay unsynchronised for ever.
* **credential store**: one answer to a complete query; no password under a key it
  was not given for; what was saved is found; what was not meant is kept; what was
  erased is gone.
* **imap session**: the selection exists; client and server number the same
  messages; UIDs only go up; only messages marked deleted leave; EXAMINE is
  read-only; FETCH of a text marks it seen.
* **imap server**: stop returns once every client goes on or hangs up, and not before the last
  coroutine has ended; the commands handled do not depend on how the bytes arrive.
* **zig**: every open descriptor has one owner, a handler never touches another one's SSL
  object, an object is freed once, no wake-up is lost, and what a client sends or its leaving is noticed.

## 2. Modules

| module | what it is |
|---|---|
| `KanbanData` | constants, variables and record types both kanban halves share; an HTTP call as a request and a waiting thread |
| `KanbanLocal` | CardService and SyncService |
| `KanbanRemote` | SyncController, each handler in two steps |
| `KanbanSync` | the two together, with broken connections and crashes; properties, refinement mapping, inductive invariant |
| `CardSyncContract` | the abstract specification: what synchronisation promises of a card |
| `KanbanSyncProofs` | theorems about `KanbanSync` |
| `MCKanban` | symmetry for TLC |
| `CredentialStore`, `CredentialStoreProofs`, `MCCredentials` | the credential helper, theorems about it, and credentials and patterns to run it with |
| `ImapSession`, `ImapSessionProofs`, `MCImapSession` | the IMAP session, theorems about it, and symmetry and a view for TLC |
| `MailboxContract`, `ImapContractProofs` | the abstract specification: what the session promises of mailboxes; the theorem that it does |
| `ServiceContract` | what the server promises its clients, without bytes, the gate and the accept loop |
| `ImapServer`, `ImapServerProofs`, `ImapFramesProofs`, `MCImapServer` | accept loop, gate, stop, and how a connection cuts its input into commands; theorems about the life cycle, about the commands, and that it implements `ServiceContract`; what the clients send |
| `TlsReactor`, `TlsReactorProofs`, `TlsPolledProofs`, `MCTlsReactor` | the io_uring TLS server, theorems about it (ownership and wake-ups; the ring), and names for TLC |

In some modules a definition is preceded by a variant that is not used by the
specification (`DeleteRemoteOnly` before `Delete`, `SavedTwice` before `Saved`, ...).
It is a plausible mistake in the same code, kept to show that the properties notice
it: putting it in the place of its neighbour makes a run fail (`mutants` in
`PROJECT.json`).

## 3. Kanban

### Correspondence

`local` is the collection `cards`; the encrypted content is abstracted to a revision
number, which `update` increases, and `ver` is Mongo's `@Version`. `queue` is the
executor's queue, `job` says what each thread is in the middle of, `batch` is what
`pending.forEach` has left, `requests` are HTTP requests under way, `remote` is
`remote_cards`. `applied` is a history variable: the revisions the remote ever stored.

| code | actions |
|---|---|
| `CardService.create`, `delete` | `Create`, `Delete` (the save and the queued job in one step; a delay between them is a delay of the job) |
| `CardService.update` | `UpdateLoad`, then `UpdateSave` or `UpdateConflict` |
| `syncAsync`, `syncDeleteAsync` on a worker | `Take`, `Load` |
| `syncPending` | `SyncPending` (the query), `PushNext` (one per card) |
| `pushCard` | `Push` inside `Load` and `PushNext`, the reply, `Save` |
| `upsertCard`, `deleteCard` | `Find`, then `Insert`, `Replace` or `Remove` |
| a call that throws | `ConnectionLost`: the request is lost, or still served later |
| a crash of kanban-local | `LocalCrash`: queue, threads and round are gone |

A crash of kanban-remote loses its handlers, which is a set of lost requests, and a
document store that survives: `ConnectionLost` covers it. Mongo's single-document
operations are atomic, as MongoDB guarantees. `save` on a found entity is Spring Data's
optimistic lock (match by `_id` and version, or throw).

### Properties and runs

| run | shows | bounds |
|---|---|---|
| `kanban_safety` | `TypeOK`, `IndInv`, `SyncedWasStored`, `LiveCardKeepsCopy`, `NoLostEdit`, `NoResurrection` and the refinement `ImplementsContract` in every interleaving | 1 card, 1 editor, 2 workers and the scheduler, 2 revisions, `MaxVersion` 4, queue 1, 4 documents, 1 fault |
| `kanban_liveness` | `EventuallySynced` with an editor and a fault | 1 card, 1 worker and the scheduler, `MaxVersion` 8 |
| `kanban_batch` | `EventuallySynced` for the second card of a round that a conflict on the first one ends | 2 cards, 1 worker, 1 fault |
| `kanban_twins` | **violated**: `OneRemoteDoc` | no fault needed |
| `kanban_stale` | **violated**: `SyncedMeansEqual` | no fault needed |
| `kanban_ghost` | **violated**: `DeletedIsGone` | no fault needed |

The bounds are enough because cards do not influence each other except through the
thread that serves them (the batch run has two); two workers and the scheduler make
three concurrent pushes of one card, one more than any of the races needs; two revisions
tell an old one from a new one; one fault leaves one request behind, and a document
more than the number of pushes can exist is never reached. The safety theorems
hold without any of these bounds.

`MaxVersion` limits how often the *scheduled round* retries a card whose pushes fail for ever
(each retry saves the card as FAILED and raises its version): a card with two documents
would otherwise grow without end. In the liveness runs it is larger than what one fault
and the conflicts can use up, so no card without two documents ever meets it.

### What the runs found

* Two pushes of a new card (the one after `create` and the scheduled one) can both find
  no document and both insert one. `findByCardId` throws from then on for
  every request about that card, which stays FAILED and cannot be deleted remotely.
  `ARCHITECTURE.md:229` calls the operation an "upsert on cardId".
* A push of an older revision that is served late overwrites the newer one, and the card
  already says SYNCED.
* A push overtaken by the delete of its card puts the copy back; a DELETE that fails is
  only logged.

Two remarks in the documents have no run: `IMPLEMENTATION_NOTES.md:277` calls the conflict
policy "Last-write-wins (via @Version)", while `@Version` makes the later of two conflicting
saves throw, so the first one wins; and `README.md:122` says `remoteId` becomes the
remote `_id`, while `pushCard` stores `response.cardId()`, the local id.

### Fairness

`FairSpec` assumes weak fairness of the local threads (`Take`, `Load`, `Save`, `SyncPending`,
`PushNext`): the executor and the scheduler keep running, and Spring's error handlers keep a task
going after an exception. And of `ServeCall`: the remote answers a request somebody
waits for, or the connection breaks (a fault, of which there are finitely many). Nothing is
assumed of editors, and nothing of a request whose sender is gone: it may be
served late or never. `EventuallySynced` depends on the scheduled round: it is what
picks up a card whose push conflicted, failed or was forgotten in a crash.

### Proofs

`KanbanSyncProofs` proves, for any sets of cards, editors and workers and any
values of the bounds:

| theorem | says |
|---|---|
| `Invariant` | `Spec => []IndInv` |
| `TypeCorrect`, `SyncedCardsWereStored`, `LiveCardsKeepCopy` | the three invariants |
| `EditsAreNotLost`, `DeletedStaysDeleted` | the two action properties |
| `Refinement` | `Spec => ImplementsContract` |

The only assumption is `ConstantsAssumption` (bounds are natural numbers, the scheduler is not
a worker, "no card" is not a card). None of the properties is inductive by itself: that a save
as SYNCED is right depends on what the thread remembers, which depends on what it was when it
read the card. `IndInv` says it all at once:

* `Fresh` (in `JobInv` for threads and `BatchInv` for snapshots): what is remembered is a revision of
  the card, and *the present one if the version it would save over is still the present one*.
  Hence a save that passes the version check writes back the present revision.
* `JobInv` also: a thread that reports success has its revision among those applied;
  a thread in a DELETE is about a deleted card. `QueueInv` and `RequestInv` say the same of jobs and
  requests, so no DELETE ever meets a living card.
* `WaitInv`: the request a thread waits for is its own, so the reply means what the thread takes it for.
* `DocInv`: `_id` is a key, and an entity found under it belongs to the request's card.
* `CardInv`: an unborn card was never stored, a deleted one has version 0.

The key lemma is that a step only ever *advances* a card (`CardsAdvance`): revisions and
versions do not go back, death is final, and the revision changes only together with
the version. What threads, jobs and requests know survives an advance; each action then has to
be checked only for what it adds. The refinement has one lemma per action that the contract can
see, mapped by `Shown`, `Copies` and `applied`.

## 4. Credential store

`file` is the list `load_all` would read, `proc` what each running command has loaded and is going
to write. `Load` (in `Store`, `Add`, `Erase`) is `load_all` and the edit in memory; `Commit` is `save_all`
with its rename; `NothingToErase` is `store_remove` that matched nothing; `GiveUp` a process that
dies or fails before the rename. A NULL and an empty string are distinct in memory and the same
in the file (`Field`). Lines, base64 and the `path` field, which is never compared, are abstracted.
With `DiskFull` a write may stop early: the code does not check `fprintf` and `fclose`, so what was
written is renamed over the store (`ShortOf`). With `ReadsFail` a store that exists
cannot be opened and reads as empty.

| run | shows | bounds |
|---|---|---|
| `credentials` | `TypeOK`, `Unambiguous`, `PasswordBelongs`, `SaveIsFound`, `OthersKept`, `EraseIsComplete` | 2 processes at a time, any number one after another; 2 entries; 4 credentials (without protocol, with another user, without user, with an empty protocol) and 3 patterns |

Two processes lose each other's changes: that is allowed, no document promises otherwise. What the
properties show is that a lost change never leaves a wrong file. `Unambiguous` excludes hosts for which a
field was given as an empty string, because there it is false: the string is compared as such when it comes in
and matches anything once read back. Two entries are enough, as each property
is about one entry, or a pair of entries, and a command; three would only repeat the pairs.

Two remarks in the documents are wrong and have no run of their own. `remove` without `--protocol` removes nothing:
`store_remove` compares the protocol with a NULL as unequal (`Equal`), where the help text (`main.c:203`) says "default: all".
And `README.md:17` of the helper says that `rename()` "ensures no partial files", while a write that fell short is renamed like
any other (`ShortOf` in `Commit`).

### Proofs

`CredentialStoreProofs` proves, for any processes, credentials and patterns, with or without a full disk and an unreadable store:

| theorem | says |
|---|---|
| `Invariance` | `Spec => []IndInv` |
| `TypeCorrect`, `AnswersAreUnambiguous`, `PasswordsBelong` | the three invariants |
| `SavesAreFound`, `OthersAreKept`, `ErasesAreComplete` | the three action properties |

The only assumption is `InputsAssumption`: credentials have the four fields, NULL, the empty string and a torn password are different values,
the default protocol is a real one. `IndInv` says that the file is `Sound` (the three invariants, of a list) and that a command at work makes its list from a list
that was sound when it was read. It need not be the present one: nothing the properties promise depends on what happened between a load and its rename, which is why no
lock is needed for them.

The argument is about lists. `Removed` is a function of how many entries have been looked at, and no induction principle
is available for it, so `KeptExists` (the recursion has a solution) and `RemovedIs` (it keeps exactly what the pattern does not erase, every entry once) argue from
the first length at which they would fail (`Least`). `MatchIsClash` is the heart: what a save looks for before it appends is exactly what must not be there twice, except for
fields given as empty strings. `SavedBehind` and `SavedAt` say what a save writes, `NewLineIsSound` that an update makes an entry clash with nothing new (a user name is only
filled in where there was none, and an entry without one clashes with more), `ShortIsSound` that a write that stops anywhere leaves a sound file too.

## 5. IMAP session

`state`, `selected`, `readOnly` are `_state`, `_selected_name`, `_selected_ro`; `store` is the `user_store` of
the connection. A message is its UID, `\Deleted` and `\Seen`. `busy` says which loop a command is in: EXPUNGE
writes a response between removals, and so do COPY and CLOSE step by step, so the invariants are checked
in the middle too. `view` is what the client has concluded from SELECT, EXISTS and EXPUNGE responses, and `missed` the
messages whose text it got without `\Seen` being set. `Alias` is "inbox", another spelling of INBOX.

| run | shows | bounds |
|---|---|---|
| `imap_session` | `TypeOK`, `IndInv`, `SelectionExists`, `ViewAgrees`, `UidsAscend`, `UidsAreNew`, `OnlyDeletedLeave`, `ExaminedKept` and the refinement `ImplementsContract` | the seeded folders Sent and Drafts; `Demo` 2 messages in INBOX (3 in the code); UIDs up to `MaxUid` 3 per mailbox; `MaxMessages` 3 in all |
| `imap_seen` | **violated**: `FetchedIsSeen` - `FETCH n (BODY[] BODY.PEEK[HEADER])` returns the text and sets nothing | the same |

Three messages make a first, a middle and a last one, so an EXPUNGE of several, with one kept before, between or
behind them, occurs; renames, deletion and copying need the two folders. The view of `imap_session` leaves out `missed`, which no action
reads and only `FetchedIsSeen` is about. A mailbox that is deleted and made again
starts with UIDVALIDITY 1 and UIDNEXT 1, so `UidsAreNew` speaks of a mailbox as long as it exists. The comment at
`store.hh:40` says that `expunge` returns sequence numbers in descending order; the code returns them ascending.

No fairness is assumed: the properties are safety. The session may stop for good (`End`), so deadlock is not checked.

### The contract

`MailboxContract` says what a client may rely on, without commands, loops, positions and spellings of names. A mailbox is the UID it gives next and a *set* of
messages with a UID each; sequence number n is the n-th lowest of the UIDs the client knows. A mailbox is open for reading or for writing, or it is being closed. Then

* a message comes, under the next UID, to one mailbox (`Deliver`), is marked, only in a mailbox opened for writing (`Mark`), or goes, one at a time and only if it is marked deleted
  (`Purge`), and the client's numbers change exactly then (except while closing, which reports nothing);
* a mailbox that is made, dropped or given a new name takes nothing with it: the others keep their messages, the renamed one its own, and it stays open if it was (`Make`, `Drop`, `Move`);
* CLOSE of a mailbox opened for writing ends only when nothing marked deleted is left in it (`StartClosing`, `Leave`); a client that opens another one instead leaves it as it is (`Open`).

`ImapSession` maps to it by `ShownBoxes` (`Range` of the message list), `selected`, `ShownMode` and `Range(view)`. A COPY is thus several steps of the contract, as are EXPUNGE and CLOSE. That
positions and UIDs run in the same order, so that forgetting positions loses nothing, is `UidsAscend`, and `ViewAgrees` that the client's list is the server's; both are needed for the mapping.

### Proofs

`ImapSessionProofs` proves, for any mailbox names and any bounds:

| theorem | says |
|---|---|
| `Invariant` | `Spec => []IndInv` |
| `TypeCorrect`, `SelectionStays`, `NumbersAgree`, `UidsStayInOrder` | the four invariants of the run |
| `UidsNeverReused`, `OnlyDeletedMessagesLeave`, `ExaminedStaysUnchanged` | its three action properties |

The only assumption is `NamesAssumption` (INBOX, its other spelling, the folders and "no mailbox" are
different names; the bounds are natural numbers). `IndInv` adds two parts to the four invariants, because they do
not support each other without them:

* `StoreInv`: INBOX is there as long as somebody is logged in. The store normalises the new name of a RENAME, while
  `cmd_rename` goes on with the spelling the client used; they are the same name only because RENAME to a spelling of
  INBOX fails, as INBOX exists.
* `BusyInv`: a loop has what it works on: EXPUNGE a mailbox opened for writing, COPY its destination and
  messages that are still there.

The argument: a step does one of four things to a mailbox that stays (`StoreSteps`): nothing, a message arrives with
UIDNEXT (`Extends`), flags change (`Reflags`), or a message marked deleted goes (`Purges`), the last two only to
the selected mailbox and only if it was opened for writing. There is one lemma per action for that and for the rest of the
invariant, and one lemma per kind of change for what it does to the order of UIDs (`ExtendsKeeps`, `ReflagsKeeps`,
`PurgesKeeps`). The action properties follow from `StoreSteps` alone.

`ImapContractProofs` proves `Refinement`: `Spec => ImplementsContract`. `ShowExtends`, `ShowReflags` and `ShowPurges` say what the three kinds of change look like when a mailbox is a set;
the last one needs that no UID, hence no message, is in the list twice, which is where the invariant comes in (`AscendingIsProper`). One lemma per action (`...Implements`) then names the step of the
contract it takes.

## 6. IMAP server

One shard (`sharded<imap_server>` runs one per core; shards share nothing but the port). Seastar runs one coroutine at a time up to
a `co_await` that has to wait, and an action is such a stretch.

| code | state and actions |
|---|---|
| `imap_server::start`, `accept_loop` | `acceptor`, `accepted` (the future of `accept` is ready and the loop has not run yet); `AcceptReady`, `Serve`, `AcceptFails` |
| `_gate`, `with_gate` | `gate.count`, `gate.closed`; entering is part of `Serve`, leaving (`Leaves`) of whatever ends a coroutine |
| `stop` | `Stop` (request_abort, abort_accept and `gate.close` up to its wait), `Stopped` |
| `imap_connection::run` | `at`: `Greet`, `Top` (head of the loop and `read_line` up to its wait), `Leave`, `Close` |
| `read_line` | `ReceiveLine`, `ReadOn`; `_line_leftover` and the local `line` are `left` |
| `read_exact` | `Ask` (with the continuation request), `ReceiveLiteral`, `HaveOctets`; `need`, `frame` |
| an empty buffer from the socket | `EndOfInput` |

A client's bytes are those of a script, and `ReceiveLine` and `ReceiveLiteral` take any number of the bytes to come, so every way of cutting
the stream into reads occurs. A command is its text and its literal. What it does is section 5's module; here only LOGOUT matters, which ends the loop.
Commands that are refused as malformed count as handled.

A command with two literals is left out. The code hands a command over at the end of its first literal: the marker of that literal is stripped, so the re-scan at
`connection.cc:239` sees a complete command, and the rest becomes a line of its own. The comment above it ("May need more literals; loop by re-scanning", `connection.cc:237`)
and the one at `protocol/types.hh:51` ("after any continuing literals are assembled") take further literals for parts of the same command. So what the commands in such bytes
*are* is no question the code's cut could answer, and `OneLiteralAssumption` has clients that send at most one literal with a command; TLC evaluates it on the scripts. A literal of no
octets (`{0}`), which the code asks for as well, has no token in the scripts.

| run | shows | bounds |
|---|---|---|
| `imap_server` | `TypeOK`, `IndInv` (with `GateCounts` and `StoppedIsQuiet`), `AbortIsHeeded`, `NoByteLost`, `FramesAreStable`, `AskedOnce`, `ImplementsService`, `StopReturns` | 2 connections; 3 scripts: a literal that is CR LF followed by LOGOUT; a literal, an empty line and another command; two commands in one read; longest line `k_max` 7 (64 KiB in the code) |

Two connections suffice because they meet only in the gate and the abort: one may wait while the other one ends, and one may be accepted while the
other runs. With `k_max` 7 the two short commands fit a read one by one and just not together with more, so the limit, which the code compares with all that is
at hand, is hit in some cuts and not in others. The scripts hold every pair of tokens that `read_line` and `read_exact` treat differently.

`FairSpec` lets the reactor resume every coroutine whose future is ready: `Serve`, `AcceptFails` after the abort, `Stopped`, and the steps of a connection whose client is gone. It asks
nothing of a client that is there. `Receive` has no fairness, so a connection may wait for bytes for ever; and the greeting, a continuation request, an answer, the flush and the close
of the stream have none while the client is there, as they wait until it reads (`write_line` and `write_raw`, `connection.cc:108-119`, and `connection.cc:285-291`). What `stop` needs of clients is
therefore said in `StopReturns`, as its premise: each one takes what is written (`TakesAnswers`) and does not leave its connection waiting for bytes in silence for ever (`Silent`), or hangs up. Without either
half the conclusion is false, and TLC finds the connection that waits: the gate waits for idle clients and for clients that do not read, with no time limit. After a stop the server ends, so deadlock is not checked.

A failure of `accept` that the loop survives is logged and changes nothing, so it is no step; `AcceptFails` is one that ends it.

### The contract

`ServiceContract` knows sessions ("none", "open", "over"), the phases of the server and the commands in what each client sends. `CarryOut` is the next command of a client
and no other; after LOGOUT there is none. When the server is asked to stop, it settles which sessions may finish a command (`last`): no other one carries out any, these at
most one, and no session begins. The server has stopped when no session is open. `ImplementsService` maps a connection at work to an open session, `handled` to what was carried out, `Frames`
to the commands in a client's bytes, and the connections that are reading a command after the abort to `last`. So one property says at once that bytes become the right commands, that
the abort is heeded and that `stop` waits for the connections. Whether a session goes on is left open: nothing obliges a client to send, and `StopReturns` is the liveness there is.

### Proofs

`ImapServerProofs` proves, for any set of connections, any scripts and any line limit: `Invariance` (`IndInv`), `TypeCorrect`, `GateIsRight`, `StopIsQuiet`, `AbortHeeded`,
`LiteralAsked`. Assumed: the connections are finitely many and "no connection" is none (`ConnsAssumption`), a script is a sequence of strings (`ScriptsAssumption`), the longest line is
a positive number (`LimitAssumption`); the proofs make no use of `OneLiteralAssumption`, without which the theorems would say where the code cuts. What the properties need besides each other:

* `FreshConns`: a connection starts once; the one `accept` gives has no coroutine yet. Otherwise the count of the gate could run ahead.
* `LastIsFinished`: after the abort, a connection that has handled one command more than before is at the head of its loop or further, not in a
  read. That is what makes "at most one" last.
* `AskedExactly`: requests sent are literals read, plus one while one is being read; and a literal that was asked for has octets, so it counts as one.

One lemma per action says what it does to the connection (`...Step`: `Advance`), and `AdvanceKeeps` that such a step keeps the invariant; the steps of the accept
loop and of `stop` have lemmas of their own.

`ImapFramesProofs` proves, under the same assumptions, that however the bytes of a client arrive the commands handled are a beginning of those its bytes say when read at
once, and all those that are complete when the connection waits for more (`FramesStable`: `FramesAreStable`), and, as the invariant that carries it, that the bytes at hand are exactly those after the commands handled (`BytesAreKept`: `NoByteLost`):

* `Frames` is the first value of a function `Parse` that is recursive in the position. That such a function exists, and what it is at each position, is shown without an
  induction theorem: of the positions from which it were not defined, the *last* one would be a step away from a defined one (`LeastElement`, `OneEarlier`, `ParseDefined`, `ParseAt`).
* `Cut(s, h, p)`: whatever follows, the commands of `s` are those of `h` and those from byte `p` on. Being about every prefix of the script that reaches `p`, it cannot be upset by bytes still
  to come; that the commands handled are a beginning follows from it at the bytes received so far (`CutStarts`).
* `UnderWay(c, p)`: what has been read from `p` on is the beginning of a line (`BeginsLine`), or a line and the beginning of its literal (`BeginsLiteral`), and says where each part
  is: in the leftover, in the command being put together, or still to come (`need`). FramesAreStable alone says nothing of these and is not inductive.
* A line at hand is the same line however much follows (`LineAtHand`), so that a step either leaves `p` alone (`AskKeepsBytes`, the reads) or moves it past one line
  (`CutLine`) or one literal, as `Parse` does. A connection that leaves its loop keeps only what it has handled.

From there `ServiceImplemented` (`ImplementsService`) takes two more facts, that what `stop` sets agrees (`PhaseAgrees`) and that nothing is read after LOGOUT (`LogoutIsLast`), which
with `IndInv` and `NoByteLost` are inductive. A step of a connection is `CarryOut` when `handled` grows, `Forgo` when a connection stops reading after the abort, `Finish` at its end, and
no step of the contract otherwise (`GoesOnServes`, `CloseServes`); that it is the *next* command is two beginnings of one sequence that differ by one (`OneMore`).

## 7. TLS reactor

One action is one access to memory that threads share, or one system call.

| code | state and actions |
|---|---|
| `Ring`: entries, array, head, tail | `ring`; `getSqe` is `LoadTail`, then `NoEntry` or `TakeEntry`; the two stores that make a poll are `SetFd`, `SetUserData`; `flush` is `LoadForFlush`, `Publish`; `enter` is `Enter` or `EnterRefused` |
| `ConnTable` | `slots`, `len`, `Ensure`; `moved` in a handler: its `conn` pointer is into the table's old memory |
| FIFO of descriptors | `queue`, `NewFdPush`, and the pop in `Dispatch` (each under the lock: one step) |
| `onCqe`, `drain`, `reactorThread` | `OnAccept`, `OnAcceptError`, `OnPoll` (the store), `Wake` (the FUTEX_WAKE) |
| dispatcher, `Io.Threaded` | `Dispatch`: a free thread of the pool runs the handler, or the dispatcher itself when there is none |
| `handleConnection`, `tlsAccept`, `tlsRead`, `tlsWriteAll` | `Setup`, `Tls`; the defer block is `LoadSlot` (the slot's address), `FreeSsl` (what is there, shut down and freed), `ClearSsl` (the store of null), `CloseFd` |
| `parkUntilReady` | `Sleep`, `Woken`, `Reset` |
| kernel, clients | `KernelAccept`, `AcceptError`, `CompletePoll`, `Submitted`; `Send`, `HangUp` |

OpenSSL is reduced to whether a call finds what it needs. A handshake may end at any time (`CallEnds`), as the deadline may have passed. The kernel gives the lowest free
descriptor, a poll outlives the descriptor it was submitted for, and a completion carries the descriptor *number* it was submitted with. A zeroed
entry is a NOP to the kernel whose completion has a tag that is no `OpTag`; a build with safety checks stops there, the model goes on, as the release build is taken to. A handler that
reads its old slot after the table moved finds any value, a store there is lost, and the defer block, which takes the address anew, may lose it
to the table once more before it has freed the object or stored null. `live` is the SSL objects made and not freed. `Pool` is the threads of the machine's pool, as many as it has.

| run | shows | bounds |
|---|---|---|
| `tls_reactor` | `TypeOK`, `IndInv`, `OneOwner`, `OwnSsl`, `SleeperIsWoken`, `Polled`, `InputIsRead`, `HungUpIsClosed` | 2 clients, 1 thread of the pool and the dispatcher, 2 descriptors, ring 2 with counters mod 4 (2^32 in the code), table 2 (the second descriptor makes it grow; 65,536 in the code), FIFO 2 (it holds one; 8,192 in the code), 1 event by clients (bytes enough for one call of OpenSSL or for two), 1 refusal by the kernel, `MaxExtra` 0 |
| `tls_parked` | **violated**: `ParkedIsPolled` - two handlers fill one entry | the same with a table that never grows, no events and no refusals, so that the ring is the only cause left |

`disturbed` records the first of three events: two handlers between the load of the tail and its publication, a refused `enter`, a table that moves as it grows under a running handler. `Polled` says
that a parked thread without a poll is always one of these three, and the two liveness properties are about runs without them. After such an event at most `MaxExtra` more entries are
taken: what was lost stays lost, and the mess the ring is in then grows without end. The safety properties of `IndInv` hold all the same, disturbed or
not, and are proved without any of these bounds.

`OwnSsl` has two parts. `SlotIsOwn` holds in every state, wherever the table moves: a descriptor in the FIFO has an empty slot, and a handler's slot holds nothing or its own object. It
holds although a handler whose store of null went to the old memory leaves a freed object in the new slot (`main.zig:475` against `:239`): the reactor empties the slot before it gives the number
away again (`:318`). `FreedOnce` says that every object is freed, once, by the handler that made it, and that no slot keeps one whose handler is gone; it holds unless a handler has read or
written `ssl` at an address the table had left, which sets `astray`. After that it is false, and rightly so: the object may be leaked, freed twice, or be another connection's. The code
has this flaw; `main.zig:249` calls the globals "set once in main, read-only after", which the table is not.

Two handlers are all that the races between handlers need, and as many as the ring has entries, so that a full ring
comes only of a race (a handler compares an old tail with a new head); a FIFO of one is full at the second accept. The two liveness properties say "again and again none is left": with finitely
many events by clients, and each hanging up once, that is the same as each being noticed.

`FairSpec`: threads are scheduled (`Reactor`, and `Dispatch` and `Handle` of each thread), and the kernel completes a poll whose event has occurred. Nothing is asked of clients or
of accept. `HungUpIsClosed` assumes further that the dispatcher is idle again and again: while it runs a handler itself, for a client that may be silent for ever, nobody is dispatched.

### Proofs

`TlsReactorProofs` proves, for any clients, threads, descriptors and sizes: `Invariance` (`IndInv`), `TypeCorrect`, `DescriptorsOwned` (`OneOwner`), `SslBelongs`
(`OwnSsl`), `NoLostWake` (`SleeperIsWoken`). Assumed: sizes are positive and the ring's size divides the range of its counters (`SizesAssumption`), bounds are natural
numbers (`BoundsAssumption`), names differ (`NamesAssumption`). `IndInv` adds `Held` (what the FIFO and handlers hold are descriptors, and a handler's connection is the one behind its descriptor), `OneSock` (a connection is behind one descriptor) and `Waking` (the completion being woken for
is a poll at the head, so dealing with it drops no accepted descriptor). `OneOwner` is the heart: a descriptor moves from completion to FIFO to handler and is closed by the one who
holds it, so nothing that is keyed by its number, the slot above all, is anybody else's meanwhile. The proof follows the three places apart (`CqShifted`, `QueueSame`,
`ThreadSame` and their like) and one lemma per action joins them. `SlotIsOwn` follows from it, as what is emptied and handed over has one owner; for `FreedOnce`, `SslSteps` and `FreedSteps` say what the steps of a
handler do to its own object, and that no other handler has that object is that no two handlers have one descriptor and no two descriptors one connection. For `SleeperIsWoken`, `FutexSteps` says that a handler goes to sleep only on a clear word.

`TlsPolledProofs` proves `ParkedArePolled` (`Polled`) under one more assumption, `EnoughEntries`: the threads are finitely many, and no more than the ring has entries (4,096 in the code,
against a pool of about the machine's processors). Without it a handler may find the ring full though nothing went wrong, and parks without a poll. The invariant `PolledInv` adds to `IndInv`, while
undisturbed, the shape of the whole ring (`RingOrder`): between head and tail there is one entry for each thread that is about to enter, each where the array says, and the one handler
that is filling an entry fills the one at the tail, which is none of these. What a thread at `enter`, `park` or `asleep` relies on (`Assured`) is its word, its poll, a completion or an
entry; a completion counts only until its wake-up begins, as the handler may have reset the word and polled again by the time it ends. Counters wrap, so the proof rests on lemmas about remainders
(`ModPlus`, `ModDiffer`, `BetweenMoves`, `IndexDiffers`).

## 8. What is proved and what is only checked

Proved for all constants: everything in the tables of theorems of sections 3, 4 and 5 and named under "Proofs" in sections 6 and 7. Only model-checked: liveness
(`EventuallySynced`, `StopReturns`, `InputIsRead`, `HungUpIsClosed`; liveness under fairness and ENABLED are out of the prover's reach).
Every other property of a passing run is stated by a theorem. The violated properties have their counterexamples from TLC.

## 9. What is not modelled

* kanban boards and `CryptoService`: no state that the rest depends on. The content of a card, its IVs and keys.
* The credential helper's `list` and `config`, limits on the length of lines, the format of the file.
* IMAP: SUBSCRIBE, flags other than `\Deleted` and `\Seen`, keywords, failing LOGINs, and commands that only read (SEARCH,
  LIST, STATUS, NOOP, CHECK, CAPABILITY). Commands that are refused change nothing and are not steps.
* IMAP parsing: tokens, quoting, and how the text of a sequence set becomes numbers (`ImapSession` takes the set of numbers). One known
  weakness of it is listed as a hazard (`parser.cc:390`).
* IMAP commands with more than one literal, and literals of no octets (section 6).
* What happens after the network, not stop, makes `accept` fail for good (`server.cc:60`, `main.zig:304`): the steps are there, but no document says what
  should happen, so no property does.
* The TLS protocol, certificates, and how long anything takes: a deadline is one that may have passed.
* The wire formats and the sockets.
* `vibecoding/commander`: `abort_controller.cpp:27` unlocks a `lock_guard` and `io_uring_context.cpp` sets fields that the structure of its header lacks,
  so that there is no program to be faithful to yet.
* The other parts listed as "not modelled" in section 1, for the reasons given there.

## 10. Plan

Done: kanban (data, local, remote, composition, contract, proofs), the credential store, the IMAP session and its contract, the IMAP server and its contract, the TLS reactor, each with its
runs and proofs.

What could follow, in this order:

1. Sequence and UID sets as operators over short inputs, checked against a reference definition, with 32-bit arithmetic.
2. The SMTP and SSH servers under `vibecoding`: sessions over one event loop.
