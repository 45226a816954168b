# Formal verification of OpenEvents

OpenEvents keeps a company's analytics events in a YAML registry and generates
protobuf schemas from it. Messages that were written under one version of the
registry are read under later ones, so a protobuf field number must never come
to mean something else. `openevents.lock.yaml` pins the numbers; the commands
`lock update`, `lock check` and `generate proto` are its only users. The demo
adds an HTTP API that publishes events to SQS and a Python consumer that
writes them to Parquet.

This directory holds TLA+ models of that code, the TLC runs that check them on
small instances, and TLAPS proofs for every instance.

    tlc -workers 2 -config lifecycle.cfg MCLockLifecycle.tla    # a run
    tlapm LockLifecycleProofs.tla                               # the proofs of a module

## Inventory

Paths are relative to the repository's root. "Hard" names what unit tests
hardly reach.

| Component | State | Operations | Hard | What makes it correct |
|---|---|---|---|---|
| Schema lock, `internal/schemair/lock.go`, `lock_update.go` | a `Lock` value: context fields, per event envelope, properties, reserved list | `UpdateLock`, `CheckLock`, five validators | long histories of removals and returns; protobuf's reserved range; locks edited by hand | a number has one name for ever; update never refuses its own output; check accepts exactly the fixpoints of update |
| Lowering, `from_registry.go` | none | `FromRegistry` with its own validation of the lock | two implementations of "the lock is good" | the second gate refuses nothing the first lets pass |
| Naming, `proto_names.go` | none | message, enum and value names; enum numbers | two names that render alike; enum numbers by position | no collision reaches protoc; enum numbers keep their meaning |
| Registry, `internal/registry` | the merged registry | `Load` (discover, decode, merge fragments), `Validate` | conflicts between fragments in any order | every conflict found; what Validate accepts can be generated |
| CLI, `internal/cli` | the lock file, generated files | `validate`, `lock update`, `lock check`, `generate proto`, `generate constants` | commands interleaved, crashes between file operations, torn writes | see the lock; files never half new |
| Rendering, `internal/protogen` | the output directory | `Render` | failure between two files | schema and metadata agree |
| Constants, `internal/constgen` | none | Go and Python constants | one language written, the other not | both languages agree |
| Demo API, `examples/demo/services/api` | the routes it was built with | bind, validate, build the event, `Publish` | answer lost, request retried, API newer than the consumer | an accepted event is on the queue under the id the client was told, and gets into a file |
| Demo consumer, `examples/demo/services/consumer` | buffers per event, flush timer, file counter | `poll`, `Sink.append`, `maybe_flush`, `flush_all`, signals | crash between receive, append, delete and flush; redelivery; two consumers | no message disappears other than by a crash; each delivery is in one file; everything is stored in the end |

Interactions. `lock update` reads the registry and the lock file and writes the
lock file. `lock check` compares the file with what an update would write, and
`generate proto` runs `CheckLock`, then `FromRegistry`, then `Render`.
`generate constants` writes one file for the API and one for the consumer.
Nothing connects the CLI and the demo but what is generated; API and consumer
share the SQS queue and the wire format.

## Modules

| Module | Models | Correspondence |
|---|---|---|
| `SchemaLock` | `lock_update.go` | one operator per function, on a lock and a registry; an operator named after a validator is TRUE when the Go function returns nil |
| `Lowering` | `from_registry.go`, enum numbering of `proto_names.go` | likewise; `FromRegistryAccepts` is "no error", `FromRegistry` the numbers and wire types of the schema |
| `LockLifecycle` | `internal/cli/lock.go`, `generate.go` | variables `registry`, `lockFile`, `published` (history); actions `EditRegistry`, `LockUpdate`, `GenerateProto`; `LockCheckPasses` for the command that writes nothing |
| `LockTamper` | hands on the lock file | extends `LockLifecycle` by one edit of one entry (`HandEdit`) and its revert |
| `NumberLedger` | the promise | a ledger per scope: names in use, numbers retired; one action |
| `Naming` | word splitting of `proto_names.go`, `goIdent` and `pyIdent` of `constgen.go` | operators on sequences of characters |
| `RegistryLoad` | `registry/load.go`, `validate.go` | `Load` folds `MergeRegistry` over the files a path names; `Validate` on the result |
| `Commands` | `cli/lock.go`, `generate.go` (`generate proto`), `Render` | the commands as the file operations they are made of, several processes; see below |
| `Constants` | `generate.go` (`generate constants`), `writeFileAtomic` | two files, two temporaries, a program counter per process |
| `Delivery` | the promise of queue and consumers | what became of each message; four actions |
| `Pipeline` | `server.go`, `eventmap.go`, `publisher.go`, deployment | extends `Constants`, instantiates `Delivery`; see below |
| `Consumer` | `sqs.py`, `sink.py`, `__main__.py`, and SQS | program counter per process; see below |
| `MCLockLifecycle`, `MCLockTamper`, `MCCommands`, `MCConsumer`, `MCPipeline` | | instances and bounds for TLC |
| `SchemaLockProofs` | | lemmas about `UpdateLock`, `CheckLock` and the abstract ledger for any lock and registry; the next four build on them |
| `SchemaProofs` | | lemmas and theorems about identifiers and enum numbers |
| `LockLifecycleProofs`, `LockTamperProofs`, `CommandsProofs` | | theorems about one command at a time, edited locks, and interleaved commands |
| `NumberLedgerProofs`, `PipelineProofs`, `ConsumerProofs` | | theorems about those modules and, in `PipelineProofs`, about `Constants` |

Two abstract specifications tie the parts together. `NumberLedger` is what the
lock promises: `LockLifecycle` implements it, and so does each step of the
committed lock of `Commands` as long as no update slips (below). `Delivery` is
what queue and consumers promise: `Consumer` implements it, and `Pipeline` puts
the API in front of it instead of the consumer's sixteen actions.

### The lock

A registry is a map from context names to types and from event keys to maps
from property names to types, which is what the lock depends on. A name is a
natural number: its position in the byte order the code sorts by, so that
"new fields are numbered in sorted order" is `Rank`. The code's loop over
`nextSequentialNumber` is written in closed form (`Allocate`); theorem
`AllocateIsIteration` shows the two equal. Protobuf's reserved range is a pair
of constants.

A reserved list is a set of entries and a flag that says whether the list is in
the order `sort.Slice` makes. A list that holds one entry twice cannot be
expressed (the code refuses it, as a duplicate number).

`published` records every field of every schema that was ever generated: the
messages written under it are out there, so this is what later schemas must be
compatible with. Events that a team may take out of the registry and those it
keeps (`PermanentEvents`) are told apart, because the lock forgets an event
that leaves the registry and promises nothing about its numbers. Each CLI
command is one step here, and several in `Commands`. Names that render alike
are given by the constants `PascalCase` and `ValueName`; `UnfitNames` are the
ones protobuf refuses. `Commands` requires of `PascalCase` that for events it is
what `Naming` computes from their characters (`SpellingAssumption`). The check of the Go package path is left out:
`registry.Validate` makes it too.

### The commands

`Commands` cuts each command where another process, an editor or a kill can
come in. `lock update` is `Start` (`loadValidatedRegistry`), `ReadToUpdate`
(read the lock, `UpdateLock` in memory), `Truncate` and `WriteLock` (the two
halves of `os.WriteFile`). `generate proto` is `Start`, `ReadToGenerate`
(`CheckLock`, `FromRegistry`) and an open and a write for each of the two files
of `Render`. `WriteFails` is a write that gets part of the text out: a torn
lock is any lock that a prefix of the YAML decodes to (`LockPrefixes`).
`Crash` is a kill or a failing operation anywhere else. `Restore` is
`git checkout` of the lock file; `committed` is what it brings back, the last
lock a command finished writing. A path may name the directory or one file of
it, and the lock file is the directory's either way.

Four things can go wrong with the numbers. `slips` records three of them when a
lock is replaced: the lock file is not the one the update read ("lost update"),
the update read a half-written one ("torn base"), or its registry is not the
one the directory holds ("other registry": the files were edited meanwhile, or
the path named a fragment). The fourth is a generation from a half-written lock
("torn schema"): what it publishes is gone when the lock is restored, and a
later update gives those numbers to other names. `NumbersKept` holds unless one
of the four happened, `LedgerUnlessSlip` unless one of the first three did, and
the exceptions are needed. Allowing lost updates alone violates
`LedgerUnlessSlip`, torn bases violate both, with another registry the lock
forgets a whole event that never left the directory, which violates
`NumbersKept`, and so does a torn schema. That last one came out of the proof:
without it the invariant would not go through `ReadToGenerate`, and TLC showed
the history behind it.

A torn lock is noticed by `lock check` (`ShortWriteNoticed`) with one
exception: when all it lost is the end of the last event's reserved list, its
bytes are what an update would write for what is left. `generate proto` does
not compare bytes. It also accepts a lock that lost the whole of that list, and
one that ends between two digits of a number, as long as what is left of the
number is the one the history lacks: with 2 to 11 and 12 in use and 1 retired,
`proto_number: 1` is left of 12, and the schema gives that field number 1. That
is a "torn schema" slip, and a case the run `commands` reaches (numbers are
written in base 2 there, the constant `Radix`, so that a number of two digits
is a small one). No more than one number can be wrong in this way
(`OneNumberLosesDigits`). Whatever happened, a checkout of the committed lock
helps: `lock update` accepts it (`CheckoutHelps`).

Left out are two writes that mix into a third lock that decodes: two
overlapping writes give the later text, the longer text when the shorter is its
beginning, or text that does not decode. `Start` reads all files of a directory
at once. `Validate` lets more pass than the code, which also refuses an unknown
status of an event, a bad PII class, a missing or malformed package and blank
enum values; locks and numbers depend on none of them.

### Constants and the demo

`generate constants` writes `<target>.tmp` with `os.WriteFile` and renames it,
Go first. `Constants` has a step for opening, writing and renaming. The
temporary's name is the same in every process: `handle` follows an open file
when another process renames it, so that a write may land in a file that is
already in place (`WriteTemporary`), and a rename may find its temporary gone
(`RenameFails`). `overlapped` and `disturbed` are history: two generations ran
at once; one broke off after the Go file or overlapped, and none ran alone
since.

`Pipeline` builds the API from the Go file and the consumer from the Python
file, at any time (`DeployApi`, `DeployConsumer`). `Post` is `bindBuild` up to
the call of `Publish`: 404 for a route the API does not have, 400 for a field
that the event's `Validate` looks at, otherwise an event with an id of its own.
`SendMessage` is one try of the AWS SDK, which may be accepted with or without
its answer coming back, and `PublishFails` the 502 after which a client may
post again. Routes and `EVENT_REGISTRY` are lists written by hand in the demo;
the model takes them to be the names in the generated files, from which the
GUIDE expects both languages to stay in step.

### The consumer

One action per step of `poll` between two points at which another process, SQS,
a signal or a crash can come in: `Receive`, `ReceiveNothing`, `DropPoison`,
`Append`, `Delete`, `BatchDone`, `MaybeFlush`, `WriteTemporary`, `Replace`,
`FlushDone`, `LeaveLoop`. A row is the pair of a message and the number of its
receive, so a redelivered message makes a second row. `Crash` stands for a kill
and for an exception, which `poll` and `main` do not catch. SQS is modelled by
its contract: a message is visible, in flight or deleted; a message in flight
may become visible at any time (`VisibilityExpires`); `delete_message` with an
outdated receipt may or may not delete. Time is the age of the flush timer,
advanced by a receive, and the second in a file's name, advanced by starting a
process, which takes longer than a second: all flushes of one process may fall
in one second, the worst case for file names. Messages of one batch and buffers
of one flush are handled in any order, a superset of the code's.

## Runs

| Run | States | Shows |
|---|---|---|
| `lifecycle` | 71,633 | every order of edits, updates and generations, in three regions (below): update never refuses its own lock and settles it, both gates agree, a number has one name, published numbers stay locked, the ledger is implemented, across the reserved range and next to an event that comes and goes |
| `tamper` | 112,742 | one hand edit of a current lock: a trade of two numbers passes, and no other edit renumbers a field unnoticed; only the highest retired number can be forgotten; `CheckLock` accepts exactly the fixpoints of `UpdateLock`; update repairs what it accepts |
| `consumer` | 71,712 | two processes, stale receipts, one crash, one signal: nothing vanishes but by the crash, each delivery is in one file, all is stored in the end, the signal ends its process |
| `drain` | 744,765 | `--until-empty` with batches, two buffers, poison and a crash: what a crash may cost, no file is replaced, `Delivery` is implemented, the process ends with its work in files |
| `commands` | 301,011 | two processes, every order of file operations with an edit and a fault: numbers and ledger survive but for the four slips, a torn lock is noticed, schema and metadata match, merging does not depend on the order, generated constants do not collide |
| `pipeline` | 395,666 | two generations, deployments, a client and an SDK that retry, a fault anywhere: readers see whole files, an undisturbed generation repairs what others left, a careful rollout loses nothing, a 202 names the event, the event arrives and no copy of it stays on the queue |
| `reuse_after_drop` | violated | see Findings |
| `stale_context` | violated | see Findings |
| `enum_order` | violated | see Findings |
| `at_least_once` | violated | see Findings |
| `languages_disagree` | violated | see Findings |
| `shared_directory` | violated | see Findings |

Bounds and why they are enough:

- Two names per message give a new, a kept, a removed and a returning field in
  one update, and two that trade places.
- `lifecycle` explores three regions and every passage between them, as their
  full product is out of reach. `Short`: the context and one event that stays,
  two names each, until the event has used up `ShortHistory` = 3 numbers; then
  both names can be retired and one can return. `Long`: the event alone, with
  nothing generated, up to `LongHistory` = 9 numbers, which takes it across a
  reserved range 8..9; what was published multiplies the states and matters to
  none of the properties that are about the gap. `Pair`: one event that stays
  and one that is dropped and added again, one name each, everything generated
  that can be. The theorems below hold without these bounds.
- `tamper` edits a lock once, at any reachable current lock, with numbers that
  include 0, a reserved one and one past the history.
- `MaxReceives` bounds how often a message is handed out while it is being
  handled: twice in `consumer`, once in `drain` (again after a crash, without
  limit of its own). `MaxCrashes` and `MaxStops` bound the environment, and the
  number of restarts follows from them. A batch of two, a buffer of two
  (`consumer`) or one (`drain`) and four good messages reach full and partly
  full buffers, batches that mix events, and a flush of two files.
- `commands`: two processes (symmetric), three commands, one edit of one file,
  one fault. A slip takes at most two commands and one edit or fault, and the
  third command works on the damage. A run starts from an empty
  directory, or from a past of three updates that left retired numbers above
  an active one and a change to be locked; `MaxHistory` 5. `Radix` 2 makes 2 the
  first number of two digits. The second file of
  the directory may be missing, no YAML, in conflict with the first, or hold
  two events whose names render alike. Two `ASSUME`s of `MCCommands` compare
  the two naming algorithms on all valid event names of up to five characters;
  the theorems of `SchemaProofs` do for all names.
- `pipeline`: one request posted at most twice, two tries each, two accepted
  messages, two generations, one edit and one fault, which a generation and a
  consumer share. That is a duplicate by the SDK, a duplicate by the client, a
  consumer behind the API, and generations one after the other and overlapping.
  The theorems hold without these bounds.
- `languages_disagree` is `pipeline` with one message, `shared_directory` two
  processes and two messages of one event, without crashes and signals.
- `drain` does not check for deadlock: the process is meant to end. Nor do
  `commands`, `pipeline` and `languages_disagree`, whose commands, edits and posts run out.

Fairness. The lock has no liveness property: nothing forces a developer to run
a command. In `FairSpec` of `Consumer` a running process goes on running
(`Step`: one thread, no locks), an operator starts it again (`Start`), and SQS
makes a message visible again that a process took and lost
(`VisibilityExpires`, the visibility timeout). Nothing is assumed of `Send`,
`Signal` and `Crash`. Without weak fairness of `Start`, `EventuallyStored`
would fail after any crash, and rightly so. `Pipeline` assumes that a queued
message is consumed in the end (weak fairness of `Consume`), which is what
`EventuallyStored` shows of `Consumer`; nothing is assumed of developers,
deployments, the API or clients.

## Proofs

TLAPS proves these for every value of the constants that satisfies the
assumptions in the modules. TLC confirmed the inductive invariants on the runs
of their modules, quantifiers over the naturals cut to a range.

| Theorem | States |
|---|---|
| **The lock**, one command at a time: any names, events, types, reserved range | |
| `AllocateIsIteration` | `Allocate(m, k)` is `k` calls of `nextSequentialNumber` |
| `LockStaysSound` | the inductive invariant `IInv` |
| `TypeCorrect` | `TypeOK` |
| `NeverRefused` | `UpdateNeverRefused` |
| `UpdateAlwaysSettles` | `UpdateSettles` |
| `GatesAlwaysAgree` | `GatesAgree` |
| `PublishedLocked` | `PublishedStaysLocked` |
| `OneNamePerNumber` | `NumberMeansOneName` |
| `LockImplementsLedger` | `Spec => ImplementsLedger` |
| `LedgerHasOneOwner` | in the ledger, a number has one owner and retired ones stay unused |
| **An edited lock**, any edit of any lock the program wrote | |
| `CheckFindsEveryEdit` | `CheckIsFixpoint` |
| `UpdateRepairs` | `RepairSettles` |
| `EditedGatesAgree` | `GatesAgree`, edits included |
| `RenumberingIsNoticed` | `NoSilentRenumber` |
| `TradesArePassed` | `TradesPass` |
| `HolesAreNoticed` | `OnlyTheTailIsForgotten` |
| **Interleaved commands**, any number of processes, files, commands, edits, faults | |
| `TypeCorrect` | `Commands`' `TypeOK` |
| `NumbersSurviveOverlap` | `NumbersKept` |
| `UpdatesAreRevisions` | `LedgerUnlessSlip` |
| `ShortWritesShow` | `ShortWriteNoticed` |
| `OutputsAgree` | `OutputsMatch` |
| `LoadAddsUp` | `LoadFiles` finds every conflict between two files and returns their union otherwise |
| `OrderDoesNotMatter` | `MergeIgnoresOrder` |
| `ConstantsAreUnique` | `IdentifiersDiffer` |
| `CheckoutHelps` | no validator of `lock update` refuses the committed lock, for any registry, whatever slipped or died |
| `UpdateThenCheck` | what `lock update` is about to write passes `lock check` for the registry it read, even if the lock it read was half written |
| `OneNumberLosesDigits` | the schema of a half-written lock that `CheckLock` accepts differs from that of the whole lock in at most one field's number, which lost digits at its end |
| **Names and enum numbers**, any alphabet, names, values | |
| `GoIdentsAreMessageNames` | `goIdent` and `EventMessageName` spell each valid event name alike |
| `PyIdentsDecideMessageNames` | two valid event names with one Python constant have one message name |
| `AppendingKeepsEnumNumbers` | an edit of an enum keeps its values' numbers if and only if it only appends values |
| **The demo**, any number of requests, generations, deployments, faults | |
| `FilesStayWhole` | `ConstantsWhole` |
| `GenerationsHeal` | `GenerationHeals` |
| `DisagreementHasACause` | `LanguagesAgree`, unless a generation broke off or overlapped and none ran alone since |
| `PipelineTypeCorrect` | `Pipeline`'s `TypeOK` |
| `AnswersNameEvents` | `AnswerNamesEvent` |
| `RolloutIsSafe` | `RolloutLosesNothing` |
| **The consumer**, any number of processes, messages, receives, crashes, signals | |
| `TypeCorrect` | `Consumer`'s `TypeOK` |
| `EachReceiveOnce` | `OneRowPerReceive` |
| `OnlySharedDirectoriesLose` | a file is replaced only in a directory that two processes write to |
| `OwnNamesDoNotCollide` | `OwnDirectories`: `NamesDoNotCollide` |
| `StoredStays` | `OwnDirectories`: `StoredForGood` |
| `NothingIsMislaid` | `OwnDirectories`: `NothingVanishes` |
| `ConsumersImplementDelivery` | `OwnDirectories`: `Spec => ImplementsDelivery` |
| `CrashIsBounded` | finitely many messages: `CrashCost` |

Assumptions. Of the lock: finitely many names, ordered like the naturals above
0; the reserved range above the envelope's numbers; an edit writes integers. Of
`Commands`: no path occurs twice in the file order (`FileOrderAssumption`); the
fragments hold names of the sets given (`ContentsAssumption`); event keys are
pairs of integers, which gives them an order (`KeysAssumption`), and the context
is none of them; numbers are written in a base above 1 (`RadixAssumption`);
the names of events that are not malformed match the pattern of `Validate`, and
`PascalCase` is spelled out for them (`SpellingAssumption`); a past is a
sequence of directories that hold the permanent events (`PastsAssumption`). Of
`Naming`: a letter has one capital, and letters, digits and separators are
different characters (`LettersAssumption`). Of `Pipeline`: the numbers of tries
and posts are naturals. Of `Consumer`: sizes are above 0 and every process has some output
directory. Two hypotheses stand in the theorems that need them. `OwnDirectories`
says that no two processes share an output directory; the demo starts one
consumer, and without it all of them are false (`shared_directory` shows the
first). A finite set of messages makes the cardinalities of `CrashCost` mean
something.

The lock. `IInv` says of every message of the lock that it is *sound*:
each entry is under its own name, its number is allowed by protobuf, no number
is used twice, retired ones included, and below a used number only protobuf's
own are missing. None of the properties is inductive alone: that new numbers
collide with nothing needs that the highest number bounds the history; that
update accepts its output needs that the numbers it adds close the history
without a hole, and there `Allocate` meets the reserved range. The lemmas of
`SchemaLockProofs` show that `Extend` and `Retired` keep a message sound, and
lift that to `UpdateLock`; `LockLifecycleProofs` has one step per action.
`UpdateNeverRefused` is then soundness read as the five validators.
`UpdateSettles` holds because on a lock that already covers the registry
`Extend` adds nothing and `Retired` is empty. `NumberMeansOneName` needs
`PInv`: what was published is in the lock, and sound locks give a number one
name. `LockImplementsLedger` maps a scope's active entries and retired numbers
to the ledger; its step case uses soundness to show that new numbers are new.

An edited lock is not sound. It is only *shaped* like what the decoder gives,
and a shaped lock that the five validators accept differs from a sound one in
what they do not look at: the version, envelopes, the order of reserved lists,
events the registry has not (`Repaired`). That is enough for
`CheckIsFixpoint` in both directions: `CheckLock` compares field by field, and a
lock that passes is `UpdateLock`'s value on itself. `RenumberingIsNoticed` and
`HolesAreNoticed` need `TInv`, which remembers that the lock before the edit was
sound and current. Then one case per kind of edit: a changed
number leaves a hole where it was or above the numbers there are
(`OnlyItsNumberFits`), and a dropped one leaves a hole unless it was the highest.

Interleaved commands. `IInv` of `CommandsProofs` has a part for each thing that
is shared. `LockFiles`: the lock file is the committed one, or is visibly not
(empty, garbled), or torn, which no reader sees but `slips` records. `InTurn`:
while no update slipped, whoever has truncated the lock file is alone, the file
is empty, and what it will write is `UpdateLock` of the committed lock. This is
the core: a second update that read the old lock finds another file than it
read, the empty one or what the first has written, and so has slipped.
`Promises`: while nothing slipped at all, the committed lock keeps what was
published and what a generation under way will publish, because such a
generation read the committed lock. `Work` and `Outputs` tie program counters
to what processes and output files hold. `NumbersKept` and `LedgerUnlessSlip`
follow by the lemmas of `SchemaLockProofs` about one update. `ShortWritesShow`
is a case for every place where the text can be cut: a cut in the context or in
active entries leaves a field of the registry without its number, a cut between
events leaves an event out, and only the tail of the last event's reserved list
is left. `OrderDoesNotMatter` rests on `LoadAddsUp`, which says what
`LoadFiles` returns without naming an order: there is no error exactly when all
files found decode and no two of them disagree, and then the result holds what
any of them holds and nothing else. What `LoadFiles` and `LocksOf` compute file
by file is shown by the least number of files for which it would be false
(`LeastNumber`), as the induction rules of the library are out of reach.

When updates slip, `Promises` is gone, but not everything is. `Legible` says
that every lock in the lock file, in the repository or in a process is shaped
like what the decoder gives, that the committed one is *sound*, and that an
update about to write has read a lock its validators accept. A lock those
validators accept makes a sound one, so a torn base or a lost update costs
numbers of the past and never the form of the lock; hence `CheckoutHelps` and
`UpdateThenCheck`. `OneNumberLosesDigits` is a look at the places where the text
can be cut: `CheckLock` accepts no prefix without an entry that the registry
needs, and of the entries a prefix keeps (`SaysLess`) only the last can have
another number than in the whole lock.

Names and enum numbers. The characters of a name are put together one after the
other by `WithoutGaps`, whose value is determined by the least length for which
two would differ, again `LeastNumber`. `goIdent` capitalises what follows a
separator, `EventMessageName` the first letter of a word and of what follows a
change of case; in a name that `Validate` lets through there are no capitals,
and after a separator only a letter, a digit or another separator, so both do
the same to each character. `pyIdent` maps characters one to one but for dots,
hyphens and underscores, and all of these are separators to
`EventMessageName`. With that `ConstantsAreUnique` follows from the collision
check of `FromRegistry`, although `generate constants` has none.
`AppendingKeepsEnumNumbers` is the other side of the finding `enum_order`: it
says which edits are harmless.

Constants and pipeline. The invariant is `GInv`: as long as nothing overlapped, a
generation that runs finds in its temporary what it wrote itself, and once it
is past the Go file, that file holds its names. `ConstantsWhole`,
`GenerationHeals` and `DisagreementHasACause` do not follow without it, because
a rename moves whatever the temporary holds. `AnswerNamesEvent` needs `PInv`: a message's id was made by
the attempt that sent it, and every copy of one attempt carries one id.
`RolloutLosesNothing` needs `RInv`: while a rollout is careful, every name in
use is in the registry, the consumer's names are among those of any file it may
be built from next, and the API's, its handlers' and its messages' among the
consumer's.

The consumer. `IInv` of `ConsumerProofs` says where rows can be: each in one
place (`Apart`), made of a receive that has happened (`Issued`), in the buffers
and files of its event (`Sorted`), and what the program counter says of batch,
buffers and the file being written (`Phases`). A new receive gets a number no
row has, so `Apart` survives it. `StoredForGood` needs `NInv`: every file in the
directory of a process that shares it with nobody has an earlier second or a
smaller counter than the name it would choose next; a restart takes more than a second, which is what makes the
counter's return to 1 harmless. `NothingVanishes` needs `VInv`, which asks that
the row of a deleted message is in a buffer, in a file or lost; deleting comes
after appending. `ConsumersImplementDelivery` maps a message to queued, stored,
lost or dropped; `Send`, `DropPoison`, `Replace` and `Crash` are steps of
`Delivery`, where one step decides about all rows of a file or of a process, and
the other actions are none.
`CrashCost` needs `SInv`: between two polls a buffer holds less than
`BatchSize` rows of an event, and a poll adds at most `MaxMessages`.

Only model-checked:

- Liveness: `EventuallyStored`, `StopIsHonoured`, `DrainEnds`,
  `AcceptedArrives`. Liveness under fairness is out of the prover's reach.
- The six violated properties, of course.

## Findings

- **An event that returns reuses its numbers** (`reuse_after_drop`). The guide
  says "field 5 means `total_cents` forever, even if the YAML rearranges
  itself" (GUIDE.md:142-143); `UpdateLock` drops an event that is not in the registry together
  with its reserved numbers, and numbers it from 1 when it comes back.
- **A removed context field blocks generation** (`stale_context`). `UpdateLock`
  and `CheckLock` keep its entry, `FromRegistry` refuses it, though
  the guide tells to "remove it later in a separate, reviewed step"
  (GUIDE.md:152-153). `lock update` and `lock check` succeed and `generate proto` fails until the field comes back
  or someone edits the lock by hand.
- **Reordered enum values change the wire format** and `lock check`, glossed as
  "wire-format compatibility" (GUIDE.md:160), does not notice (`enum_order`): enum numbers
  are positions and no lock holds them.
- **The consumer is not at-least-once across a crash** (`at_least_once`),
  though GUIDE.md:350-351 says it is: a message is deleted from the queue when
  its row is in memory. `CrashCost` bounds the loss: less than a full buffer and
  one receive of each event.
- **Go and Python constants can disagree** (`languages_disagree`). The guide
  says "There is no possible state where Go and Python disagree about the
  canonical name of an event" (GUIDE.md:194-195). `generate constants` puts the
  Go file in place before it starts on the Python file, and all generations
  share two temporaries: when one dies or fails in between, or two overlap, the
  files differ with no generation under way, and two that overlap may both exit
  with 0. `DisagreementHasACause`: it takes one of the two.
  `GenerationsHeal`: the next generation that runs alone to its end repairs it.
- **Names of files collide in a shared directory** (`shared_directory`). The
  consumer's README says "Filenames are `<UTC-timestamp>-<monotonic-seq>.parquet`
  so flushes within the same second never collide" (lines 55-57), the guide that
  "two flushes in the same second don't collide" (GUIDE.md:366-367). The counter
  is one process's own and starts at 1: of two consumers on one output
  directory, one can replace the other's file, and its rows are gone. With a
  directory for each process names never collide (`OwnNamesDoNotCollide`).
- **Two fields may trade their numbers** (`TradesPass` in `tamper`). The guide
  says that `lock update` "fails if you try to renumber an existing field"
  (GUIDE.md:150). When two entries of the lock file trade numbers, `lock update`
  accepts the file and keeps it so, and `lock check` passes: the history knows
  which numbers were used, not by whom. It is the one renumbering by a single
  edit that gets through (`NoSilentRenumber`).

Observations without a run of their own, as they contradict no line that
promises otherwise or lie in what the models abstract from:

- The Go file is replaced first. A generation killed between the two renames
  leaves an API that is ahead of its consumer even when consumers are deployed
  first (`RolloutLosesNothing` excepts this).
- A client that posts again after a 502 publishes the event under another
  `event_id`, so the deduplication the GUIDE suggests (lines 427-428) finds the SDK's
  copies and not the client's.
- The API accepts requests without the numbers an event requires
  (`total_cents`, `item_count`, ...), which become 0: `CheckedFields` has no
  numbers in it.

## Not modelled, and why

- Text: YAML decoding, rendering of .proto and metadata, layout of the
  constants. Which field and enum value names collide or are unfit is a
  parameter; message names and constants are computed (`Naming`).
- Fragments read one after the other while they are edited: `Load` is one step.
  A fragment read late is like an edit before it, a mix of two edits is not.
- Render's .proto files of former versions, which stay in the output directory:
  `Commands` has one version of each event.
- The content of a message beyond event name, `event_id` and the fields a
  request may lack; HTTP and JSON.
- Whether `Validate` should refuse the types that lowering refuses: nothing in
  the repository says so.
- `cmd`, root command, `validate` command, demo scripts: wiring.

## Plan

Done, in order: `SchemaLock`, `Lowering`, `LockLifecycle` with `NumberLedger`
as its abstract specification, `LockTamper`, `Consumer` and their proofs; then
`Delivery` as the abstract specification of `Consumer`, `Naming`,
`RegistryLoad`, `Commands`, `Constants`, `Pipeline` and the last two's proofs;
then the proofs about `LockTamper`, `Consumer` and `Commands`, and those about
names.

Left:

1. Proofs: which rows two consumers that share a directory can cost each other;
   the names of enum values, character by character as those of messages.
2. `RegistryLoad`: reading file by file, as steps of `Commands`.
3. `Commands`: several versions of one event, and with them the files that
   `Render` leaves behind.
