------------------------------ MODULE Commands ------------------------------
(***************************************************************************)
(* The commands of the CLI as processes that share one registry directory: *)
(* several developers, or a developer and CI on one checkout, run          *)
(* `lock update` and `generate proto` while the YAML files are edited.     *)
(* LockLifecycle has each command as one step; here it is the file         *)
(* operations it is made of, and it may fail or be killed between them.    *)
(*                                                                         *)
(* files     - the content of the YAML files                               *)
(* lockFile  - openevents.lock.yaml: "absent", "empty" (truncated),        *)
(*             "garbled" (does not decode) or "readable" as a lock; are    *)
(*             its bytes the ones marshalLockFile writes; did its writer   *)
(*             get only part of it out (torn)                              *)
(* committed - the last lock file a command finished writing, which is     *)
(*             the one version control has                                 *)
(* out       - what the .proto file and the metadata file describe         *)
(* proc      - the processes                                               *)
(* published - history, as in LockLifecycle                                *)
(* slips     - history: the ways in which an update went by another lock   *)
(*             or another registry than those it replaces, or a generation *)
(*             by a lock that was only partly written                      *)
(* spent     - commands started, edits and faults, for the bounds          *)
(***************************************************************************)
EXTENDS RegistryLoad, Naming

CONSTANTS
    Processes,
    Contents,         \* YAML file -> the contents it may be given
    Pasts,            \* sequences of directory contents that come before a run
    PermanentEvents,  \* events that are always in one of the files
    ContextScope,     \* as in LockLifecycle
    SpelledEvent,     \* event name -> its characters
    Radix,            \* the base numbers are written in (10 in the code)
    NoOutput, Torn,   \* an output file that is not there, or half written
    MaxCommands, MaxEdits, MaxFaults  \* bounds

\* The names in the YAML files; events are ordered by name and version.
ASSUME ContentsAssumption ==
    \A f \in YamlFiles : \A content \in Contents[f] \ {Missing, Undecodable} :
        /\ DOMAIN content.context \subseteq ContextNames
        /\ DOMAIN content.events \subseteq Keys
        /\ \A k \in DOMAIN content.events : DOMAIN content.events[k] \subseteq PropertyNames
ASSUME KeysAssumption == \A k \in Keys : k[1] \in Int /\ k[2] \in Int
\* What Lowering takes as given of event names is what Naming makes of their
\* characters.
ASSUME SpellingAssumption ==
    \A k \in Keys :
        /\ PascalCase[k[1]] = PascalCaseOf(SpelledEvent[k[1]])
        /\ k[1] \in MalformedNames \/ IsEventName(SpelledEvent[k[1]])
ASSUME ContextScopeAssumption == ContextScope \notin Keys
ASSUME RadixAssumption == Radix \in Nat /\ Radix > 1

\* What `generate constants` calls an event in the two languages.
Entries ==
    [k \in Keys |-> [goIdent |-> GoIdent(SpelledEvent[k[1]], k[2]),
                     pyIdent |-> PyIdent(SpelledEvent[k[1]], k[2])]]

KeepsPermanent(fs) ==
    \A k \in PermanentEvents : \E f \in YamlFiles :
        fs[f] \notin {Missing, Undecodable} /\ k \in DOMAIN fs[f].events

Directories ==
    {fs \in [YamlFiles -> UNION {Contents[f] : f \in YamlFiles}] :
        KeepsPermanent(fs) /\ \A f \in YamlFiles : fs[f] \in Contents[f]}
ASSUME PastsAssumption == Pasts \subseteq Seq(Directories) \ {<<>>}

VARIABLES files, lockFile, committed, out, proc, published, slips, spent
vars == <<files, lockFile, committed, out, proc, published, slips, spent>>

LockFile(state, lock, canonical, torn) ==
    [state |-> state, lock |-> lock, canonical |-> canonical, torn |-> torn]
AbsentFile == LockFile("absent", EmptyLock, FALSE, FALSE)
EmptyFile == LockFile("empty", EmptyLock, FALSE, FALSE)
GarbledFile == LockFile("garbled", EmptyLock, FALSE, FALSE)
\* A mutant of WholeFile: reserved lists are written in the order of a map.
WholeFileUnsorted(lock) ==
    LockFile("readable", lock,
             \A k \in DOMAIN lock.events : Cardinality(lock.events[k].reserved) < 2, FALSE)
WholeFile(lock) == LockFile("readable", lock, TRUE, FALSE)

EmptyRegistry == [context |-> EmptyMap, events |-> EmptyMap]

\* reg: the registry loaded.  base: the lock file read.  lock: the lock to
\* be written, or to be lowered with reg.
Idle == [at |-> "idle", reg |-> EmptyRegistry, base |-> AbsentFile, lock |-> EmptyLock]

\* What a schema puts on the wire, each field with its scope.
Published(schema) ==
    {[scope |-> ContextScope, field |-> f] : f \in schema.context}
    \cup UNION {{[scope |-> k, field |-> f] : f \in schema.events[k]} :
                    k \in DOMAIN schema.events}

\* The lock after an update for each of the first i directories, and the
\* schema generated from the i-th.
LocksOf(past) ==
    LET lock[i \in 0..Len(past)] ==
            IF i = 0 THEN EmptyLock ELSE UpdateLock(lock[i - 1], RegistryAt(past[i], Directory))
    IN  lock
SchemaOfPast(past, i) == FromRegistry(RegistryAt(past[i], Directory), LocksOf(past)[i])

\* The directory may have a past: it was locked and generated from whenever it
\* changed, the last change apart.
Init ==
    \E past \in Pasts :
        LET before == Len(past) - 1
            schema == IF before = 0 THEN NoOutput ELSE SchemaOfPast(past, before)
        IN  /\ files = past[Len(past)]
            /\ lockFile = IF before = 0 THEN AbsentFile ELSE WholeFile(LocksOf(past)[before])
            /\ committed = lockFile
            /\ out = [proto |-> schema, metadata |-> schema, disturbed |-> FALSE]
            /\ proc = [p \in Processes |-> Idle]
            /\ published = UNION {Published(SchemaOfPast(past, i)) : i \in 1..before}
            /\ slips = {}
            /\ spent = [commands |-> 0, edits |-> 0, faults |-> 0]

Spend(what) == spent' = [spent EXCEPT ![what] = @ + 1]

Becomes(p, state) == proc' = [proc EXCEPT ![p] = state]
At(p, place) == proc[p].at = place

-----------------------------------------------------------------------------
(* Both commands *)

\* loadValidatedRegistry.  A registry that does not load ends the command
\* before it touched anything.
Start(p) ==
    /\ At(p, "idle") /\ spent.commands < MaxCommands
    /\ \E command \in {"update", "generate"}, path \in {Directory} \cup YamlFiles :
          /\ Loads(files, path)
          /\ Becomes(p, [Idle EXCEPT !.at = command, !.reg = RegistryAt(files, path)])
    /\ Spend("commands")
    /\ UNCHANGED <<files, lockFile, committed, out, published, slips>>

\* The same lock file whatever the path names (lockFilePath).
Decodes(file) == file.state = "readable"

-----------------------------------------------------------------------------
(* lock update *)

\* A mutant of ReadToUpdate: the io.EOF of an empty file is ignored too.
ReadToUpdateFromEmpty(p) ==
    LET base == lockFile  reg == proc[p].reg
    IN  /\ At(p, "update")
        /\ IF (Decodes(base) \/ base.state \in {"absent", "empty"}) /\ UpdateAccepts(base.lock, reg)
           THEN Becomes(p, [proc[p] EXCEPT !.at = "write", !.base = base,
                                           !.lock = UpdateLock(base.lock, reg)])
           ELSE Becomes(p, Idle)
        /\ UNCHANGED <<files, lockFile, committed, out, published, slips, spent>>

\* Only a file that is not there reads as the empty lock.
ReadToUpdate(p) ==
    LET base == lockFile  reg == proc[p].reg
    IN  /\ At(p, "update")
        /\ IF (Decodes(base) \/ base.state = "absent") /\ UpdateAccepts(base.lock, reg)
           THEN Becomes(p, [proc[p] EXCEPT !.at = "write", !.base = base,
                                           !.lock = UpdateLock(base.lock, reg)])
           ELSE Becomes(p, Idle)
        /\ UNCHANGED <<files, lockFile, committed, out, published, slips, spent>>

CurrentRegistry == RegistryAt(files, Directory)

SlipsOf(p) ==
    {s \in {"lost update", "torn base", "other registry"} :
        \/ s = "lost update" /\ lockFile # proc[p].base
        \/ s = "torn base" /\ proc[p].base.torn
        \/ s = "other registry" /\ proc[p].reg # CurrentRegistry}

\* os.WriteFile opens the file and truncates it...
Truncate(p) ==
    /\ At(p, "write")
    /\ lockFile' = EmptyFile
    /\ slips' = slips \cup SlipsOf(p)
    /\ Becomes(p, [proc[p] EXCEPT !.at = "truncated"])
    /\ UNCHANGED <<files, committed, out, published, spent>>

\* The first n names, in the order yaml.Marshal writes a map.
UpTo(fields, n) == [m \in {x \in DOMAIN fields : x <= n} |-> fields[m]]

\* What is left of a number when the file ends between two of its digits.
CutNumbers(x) == {y \in 1..(x - 1) : \E i \in 1..x : y = x \div (Radix ^ i)}

\* What is left of a map of fields: the first ones, the last of which may have
\* lost the end of its number, which comes last in a field.
FieldPrefixes(fields) ==
    {UpTo(fields, n) : n \in {0} \cup DOMAIN fields}
    \cup UNION {{[UpTo(fields, n) EXCEPT ![n].protoNumber = y] :
                    y \in CutNumbers(fields[n].protoNumber)} : n \in DOMAIN fields}

\* What is left of an event entry when the file ends inside it: the envelope
\* comes first, then the properties, then the reserved list.  Part of an
\* envelope, whose numbers have one digit, is to every reader what none is;
\* so is part of a reserved entry, which ends with the reason.
EventPrefixes(e) ==
    {NoEntry}
    \cup {[NoEntry EXCEPT !.envelope = e.envelope, !.properties = fs] :
             fs \in FieldPrefixes(e.properties)}
    \cup {[e EXCEPT !.reserved = {r \in e.reserved : r.protoNumber <= x}] :
             x \in ReservedNumbers(e)}

Precedes(j, k) == j[1] < k[1] \/ (j[1] = k[1] /\ j[2] < k[2])
LastKey(events) == CHOOSE k \in DOMAIN events : \A j \in DOMAIN events : j = k \/ Precedes(j, k)
CutAt(events, k, e) ==
    [j \in {x \in DOMAIN events : x = k \/ Precedes(x, k)} |-> IF j = k THEN e ELSE events[j]]

\* The locks a file decodes to that holds the first bytes of a lock's text.
\* A cut before a field's number or inside a reserved entry leaves one without
\* a valid number or reason, which is refused, or no YAML at all.
LockPrefixes(lock) ==
    ({EmptyLock}
     \cup {[lock EXCEPT !.context = fs, !.events = EmptyMap] :
              fs \in FieldPrefixes(lock.context)}
     \cup UNION {{[lock EXCEPT !.events = CutAt(lock.events, k, e)] :
                     e \in EventPrefixes(lock.events[k])} : k \in DOMAIN lock.events})
    \ {lock}

\* Cut after an event, or after a reserved entry, the bytes are canonical.
CutIsCanonical(prefix, lock) ==
    /\ prefix.events # EmptyMap
    /\ LET k == LastKey(prefix.events)
           e == prefix.events[k]
       IN  /\ e.envelope = lock.events[k].envelope
           /\ e.properties = lock.events[k].properties
           /\ e.reserved # {} \/ lock.events[k].reserved = {}

TornFile(prefix, lock) == LockFile("readable", prefix, CutIsCanonical(prefix, lock), TRUE)

\* ...and writes from its beginning.  When another update came between, the
\* rest of the longer text stays behind the shorter one.
WriteLock(p) ==
    LET lock == proc[p].lock
    IN  /\ At(p, "truncated")
        /\ lockFile' \in CASE lockFile.state = "empty" -> {WholeFile(lock)}
                           [] /\ Decodes(lockFile) /\ lock \in LockPrefixes(lockFile.lock)
                              /\ CutIsCanonical(lock, lockFile.lock) -> {lockFile}
                           [] OTHER -> {WholeFile(lock), GarbledFile}
        /\ committed' = IF Decodes(lockFile') /\ ~lockFile'.torn THEN lockFile' ELSE committed
        /\ Becomes(p, Idle)
        /\ UNCHANGED <<files, out, published, slips, spent>>

\* The disk is full, or the process is killed, in the middle of the write.
WriteFails(p) ==
    /\ At(p, "truncated") /\ lockFile = EmptyFile /\ spent.faults < MaxFaults
    /\ \E prefix \in LockPrefixes(proc[p].lock) : lockFile' = TornFile(prefix, proc[p].lock)
    /\ Becomes(p, Idle)
    /\ Spend("faults")
    /\ UNCHANGED <<files, committed, out, published, slips>>

-----------------------------------------------------------------------------
(* generate proto *)

\* A missing lock file is an error here.  CheckLock is all that looks at the
\* lock: that its bytes are canonical only lock check asks.
ReadToGenerate(p) ==
    LET reg == proc[p].reg
    IN  /\ At(p, "generate")
        /\ IF /\ Decodes(lockFile)
              /\ CheckLock(lockFile.lock, reg)
              /\ FromRegistryAccepts(reg, lockFile.lock)
           THEN /\ Becomes(p, [proc[p] EXCEPT !.at = "open proto", !.lock = lockFile.lock])
                /\ slips' = slips \cup {s \in {"torn schema"} : lockFile.torn}
           ELSE /\ Becomes(p, Idle)
                /\ UNCHANGED slips
        /\ UNCHANGED <<files, lockFile, committed, out, published, spent>>

Rendering == {"open proto", "write proto", "open metadata", "write metadata"}
InRender(p) == proc[p].at \in Rendering \ {"open proto"}

\* What a write leaves of a file that another process may have written since.
Written(content, schema) == IF content = Torn THEN {schema} ELSE {schema, Torn}

SchemaOf(p) == FromRegistry(proc[p].reg, proc[p].lock)

\* Render writes the .proto file and then the metadata, with os.WriteFile.
OpenProto(p) ==
    /\ At(p, "open proto")
    /\ out' = [out EXCEPT !.proto = Torn, !.disturbed = \E q \in Processes : InRender(q)]
    /\ Becomes(p, [proc[p] EXCEPT !.at = "write proto"])
    /\ UNCHANGED <<files, lockFile, committed, published, slips, spent>>

\* From here on the schema can be compiled and messages sent.
WriteProto(p) ==
    /\ At(p, "write proto")
    /\ \E new \in Written(out.proto, SchemaOf(p)) : out' = [out EXCEPT !.proto = new]
    /\ published' = published \cup Published(SchemaOf(p))
    /\ Becomes(p, [proc[p] EXCEPT !.at = "open metadata"])
    /\ UNCHANGED <<files, lockFile, committed, slips, spent>>

OpenMetadata(p) ==
    /\ At(p, "open metadata")
    /\ out' = [out EXCEPT !.metadata = Torn]
    /\ Becomes(p, [proc[p] EXCEPT !.at = "write metadata"])
    /\ UNCHANGED <<files, lockFile, committed, published, slips, spent>>

\* A mutant of WriteMetadata: the schema of the lock as it is by now.
WriteMetadataFromDisk(p) ==
    /\ At(p, "write metadata")
    /\ \E new \in Written(out.metadata,
                          FromRegistry(proc[p].reg, IF FromRegistryAccepts(proc[p].reg, lockFile.lock)
                                                    THEN lockFile.lock ELSE proc[p].lock)) :
          out' = [out EXCEPT !.metadata = new]
    /\ Becomes(p, Idle)
    /\ UNCHANGED <<files, lockFile, committed, published, slips, spent>>

WriteMetadata(p) ==
    /\ At(p, "write metadata")
    /\ \E new \in Written(out.metadata, SchemaOf(p)) : out' = [out EXCEPT !.metadata = new]
    /\ Becomes(p, Idle)
    /\ UNCHANGED <<files, lockFile, committed, published, slips, spent>>

-----------------------------------------------------------------------------
(* The environment *)

\* Killed between two file operations, or one of them fails.
Crash(p) ==
    /\ ~At(p, "idle") /\ spent.faults < MaxFaults
    /\ out' = [out EXCEPT !.disturbed = @ \/ InRender(p)]
    /\ Becomes(p, Idle)
    /\ Spend("faults")
    /\ UNCHANGED <<files, lockFile, committed, published, slips>>

EditFile ==
    /\ spent.edits < MaxEdits
    /\ \E f \in YamlFiles : \E content \in Contents[f] \ {files[f]} :
          files' = [files EXCEPT ![f] = content]
    /\ KeepsPermanent(files')
    /\ Spend("edits")
    /\ UNCHANGED <<lockFile, committed, out, proc, published, slips>>

\* git checkout openevents.lock.yaml, when nobody is writing it.
Restore ==
    /\ lockFile # committed
    /\ \A p \in Processes : ~At(p, "truncated")
    /\ lockFile' = committed
    /\ UNCHANGED <<files, committed, out, proc, published, slips, spent>>

Step(p) ==
    \/ Start(p) \/ ReadToUpdate(p) \/ Truncate(p) \/ WriteLock(p) \/ WriteFails(p)
    \/ ReadToGenerate(p) \/ OpenProto(p) \/ WriteProto(p) \/ OpenMetadata(p) \/ WriteMetadata(p)
    \/ Crash(p)

Next == (\E p \in Processes : Step(p)) \/ EditFile \/ Restore

Spec == Init /\ [][Next]_vars

-----------------------------------------------------------------------------
(* Properties *)

LockFileOK(file) ==
    /\ file.state \in {"absent", "empty", "garbled", "readable"}
    /\ ~Decodes(file) => file.lock = EmptyLock /\ ~file.torn
    /\ file.torn \/ ~Decodes(file) \/ file.canonical

TypeOK ==
    /\ \A f \in YamlFiles : files[f] \in Contents[f]
    /\ LockFileOK(lockFile)
    /\ committed = AbsentFile \/ committed = WholeFile(committed.lock)
    /\ \A p \in Processes :
          proc[p].at \in Rendering \cup {"idle", "update", "write", "truncated", "generate"}

\* The lock has the number of a published field under its name, in use or
\* reserved.
Keeps(lock, p) ==
    IF p.scope = ContextScope
    THEN /\ p.field.name \in DOMAIN lock.context
         /\ lock.context[p.field.name].protoNumber = p.field.number
    ELSE LET e == EntryOf(lock, p.scope)
         IN  \/ /\ p.field.name \in DOMAIN e.properties
                /\ e.properties[p.field.name].protoNumber = p.field.number
             \/ \E r \in e.reserved : r.name = p.field.name /\ r.protoNumber = p.field.number

\* Whatever commands overlap and wherever they die, the committed lock keeps
\* every number published for the context or for a permanent event, and such
\* a number means one field name, unless an update replaced a lock it had not
\* read, built on a half-written one, or ran for another registry than the
\* directory holds when it writes (cli/lock.go:33-52), or a half-written lock
\* was generated from, which CheckLock may let pass (cli/generate.go:53).
NumbersKept ==
    slips = {} =>
        /\ \A p \in published :
              p.scope \in PermanentEvents \cup {ContextScope} => Keeps(committed.lock, p)
        /\ \A p, q \in published :
              /\ p.scope = q.scope
              /\ p.scope \in PermanentEvents \cup {ContextScope}
              /\ p.field.number = q.field.number
              => p.field.name = q.field.name

\* The slips of updates are all that can go wrong with the committed lock:
\* without one, any interleaving of file operations, crashes and checkouts moves it by
\* steps of the abstract ledger (cli/lock.go:39-52).
LedgerState ==
    [s \in Keys \cup {ContextScope} |->
        IF s = ContextScope THEN LedgerOf(committed.lock.context, {})
        ELSE LedgerOf(EntryOf(committed.lock, s).properties, EntryOf(committed.lock, s).reserved)]

Ledger == INSTANCE NumberLedger WITH
    EventScopes <- Keys, Context <- ContextScope, ledger <- LedgerState

LedgerUnlessSlip == [][slips' \subseteq {"torn schema"} => committed' = committed \/ Ledger!Next]_vars

\* A mutant of LockCheckPasses: what the bytes decode to is compared.
LockCheckPassesDecoded(file, reg) ==
    /\ Decodes(file)
    /\ CheckLock(file.lock, reg)
    /\ UpdateAccepts(file.lock, reg)
    /\ file.lock = UpdateLock(file.lock, reg)

\* lock check, run on a lock file and a registry.
LockCheckPasses(file, reg) ==
    /\ Decodes(file)
    /\ CheckLock(file.lock, reg)
    /\ UpdateAccepts(file.lock, reg)
    /\ file.canonical /\ file.lock = UpdateLock(file.lock, reg)

\* A lock file that was only partly written does not pass lock check for the
\* registry it was written for, except when all it lost is the end of the last
\* event's reserved list (cli/lock.go:73-97, lock_update.go:275-352).
ShortWriteNoticed ==
    \A p \in Processes : At(p, "truncated") =>
        \A prefix \in LockPrefixes(proc[p].lock) :
            LockCheckPasses(TornFile(prefix, proc[p].lock), proc[p].reg) =>
                /\ [prefix EXCEPT !.events = EmptyMap] = [proc[p].lock EXCEPT !.events = EmptyMap]
                /\ DOMAIN prefix.events = DOMAIN proc[p].lock.events
                /\ \A k \in DOMAIN prefix.events :
                      prefix.events[k] # proc[p].lock.events[k] =>
                          /\ k = LastKey(prefix.events)
                          /\ prefix.events[k].properties = proc[p].lock.events[k].properties
                          /\ prefix.events[k].reserved # {}

\* In whatever order the fragments of a directory are merged, the same
\* conflicts are found and the same registry comes out (load.go:254-322).
MergeIgnoresOrder ==
    LET other == LoadFiles(files, Reverse(FileOrder))
    IN  /\ other.ok = Load(files, Directory).ok
        /\ other.ok => other = Load(files, Directory)

\* When no generation is under way, and none died or overlapped with another
\* since the last one that ran undisturbed, the .proto file and the metadata
\* beside it describe one schema, whatever happened to the registry and the
\* lock while they were written (render.go:26-67).
OutputsMatch ==
    out.disturbed \/ (\E p \in Processes : InRender(p)) \/ out.proto = out.metadata

\* A registry that can be generated from has one Go and one Python constant
\* for every event: `generate constants` does not look for collisions
\* (constgen.go:28-39), FromRegistry does for its own names (from_registry.go:60-78).
IdentifiersDiffer ==
    LET reg == CurrentRegistry
    IN  /\ Decodes(lockFile)
        /\ Loads(files, Directory)
        /\ FromRegistryAccepts(reg, lockFile.lock)
        => \A j, k \in DOMAIN reg.events :
              j # k => /\ Entries[j].goIdent # Entries[k].goIdent
                       /\ Entries[j].pyIdent # Entries[k].pyIdent
=============================================================================
