--------------------------- MODULE LockLifecycle ----------------------------
(***************************************************************************)
(* The life of one registry directory: developers change the YAML, run     *)
(* `openevents lock update` and `openevents generate proto` in any order.  *)
(* Each command runs alone and to its end here.                            *)
(*                                                                         *)
(* registry  - what Load and Validate make of the YAML now                 *)
(* lockFile  - openevents.lock.yaml: is it there, the lock it decodes to   *)
(*             (the zero Lock when absent), and whether its bytes are the  *)
(*             ones marshalLockFile writes                                 *)
(* published - history: every field of every schema ever generated, with   *)
(*             the message it is in.  Messages on queues and in files      *)
(*             stay encoded with these numbers.                            *)
(***************************************************************************)
EXTENDS Lowering

CONSTANTS
    PermanentEvents,  \* events the team never takes out of the registry
    ContextScope      \* the scope of context fields; an event's scope is its key

ASSUME PermanentEventsAssumption == PermanentEvents \subseteq Keys
ASSUME ContextScopeAssumption == ContextScope \notin Keys

VARIABLES registry, lockFile, published
vars == <<registry, lockFile, published>>

\* The registries Validate accepts; none has an event twice (mergeRegistry).
FieldMaps(names) == UNION {[d -> FieldTypes] : d \in SUBSET names}
Registries ==
    [context : FieldMaps(ContextNames),
     events  : UNION {[ks -> FieldMaps(PropertyNames)] : ks \in SUBSET Keys}]

\* The fields a schema puts on the wire, each tagged with its scope.
Published(schema) ==
    {[scope |-> ContextScope, field |-> f] : f \in schema.context}
    \cup UNION {{[scope |-> k, field |-> f] : f \in schema.events[k]} :
                    k \in DOMAIN schema.events}

Init ==
    /\ registry \in Registries
    /\ lockFile = [present |-> FALSE, lock |-> EmptyLock, canonical |-> FALSE]
    /\ published = {}

\* Developers save any registry: an edit, a merge, a revert.
EditRegistry ==
    /\ registry' \in Registries
    /\ PermanentEvents \cap DOMAIN registry.events \subseteq DOMAIN registry'.events
    /\ UNCHANGED <<lockFile, published>>

\* lock update: an absent file reads as the empty lock.
LockUpdate ==
    /\ UpdateAccepts(lockFile.lock, registry)
    /\ lockFile' = [present   |-> TRUE,
                    lock      |-> UpdateLock(lockFile.lock, registry),
                    canonical |-> TRUE]
    /\ UNCHANGED <<registry, published>>

\* generate proto: CheckLock, then FromRegistry, then Render.
GenerateAccepts ==
    /\ lockFile.present
    /\ CheckLock(lockFile.lock, registry)
    /\ FromRegistryAccepts(registry, lockFile.lock)

GenerateProto ==
    /\ GenerateAccepts
    /\ published' = published \cup Published(FromRegistry(registry, lockFile.lock))
    /\ UNCHANGED <<registry, lockFile>>

Next == EditRegistry \/ LockUpdate \/ GenerateProto

Spec == Init /\ [][Next]_vars

\* lock check changes nothing; it passes when this holds.  The bytes it
\* compares with are those of a fresh update of the lock it just decoded.
LockCheckPasses ==
    /\ lockFile.present
    /\ CheckLock(lockFile.lock, registry)
    /\ UpdateAccepts(lockFile.lock, registry)
    /\ lockFile.canonical /\ lockFile.lock = UpdateLock(lockFile.lock, registry)

-----------------------------------------------------------------------------
(* Properties *)

\* The numbers of one message, active and retired: protobuf allows each, each
\* belongs to one entry only, and no allowed number below one is missing.
NumbersInOrder(fields, reserved) ==
    LET numbers == NumbersOf(fields) \cup {r.protoNumber : r \in reserved}
    IN  /\ \A x \in numbers :
              /\ ValidProtoNumber(x)
              /\ \A y \in 1..x : ValidProtoNumber(y) => y \in numbers
        /\ \A m, n \in DOMAIN fields : fields[m].protoNumber = fields[n].protoNumber => m = n
        /\ \A r, s \in reserved : r.protoNumber = s.protoNumber => r = s
        /\ \A n \in DOMAIN fields, r \in reserved : fields[n].protoNumber # r.protoNumber

\* The locks the program writes: every field stands under its own name, every
\* retired entry carries its own name and the reason, the reserved lists are
\* sorted, and the numbers of every message are NumbersInOrder.
LockTypeOK ==
    LET lock == lockFile.lock
    IN  /\ lock.version \in {0, LockVersion}
        /\ DOMAIN lock.context \subseteq ContextNames
        /\ \A n \in DOMAIN lock.context : lock.context[n] \in [stableID : {n}, protoNumber : Nat]
        /\ NumbersInOrder(lock.context, {})
        /\ DOMAIN lock.events \subseteq Keys
        /\ \A k \in DOMAIN lock.events :
              LET e == lock.events[k]
              IN  /\ e.envelope = EnvelopeLock
                  /\ DOMAIN e.properties \subseteq PropertyNames
                  /\ \A n \in DOMAIN e.properties :
                        e.properties[n] \in [stableID : {n}, protoNumber : Nat]
                  /\ \A r \in e.reserved :
                        r \in [name : PropertyNames, stableID : {r.name},
                               protoNumber : Nat, reason : {Removed}]
                  /\ e.inOrder
                  /\ NumbersInOrder(e.properties, e.reserved)

\* The type invariant.  What it says of numbers is the contract of the file:
\* it holds over any history of removals and returns, across protobuf's
\* reserved range (lock_update.go:53-124, 553-567).
TypeOK ==
    /\ registry \in Registries
    /\ lockFile.present \in BOOLEAN /\ lockFile.canonical \in BOOLEAN
    /\ LockTypeOK

\* Whatever registries came and went, lock update accepts the lock that its
\* own earlier runs wrote (UpdateLock's five validators, lock_update.go:30-44).
UpdateNeverRefused == UpdateAccepts(lockFile.lock, registry)

\* An update leaves nothing to do: the lock it would write passes CheckLock
\* for the same registry, and a second update writes the same bytes
\* (the comparison in lock check, cli/lock.go:81-98).
UpdateSettles ==
    LET updated == UpdateLock(lockFile.lock, registry)
    IN  /\ CheckLock(updated, registry)
        /\ UpdateLock(updated, registry) = updated

\* CheckLock is no weaker than the lock validation FromRegistry repeats on
\* its own (from_registry.go:381-607), the context entries of fields that
\* left the registry apart: if lock check passes, the lock does not stop
\* generate proto.
GatesAgree ==
    LockCheckPasses /\ DOMAIN lockFile.lock.context \subseteq DOMAIN registry.context
        => ValidateLockForLowering(registry, lockFile.lock)

\* Two fields ever published under one number of one message have one name,
\* as long as the event is never taken out: a message written under any
\* schema is not read back as some other field under a later one
\* (UpdateLock's reserved entries, lock_update.go:111-124).
NumberMeansOneName ==
    \A p, q \in published :
        /\ p.scope = q.scope
        /\ p.scope \notin Keys \ PermanentEvents
        /\ p.field.number = q.field.number
        => p.field.name = q.field.name

\* The lock remembers every number that ever went out for a permanent
\* scope, active or reserved, under the name it went out with.
PublishedStaysLocked ==
    \A p \in published :
        /\ p.scope = ContextScope =>
              /\ p.field.name \in DOMAIN lockFile.lock.context
              /\ lockFile.lock.context[p.field.name].protoNumber = p.field.number
        /\ p.scope \in PermanentEvents =>
              /\ p.scope \in DOMAIN lockFile.lock.events
              /\ LET e == lockFile.lock.events[p.scope]
                 IN  \/ /\ p.field.name \in DOMAIN e.properties
                        /\ e.properties[p.field.name].protoNumber = p.field.number
                     \/ \E r \in e.reserved :
                           r.name = p.field.name /\ r.protoNumber = p.field.number

\* The lock file says "field 5 means `total_cents` forever, even if the YAML
\* rearranges itself" (examples/demo/GUIDE.md:142).  UpdateLock drops an event
\* the registry has not, with its reserved numbers (lock_update.go:70-130), so
\* an event that comes back starts again at 1.
NumberMeansOneNameForever ==
    \A p, q \in published :
        p.scope = q.scope /\ p.field.number = q.field.number
            => p.field.name = q.field.name

\* A lock that lock check calls current does not stop generate proto, so
\* `make gen` can be "re-run after any registry change"
\* (examples/demo/README.md:44).  A context field that left the registry stays
\* in the lock for UpdateLock and CheckLock, and FromRegistry refuses it.
CheckedLockGenerates ==
    LockCheckPasses /\ registry.events # EmptyMap
        => ValidateLockForLowering(registry, lockFile.lock)

\* lock check stands for "wire-format compatibility" (examples/demo/GUIDE.md:160):
\* a number of a published enum field means one value.  The numbers are
\* positions in the YAML list (proto_names.go:182) and are in no lock.
EnumNumberMeansOneValue ==
    \A p, q \in published :
        p.scope = q.scope /\ p.field.name = q.field.name
            => \A v \in DOMAIN p.field.type.enum \cap DOMAIN q.field.type.enum :
                  p.field.type.enum[v] = q.field.type.enum[v]

\* The lock implements the ledger of numbers.
LedgerState ==
    [s \in Keys \cup {ContextScope} |->
        IF s = ContextScope THEN LedgerOf(lockFile.lock.context, {})
        ELSE LedgerOf(EntryOf(lockFile.lock, s).properties, EntryOf(lockFile.lock, s).reserved)]

Ledger == INSTANCE NumberLedger WITH
    EventScopes <- Keys, Context <- ContextScope, ledger <- LedgerState

\* No step of any command reuses a number, renumbers a field that stays or
\* forgets a retired number, except by dropping the whole event.
ImplementsLedger == Ledger!Spec
=============================================================================
