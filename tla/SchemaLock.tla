----------------------------- MODULE SchemaLock -----------------------------
(***************************************************************************)
(* The schema lock of OpenEvents: the contract that pins a protobuf field  *)
(* number to every context field and event property.  This module is the   *)
(* pure part, internal/schemair/lock_update.go: the five validators,       *)
(* UpdateLock and CheckLock, as operators on a lock and a registry.        *)
(*                                                                         *)
(* A registry is what Load and Validate produced, cut down to what the     *)
(* lock depends on:                                                        *)
(*   [context |-> name -> type, events |-> key -> (name -> type)]          *)
(* where a key is an event's <<name, version>> pair.  Field names are      *)
(* naturals: a name is its position in the byte order sort.Strings uses.   *)
(* 0 stands for the empty name, which only a hand-written lock can hold.   *)
(***************************************************************************)
EXTENDS Integers, FiniteSets, FiniteSetsExt

CONSTANTS
    ContextNames,   \* the names a context field may have
    PropertyNames,  \* the names an event property may have
    Keys,           \* the <<event name, event version>> pairs
    ReservedStart,  \* first number protobuf reserves (19000 in the code)
    ReservedEnd     \* last number protobuf reserves (19999 in the code)

Names == ContextNames \cup PropertyNames

\* Only finitely many names occur in any run of the program; names are
\* ordered; protobuf's reserved interval lies above the envelope's numbers.
ASSUME NamesAssumption ==
    /\ Names \subseteq Nat \ {0}
    /\ IsFiniteSet(Names)
ASSUME ReservedRangeAssumption ==
    /\ ReservedStart \in Nat /\ ReservedEnd \in Nat
    /\ 7 < ReservedStart /\ ReservedStart <= ReservedEnd

-----------------------------------------------------------------------------
(* Locks *)

LockVersion == 1
Removed == "field removed"

EnvelopeNumbers ==
    [event_name |-> 1, event_version |-> 2, event_id |-> 3, event_ts |-> 4,
     client |-> 5, context |-> 6, properties |-> 7]

LockedField(name, number) == [stableID |-> name, protoNumber |-> number]

EmptyMap == [x \in {} |-> x]
EmptyLock == [version |-> 0, context |-> EmptyMap, events |-> EmptyMap]

\* The zero LockedEvent a Go map lookup yields for a key it does not hold.
\* The reserved list is a set of entries and whether they are in order.
NoEntry == [envelope |-> EmptyMap, properties |-> EmptyMap,
            reserved |-> {}, inOrder |-> TRUE]
EntryOf(lock, key) ==
    IF key \in DOMAIN lock.events THEN lock.events[key] ELSE NoEntry

NumbersOf(fields) == {fields[n].protoNumber : n \in DOMAIN fields}
ReservedNumbers(entry) == {r.protoNumber : r \in entry.reserved}

\* Every number an event ever handed to a property, as far as the lock knows.
History(entry) == NumbersOf(entry.properties) \cup ReservedNumbers(entry)

-----------------------------------------------------------------------------
(* Numbers *)

IsProtobufReservedNumber(n) == ReservedStart <= n /\ n <= ReservedEnd
ValidProtoNumber(n) == n >= 1 /\ ~IsProtobufReservedNumber(n)

NextSequentialNumber(maxUsed) ==
    IF IsProtobufReservedNumber(maxUsed + 1) THEN ReservedEnd + 1
                                             ELSE maxUsed + 1

MaxUsed(numbers) == Max(numbers \cup {0})

\* Mutants of Allocate: protobuf's range forgotten, or always left at its end.
AllocateThroughReserved(maxUsed, k) == maxUsed + k
AllocateClamped(maxUsed, k) ==
    IF maxUsed + k >= ReservedStart THEN ReservedEnd + k ELSE maxUsed + k

\* The number k calls of NextSequentialNumber reach from maxUsed.
Allocate(maxUsed, k) ==
    IF maxUsed < ReservedStart /\ maxUsed + k >= ReservedStart
    THEN maxUsed + k + (ReservedEnd - ReservedStart + 1)
    ELSE maxUsed + k

\* The place of a name in its sorted set, counted from 1.
Rank(name, names) == Cardinality({x \in names : x <= name})

\* A mutant of Extend: every field is numbered by its place in the registry.
ExtendByPosition(locked, wanted, maxUsed) ==
    [n \in wanted |-> LockedField(n, Rank(n, wanted))]

\* The loop over sorted names: keep what is locked, number the rest in order.
Extend(locked, wanted, maxUsed) ==
    [n \in wanted |->
        IF n \in DOMAIN locked THEN locked[n]
        ELSE LockedField(n, Allocate(maxUsed, Rank(n, wanted \ DOMAIN locked)))]

-----------------------------------------------------------------------------
(* Validators: TRUE when the code returns no error *)

ValidateLockNumbers(lock) ==
    /\ \A x \in NumbersOf(lock.context) : ValidProtoNumber(x)
    /\ \A k \in DOMAIN lock.events :
          LET e == lock.events[k]
          IN  \A x \in NumbersOf(e.envelope) \cup History(e) : ValidProtoNumber(x)

StableIDsMatch(fields, names) ==
    \A n \in DOMAIN fields \cap names : fields[n].stableID = n

\* Only the events the registry still has are looked at.
ValidateActiveStableIDs(lock, reg) ==
    /\ StableIDsMatch(lock.context, DOMAIN lock.context)
    /\ \A k \in DOMAIN reg.events \cap DOMAIN lock.events :
          LET e == lock.events[k]
          IN  /\ StableIDsMatch(e.envelope, DOMAIN EnvelopeNumbers)
              /\ StableIDsMatch(e.properties, DOMAIN e.properties)

ValidReserved(r) == r.name # 0 /\ r.stableID = r.name /\ r.reason = Removed

ValidateReservedFieldIdentities(lock, reg) ==
    \A k \in DOMAIN reg.events \cap DOMAIN lock.events :
        \A r \in lock.events[k].reserved : ValidReserved(r)

NoSharedNumber(fields) ==
    \A m, n \in DOMAIN fields :
        fields[m].protoNumber = fields[n].protoNumber => m = n

NoSharedReservedNumber(reserved) ==
    \A r, s \in reserved : r.protoNumber = s.protoNumber => r = s

CheckDuplicateNumbers(fields, reserved) ==
    /\ NoSharedNumber(fields)
    /\ NoSharedReservedNumber(reserved)
    /\ \A n \in DOMAIN fields, r \in reserved :
          fields[n].protoNumber # r.protoNumber

ValidateLockDuplicates(lock) ==
    /\ CheckDuplicateNumbers(lock.context, {})
    /\ \A k \in DOMAIN lock.events :
          LET e == lock.events[k]
          IN  /\ CheckDuplicateNumbers(e.envelope, {})
              /\ CheckDuplicateNumbers(e.properties, e.reserved)

\* Mutants of CheckDenseNumberHistory: protobuf's range not skipped, or the
\* first number not looked at.
CheckDenseEverywhere(numbers) == \A n \in numbers : \A m \in 1..n : m \in numbers
CheckDenseFromTwo(numbers) ==
    \A n \in numbers : \A m \in 2..n :
        m \in numbers \/ IsProtobufReservedNumber(m)

\* No number below a used one is missing, protobuf's reserved ones apart.
CheckDenseNumberHistory(numbers) ==
    \A n \in numbers : \A m \in 1..n :
        m \in numbers \/ IsProtobufReservedNumber(m)

ValidateLockNumberHistory(lock) ==
    /\ CheckDenseNumberHistory(NumbersOf(lock.context))
    /\ \A k \in DOMAIN lock.events : CheckDenseNumberHistory(History(lock.events[k]))

-----------------------------------------------------------------------------
(* UpdateLock.  It returns an error exactly when UpdateAccepts is FALSE;   *)
(* it never looks at the version of the lock it was given.                 *)

UpdateAccepts(lock, reg) ==
    /\ ValidateLockNumbers(lock)
    /\ ValidateActiveStableIDs(lock, reg)
    /\ ValidateReservedFieldIdentities(lock, reg)
    /\ ValidateLockDuplicates(lock)
    /\ ValidateLockNumberHistory(lock)

EnvelopeLock ==
    [n \in DOMAIN EnvelopeNumbers |-> LockedField(n, EnvelopeNumbers[n])]

\* The entries added to the reserved list for properties the registry lost.
Retired(entry, wanted) ==
    {[name |-> n, stableID |-> entry.properties[n].stableID,
      protoNumber |-> entry.properties[n].protoNumber, reason |-> Removed] :
        n \in DOMAIN entry.properties \ wanted}

\* Mutants of UpdatedEvent: removed properties are not reserved, new ones are
\* numbered above the active ones only, the reserved list is not sorted, an
\* envelope entry is kept like any other field.
UpdatedEventForgetting(entry, wanted) ==
    [envelope   |-> EnvelopeLock,
     properties |-> Extend(entry.properties, wanted, MaxUsed(History(entry))),
     reserved   |-> entry.reserved,
     inOrder    |-> TRUE]
UpdatedEventFromActive(entry, wanted) ==
    [envelope   |-> EnvelopeLock,
     properties |-> Extend(entry.properties, wanted, MaxUsed(NumbersOf(entry.properties))),
     reserved   |-> entry.reserved \cup Retired(entry, wanted),
     inOrder    |-> TRUE]
UpdatedEventUnsorted(entry, wanted) ==
    [envelope   |-> EnvelopeLock,
     properties |-> Extend(entry.properties, wanted, MaxUsed(History(entry))),
     reserved   |-> entry.reserved \cup Retired(entry, wanted),
     inOrder    |-> entry.inOrder /\ (entry.reserved = {} \/ Retired(entry, wanted) = {})]
UpdatedEventKeepingEnvelope(entry, wanted) ==
    [envelope   |-> [n \in DOMAIN EnvelopeLock |->
                       IF n \in DOMAIN entry.envelope THEN entry.envelope[n] ELSE EnvelopeLock[n]],
     properties |-> Extend(entry.properties, wanted, MaxUsed(History(entry))),
     reserved   |-> entry.reserved \cup Retired(entry, wanted),
     inOrder    |-> TRUE]

UpdatedEvent(entry, wanted) ==
    [envelope   |-> EnvelopeLock,
     properties |-> Extend(entry.properties, wanted, MaxUsed(History(entry))),
     reserved   |-> entry.reserved \cup Retired(entry, wanted),
     inOrder    |-> TRUE]

\* Mutants of UpdateLock: removed events are kept, a removed event makes every
\* event start afresh.
UpdateLockKeepingEvents(lock, reg) ==
    [version |-> LockVersion,
     context |-> Extend(lock.context, DOMAIN lock.context \cup DOMAIN reg.context,
                        MaxUsed(NumbersOf(lock.context))),
     events  |-> [k \in DOMAIN lock.events \cup DOMAIN reg.events |->
                    IF k \in DOMAIN reg.events
                    THEN UpdatedEvent(EntryOf(lock, k), DOMAIN reg.events[k])
                    ELSE lock.events[k]]]
UpdateLockAfresh(lock, reg) ==
    [version |-> LockVersion,
     context |-> Extend(lock.context, DOMAIN lock.context \cup DOMAIN reg.context,
                        MaxUsed(NumbersOf(lock.context))),
     events  |-> [k \in DOMAIN reg.events |->
                    UpdatedEvent(IF DOMAIN lock.events \subseteq DOMAIN reg.events
                                 THEN EntryOf(lock, k) ELSE NoEntry,
                                 DOMAIN reg.events[k])]]

\* Context fields outlive the registry; an event the registry has not is dropped.
UpdateLock(lock, reg) ==
    [version |-> LockVersion,
     context |-> Extend(lock.context, DOMAIN lock.context \cup DOMAIN reg.context,
                        MaxUsed(NumbersOf(lock.context))),
     events  |-> [k \in DOMAIN reg.events |->
                    UpdatedEvent(EntryOf(lock, k), DOMAIN reg.events[k])]]

-----------------------------------------------------------------------------
(* CheckLock: TRUE when the lock is current for the registry *)

\* Every expected field is there with its stable ID and number.
HoldsFields(actual, expected) ==
    \A n \in DOMAIN expected : n \in DOMAIN actual /\ actual[n] = expected[n]

\* Entries are matched by number and name, then compared whole.
ReservedKeys(reserved) == {<<r.protoNumber, r.name>> : r \in reserved}

\* A mutant of CompareReservedFields: the order of the list is not looked at.
CompareReservedFieldsUnordered(actual, expected) ==
    /\ NoSharedReservedNumber(actual.reserved)
    /\ NoSharedReservedNumber(expected.reserved)
    /\ expected.reserved \subseteq actual.reserved
    /\ ReservedKeys(actual.reserved) \subseteq ReservedKeys(expected.reserved)

CompareReservedFields(actual, expected) ==
    /\ NoSharedReservedNumber(actual.reserved)
    /\ NoSharedReservedNumber(expected.reserved)
    /\ actual.inOrder
    /\ expected.reserved \subseteq actual.reserved
    /\ ReservedKeys(actual.reserved) \subseteq ReservedKeys(expected.reserved)

CompareEvent(actual, expected) ==
    /\ HoldsFields(actual.envelope, expected.envelope)
    /\ DOMAIN actual.envelope \subseteq DOMAIN expected.envelope
    /\ HoldsFields(actual.properties, expected.properties)
    /\ CompareReservedFields(actual, expected)
    /\ DOMAIN actual.properties \subseteq DOMAIN expected.properties

CheckLock(lock, reg) ==
    /\ lock.version = LockVersion
    /\ UpdateAccepts(lock, reg)
    /\ LET expected == UpdateLock(lock, reg)
       IN  /\ HoldsFields(lock.context, expected.context)
           /\ DOMAIN lock.events \subseteq DOMAIN expected.events
           /\ \A k \in DOMAIN reg.events :
                 /\ k \in DOMAIN lock.events
                 /\ CompareEvent(lock.events[k], expected.events[k])

-----------------------------------------------------------------------------
(* What the ledger of numbers (NumberLedger) sees of a message's entries *)

LedgerOf(fields, reserved) ==
    [active  |-> [n \in DOMAIN fields |-> fields[n].protoNumber],
     retired |-> {r.protoNumber : r \in reserved}]
=============================================================================
