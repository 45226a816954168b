------------------------------ MODULE Lowering ------------------------------
(***************************************************************************)
(* Lowering a registry and its lock to the protobuf schema that `generate  *)
(* proto` renders: internal/schemair/from_registry.go.  FromRegistry       *)
(* repeats the lock's validation with code of its own instead of trusting  *)
(* CheckLock; both are modelled so that they can be compared.              *)
(*                                                                         *)
(* A field type is [kind, item, values]: item is the kind of an array's    *)
(* elements, values an enum's authored values in order.  How names are     *)
(* rendered (pascalCase, upperIdentifier) is given by constants that say   *)
(* which names become the same identifier.                                 *)
(***************************************************************************)
EXTENDS SchemaLock, Sequences

CONSTANTS
    FieldTypes,   \* the types registry.Validate lets a field have
    PascalCase,   \* event or field name -> the identifier pascalCase makes of it
    ValueName,    \* <<enum field, value>> -> the identifier EnumValueName makes of it,
                  \* for the values it makes one of
    UnfitNames    \* valid registry names protobuf refuses (keywords, "a._b")

ScalarKinds == {"string", "integer", "number", "boolean", "timestamp", "date", "uuid"}

\* The value that renders as the synthesized zero value, <ENUM>_UNSPECIFIED.
Unspecified == 0

-----------------------------------------------------------------------------
(* lowerField *)

\* The number of an enum value is its position in the registry's list.
EnumNumbers(values) ==
    [v \in Range(values) |-> CHOOSE i \in DOMAIN values : values[i] = v]

TypeLowers(type) ==
    \/ type.kind \in ScalarKinds
    \/ type.kind = "enum"
    \/ type.kind = "array" /\ type.item \in ScalarKinds

\* What a reader of the wire must know to decode the field.
WireType(type) ==
    [repeated |-> type.kind = "array",
     scalar   |-> IF type.kind = "array" THEN type.item ELSE type.kind,
     enum     |-> EnumNumbers(type.values)]

-----------------------------------------------------------------------------
(* lowerContextMessage and lowerPropertiesMessage: one message's fields *)

EnumFields(fields) == {n \in DOMAIN fields : fields[n].kind = "enum"}

\* The values of an enum, the synthesized one at 0.
ValueAt(type, i) == IF i = 0 THEN Unspecified ELSE type.values[i]

\* Every value of an enum gives an identifier ("--" does not).
EnumValuesNamed(fields) ==
    \A n \in EnumFields(fields) : \A i \in 0..Len(fields[n].values) :
        <<n, ValueAt(fields[n], i)>> \in DOMAIN ValueName

\* protobuf puts the enum values of one message into one name space.
EnumValuesDiffer(fields) ==
    \A m, n \in EnumFields(fields) :
        \A i \in 0..Len(fields[m].values), j \in 0..Len(fields[n].values) :
            ValueName[<<m, ValueAt(fields[m], i)>>] = ValueName[<<n, ValueAt(fields[n], j)>>]
                => m = n /\ i = j

MessageLowers(fields, locked) ==
    /\ \A n \in DOMAIN fields :
          /\ n \notin UnfitNames
          /\ n \in DOMAIN locked
          /\ locked[n].stableID = n
          /\ ValidProtoNumber(locked[n].protoNumber)
          /\ TypeLowers(fields[n])
    /\ \A m, n \in DOMAIN fields :
          locked[m].protoNumber = locked[n].protoNumber => m = n
    /\ \A m, n \in EnumFields(fields) : PascalCase[m] = PascalCase[n] => m = n
    /\ EnumValuesNamed(fields)
    /\ EnumValuesDiffer(fields)

LowerMessage(fields, locked) ==
    {[name |-> n, number |-> locked[n].protoNumber, type |-> WireType(fields[n])] :
        n \in DOMAIN fields}

-----------------------------------------------------------------------------
(* validateLockForLowering *)

ValidateContextLock(reg, lock) ==
    /\ \A n \in DOMAIN reg.context \cap DOMAIN lock.context :
          /\ ValidProtoNumber(lock.context[n].protoNumber)
          /\ lock.context[n].stableID = n
    /\ NoSharedNumber(lock.context)

\* A missing envelope entry is fine, a wrong or unknown one is not.
ValidateEnvelopeLock(entry) ==
    \A n \in DOMAIN entry.envelope :
        /\ n \in DOMAIN EnvelopeNumbers
        /\ ValidProtoNumber(entry.envelope[n].protoNumber)
        /\ entry.envelope[n] = LockedField(n, EnvelopeNumbers[n])

ValidatePropertiesLock(fields, entry) ==
    /\ \A n \in DOMAIN fields \cap DOMAIN entry.properties :
          /\ ValidProtoNumber(entry.properties[n].protoNumber)
          /\ entry.properties[n].stableID = n
    /\ CheckDuplicateNumbers(entry.properties, entry.reserved)

ValidateReservedEntries(entry) ==
    \A r \in entry.reserved : ValidReserved(r) /\ ValidProtoNumber(r.protoNumber)

\* A context entry the registry lost is refused here, unlike in CheckLock.
ValidateNoStaleLockEntries(reg, lock) ==
    /\ DOMAIN lock.context \subseteq DOMAIN reg.context
    /\ DOMAIN lock.events \subseteq DOMAIN reg.events
    /\ \A k \in DOMAIN lock.events :
          DOMAIN lock.events[k].properties \subseteq DOMAIN reg.events[k]

ValidateLockForLowering(reg, lock) ==
    /\ lock.version = LockVersion
    /\ ValidateContextLock(reg, lock)
    /\ \A k \in DOMAIN reg.events \cap DOMAIN lock.events :
          LET e == lock.events[k]
          IN  /\ ValidateEnvelopeLock(e)
              /\ ValidatePropertiesLock(reg.events[k], e)
              /\ ValidateReservedEntries(e)
    /\ ValidateNoStaleLockEntries(reg, lock)

-----------------------------------------------------------------------------
(* FromRegistry *)

\* A mutant of EventsLower: message names are not compared.
EventsLowerUnseen(reg) ==
    /\ reg.events # EmptyMap
    /\ \A j, k \in DOMAIN reg.events : j[2] = k[2]
    /\ \A k \in DOMAIN reg.events : k[1] \notin UnfitNames

\* One version per file, and no two events that render as one message.
\* (Message names carry V<version>, so none is Client or Context.)
EventsLower(reg) ==
    /\ reg.events # EmptyMap
    /\ \A j, k \in DOMAIN reg.events :
          /\ j[2] = k[2]
          /\ PascalCase[j[1]] = PascalCase[k[1]] => j = k
    /\ \A k \in DOMAIN reg.events : k[1] \notin UnfitNames

FromRegistryAccepts(reg, lock) ==
    /\ ValidateLockForLowering(reg, lock)
    /\ EventsLower(reg)
    /\ MessageLowers(reg.context, lock.context)
    /\ \A k \in DOMAIN reg.events :
          /\ k \in DOMAIN lock.events
          /\ MessageLowers(reg.events[k], lock.events[k].properties)

\* The messages of the schema whose numbers come from the lock.  The client
\* and envelope messages have fixed numbers.
FromRegistry(reg, lock) ==
    [context |-> LowerMessage(reg.context, lock.context),
     events  |-> [k \in DOMAIN reg.events |->
                    LowerMessage(reg.events[k], lock.events[k].properties)]]
=============================================================================
