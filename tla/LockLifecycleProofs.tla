------------------------ MODULE LockLifecycleProofs -------------------------
(***************************************************************************)
(* Theorems about the life of a lock file, for every set of names, events, *)
(* types and every reserved range.  The inductive invariant says that      *)
(* every message of the lock is Sound (SchemaLockProofs): each entry under *)
(* its own name, allowed numbers, no number twice, no hole.  It is what    *)
(* makes the lock acceptable to its readers, makes it keep what was        *)
(* published, and makes each update a step of NumberLedger.                *)
(***************************************************************************)
EXTENDS LockLifecycle, SchemaLockProofs

-----------------------------------------------------------------------------
(* The inductive invariant *)

IInv ==
    /\ registry \in Registries
    /\ lockFile.present \in BOOLEAN /\ lockFile.canonical \in BOOLEAN
    /\ LockSound(lockFile.lock)

\* A registry is in the shape Validate lets through.
LEMMA RegistryShape ==
    ASSUME NEW reg \in Registries
    PROVE  RegistryShaped(reg)
<1>1. reg.context \in FieldMaps(ContextNames)
  BY DEF Registries
<1>2. PICK ks \in SUBSET Keys : reg.events \in [ks -> FieldMaps(PropertyNames)]
  BY DEF Registries
<1> QED  BY <1>1, <1>2 DEF FieldMaps, RegistryShaped

-----------------------------------------------------------------------------
(* The invariant holds *)

\* An absent lock file reads as a sound lock.
LEMMA InitEstablishes == Init => IInv
<1> SUFFICES ASSUME Init PROVE IInv
  OBVIOUS
<1>1. lockFile.lock = EmptyLock /\ lockFile.present = FALSE /\ lockFile.canonical = FALSE
  BY DEF Init
<1> QED  BY <1>1, EmptyLockIsSound DEF Init, IInv

\* No edit and no command makes the lock unsound.
LEMMA NextPreserves == IInv /\ [Next]_vars => IInv'
<1> SUFFICES ASSUME IInv, [Next]_vars PROVE IInv'
  OBVIOUS
<1>1. CASE EditRegistry
  BY <1>1 DEF IInv, EditRegistry
<1>2. CASE LockUpdate
  <2>1. LockSound(UpdateLock(lockFile.lock, registry))
    BY RegistryShape, UpdateLockIsSound DEF IInv
  <2>2. /\ lockFile'.lock = UpdateLock(lockFile.lock, registry)
        /\ lockFile'.present = TRUE /\ lockFile'.canonical = TRUE
    BY <1>2 DEF LockUpdate
  <2>3. registry' = registry
    BY <1>2 DEF LockUpdate
  <2> QED  BY <2>1, <2>2, <2>3 DEF IInv
<1>3. CASE GenerateProto
  BY <1>3 DEF IInv, GenerateProto
<1>4. CASE UNCHANGED vars
  BY <1>4 DEF IInv, vars
<1> QED  BY <1>1, <1>2, <1>3, <1>4 DEF Next

\* Every lock the program writes is sound.
THEOREM LockStaysSound == Spec => []IInv
BY InitEstablishes, NextPreserves, PTL DEF Spec

\* The numbers of a sound message.
LEMMA SoundIsInOrder ==
    ASSUME NEW fields, NEW reserved, NEW names,
           Sound(fields, {r.protoNumber : r \in reserved}, names),
           \A r, s \in reserved : r.protoNumber = s.protoNumber => r = s
    PROVE  NumbersInOrder(fields, reserved)
<1> DEFINE numbers == NumbersOf(fields) \cup {r.protoNumber : r \in reserved}
<1>1. \A x \in numbers : x \in Nat /\ ValidProtoNumber(x)
  BY DEF Sound
<1>2. \A x \in numbers : \A y \in 1..x : ValidProtoNumber(y) => y \in numbers
  BY DEF Sound, CheckDenseNumberHistory, ValidProtoNumber
<1>3. \A n \in DOMAIN fields, r \in reserved : fields[n].protoNumber # r.protoNumber
  BY DEF Sound, NumbersOf
<1>4. \A m, n \in DOMAIN fields : fields[m].protoNumber = fields[n].protoNumber => m = n
  BY DEF Sound, NoSharedNumber
<1> QED  BY <1>1, <1>2, <1>3, <1>4 DEF NumbersInOrder

\* A sound lock is a lock as the type invariant describes it.
LEMMA SoundIsTyped == IInv => TypeOK
<1> SUFFICES ASSUME IInv PROVE TypeOK
  OBVIOUS
<1> DEFINE lock == lockFile.lock
<1>1. lock.version \in {0, LockVersion} /\ DOMAIN lock.events \subseteq Keys
  BY DEF IInv, LockSound
<1>2. ASSUME NEW fields, NEW others, NEW names, Sound(fields, others, names)
      PROVE  /\ DOMAIN fields \subseteq names
             /\ \A n \in DOMAIN fields : fields[n] \in [stableID : {n}, protoNumber : Nat]
  <2>1. \A n \in DOMAIN fields : /\ fields[n] = LockedField(n, fields[n].protoNumber)
                                 /\ fields[n].protoNumber \in Nat
    BY <1>2 DEF Sound, NumbersOf
  <2> QED  BY <1>2, <2>1 DEF Sound, LockedField
<1>3. Sound(lock.context, {}, ContextNames)
  BY DEF IInv, LockSound
<1>4. ASSUME NEW k \in DOMAIN lock.events
      PROVE  LET e == lock.events[k]
             IN  /\ e.envelope = EnvelopeLock
                 /\ DOMAIN e.properties \subseteq PropertyNames
                 /\ \A n \in DOMAIN e.properties :
                       e.properties[n] \in [stableID : {n}, protoNumber : Nat]
                 /\ e.reserved \subseteq ReservedEntries
                 /\ e.inOrder
  <2>1. /\ lock.events[k].envelope = EnvelopeLock
        /\ lock.events[k].inOrder
        /\ EntrySound(lock.events[k])
    BY DEF IInv, LockSound
  <2> HIDE DEF lock
  <2> QED  BY <1>2, <2>1 DEF EntrySound
<1>5. /\ DOMAIN lock.context \subseteq ContextNames
      /\ \A n \in DOMAIN lock.context : lock.context[n] \in [stableID : {n}, protoNumber : Nat]
  <2> HIDE DEF lock
  <2> QED  BY <1>2, <1>3
<1>6. /\ NumbersInOrder(lock.context, {})
      /\ \A k \in DOMAIN lock.events :
            NumbersInOrder(lock.events[k].properties, lock.events[k].reserved)
  <2>1. NumbersInOrder(lock.context, {})
    <3>1. Sound(lock.context, {r.protoNumber : r \in {}}, ContextNames)
      BY <1>3
    <3> QED  BY <3>1, SoundIsInOrder
  <2>2. ASSUME NEW k \in DOMAIN lock.events
        PROVE  NumbersInOrder(lock.events[k].properties, lock.events[k].reserved)
    <3>1. EntrySound(lock.events[k])
      BY DEF IInv, LockSound
    <3> HIDE DEF lock
    <3>2. Sound(lock.events[k].properties,
                {r.protoNumber : r \in lock.events[k].reserved}, PropertyNames)
      BY <3>1 DEF EntrySound, ReservedNumbers
    <3> QED  BY <3>1, <3>2, SoundIsInOrder DEF EntrySound, NoSharedReservedNumber
  <2> QED  BY <2>1, <2>2
<1>7. ASSUME NEW k \in DOMAIN lock.events, NEW r \in lock.events[k].reserved
      PROVE  r \in [name : PropertyNames, stableID : {r.name},
                    protoNumber : Nat, reason : {Removed}]
  <2>1. r \in ReservedEntries /\ r.stableID = r.name
    BY DEF IInv, LockSound, EntrySound
  <2> HIDE DEF lock
  <2> QED  BY <2>1 DEF ReservedEntries
<1> QED  BY <1>1, <1>4, <1>5, <1>6, <1>7 DEF IInv, TypeOK, LockTypeOK

\* Type correctness of the registry, the lock file and every entry in it.
THEOREM TypeCorrect == Spec => []TypeOK
BY LockStaysSound, SoundIsTyped, PTL

\* lock update never refuses a lock that lock update wrote, for every
\* history of registries and across protobuf's reserved range.
THEOREM NeverRefused == Spec => []UpdateNeverRefused
<1>1. IInv => UpdateNeverRefused
  BY RegistryShape, SoundIsAccepted DEF IInv, UpdateNeverRefused
<1> QED  BY <1>1, LockStaysSound, PTL

-----------------------------------------------------------------------------
(* An update settles, and the two gates agree *)

\* After lock update there is nothing left to do: the lock passes CheckLock
\* and another update writes the same, for every history of registries.
THEOREM UpdateAlwaysSettles == Spec => []UpdateSettles
<1>1. IInv => UpdateSettles
  <2> SUFFICES ASSUME IInv PROVE UpdateSettles
    OBVIOUS
  <2>1. LockSound(lockFile.lock) /\ RegistryShaped(registry)
    BY RegistryShape DEF IInv
  <2>2. LockSound(UpdateLock(lockFile.lock, registry))
    BY <2>1, UpdateLockIsSound
  <2>3. UpdateLock(UpdateLock(lockFile.lock, registry), registry)
          = UpdateLock(lockFile.lock, registry)
    BY <2>1, LockSettles
  <2> QED  BY <2>1, <2>2, <2>3, SettledPassesCheck DEF UpdateSettles
<1> QED  BY <1>1, LockStaysSound, PTL

\* A sound lock that an update leaves alone and that has no left-over context
\* field passes the lock validation that FromRegistry repeats with code of its
\* own.
LEMMA SoundGatesAgree ==
    ASSUME NEW lock, LockSound(lock), NEW reg \in Registries,
           UpdateLock(lock, reg) = lock, lock.version = LockVersion,
           DOMAIN lock.context \subseteq DOMAIN reg.context
    PROVE  ValidateLockForLowering(reg, lock)
<1>1. DOMAIN lock.events = DOMAIN reg.events
  <2>1. DOMAIN UpdateLock(lock, reg).events = DOMAIN reg.events
    BY DEF UpdateLock
  <2> QED  BY <2>1
<1>2. ASSUME NEW k \in DOMAIN lock.events
      PROVE  DOMAIN lock.events[k].properties = DOMAIN reg.events[k]
  <2>1. DOMAIN UpdateLock(lock, reg).events[k].properties = DOMAIN reg.events[k]
    BY <1>1 DEF UpdateLock, UpdatedEvent, Extend
  <2> QED  BY <2>1
<1>3. ValidateContextLock(reg, lock)
  <2>1. Sound(lock.context, {}, ContextNames)
    BY DEF LockSound
  <2>2. NumbersOf(lock.context) \cup {} = NumbersOf(lock.context)
    OBVIOUS
  <2>3. \A n \in DOMAIN lock.context :
           /\ ValidProtoNumber(lock.context[n].protoNumber)
           /\ lock.context[n].stableID = n
    BY <2>1, <2>2 DEF Sound, NumbersOf, LockedField
  <2> QED  BY <2>1, <2>3 DEF Sound, ValidateContextLock
<1>4. ASSUME NEW k \in DOMAIN lock.events
      PROVE  LET e == lock.events[k]
             IN  /\ ValidateEnvelopeLock(e)
                 /\ ValidatePropertiesLock(reg.events[k], e)
                 /\ ValidateReservedEntries(e)
  <2> DEFINE e == lock.events[k]
  <2>1. e.envelope = EnvelopeLock /\ EntrySound(e)
    BY DEF LockSound
  <2> HIDE DEF e
  <2>2. ValidateEnvelopeLock(e)
    <3>1. /\ DOMAIN EnvelopeLock = DOMAIN EnvelopeNumbers
          /\ \A x \in NumbersOf(EnvelopeLock) : x \in 1..7
          /\ \A n \in DOMAIN EnvelopeNumbers :
                EnvelopeLock[n] = LockedField(n, EnvelopeNumbers[n])
      BY EnvelopeFacts DEF EnvelopeLock
    <3>2. \A n \in DOMAIN EnvelopeLock : EnvelopeLock[n].protoNumber \in 1..7
      BY <3>1 DEF NumbersOf
    <3>3. \A n \in DOMAIN EnvelopeLock : ValidProtoNumber(EnvelopeLock[n].protoNumber)
      BY <3>2, ReservedRangeAssumption DEF ValidProtoNumber, IsProtobufReservedNumber
    <3> QED  BY <2>1, <3>1, <3>3 DEF ValidateEnvelopeLock
  <2>3. Sound(e.properties, ReservedNumbers(e), PropertyNames)
    BY <2>1 DEF EntrySound
  <2>4. \A n \in DOMAIN e.properties :
           /\ ValidProtoNumber(e.properties[n].protoNumber)
           /\ e.properties[n].stableID = n
    BY <2>3 DEF Sound, NumbersOf, LockedField
  <2>5. CheckDuplicateNumbers(e.properties, e.reserved)
    <3>1. \A n \in DOMAIN e.properties, r \in e.reserved :
             e.properties[n].protoNumber # r.protoNumber
      BY <2>3 DEF Sound, NumbersOf, ReservedNumbers
    <3> QED  BY <2>1, <2>3, <3>1 DEF CheckDuplicateNumbers, Sound, EntrySound
  <2>6. ValidateReservedEntries(e)
    <3>1. 0 \notin PropertyNames
      BY NamesAssumption DEF Names
    <3>2. \A r \in e.reserved : ValidReserved(r)
      BY <2>1, <3>1 DEF EntrySound, ReservedEntries, ValidReserved
    <3>3. \A r \in e.reserved : ValidProtoNumber(r.protoNumber)
      BY <2>3 DEF Sound, ReservedNumbers
    <3> QED  BY <3>2, <3>3 DEF ValidateReservedEntries
  <2> QED  BY <2>2, <2>4, <2>5, <2>6 DEF ValidatePropertiesLock, e
<1>5. ValidateNoStaleLockEntries(reg, lock)
  BY <1>1, <1>2 DEF ValidateNoStaleLockEntries
<1> QED  BY <1>1, <1>3, <1>4, <1>5 DEF ValidateLockForLowering

\* What passes lock check and has no left-over context field does not stop
\* generate proto, for every history of registries.
THEOREM GatesAlwaysAgree == Spec => []GatesAgree
<1>1. IInv => GatesAgree
  BY SoundGatesAgree DEF IInv, GatesAgree, LockCheckPasses, CheckLock
<1> QED  BY <1>1, LockStaysSound, PTL

-----------------------------------------------------------------------------
(* What was published stays locked *)

\* A permanent event that was published is still in the registry, so the
\* next update will find it.
PInv ==
    /\ PublishedStaysLocked
    /\ \A p \in published :
          /\ p.scope \in Keys \cup {ContextScope}
          /\ p.scope \in PermanentEvents => p.scope \in DOMAIN registry.events

\* What the two parts of PInv say of one published field.
KeptIn(p, lock) ==
    /\ p.scope = ContextScope =>
          /\ p.field.name \in DOMAIN lock.context
          /\ lock.context[p.field.name].protoNumber = p.field.number
    /\ p.scope \in PermanentEvents =>
          /\ p.scope \in DOMAIN lock.events
          /\ LET e == lock.events[p.scope]
             IN  \/ /\ p.field.name \in DOMAIN e.properties
                    /\ e.properties[p.field.name].protoNumber = p.field.number
                 \/ \E r \in e.reserved :
                       r.name = p.field.name /\ r.protoNumber = p.field.number

\* PublishedStaysLocked, one published field at a time.
LEMMA KeptInMeaning == PublishedStaysLocked <=> \A p \in published : KeptIn(p, lockFile.lock)
BY DEF PublishedStaysLocked, KeptIn

\* UpdateLock keeps the number of every published field, active or reserved.
LEMMA UpdateKeeps ==
    ASSUME NEW lock, LockSound(lock), NEW reg \in Registries, NEW p, KeptIn(p, lock),
           p.scope \in PermanentEvents => p.scope \in DOMAIN reg.events
    PROVE  KeptIn(p, UpdateLock(lock, reg))
<1> DEFINE new == UpdateLock(lock, reg)
<1>1. ASSUME p.scope = ContextScope
      PROVE  /\ p.field.name \in DOMAIN new.context
             /\ new.context[p.field.name].protoNumber = p.field.number
  <2> HIDE DEF new
  <2>1. /\ \A n \in DOMAIN lock.context : new.context[n] = lock.context[n]
        /\ DOMAIN lock.context \subseteq DOMAIN new.context
    BY RegistryShape, UpdateLockIsSound DEF new
  <2> QED  BY <1>1, <2>1 DEF KeptIn
<1>2. ASSUME p.scope \in PermanentEvents
      PROVE  /\ p.scope \in DOMAIN new.events
             /\ LET e == new.events[p.scope]
                IN  \/ /\ p.field.name \in DOMAIN e.properties
                       /\ e.properties[p.field.name].protoNumber = p.field.number
                    \/ \E r \in e.reserved :
                          r.name = p.field.name /\ r.protoNumber = p.field.number
  <2> DEFINE k == p.scope
  <2>1. /\ k \in DOMAIN lock.events /\ k \in DOMAIN reg.events
        /\ Remembers(lock.events[k], p.field.name, p.field.number)
    BY <1>2 DEF KeptIn, Remembers
  <2>2. k \in DOMAIN new.events /\ new.events[k] = UpdatedEvent(lock.events[k], DOMAIN reg.events[k])
    BY <2>1 DEF UpdateLock, EntryOf
  <2>3. DOMAIN reg.events[k] \in SUBSET PropertyNames /\ EntrySound(lock.events[k])
    BY <2>1, RegistryShape DEF LockSound, RegistryShaped
  <2> HIDE DEF k, new
  <2>4. Remembers(new.events[k], p.field.name, p.field.number)
    BY <2>1, <2>2, <2>3, UpdateRemembers
  <2> QED  BY <2>2, <2>4 DEF Remembers, k
<1> QED  BY <1>1, <1>2 DEF KeptIn

\* A schema is generated from the lock, so its fields are in it.
LEMMA GeneratedIsKept ==
    ASSUME NEW lock, NEW reg \in Registries, FromRegistryAccepts(reg, lock),
           NEW p \in Published(FromRegistry(reg, lock))
    PROVE  /\ KeptIn(p, lock)
           /\ p.scope \in Keys \cup {ContextScope}
           /\ p.scope \in PermanentEvents => p.scope \in DOMAIN reg.events
<1> DEFINE schema == FromRegistry(reg, lock)
<1>1. DOMAIN reg.events \subseteq Keys /\ ContextScope \notin Keys /\ PermanentEvents \subseteq Keys
  BY RegistryShape, ContextScopeAssumption, PermanentEventsAssumption DEF RegistryShaped
<1>2. \/ p.scope = ContextScope /\ p.field \in schema.context
      \/ \E k \in DOMAIN schema.events : p.scope = k /\ p.field \in schema.events[k]
  BY DEF Published
<1>3. CASE p.scope = ContextScope /\ p.field \in schema.context
  <2>1. p.field \in LowerMessage(reg.context, lock.context)
    BY <1>3 DEF FromRegistry
  <2>2. PICK n \in DOMAIN reg.context :
           p.field.name = n /\ p.field.number = lock.context[n].protoNumber
    BY <2>1 DEF LowerMessage
  <2>3. n \in DOMAIN lock.context
    BY DEF FromRegistryAccepts, MessageLowers
  <2> QED  BY <1>1, <1>3, <2>2, <2>3 DEF KeptIn
<1>4. CASE \E k \in DOMAIN schema.events : p.scope = k /\ p.field \in schema.events[k]
  <2>1. PICK k \in DOMAIN reg.events :
           /\ p.scope = k
           /\ p.field \in LowerMessage(reg.events[k], lock.events[k].properties)
    BY <1>4 DEF FromRegistry
  <2>2. PICK n \in DOMAIN reg.events[k] :
           p.field.name = n /\ p.field.number = lock.events[k].properties[n].protoNumber
    BY <2>1 DEF LowerMessage
  <2>3. k \in DOMAIN lock.events /\ n \in DOMAIN lock.events[k].properties
    BY DEF FromRegistryAccepts, MessageLowers
  <2> QED  BY <1>1, <2>1, <2>2, <2>3 DEF KeptIn
<1> QED  BY <1>2, <1>3, <1>4

\* No edit and no command forgets a published number.
LEMMA NextKeeps == IInv /\ PInv /\ [Next]_vars => PInv'
<1> SUFFICES ASSUME IInv, PInv, [Next]_vars PROVE PInv'
  OBVIOUS
<1>1. \A p \in published :
         /\ KeptIn(p, lockFile.lock)
         /\ p.scope \in Keys \cup {ContextScope}
         /\ p.scope \in PermanentEvents => p.scope \in DOMAIN registry.events
  BY KeptInMeaning DEF PInv
<1>2. SUFFICES \A p \in published' :
         /\ KeptIn(p, lockFile'.lock)
         /\ p.scope \in Keys \cup {ContextScope}
         /\ p.scope \in PermanentEvents => p.scope \in DOMAIN registry'.events
  BY DEF PInv, PublishedStaysLocked, KeptIn
<1>3. CASE EditRegistry
  <2>1. published' = published /\ lockFile' = lockFile
        /\ PermanentEvents \cap DOMAIN registry.events \subseteq DOMAIN registry'.events
    BY <1>3 DEF EditRegistry
  <2> QED  BY <1>1, <2>1
<1>4. CASE LockUpdate
  <2>1. /\ published' = published /\ registry' = registry
        /\ lockFile'.lock = UpdateLock(lockFile.lock, registry)
    BY <1>4 DEF LockUpdate
  <2>2. registry \in Registries /\ LockSound(lockFile.lock)
    BY DEF IInv
  <2> QED  BY <1>1, <2>1, <2>2, UpdateKeeps
<1>5. CASE GenerateProto
  <2>1. /\ lockFile' = lockFile /\ registry' = registry
        /\ published' = published \cup Published(FromRegistry(registry, lockFile.lock))
        /\ FromRegistryAccepts(registry, lockFile.lock)
    BY <1>5 DEF GenerateProto, GenerateAccepts
  <2>2. registry \in Registries
    BY DEF IInv
  <2>3. \A p \in Published(FromRegistry(registry, lockFile.lock)) :
           /\ KeptIn(p, lockFile.lock)
           /\ p.scope \in Keys \cup {ContextScope}
           /\ p.scope \in PermanentEvents => p.scope \in DOMAIN registry.events
    BY <2>1, <2>2, GeneratedIsKept
  <2> QED  BY <1>1, <2>1, <2>3
<1>6. CASE UNCHANGED vars
  BY <1>1, <1>6 DEF vars
<1> QED  BY <1>3, <1>4, <1>5, <1>6 DEF Next

\* Both invariants hold in every life of the registry.
LEMMA PInvHolds == Spec => [](IInv /\ PInv)
<1>1. Init => IInv /\ PInv
  BY InitEstablishes DEF Init, PInv, PublishedStaysLocked
<1>2. (IInv /\ PInv) /\ [Next]_vars => (IInv /\ PInv)'
  BY NextPreserves, NextKeeps
<1> QED  BY <1>1, <1>2, PTL DEF Spec

\* The lock never forgets a number that was published for the context or
\* for an event that is never taken out of the registry.
THEOREM PublishedLocked == Spec => []PublishedStaysLocked
BY PInvHolds, PTL DEF PInv

\* Under those numbers no other field is ever published.
THEOREM OneNamePerNumber == Spec => []NumberMeansOneName
<1>1. IInv /\ PInv => NumberMeansOneName
  <2>1. SUFFICES ASSUME IInv, PInv, NEW p \in published, NEW q \in published,
                        p.scope = q.scope, p.scope \notin Keys \ PermanentEvents,
                        p.field.number = q.field.number
                 PROVE  p.field.name = q.field.name
    BY DEF NumberMeansOneName
  <2>2. KeptIn(p, lockFile.lock) /\ KeptIn(q, lockFile.lock)
    BY <2>1, KeptInMeaning DEF PInv
  <2>3. p.scope = ContextScope \/ p.scope \in PermanentEvents
    BY <2>1 DEF PInv
  <2>4. CASE p.scope = ContextScope
    <3>1. NoSharedNumber(lockFile.lock.context)
      BY <2>1 DEF IInv, LockSound, Sound
    <3> QED  BY <2>1, <2>2, <2>4, <3>1 DEF KeptIn, NoSharedNumber
  <2>5. CASE p.scope \in PermanentEvents
    <3> DEFINE e == lockFile.lock.events[p.scope]
    <3>1. EntrySound(e)
      BY <2>1, <2>2, <2>5 DEF IInv, LockSound, KeptIn
    <3>2. \A x \in {p, q} : Remembers(e, x.field.name, x.field.number)
      BY <2>1, <2>2, <2>5 DEF KeptIn, Remembers
    <3> HIDE DEF e
    <3> QED  BY <2>1, <3>1, <3>2, RememberedOnce
  <2> QED  BY <2>3, <2>4, <2>5
<1> QED  BY <1>1, PInvHolds, PTL

-----------------------------------------------------------------------------
(* The life of a lock file implements the abstract ledger of numbers: each *)
(* lock update is one revision of the ledger, everything else stutters.    *)

\* An absent lock file is a blank ledger in every scope.
LEMMA InitIsBlank == Init => Ledger!Init
<1> SUFFICES ASSUME Init PROVE Ledger!Init
  OBVIOUS
<1>1. lockFile.lock.context = EmptyMap /\ DOMAIN lockFile.lock.events = {}
  BY DEF Init, EmptyLock, EmptyMap
<1>2. \A s : EntryOf(lockFile.lock, s) = NoEntry
  BY <1>1 DEF EntryOf
<1>3. NoEntry.properties = EmptyMap /\ NoEntry.reserved = {}
  BY DEF NoEntry
<1>4. LedgerState = [s \in Keys \cup {ContextScope} |-> Ledger!Blank]
  BY <1>1, <1>2, <1>3, NothingIsBlank DEF LedgerState, Ledger!Blank, Abstract!Blank
<1> QED  BY <1>4 DEF Ledger!Init, Ledger!Scopes

\* A step of the lock's life is a step of the ledger or leaves it alone.
LEMMA StepRefines == IInv /\ [Next]_vars => [Ledger!Next]_LedgerState
<1> SUFFICES ASSUME IInv, [Next]_vars PROVE [Ledger!Next]_LedgerState
  OBVIOUS
<1>1. CASE lockFile' = lockFile
  BY <1>1 DEF LedgerState
<1>2. CASE LockUpdate
  <2> DEFINE lock == lockFile.lock
             new  == UpdateLock(lock, registry)
  <2>1. lockFile'.lock = new /\ registry \in Registries /\ LockSound(lock)
    BY <1>2 DEF LockUpdate, IInv
  <2> HIDE DEF lock, new
  <2>2. LedgerState' = [s \in Keys \cup {ContextScope} |->
           IF s = ContextScope THEN ContextLedger(new) ELSE EventLedger(EntryOf(new, s))]
    BY <2>1 DEF LedgerState, ContextLedger, EventLedger
  <2>3. LedgerState = [s \in Keys \cup {ContextScope} |->
           IF s = ContextScope THEN ContextLedger(lock) ELSE EventLedger(EntryOf(lock, s))]
    BY DEF LedgerState, ContextLedger, EventLedger, lock
  <2>4. /\ Abstract!Revised(ContextLedger(lock), ContextLedger(new))
        /\ ContextLedger(new).retired = {}
        /\ \A k \in Keys :
              \/ Abstract!Revised(EventLedger(EntryOf(lock, k)), EventLedger(EntryOf(new, k)))
              \/ EventLedger(EntryOf(new, k)) = Abstract!Blank
    BY <2>1, RegistryShape, UpdateIsRevision DEF new
  <2>5. /\ LedgerState[ContextScope] = ContextLedger(lock)
        /\ LedgerState'[ContextScope] = ContextLedger(new)
        /\ \A k \in Keys : /\ LedgerState[k] = EventLedger(EntryOf(lock, k))
                           /\ LedgerState'[k] = EventLedger(EntryOf(new, k))
    BY <2>2, <2>3, ContextScopeAssumption
  <2>6. LedgerState' = [s \in Ledger!Scopes |-> LedgerState'[s]]
    BY <2>2 DEF Ledger!Scopes
  <2>7. /\ \A l, m : Abstract!Revised(l, m) => Ledger!Revised(l, m)
        /\ Abstract!Blank = Ledger!Blank
    BY DEF Abstract!Revised, Abstract!NumbersIn, Abstract!Blank,
           Ledger!Revised, Ledger!NumbersIn, Ledger!Blank
  <2> QED  BY <2>4, <2>5, <2>6, <2>7 DEF Ledger!Next, Ledger!Update
<1> QED  BY <1>1, <1>2 DEF Next, EditRegistry, GenerateProto, vars

\* The programs refine the ledger: no history of commands reuses a number,
\* renumbers a field or forgets a retired number while its event is kept.
THEOREM LockImplementsLedger == Spec => ImplementsLedger
BY InitIsBlank, LockStaysSound, StepRefines, PTL DEF Spec, ImplementsLedger, Ledger!Spec
=============================================================================
