-------------------------- MODULE SchemaLockProofs --------------------------
(***************************************************************************)
(* Lemmas about UpdateLock and CheckLock, for every set of names, every    *)
(* reserved range and every lock and registry; the proofs of the modules   *)
(* built on SchemaLock cite them.  The numbers an update hands out are     *)
(* new, distinct, allowed by protobuf and leave no hole, so a sound lock   *)
(* stays sound, and the update is a step of the abstract ledger of         *)
(* numbers; a sound lock is accepted, and an update settles at once.  The  *)
(* same is asked of any lock as the decoder gives it, edited ones          *)
(* included: when CheckLock and UpdateLock agree about it, and what an     *)
(* update repairs.                                                         *)
(***************************************************************************)
EXTENDS SchemaLock, TLAPS, FiniteSetTheorems

-----------------------------------------------------------------------------
(* Numbers *)

\* A set of naturals has a least element: an induction looks at the least
\* number for which what it shows is not true.
LEMMA LeastNumber ==
    ASSUME NEW B \in SUBSET Nat, B # {}
    PROVE  \E m \in B : \A y \in B : m <= y
<1>1. PICK m \in B : \A y \in B : ~ (<<y, m>> \in OpToRel(<, Nat))
  BY NatLessThanWellFounded, WFMin
<1>2. ASSUME NEW y \in B, y < m PROVE FALSE
  <2>1. <<y, m>> \in OpToRel(<, Nat)
    BY <1>2, Zenon DEF OpToRel
  <2> QED  BY <1>1, <2>1
<1> QED  BY <1>2

\* A bounded set of naturals has a largest used number: the loops that
\* compute contextMax and propertiesMax end on it.
LEMMA MaxUsedFacts ==
    ASSUME NEW S \in SUBSET Nat, NEW b \in Nat, \A x \in S : x <= b
    PROVE  /\ MaxUsed(S) \in S \cup {0}
           /\ MaxUsed(S) \in Nat
           /\ \A x \in S : x <= MaxUsed(S)
<1> DEFINE T == S \cup {0}
           B == {y \in Nat : \A x \in T : x <= y}
<1>1. B # {} /\ B \subseteq Nat
  <2>1. b \in B
    OBVIOUS
  <2> QED  BY <2>1
<1>2. PICK m \in B : \A y \in B : m <= y
  <2> HIDE DEF B
  <2> QED  BY <1>1, LeastNumber
<1>3. m \in T
  <2>1. SUFFICES ASSUME m \notin T PROVE FALSE
    OBVIOUS
  <2>2. m > 0 /\ m \in Nat
    BY <2>1
  <2>3. \A x \in T : x <= m - 1
    BY <2>1, <2>2
  <2>4. m - 1 \in B
    BY <2>2, <2>3
  <2> QED  BY <1>2, <2>2, <2>4
<1>4. m \in T /\ \A x \in T : m >= x
  BY <1>3
<1>5. MaxUsed(S) \in T /\ \A x \in T : MaxUsed(S) >= x
  BY <1>4 DEF MaxUsed, Max
<1>6. T \subseteq Nat
  OBVIOUS
<1> HIDE DEF B
<1> QED  BY <1>5, <1>6

\* The number of the k-th new field lies above every used one, is allowed,
\* and grows with k.
LEMMA AllocateFacts ==
    ASSUME NEW m \in Nat, m = 0 \/ ValidProtoNumber(m), NEW k \in Nat \ {0}
    PROVE  /\ Allocate(m, k) \in Nat
           /\ Allocate(m, k) > m
           /\ ValidProtoNumber(Allocate(m, k))
           /\ \A j \in Nat \ {0} : Allocate(m, j) = Allocate(m, k) => j = k
BY ReservedRangeAssumption
   DEF Allocate, ValidProtoNumber, IsProtobufReservedNumber

\* Every allowed number between the largest used one and an allocated one is
\* allocated too.
LEMMA AllocateIsDense ==
    ASSUME NEW m \in Nat, m = 0 \/ ValidProtoNumber(m), NEW k \in Nat \ {0},
           NEW x \in Nat, m < x, x <= Allocate(m, k)
    PROVE  IsProtobufReservedNumber(x) \/ \E j \in 1..k : x = Allocate(m, j)
<1> DEFINE gap == ReservedEnd - ReservedStart + 1
<1>1. ASSUME ~IsProtobufReservedNumber(x)
      PROVE  \E j \in 1..k : x = Allocate(m, j)
  <2>1. CASE m < ReservedStart /\ x > ReservedEnd
    <3>1. x - m - gap \in 1..k /\ x = Allocate(m, x - m - gap)
      BY <2>1, ReservedRangeAssumption
         DEF Allocate, ValidProtoNumber, IsProtobufReservedNumber
    <3> QED  BY <3>1
  <2>2. CASE ~(m < ReservedStart /\ x > ReservedEnd)
    <3>1. x - m \in 1..k /\ x = Allocate(m, x - m)
      BY <1>1, <2>2, ReservedRangeAssumption
         DEF Allocate, ValidProtoNumber, IsProtobufReservedNumber
    <3> QED  BY <3>1
  <2> QED  BY <2>1, <2>2
<1> QED  BY <1>1

\* One call of nextSequentialNumber is the first allocation; the next call
\* continues where it stopped.  So Allocate(m, k) is what k calls reach.
THEOREM AllocateIsIteration ==
    ASSUME NEW m \in Nat, m = 0 \/ ValidProtoNumber(m)
    PROVE  /\ Allocate(m, 1) = NextSequentialNumber(m)
           /\ \A k \in Nat \ {0} :
                 Allocate(m, k + 1) = NextSequentialNumber(Allocate(m, k))
BY ReservedRangeAssumption
   DEF Allocate, NextSequentialNumber, ValidProtoNumber, IsProtobufReservedNumber

-----------------------------------------------------------------------------
(* Ranks *)

\* Sorting numbers the new names 1..n without gap or repetition.
LEMMA RankFacts ==
    ASSUME NEW S \in SUBSET Names
    PROVE  /\ \A n \in S : Rank(n, S) \in Nat \ {0}
           /\ \A m, n \in S : Rank(m, S) = Rank(n, S) => m = n
           /\ \A n \in S : \A j \in 1..Rank(n, S) : \E m \in S : Rank(m, S) = j
           /\ \E b \in Nat : \A n \in S : Rank(n, S) <= b
<1> DEFINE Below(n) == {x \in S : x <= n}
<1>1. S \subseteq Nat /\ IsFiniteSet(S)
  BY NamesAssumption, FS_Subset
<1>2. ASSUME NEW n \in S
      PROVE  /\ IsFiniteSet(Below(n)) /\ Cardinality(Below(n)) \in Nat
             /\ Cardinality(Below(n)) <= Cardinality(S)
             /\ Cardinality(Below(n)) # 0
  <2>1. Below(n) \in SUBSET S /\ n \in Below(n)
    BY <1>1
  <2>2. IsFiniteSet(Below(n)) /\ Cardinality(Below(n)) <= Cardinality(S)
    BY <1>1, <2>1, FS_Subset
  <2>3. Cardinality(Below(n)) \in Nat
    BY <2>2, FS_CardinalityType
  <2>4. Cardinality(Below(n)) # 0
    BY <2>1, <2>2, FS_EmptySet
  <2> QED  BY <2>2, <2>3, <2>4
<1>3. Cardinality(S) \in Nat
  BY <1>1, FS_CardinalityType
<1>4. \A n \in S : Rank(n, S) \in 1..Cardinality(S)
  <2>1. ASSUME NEW n \in S PROVE Rank(n, S) \in 1..Cardinality(S)
    <3>1. Rank(n, S) = Cardinality(Below(n))
      BY DEF Rank
    <3> HIDE DEF Below
    <3> QED  BY <1>2, <1>3, <3>1
  <2> QED  BY <2>1
<1>5. ASSUME NEW m \in S, NEW n \in S, Rank(m, S) = Rank(n, S), m < n
      PROVE  FALSE
  <2>1. Below(m) \in SUBSET Below(n) /\ n \in Below(n) /\ n \notin Below(m)
    <3>1. m \in Nat /\ n \in Nat /\ m < n
      BY <1>1, <1>5
    <3>2. \A x \in S : x <= m => x <= n
      BY <1>1, <3>1
    <3>3. n <= n /\ ~(n <= m)
      BY <3>1
    <3> QED  BY <3>2, <3>3
  <2>2. Cardinality(Below(m)) = Cardinality(Below(n))
    BY <1>5 DEF Rank
  <2>3. Below(m) = Below(n)
    <3>1. IsFiniteSet(Below(n))
      BY <1>2
    <3> HIDE DEF Below
    <3> QED  BY <2>1, <2>2, <3>1, FS_Subset
  <2> QED  BY <2>1, <2>3
<1>6. \A m, n \in S : Rank(m, S) = Rank(n, S) => m = n
  <2>1. SUFFICES ASSUME NEW m \in S, NEW n \in S, Rank(m, S) = Rank(n, S), m # n
                 PROVE  FALSE
    OBVIOUS
  <2>2. m < n \/ n < m
    BY <1>1, <2>1
  <2> QED  BY <1>5, <2>1, <2>2
<1>7. \A j \in 1..Cardinality(S) : \E m \in S : Rank(m, S) = j
  <2> DEFINE f == [n \in S |-> Rank(n, S)]
             N == 1..Cardinality(S)
  <2>1. f \in [S -> N]
    BY <1>4
  <2>2. \A m, n \in S : f[m] = f[n] => m = n
    BY <1>6
  <2>3. f \in Injection(S, N)
    BY <2>1, <2>2 DEF Injection, IsInjective
  <2>4. IsFiniteSet(N) /\ Cardinality(N) = Cardinality(S)
    BY <1>3, FS_Interval
  <2>5. f \in Surjection(S, N)
    <3> HIDE DEF f, N
    <3> QED  BY <2>3, <2>4, FS_Injection
  <2>6. \A j \in N : \E m \in S : f[m] = j
    <3> HIDE DEF f, N
    <3> QED  BY <2>5 DEF Surjection
  <2> QED  BY <2>6
<1>8. \A n \in S : Rank(n, S) \in Nat \ {0} /\ Rank(n, S) <= Cardinality(S)
  BY <1>3, <1>4
<1>9. \A n \in S : \A j \in 1..Rank(n, S) : \E m \in S : Rank(m, S) = j
  <2>1. ASSUME NEW n \in S, NEW j \in 1..Rank(n, S)
        PROVE  \E m \in S : Rank(m, S) = j
    <3>1. j \in 1..Cardinality(S)
      BY <1>3, <1>8
    <3> QED  BY <1>7, <3>1
  <2> QED  BY <2>1
<1> QED  BY <1>3, <1>6, <1>8, <1>9

-----------------------------------------------------------------------------
(* One message's numbers *)

\* A message of a sound lock: `fields' are its active entries, `others' the
\* numbers its reserved list holds.
Sound(fields, others, names) ==
    /\ fields = [n \in DOMAIN fields |-> LockedField(n, fields[n].protoNumber)]
    /\ DOMAIN fields \subseteq names
    /\ \A x \in NumbersOf(fields) \cup others : x \in Nat /\ ValidProtoNumber(x)
    /\ NoSharedNumber(fields)
    /\ NumbersOf(fields) \cap others = {}
    /\ CheckDenseNumberHistory(NumbersOf(fields) \cup others)
    /\ \E b \in Nat : \A x \in NumbersOf(fields) \cup others : x <= b

\* The numbers of the entries whose names are not wanted any more.
Gone(fields, wanted) == {fields[n].protoNumber : n \in DOMAIN fields \ wanted}

\* The loop that numbers new fields: who stays keeps the entry, who comes
\* gets a number above all used ones, and the message stays sound when the
\* numbers of those who go are reserved.
ExtendsSoundly(fields, others, wanted, names) ==
    LET new == Extend(fields, wanted, MaxUsed(NumbersOf(fields) \cup others))
    IN  /\ \A n \in wanted \cap DOMAIN fields : new[n] = fields[n]
        /\ \A n \in wanted \ DOMAIN fields :
              new[n].protoNumber \notin NumbersOf(fields) \cup others
        /\ Sound(new, others \cup Gone(fields, wanted), names)

\* What Extend does to a sound message: old numbers stay, new ones are fresh,
\* the result with the numbers of the removed fields set aside is sound.
LEMMA ExtendFacts ==
    ASSUME NEW names \in SUBSET Names, NEW fields, NEW others,
           Sound(fields, others, names), NEW wanted \in SUBSET names
    PROVE  ExtendsSoundly(fields, others, wanted, names)
<1> DEFINE m     == MaxUsed(NumbersOf(fields) \cup others)
           new   == Extend(fields, wanted, m)
           fresh == wanted \ DOMAIN fields
           used  == NumbersOf(fields) \cup others
           num(n) == Allocate(m, Rank(n, fresh))
           after == NumbersOf(new) \cup (others \cup Gone(fields, wanted))
<1>1. /\ m \in Nat /\ m \in used \cup {0}
      /\ \A x \in used : x <= m
      /\ \A x \in used : x \in Nat /\ ValidProtoNumber(x)
  <2>1. \A x \in used : x \in Nat /\ ValidProtoNumber(x)
    BY DEF Sound
  <2>2. PICK b \in Nat : \A x \in used : x <= b
    BY DEF Sound
  <2>3. used \in SUBSET Nat
    BY <2>1
  <2>4. m = MaxUsed(used)
    OBVIOUS
  <2> HIDE DEF used, m
  <2> QED  BY <2>1, <2>2, <2>3, <2>4, MaxUsedFacts
<1> HIDE DEF m
<1>2. m = 0 \/ ValidProtoNumber(m)
  BY <1>1
<1>3. fresh \in SUBSET Names
  OBVIOUS
<1>4. /\ \A n \in fresh : Rank(n, fresh) \in Nat \ {0}
      /\ \A k, n \in fresh : Rank(k, fresh) = Rank(n, fresh) => k = n
      /\ \A n \in fresh : \A j \in 1..Rank(n, fresh) : \E k \in fresh : Rank(k, fresh) = j
      /\ \E b \in Nat : \A n \in fresh : Rank(n, fresh) <= b
  <2> HIDE DEF fresh
  <2> QED  BY <1>3, RankFacts
<1>5. /\ \A n \in fresh : num(n) \in Nat /\ num(n) > m /\ ValidProtoNumber(num(n))
      /\ \A k, n \in fresh : num(k) = num(n) => k = n
  <2>1. ASSUME NEW n \in fresh
        PROVE  num(n) \in Nat /\ num(n) > m /\ ValidProtoNumber(num(n))
    BY <1>1, <1>2, <1>4, <2>1, AllocateFacts
  <2>2. ASSUME NEW k \in fresh, NEW n \in fresh, num(k) = num(n) PROVE k = n
    <3>1. Rank(k, fresh) = Rank(n, fresh)
      BY <1>1, <1>2, <1>4, <2>2, AllocateFacts
    <3> QED  BY <1>4, <3>1
  <2> QED  BY <2>1, <2>2
<1>6. /\ DOMAIN new = wanted
      /\ \A n \in wanted \cap DOMAIN fields : new[n] = fields[n]
      /\ \A n \in fresh : new[n] = LockedField(n, num(n))
  BY DEF Extend
<1>7. /\ \A n \in DOMAIN fields : fields[n] = LockedField(n, fields[n].protoNumber)
      /\ \A n \in DOMAIN fields : fields[n].protoNumber \in used
  BY DEF Sound, NumbersOf
<1>8. \A n \in fresh : new[n].protoNumber = num(n)
  <2>1. ASSUME NEW n \in fresh PROVE new[n].protoNumber = num(n)
    <3>1. \A x : LockedField(n, x).protoNumber = x
      BY DEF LockedField
    <3>2. new[n] = LockedField(n, num(n))
      BY <1>6, <2>1, Zenon
    <3>3. LockedField(n, num(n)).protoNumber = num(n)
      BY <3>1, Zenon
    <3> QED  BY <3>2, <3>3, Zenon
  <2> QED  BY <2>1, Zenon
<1>9. \A n \in fresh : num(n) \notin used
  BY <1>1, <1>5
<1>10. \A x : x \in NumbersOf(new)
          <=> \/ \E n \in wanted \cap DOMAIN fields : x = fields[n].protoNumber
              \/ \E n \in fresh : x = num(n)
  BY <1>6, <1>8 DEF NumbersOf
<1>11. \A x : x \in after <=> x \in used \/ \E n \in fresh : x = num(n)
  <2> HIDE DEF new, fresh, num
  <2>1. \A x : x \in NumbersOf(fields) <=> \E n \in DOMAIN fields : x = fields[n].protoNumber
    BY DEF NumbersOf
  <2>2. \A x : x \in Gone(fields, wanted)
          <=> \E n \in DOMAIN fields \ wanted : x = fields[n].protoNumber
    BY DEF Gone
  <2> QED  BY <1>10, <2>1, <2>2
<1>12. Sound(new, others \cup Gone(fields, wanted), names)
  <2>1. new = [n \in DOMAIN new |-> LockedField(n, new[n].protoNumber)]
    <3>1. new = [n \in wanted |-> new[n]]
      BY DEF Extend
    <3>2. \A n \in wanted : new[n] = LockedField(n, new[n].protoNumber)
      BY <1>6, <1>7, <1>8
    <3> HIDE DEF new
    <3> QED  BY <1>6, <3>1, <3>2
  <2>2. DOMAIN new \subseteq names
    BY <1>6
  <2>3. \A x \in after : x \in Nat /\ ValidProtoNumber(x)
    <3>1. ASSUME NEW x \in after PROVE x \in Nat /\ ValidProtoNumber(x)
      <4>1. CASE x \in used
        <5> HIDE DEF used
        <5> QED  BY <1>1, <4>1
      <4>2. CASE \E n \in fresh : x = num(n)
        BY <1>5, <4>2, Zenon
      <4> QED  BY <1>11, <3>1, <4>1, <4>2, Zenon
    <3> QED  BY <3>1, Zenon
  <2>4. NoSharedNumber(new)
    <3>1. \A k, n \in DOMAIN fields :
             fields[k].protoNumber = fields[n].protoNumber => k = n
      BY DEF Sound, NoSharedNumber
    <3>2. ASSUME NEW k \in wanted, NEW n \in wanted,
                 new[k].protoNumber = new[n].protoNumber
          PROVE  k = n
      <4>1. CASE k \in DOMAIN fields /\ n \in DOMAIN fields
        BY <1>6, <3>1, <3>2, <4>1
      <4>2. CASE k \in fresh /\ n \in fresh
        BY <1>5, <1>8, <3>2, <4>2
      <4>3. CASE k \in fresh /\ n \in DOMAIN fields
        BY <1>6, <1>7, <1>8, <1>9, <3>2, <4>3
      <4>4. CASE k \in DOMAIN fields /\ n \in fresh
        BY <1>6, <1>7, <1>8, <1>9, <3>2, <4>4
      <4> QED  BY <4>1, <4>2, <4>3, <4>4
    <3> HIDE DEF new
    <3> QED  BY <1>6, <3>2 DEF NoSharedNumber
  <2>5. NumbersOf(new) \cap (others \cup Gone(fields, wanted)) = {}
    <3>1. \A n \in DOMAIN fields : fields[n].protoNumber \notin others
      BY DEF Sound, NumbersOf
    <3>2. \A k, n \in DOMAIN fields :
             fields[k].protoNumber = fields[n].protoNumber => k = n
      BY DEF Sound, NoSharedNumber
    <3>3. \A x \in Gone(fields, wanted) : x \in used
               /\ \E n \in DOMAIN fields \ wanted : x = fields[n].protoNumber
      BY <1>7 DEF Gone
    <3>4. \A n \in wanted \cap DOMAIN fields :
             fields[n].protoNumber \notin others \cup Gone(fields, wanted)
      BY <3>1, <3>2, <3>3
    <3>5. \A n \in fresh : num(n) \notin others \cup Gone(fields, wanted)
      BY <1>9, <3>3
    <3> HIDE DEF new, fresh, num
    <3> QED  BY <1>10, <3>4, <3>5
  <2>6. CheckDenseNumberHistory(after)
    <3>1. SUFFICES ASSUME NEW x \in after, NEW y \in 1..x, ~IsProtobufReservedNumber(y)
                   PROVE  y \in after
      BY DEF CheckDenseNumberHistory
    <3>2. CheckDenseNumberHistory(used)
      BY DEF Sound
    <3>3. CASE y <= m
      <4>1. m \in used /\ y \in 1..m
        BY <1>1, <3>3
      <4>2. y \in used
        BY <3>1, <3>2, <4>1 DEF CheckDenseNumberHistory
      <4> QED  BY <1>11, <4>2
    <3>4. CASE y > m
      <4>1. PICK n \in fresh : x = num(n)
        BY <1>1, <1>11, <3>4
      <4>2. y \in Nat /\ m < y /\ y <= Allocate(m, Rank(n, fresh))
        BY <1>5, <3>4, <4>1
      <4>3. PICK j \in 1..Rank(n, fresh) : y = Allocate(m, j)
        <5> HIDE DEF fresh
        <5> QED  BY <1>1, <1>2, <1>4, <3>1, <4>1, <4>2, AllocateIsDense
      <4>4. PICK k \in fresh : Rank(k, fresh) = j
        BY <1>4
      <4>5. y = num(k)
        BY <4>3, <4>4
      <4> QED  BY <1>11, <4>5
    <3>5. x \in Nat /\ y \in Nat
      BY <2>3
    <3> QED  BY <1>1, <3>3, <3>4, <3>5
  <2>7. \E b \in Nat : \A x \in after : x <= b
    <3>1. PICK b \in Nat : \A n \in fresh : Rank(n, fresh) <= b
      BY <1>4
    <3> DEFINE top == m + b + (ReservedEnd - ReservedStart + 1)
    <3>2. top \in Nat /\ m <= top
      BY <1>1, ReservedRangeAssumption
    <3>3. \A n \in fresh : num(n) <= top
      <4>1. ASSUME NEW k \in Nat, k <= b PROVE Allocate(m, k) <= top
        BY <1>1, <4>1, ReservedRangeAssumption DEF Allocate
      <4> HIDE DEF top, fresh
      <4> QED  BY <1>4, <3>1, <4>1
    <3>4. \A x \in used : x <= top
      <4> HIDE DEF top, used
      <4> QED  BY <1>1, <3>2
    <3> HIDE DEF top, num, fresh
    <3> QED  BY <1>11, <3>2, <3>3, <3>4
  <2> HIDE DEF new
  <2> QED  BY <2>1, <2>2, <2>3, <2>4, <2>5, <2>6, <2>7 DEF Sound
<1>13. \A n \in fresh : new[n].protoNumber \notin used
  BY <1>8, <1>9
<1> QED
  <2> HIDE DEF new, Sound, NumbersOf, Extend
  <2> QED  BY <1>6, <1>12, <1>13 DEF ExtendsSoundly, new, m

-----------------------------------------------------------------------------
(* Locks *)

\* What the lock depends on of a registry that Validate let through.
RegistryShaped(reg) ==
    /\ DOMAIN reg.context \subseteq ContextNames
    /\ DOMAIN reg.events \subseteq Keys
    /\ \A k \in DOMAIN reg.events : DOMAIN reg.events[k] \subseteq PropertyNames

\* A lock as the program writes it: every message is Sound.
ReservedEntries ==
    [name : PropertyNames, stableID : PropertyNames, protoNumber : Nat, reason : {Removed}]

EntrySound(e) ==
    /\ e.reserved \subseteq ReservedEntries
    /\ \A r \in e.reserved : r.stableID = r.name
    /\ NoSharedReservedNumber(e.reserved)
    /\ Sound(e.properties, ReservedNumbers(e), PropertyNames)

LockSound(lock) ==
    /\ lock.version \in {0, LockVersion}
    /\ Sound(lock.context, {}, ContextNames)
    /\ DOMAIN lock.events \subseteq Keys
    /\ \A k \in DOMAIN lock.events :
          /\ lock.events[k].envelope = EnvelopeLock
          /\ lock.events[k].inOrder
          /\ EntrySound(lock.events[k])

\* A message without fields is sound to start from.
LEMMA EmptyIsSound ==
    ASSUME NEW names
    PROVE  Sound(EmptyMap, {}, names)
<1>1. DOMAIN EmptyMap = {} /\ NumbersOf(EmptyMap) = {}
  BY DEF EmptyMap, NumbersOf
<1>2. EmptyMap = [n \in DOMAIN EmptyMap |-> LockedField(n, EmptyMap[n].protoNumber)]
  BY DEF EmptyMap
<1>3. \E b \in Nat : \A x \in {} : x <= b
  OBVIOUS
<1> QED  BY <1>1, <1>2, <1>3 DEF Sound, NoSharedNumber, CheckDenseNumberHistory

\* An absent lock file reads as a sound lock.
LEMMA EmptyLockIsSound == LockSound(EmptyLock)
<1>1. EmptyLock.version = 0 /\ EmptyLock.context = EmptyMap /\ DOMAIN EmptyLock.events = {}
  BY DEF EmptyLock, EmptyMap
<1> QED  BY <1>1, EmptyIsSound DEF LockSound

\* So is the zero LockedEvent.
LEMMA NoEntryIsSound == EntrySound(NoEntry)
<1>1. NoEntry.reserved = {} /\ NoEntry.properties = EmptyMap
  BY DEF NoEntry
<1>2. ReservedNumbers(NoEntry) = {}
  BY <1>1 DEF ReservedNumbers
<1> QED  BY <1>1, <1>2, EmptyIsSound DEF EntrySound, NoSharedReservedNumber

\* The entry an update starts from is sound whether or not the lock has it.
LEMMA EntryOfIsSound ==
    ASSUME NEW lock, LockSound(lock), NEW key
    PROVE  EntrySound(EntryOf(lock, key))
BY NoEntryIsSound DEF LockSound, EntryOf

-----------------------------------------------------------------------------
(* UpdateLock keeps locks sound *)

\* One event's update: names that stay keep their number, names that come get
\* one the event never had, the numbers of names that go are reserved.
LEMMA UpdatedEventIsSound ==
    ASSUME NEW e, EntrySound(e), NEW wanted \in SUBSET PropertyNames
    PROVE  /\ EntrySound(UpdatedEvent(e, wanted))
           /\ \A n \in DOMAIN e.properties \cap wanted :
                 UpdatedEvent(e, wanted).properties[n] = e.properties[n]
           /\ \A n \in wanted \ DOMAIN e.properties :
                 UpdatedEvent(e, wanted).properties[n].protoNumber \notin History(e)
           /\ DOMAIN UpdatedEvent(e, wanted).properties = wanted
           /\ ReservedNumbers(UpdatedEvent(e, wanted))
                 = ReservedNumbers(e) \cup Gone(e.properties, wanted)
<1> DEFINE u    == UpdatedEvent(e, wanted)
           old  == ReservedNumbers(e)
           m    == MaxUsed(NumbersOf(e.properties) \cup old)
           gone == Gone(e.properties, wanted)
<1>1. /\ u.properties = Extend(e.properties, wanted, m)
      /\ u.reserved = e.reserved \cup Retired(e, wanted)
  BY DEF UpdatedEvent, History
<1>2. Sound(e.properties, old, PropertyNames)
  BY DEF EntrySound
<1>3. /\ \A n \in wanted \cap DOMAIN e.properties : u.properties[n] = e.properties[n]
      /\ \A n \in wanted \ DOMAIN e.properties :
            u.properties[n].protoNumber \notin NumbersOf(e.properties) \cup old
      /\ Sound(u.properties, old \cup gone, PropertyNames)
  <2>1. PropertyNames \in SUBSET Names
    BY DEF Names
  <2>2. ExtendsSoundly(e.properties, old, wanted, PropertyNames)
    <3> HIDE DEF old
    <3> QED  BY <1>2, <2>1, ExtendFacts
  <2> QED  BY <1>1, <2>2 DEF ExtendsSoundly
<1>4. \A n \in DOMAIN e.properties :
         /\ n \in PropertyNames
         /\ e.properties[n].stableID = n
         /\ e.properties[n].protoNumber \in NumbersOf(e.properties)
         /\ e.properties[n].protoNumber \in Nat
         /\ e.properties[n].protoNumber \notin old
  BY <1>2 DEF Sound, NumbersOf, LockedField
<1>5. \A r \in Retired(e, wanted) : \E n \in DOMAIN e.properties \ wanted :
         /\ r = [name |-> n, stableID |-> n,
                 protoNumber |-> e.properties[n].protoNumber, reason |-> Removed]
  BY <1>4 DEF Retired
<1>6. ReservedNumbers(u) = old \cup gone
  <2>1. \A x : x \in gone <=> \E r \in Retired(e, wanted) : x = r.protoNumber
    <3>1. ASSUME NEW x \in gone PROVE \E r \in Retired(e, wanted) : x = r.protoNumber
      <4>1. PICK n \in DOMAIN e.properties \ wanted : x = e.properties[n].protoNumber
        BY <3>1 DEF Gone
      <4> DEFINE r == [name |-> n, stableID |-> e.properties[n].stableID,
                       protoNumber |-> e.properties[n].protoNumber, reason |-> Removed]
      <4>2. r \in Retired(e, wanted) /\ r.protoNumber = x
        BY <4>1 DEF Retired
      <4> QED  BY <4>2
    <3>2. ASSUME NEW r \in Retired(e, wanted) PROVE r.protoNumber \in gone
      BY <1>5 DEF Gone
    <3> QED  BY <3>1, <3>2
  <2> HIDE DEF u, gone
  <2>2. \A x : x \in ReservedNumbers(u) <=> \E r \in u.reserved : x = r.protoNumber
    BY DEF ReservedNumbers
  <2>3. \A x : x \in old <=> \E r \in e.reserved : x = r.protoNumber
    BY DEF ReservedNumbers
  <2> HIDE DEF old
  <2> QED  BY <1>1, <2>1, <2>2, <2>3
<1>7. u.reserved \subseteq ReservedEntries /\ \A r \in u.reserved : r.stableID = r.name
  <2>1. ASSUME NEW r \in Retired(e, wanted)
        PROVE  r \in ReservedEntries /\ r.stableID = r.name
    <3>1. PICK n \in DOMAIN e.properties \ wanted :
             r = [name |-> n, stableID |-> n,
                  protoNumber |-> e.properties[n].protoNumber, reason |-> Removed]
      BY <1>5
    <3> QED  BY <1>4, <3>1 DEF ReservedEntries
  <2> QED  BY <1>1, <2>1 DEF EntrySound
<1>8. NoSharedReservedNumber(u.reserved)
  <2>1. SUFFICES ASSUME NEW r \in u.reserved, NEW s \in u.reserved,
                        r.protoNumber = s.protoNumber
                 PROVE  r = s
    BY DEF NoSharedReservedNumber
  <2>2. \A q \in e.reserved : q.protoNumber \in old
    BY DEF ReservedNumbers
  <2>3. \A q \in Retired(e, wanted) : q.protoNumber \notin old
    BY <1>4, <1>5
  <2>4. CASE r \in e.reserved /\ s \in e.reserved
    BY <2>1, <2>4 DEF EntrySound, NoSharedReservedNumber
  <2>5. CASE r \in Retired(e, wanted) /\ s \in Retired(e, wanted)
    <3>1. PICK k \in DOMAIN e.properties : 
             r = [name |-> k, stableID |-> k,
                  protoNumber |-> e.properties[k].protoNumber, reason |-> Removed]
      BY <1>5, <2>5
    <3>2. PICK n \in DOMAIN e.properties : 
             s = [name |-> n, stableID |-> n,
                  protoNumber |-> e.properties[n].protoNumber, reason |-> Removed]
      BY <1>5, <2>5
    <3>3. e.properties[k].protoNumber = e.properties[n].protoNumber
      BY <2>1, <3>1, <3>2
    <3>4. k = n
      BY <1>2, <3>3 DEF Sound, NoSharedNumber
    <3> QED  BY <3>1, <3>2, <3>4
  <2> HIDE DEF u, old
  <2> QED  BY <1>1, <2>1, <2>2, <2>3, <2>4, <2>5
<1>9. DOMAIN u.properties = wanted
  BY <1>1 DEF Extend
<1>10. EntrySound(u)
  <2> HIDE DEF u, old, gone
  <2> QED  BY <1>3, <1>6, <1>7, <1>8 DEF EntrySound
<1> QED  BY <1>3, <1>6, <1>9, <1>10 DEF History

\* A whole update, for any registry: context numbers are kept for good, new
\* ones are fresh, and every event of the new lock is sound.
LEMMA UpdateLockIsSound ==
    ASSUME NEW lock, LockSound(lock), NEW reg, RegistryShaped(reg)
    PROVE  /\ LockSound(UpdateLock(lock, reg))
           /\ \A n \in DOMAIN lock.context :
                 UpdateLock(lock, reg).context[n] = lock.context[n]
           /\ \A n \in DOMAIN reg.context \ DOMAIN lock.context :
                 UpdateLock(lock, reg).context[n].protoNumber \notin NumbersOf(lock.context)
           /\ DOMAIN UpdateLock(lock, reg).context = DOMAIN lock.context \cup DOMAIN reg.context
<1> DEFINE new    == UpdateLock(lock, reg)
           wanted == DOMAIN lock.context \cup DOMAIN reg.context
           m      == MaxUsed(NumbersOf(lock.context) \cup {})
<1>1. new.version = LockVersion
      /\ new.context = Extend(lock.context, wanted, m)
      /\ new.events = [k \in DOMAIN reg.events |->
                          UpdatedEvent(EntryOf(lock, k), DOMAIN reg.events[k])]
  <2>1. NumbersOf(lock.context) \cup {} = NumbersOf(lock.context)
    OBVIOUS
  <2> QED  BY <2>1 DEF UpdateLock
<1>2. Sound(lock.context, {}, ContextNames) /\ DOMAIN lock.context \subseteq ContextNames
  BY DEF LockSound, Sound
<1>3. wanted \in SUBSET ContextNames /\ ContextNames \in SUBSET Names
  BY <1>2 DEF Names, RegistryShaped
<1>4. Gone(lock.context, wanted) = {}
  BY DEF Gone
<1>5. /\ \A n \in wanted \cap DOMAIN lock.context : new.context[n] = lock.context[n]
      /\ \A n \in wanted \ DOMAIN lock.context :
            new.context[n].protoNumber \notin NumbersOf(lock.context)
      /\ Sound(new.context, {}, ContextNames)
  <2>1. {} \cup Gone(lock.context, wanted) = {}
    BY <1>4
  <2>2. ExtendsSoundly(lock.context, {}, wanted, ContextNames)
    <3> HIDE DEF wanted
    <3> QED  BY <1>2, <1>3, ExtendFacts
  <2>3. NumbersOf(lock.context) \cup {} = NumbersOf(lock.context)
    OBVIOUS
  <2> QED  BY <1>1, <2>1, <2>2, <2>3 DEF ExtendsSoundly
<1>6. DOMAIN new.events \subseteq Keys
  BY <1>1 DEF RegistryShaped
<1>7. ASSUME NEW k \in DOMAIN new.events
      PROVE  /\ new.events[k].envelope = EnvelopeLock
             /\ new.events[k].inOrder
             /\ EntrySound(new.events[k])
  <2>1. k \in DOMAIN reg.events /\ DOMAIN reg.events[k] \in SUBSET PropertyNames
    BY <1>1, <1>7 DEF RegistryShaped
  <2>2. new.events[k] = UpdatedEvent(EntryOf(lock, k), DOMAIN reg.events[k])
    BY <1>1, <2>1
  <2> HIDE DEF new
  <2>3. EntrySound(new.events[k])
    BY <2>1, <2>2, EntryOfIsSound, UpdatedEventIsSound
  <2> QED  BY <2>2, <2>3 DEF UpdatedEvent
<1>8. LockSound(new)
  <2> HIDE DEF new
  <2> QED  BY <1>1, <1>5, <1>6, <1>7 DEF LockSound
<1>9. DOMAIN new.context = wanted
  BY <1>1 DEF Extend
<1> QED  BY <1>5, <1>8, <1>9

-----------------------------------------------------------------------------
(* What an event's entry remembers *)

\* The number x is under the name n, in use or reserved.
Remembers(e, n, x) ==
    \/ n \in DOMAIN e.properties /\ e.properties[n].protoNumber = x
    \/ \E r \in e.reserved : r.name = n /\ r.protoNumber = x

\* An update forgets nothing: what leaves the registry is reserved.
LEMMA UpdateRemembers ==
    ASSUME NEW e, EntrySound(e), NEW wanted \in SUBSET PropertyNames,
           NEW n, NEW x, Remembers(e, n, x)
    PROVE  Remembers(UpdatedEvent(e, wanted), n, x)
<1> DEFINE u == UpdatedEvent(e, wanted)
<1>1. /\ \A m \in DOMAIN e.properties \cap wanted : u.properties[m] = e.properties[m]
      /\ DOMAIN u.properties = wanted
  BY UpdatedEventIsSound
<1>2. u.reserved = e.reserved \cup Retired(e, wanted)
  BY DEF UpdatedEvent
<1> HIDE DEF u
<1>3. CASE n \in DOMAIN e.properties \cap wanted /\ e.properties[n].protoNumber = x
  BY <1>1, <1>3 DEF Remembers, u
<1>4. CASE n \in DOMAIN e.properties \ wanted /\ e.properties[n].protoNumber = x
  <2> DEFINE r == [name |-> n, stableID |-> e.properties[n].stableID,
                   protoNumber |-> e.properties[n].protoNumber, reason |-> Removed]
  <2>1. r \in Retired(e, wanted) /\ r.name = n /\ r.protoNumber = x
    BY <1>4 DEF Retired
  <2> QED  BY <1>2, <2>1 DEF Remembers, u
<1>5. CASE \E r \in e.reserved : r.name = n /\ r.protoNumber = x
  BY <1>2, <1>5 DEF Remembers, u
<1> QED  BY <1>3, <1>4, <1>5 DEF Remembers

\* A number is remembered under one name.
LEMMA RememberedOnce ==
    ASSUME NEW e, EntrySound(e), NEW m, NEW n, NEW x, Remembers(e, m, x), Remembers(e, n, x)
    PROVE  m = n
<1>1. /\ NoSharedNumber(e.properties)
      /\ NoSharedReservedNumber(e.reserved)
      /\ \A i \in DOMAIN e.properties, r \in e.reserved :
            e.properties[i].protoNumber # r.protoNumber
  BY DEF EntrySound, Sound, NumbersOf, ReservedNumbers
<1> QED  BY <1>1 DEF Remembers, NoSharedNumber, NoSharedReservedNumber

-----------------------------------------------------------------------------
(* An update is a step of the abstract ledger of numbers *)

\* Its steps look at two ledgers, whatever scopes and states there are.
Abstract == INSTANCE NumberLedger WITH
    EventScopes <- Keys, Context <- EmptyMap, ledger <- EmptyMap

\* The ledger of one scope of a lock.
EventLedger(entry) == LedgerOf(entry.properties, entry.reserved)
ContextLedger(lock) == LedgerOf(lock.context, {})

\* The two ways to say which numbers are in a list or a map agree.
LEMMA LedgerReads ==
    ASSUME NEW fields, NEW reserved
    PROVE  LET l == LedgerOf(fields, reserved)
           IN  /\ DOMAIN l.active = DOMAIN fields
               /\ \A n \in DOMAIN fields : l.active[n] = fields[n].protoNumber
               /\ Abstract!NumbersIn(l.active) = NumbersOf(fields)
               /\ l.retired = {r.protoNumber : r \in reserved}
BY DEF LedgerOf, Abstract!NumbersIn, NumbersOf

\* An empty message has the blank ledger.
LEMMA NothingIsBlank == LedgerOf(EmptyMap, {}) = Abstract!Blank
<1>1. DOMAIN EmptyMap = {}
  BY DEF EmptyMap
<1>2. [n \in DOMAIN EmptyMap |-> EmptyMap[n].protoNumber] = [n \in {} |-> n]
  BY <1>1
<1>3. {r.protoNumber : r \in {}} = {}
  OBVIOUS
<1> QED  BY <1>2, <1>3 DEF LedgerOf, Abstract!Blank

\* An event's update is a revision of its ledger.
LEMMA EventIsRevised ==
    ASSUME NEW e, EntrySound(e), NEW wanted \in SUBSET PropertyNames
    PROVE  Abstract!Revised(EventLedger(e), EventLedger(UpdatedEvent(e, wanted)))
<1> DEFINE u   == UpdatedEvent(e, wanted)
           old == EventLedger(e)
           new == EventLedger(u)
<1>1. /\ EntrySound(u)
      /\ \A n \in DOMAIN e.properties \cap wanted : u.properties[n] = e.properties[n]
      /\ \A n \in wanted \ DOMAIN e.properties : u.properties[n].protoNumber \notin History(e)
      /\ DOMAIN u.properties = wanted
      /\ ReservedNumbers(u) = ReservedNumbers(e) \cup Gone(e.properties, wanted)
  BY UpdatedEventIsSound
<1> HIDE DEF u
<1>2. /\ DOMAIN old.active = DOMAIN e.properties
      /\ \A n \in DOMAIN e.properties : old.active[n] = e.properties[n].protoNumber
      /\ Abstract!NumbersIn(old.active) = NumbersOf(e.properties)
      /\ old.retired = ReservedNumbers(e)
  BY LedgerReads DEF EventLedger, ReservedNumbers
<1>3. /\ DOMAIN new.active = wanted
      /\ \A n \in wanted : new.active[n] = u.properties[n].protoNumber
      /\ new.retired = ReservedNumbers(e) \cup Gone(e.properties, wanted)
  BY <1>1, LedgerReads DEF EventLedger, ReservedNumbers
<1> HIDE DEF old, new
<1>4. Gone(e.properties, wanted)
        = {old.active[n] : n \in DOMAIN old.active \ DOMAIN new.active}
  BY <1>2, <1>3 DEF Gone
<1>5. \A n \in wanted : u.properties[n].protoNumber \in Nat
  BY <1>1 DEF EntrySound, Sound, NumbersOf
<1>6. \A m, n \in wanted : u.properties[m].protoNumber = u.properties[n].protoNumber => m = n
  BY <1>1 DEF EntrySound, Sound, NoSharedNumber
<1>7. wanted \subseteq Names
  BY DEF Names
<1>8. Abstract!Revised(old, new)
  BY <1>1, <1>2, <1>3, <1>4, <1>5, <1>6, <1>7 DEF Abstract!Revised, History
<1> QED  BY <1>8 DEF old, new, u

\* So is the context's, and nothing of it is retired.
LEMMA ContextIsRevised ==
    ASSUME NEW lock, LockSound(lock), NEW reg, RegistryShaped(reg)
    PROVE  /\ Abstract!Revised(ContextLedger(lock), ContextLedger(UpdateLock(lock, reg)))
           /\ ContextLedger(UpdateLock(lock, reg)).retired = {}
<1> DEFINE up  == UpdateLock(lock, reg)
           old == ContextLedger(lock)
           new == ContextLedger(up)
<1>1. /\ LockSound(up)
      /\ \A n \in DOMAIN lock.context : up.context[n] = lock.context[n]
      /\ \A n \in DOMAIN reg.context \ DOMAIN lock.context :
            up.context[n].protoNumber \notin NumbersOf(lock.context)
      /\ DOMAIN up.context = DOMAIN lock.context \cup DOMAIN reg.context
  BY UpdateLockIsSound
<1> HIDE DEF up
<1>2. /\ DOMAIN old.active = DOMAIN lock.context
      /\ \A n \in DOMAIN lock.context : old.active[n] = lock.context[n].protoNumber
      /\ Abstract!NumbersIn(old.active) = NumbersOf(lock.context)
      /\ old.retired = {}
  BY LedgerReads DEF ContextLedger
<1>3. /\ DOMAIN new.active = DOMAIN up.context
      /\ \A n \in DOMAIN up.context : new.active[n] = up.context[n].protoNumber
      /\ new.retired = {}
  BY LedgerReads DEF ContextLedger
<1> HIDE DEF old, new
<1>4. {old.active[n] : n \in DOMAIN old.active \ DOMAIN new.active} = {}
  BY <1>1, <1>2, <1>3
<1>5. Sound(up.context, {}, ContextNames)
  BY <1>1 DEF LockSound
<1>6. \A n \in DOMAIN up.context : up.context[n].protoNumber \in Nat
  BY <1>5 DEF Sound, NumbersOf
<1>7. \A m, n \in DOMAIN up.context :
         up.context[m].protoNumber = up.context[n].protoNumber => m = n
  BY <1>5 DEF Sound, NoSharedNumber
<1>8. DOMAIN up.context \subseteq Names
  BY <1>5 DEF Sound, Names
<1>9. Abstract!Revised(old, new)
  BY <1>1, <1>2, <1>3, <1>4, <1>6, <1>7, <1>8 DEF Abstract!Revised
<1> QED  BY <1>3, <1>9 DEF old, new, up

\* Every scope is revised at once; what the registry has not is forgotten.
LEMMA UpdateIsRevision ==
    ASSUME NEW lock, LockSound(lock), NEW reg, RegistryShaped(reg)
    PROVE  LET new == UpdateLock(lock, reg)
           IN  /\ Abstract!Revised(ContextLedger(lock), ContextLedger(new))
               /\ ContextLedger(new).retired = {}
               /\ \A k \in Keys :
                     \/ Abstract!Revised(EventLedger(EntryOf(lock, k)), EventLedger(EntryOf(new, k)))
                     \/ EventLedger(EntryOf(new, k)) = Abstract!Blank
<1> DEFINE new == UpdateLock(lock, reg)
<1>1. ASSUME NEW k \in Keys
      PROVE  \/ Abstract!Revised(EventLedger(EntryOf(lock, k)), EventLedger(EntryOf(new, k)))
             \/ EventLedger(EntryOf(new, k)) = Abstract!Blank
  <2>1. CASE k \in DOMAIN reg.events
    <3>1. EntryOf(new, k) = UpdatedEvent(EntryOf(lock, k), DOMAIN reg.events[k])
      BY <2>1 DEF UpdateLock, EntryOf
    <3>2. DOMAIN reg.events[k] \in SUBSET PropertyNames
      BY <2>1 DEF RegistryShaped
    <3> QED  BY <3>1, <3>2, EntryOfIsSound, EventIsRevised
  <2>2. CASE k \notin DOMAIN reg.events
    <3>1. EntryOf(new, k) = NoEntry
      BY <2>2 DEF UpdateLock, EntryOf
    <3>2. NoEntry.properties = EmptyMap /\ NoEntry.reserved = {}
      BY DEF NoEntry
    <3> QED  BY <3>1, <3>2, NothingIsBlank DEF EventLedger
  <2> QED  BY <2>1, <2>2
<1> HIDE DEF new
<1> QED  BY <1>1, ContextIsRevised DEF new

-----------------------------------------------------------------------------
(* Sound locks are accepted *)

\* The envelope UpdateLock writes passes the validators.
LEMMA EnvelopeFacts ==
    /\ DOMAIN EnvelopeLock = DOMAIN EnvelopeNumbers
    /\ StableIDsMatch(EnvelopeLock, DOMAIN EnvelopeNumbers)
    /\ \A x \in NumbersOf(EnvelopeLock) : x \in 1..7
    /\ NoSharedNumber(EnvelopeLock)
<1>1. /\ \A n \in DOMAIN EnvelopeNumbers : EnvelopeLock[n] = LockedField(n, EnvelopeNumbers[n])
      /\ DOMAIN EnvelopeLock = DOMAIN EnvelopeNumbers
  BY DEF EnvelopeLock
<1>2. /\ \A n \in DOMAIN EnvelopeNumbers : EnvelopeNumbers[n] \in 1..7
      /\ \A m, n \in DOMAIN EnvelopeNumbers : EnvelopeNumbers[m] = EnvelopeNumbers[n] => m = n
  BY DEF EnvelopeNumbers
<1> QED  BY <1>1, <1>2 DEF StableIDsMatch, NumbersOf, NoSharedNumber, LockedField

\* No validator of UpdateLock refuses a sound lock, whatever the registry.
LEMMA SoundIsAccepted ==
    ASSUME NEW lock, LockSound(lock), NEW reg
    PROVE  UpdateAccepts(lock, reg)
<1>1. /\ \A n \in DOMAIN lock.context : lock.context[n].stableID = n
      /\ NoSharedNumber(lock.context)
      /\ \A x \in NumbersOf(lock.context) : ValidProtoNumber(x)
      /\ CheckDenseNumberHistory(NumbersOf(lock.context))
  <2>1. Sound(lock.context, {}, ContextNames)
    BY DEF LockSound
  <2>2. NumbersOf(lock.context) \cup {} = NumbersOf(lock.context)
    OBVIOUS
  <2>3. \A n \in DOMAIN lock.context : lock.context[n].stableID = n
    BY <2>1 DEF Sound, LockedField
  <2> QED  BY <2>1, <2>2, <2>3 DEF Sound
<1>2. ASSUME NEW k \in DOMAIN lock.events
      PROVE  LET e == lock.events[k]
             IN  /\ e.envelope = EnvelopeLock
                 /\ \A n \in DOMAIN e.properties : e.properties[n].stableID = n
                 /\ \A r \in e.reserved : ValidReserved(r)
                 /\ \A x \in History(e) : ValidProtoNumber(x)
                 /\ CheckDuplicateNumbers(e.properties, e.reserved)
                 /\ CheckDenseNumberHistory(History(e))
  <2> DEFINE e == lock.events[k]
  <2>1. e.envelope = EnvelopeLock /\ EntrySound(e)
    BY DEF LockSound
  <2>2. Sound(e.properties, ReservedNumbers(e), PropertyNames)
    BY <2>1 DEF EntrySound
  <2> HIDE DEF e
  <2>3. \A n \in DOMAIN e.properties : e.properties[n].stableID = n
    BY <2>2 DEF Sound, LockedField
  <2>4. \A r \in e.reserved : ValidReserved(r)
    <3>1. 0 \notin PropertyNames
      BY NamesAssumption DEF Names
    <3> QED  BY <2>1, <3>1 DEF EntrySound, ReservedEntries, ValidReserved
  <2>5. \A x \in History(e) : ValidProtoNumber(x)
    BY <2>2 DEF Sound, History
  <2>6. CheckDuplicateNumbers(e.properties, e.reserved)
    <3>1. \A n \in DOMAIN e.properties, r \in e.reserved :
             e.properties[n].protoNumber # r.protoNumber
      BY <2>2 DEF Sound, NumbersOf, ReservedNumbers
    <3> QED  BY <2>1, <2>2, <3>1 DEF CheckDuplicateNumbers, Sound, EntrySound
  <2>7. CheckDenseNumberHistory(History(e))
    BY <2>2 DEF Sound, History
  <2> QED  BY <2>1, <2>3, <2>4, <2>5, <2>6, <2>7 DEF e
<1>3. ValidateLockNumbers(lock)
  <2>1. \A x \in NumbersOf(EnvelopeLock) : ValidProtoNumber(x)
    BY EnvelopeFacts, ReservedRangeAssumption
       DEF ValidProtoNumber, IsProtobufReservedNumber
  <2> QED  BY <1>1, <1>2, <2>1 DEF ValidateLockNumbers
<1>4. ValidateActiveStableIDs(lock, reg)
  BY <1>1, <1>2, EnvelopeFacts DEF ValidateActiveStableIDs, StableIDsMatch
<1>5. ValidateReservedFieldIdentities(lock, reg)
  BY <1>2 DEF ValidateReservedFieldIdentities
<1>6. ValidateLockDuplicates(lock)
  <2>1. CheckDuplicateNumbers(lock.context, {}) /\ CheckDuplicateNumbers(EnvelopeLock, {})
    BY <1>1, EnvelopeFacts DEF CheckDuplicateNumbers, NoSharedReservedNumber
  <2> QED  BY <1>2, <2>1 DEF ValidateLockDuplicates
<1>7. ValidateLockNumberHistory(lock)
  BY <1>1, <1>2 DEF ValidateLockNumberHistory
<1> QED  BY <1>3, <1>4, <1>5, <1>6, <1>7 DEF UpdateAccepts

-----------------------------------------------------------------------------
(* An update settles *)

\* Nothing is left to number or retire once every wanted name is there.
LEMMA NothingToExtend ==
    ASSUME NEW fields, fields = [n \in DOMAIN fields |-> fields[n]], NEW max
    PROVE  Extend(fields, DOMAIN fields, max) = fields
BY DEF Extend

\* A second update of an event changes nothing.
LEMMA EventSettles ==
    ASSUME NEW e, EntrySound(e), NEW wanted \in SUBSET PropertyNames
    PROVE  UpdatedEvent(UpdatedEvent(e, wanted), wanted) = UpdatedEvent(e, wanted)
<1> DEFINE u == UpdatedEvent(e, wanted)
<1>1. /\ DOMAIN u.properties = wanted
      /\ u.properties = [n \in DOMAIN u.properties |-> u.properties[n]]
      /\ u = [envelope |-> EnvelopeLock, properties |-> u.properties,
              reserved |-> u.reserved, inOrder |-> TRUE]
  BY DEF UpdatedEvent, Extend
<1> HIDE DEF u
<1>2. Extend(u.properties, wanted, MaxUsed(History(u))) = u.properties
  BY <1>1, NothingToExtend
<1>3. Retired(u, wanted) = {}
  BY <1>1 DEF Retired
<1>4. UpdatedEvent(u, wanted) = u
  BY <1>1, <1>2, <1>3 DEF UpdatedEvent
<1> QED  BY <1>4 DEF u

\* A second update of a lock changes nothing.
LEMMA LockSettles ==
    ASSUME NEW lock, LockSound(lock), NEW reg, RegistryShaped(reg)
    PROVE  UpdateLock(UpdateLock(lock, reg), reg) = UpdateLock(lock, reg)
<1> DEFINE new    == UpdateLock(lock, reg)
           wanted == DOMAIN lock.context \cup DOMAIN reg.context
<1>1. /\ DOMAIN new.context = wanted
      /\ new.context = [n \in DOMAIN new.context |-> new.context[n]]
  BY DEF UpdateLock, Extend
<1>2. /\ new.events = [k \in DOMAIN reg.events |->
                         UpdatedEvent(EntryOf(lock, k), DOMAIN reg.events[k])]
      /\ new = [version |-> LockVersion, context |-> new.context, events |-> new.events]
  BY DEF UpdateLock
<1> HIDE DEF new
<1>3. wanted \cup DOMAIN reg.context = wanted
  OBVIOUS
<1>4. Extend(new.context, DOMAIN new.context \cup DOMAIN reg.context,
             MaxUsed(NumbersOf(new.context))) = new.context
  BY <1>1, <1>3, NothingToExtend
<1>5. ASSUME NEW k \in DOMAIN reg.events
      PROVE  UpdatedEvent(EntryOf(new, k), DOMAIN reg.events[k]) = new.events[k]
  <2>1. EntryOf(new, k) = new.events[k]
    BY <1>2 DEF EntryOf
  <2>2. EntrySound(EntryOf(lock, k)) /\ DOMAIN reg.events[k] \in SUBSET PropertyNames
    BY EntryOfIsSound DEF RegistryShaped
  <2> QED  BY <1>2, <2>1, <2>2, EventSettles
<1>6. [k \in DOMAIN reg.events |-> UpdatedEvent(EntryOf(new, k), DOMAIN reg.events[k])]
        = new.events
  BY <1>2, <1>5
<1>7. UpdateLock(new, reg) = new
  BY <1>2, <1>4, <1>6 DEF UpdateLock
<1> QED  BY <1>7 DEF new

\* A sound lock that an update leaves alone passes CheckLock.
LEMMA SettledPassesCheck ==
    ASSUME NEW lock, LockSound(lock), NEW reg, RegistryShaped(reg),
           UpdateLock(lock, reg) = lock
    PROVE  CheckLock(lock, reg)
<1>1. lock.version = LockVersion /\ DOMAIN lock.events = DOMAIN reg.events
  <2>1. UpdateLock(lock, reg).version = LockVersion
        /\ DOMAIN UpdateLock(lock, reg).events = DOMAIN reg.events
    BY DEF UpdateLock
  <2> QED  BY <2>1
<1>2. \A fields : HoldsFields(fields, fields)
  BY DEF HoldsFields
<1>3. ASSUME NEW k \in DOMAIN reg.events
      PROVE  CompareEvent(lock.events[k], lock.events[k])
  <2>1. lock.events[k].inOrder /\ NoSharedReservedNumber(lock.events[k].reserved)
    BY <1>1 DEF LockSound, EntrySound
  <2> QED  BY <1>2, <2>1 DEF CompareEvent, CompareReservedFields
<1>4. UpdateAccepts(lock, reg)
  BY SoundIsAccepted
<1> QED  BY <1>1, <1>2, <1>3, <1>4 DEF CheckLock

-----------------------------------------------------------------------------
(* Locks as they are decoded: not every one is sound *)

Bounded(numbers) == \E b \in Nat : \A x \in numbers : x <= b

FieldsShaped(fields, names) ==
    /\ DOMAIN fields \subseteq names
    /\ fields \in [DOMAIN fields -> [stableID : names, protoNumber : Int]]

ReservedShape ==
    [name : PropertyNames \cup {0}, stableID : PropertyNames, protoNumber : Int,
     reason : {Removed, "because"}]

EntryShaped(e) ==
    /\ e = [envelope |-> e.envelope, properties |-> e.properties,
            reserved |-> e.reserved, inOrder |-> e.inOrder]
    /\ FieldsShaped(e.envelope, DOMAIN EnvelopeNumbers \cup {"unknown"})
    /\ FieldsShaped(e.properties, PropertyNames)
    /\ e.reserved \subseteq ReservedShape
    /\ e.inOrder \in BOOLEAN
    /\ Bounded(History(e))

LockShaped(lock) ==
    /\ lock = [version |-> lock.version, context |-> lock.context, events |-> lock.events]
    /\ FieldsShaped(lock.context, ContextNames)
    /\ Bounded(NumbersOf(lock.context))
    /\ lock.events = [k \in DOMAIN lock.events |-> lock.events[k]]
    /\ \A k \in DOMAIN lock.events : EntryShaped(lock.events[k])

-----------------------------------------------------------------------------
(* Locks the program writes are in the decoder's shape *)

\* Fields of a sound message.
LEMMA SoundIsShaped ==
    ASSUME NEW fields, NEW others, NEW names, Sound(fields, others, names)
    PROVE  /\ FieldsShaped(fields, names)
           /\ Bounded(NumbersOf(fields) \cup others)
           /\ Bounded(NumbersOf(fields))
<1>1. /\ fields = [n \in DOMAIN fields |-> LockedField(n, fields[n].protoNumber)]
      /\ DOMAIN fields \subseteq names
      /\ \A n \in DOMAIN fields : fields[n].protoNumber \in Nat
      /\ \E b \in Nat : \A x \in NumbersOf(fields) \cup others : x <= b
  BY DEF Sound, NumbersOf
<1>2. \A n \in DOMAIN fields : fields[n] = LockedField(n, fields[n].protoNumber)
  BY <1>1
<1>3. \A n \in DOMAIN fields : fields[n] \in [stableID : names, protoNumber : Int]
  <2> SUFFICES ASSUME NEW n \in DOMAIN fields
               PROVE  fields[n] \in [stableID : names, protoNumber : Int]
    OBVIOUS
  <2>1. n \in names /\ fields[n].protoNumber \in Int
    BY <1>1
  <2>2. fields[n] = [stableID |-> n, protoNumber |-> fields[n].protoNumber]
    BY <1>2 DEF LockedField
  <2> DEFINE x == fields[n].protoNumber
  <2>3. [stableID |-> n, protoNumber |-> x] \in [stableID : names, protoNumber : Int]
    BY <2>1
  <2> QED  BY <2>2, <2>3
<1>4. fields = [n \in DOMAIN fields |-> fields[n]]
  BY <1>1
<1> QED  BY <1>1, <1>3, <1>4 DEF FieldsShaped, Bounded

\* The zero Lock that an absent file decodes to.
LEMMA EmptyIsShaped == LockShaped(EmptyLock)
<1>1. /\ EmptyLock = [version |-> 0, context |-> EmptyMap, events |-> EmptyMap]
      /\ DOMAIN EmptyMap = {} /\ EmptyMap = [x \in DOMAIN EmptyMap |-> EmptyMap[x]]
  BY DEF EmptyLock, EmptyMap
<1>2. FieldsShaped(EmptyMap, ContextNames) /\ Bounded(NumbersOf(EmptyMap))
  BY EmptyIsSound, SoundIsShaped
<1> QED  BY <1>1, <1>2 DEF LockShaped

\* What UpdateLock makes of a sound lock.
LEMMA UpdatedIsShaped ==
    ASSUME NEW lock, LockSound(lock), NEW reg, RegistryShaped(reg)
    PROVE  LockShaped(UpdateLock(lock, reg))
<1> DEFINE new == UpdateLock(lock, reg)
<1>1. LockSound(new)
  BY UpdateLockIsSound
<1>2. /\ new = [version |-> LockVersion, context |-> new.context, events |-> new.events]
      /\ DOMAIN new.events = DOMAIN reg.events
      /\ new.events = [k \in DOMAIN new.events |-> new.events[k]]
      /\ \A k \in DOMAIN reg.events :
            new.events[k] = UpdatedEvent(EntryOf(lock, k), DOMAIN reg.events[k])
  BY DEF UpdateLock
<1> HIDE DEF new
<1>3. FieldsShaped(new.context, ContextNames) /\ Bounded(NumbersOf(new.context))
  BY <1>1, SoundIsShaped DEF LockSound
<1>4. ASSUME NEW k \in DOMAIN new.events
      PROVE  EntryShaped(new.events[k])
  <2> DEFINE e == new.events[k]
  <2>1. e = [envelope |-> e.envelope, properties |-> e.properties,
             reserved |-> e.reserved, inOrder |-> e.inOrder]
        /\ e.inOrder = TRUE
    <3>1. k \in DOMAIN reg.events
      BY <1>2
    <3>2. e = UpdatedEvent(EntryOf(lock, k), DOMAIN reg.events[k])
      BY <1>2, <3>1
    <3> HIDE DEF e
    <3> QED  BY <3>2 DEF UpdatedEvent
  <2>2. e.envelope = EnvelopeLock /\ EntrySound(e)
    BY <1>1 DEF LockSound
  <2> HIDE DEF e
  <2>3. FieldsShaped(e.properties, PropertyNames) /\ Bounded(History(e))
    BY <2>2, SoundIsShaped DEF EntrySound, History
  <2>4. FieldsShaped(EnvelopeLock, DOMAIN EnvelopeNumbers \cup {"unknown"})
    <3>1. \A n \in DOMAIN EnvelopeNumbers : EnvelopeNumbers[n] \in Int
      BY DEF EnvelopeNumbers
    <3> QED  BY <3>1 DEF FieldsShaped, EnvelopeLock, LockedField
  <2>5. e.reserved \subseteq ReservedShape
    BY <2>2 DEF EntrySound, ReservedEntries, ReservedShape
  <2> QED  BY <2>1, <2>2, <2>3, <2>4, <2>5 DEF EntryShaped, e
<1>5. LockShaped(new)
  BY <1>2, <1>3, <1>4 DEF LockShaped
<1> QED  BY <1>5 DEF new

-----------------------------------------------------------------------------
(* CheckLock and UpdateLock *)

\* A map that holds every field of another one and has no field besides is
\* that one.
LEMMA HoldsIsEqual ==
    ASSUME NEW actual, NEW expected,
           actual = [n \in DOMAIN actual |-> actual[n]],
           expected = [n \in DOMAIN expected |-> expected[n]],
           HoldsFields(actual, expected), DOMAIN actual \subseteq DOMAIN expected
    PROVE  actual = expected
BY DEF HoldsFields

\* What CheckLock accepts an update would leave as it is: its comparison of
\* fields, events and reserved lists misses nothing.
LEMMA CheckedIsSettled ==
    ASSUME NEW lock, LockShaped(lock), NEW reg, CheckLock(lock, reg)
    PROVE  UpdateLock(lock, reg) = lock
<1> DEFINE new == UpdateLock(lock, reg)
<1>1. /\ lock = [version |-> lock.version, context |-> lock.context, events |-> lock.events]
      /\ FieldsShaped(lock.context, ContextNames)
      /\ lock.events = [k \in DOMAIN lock.events |-> lock.events[k]]
      /\ \A k \in DOMAIN lock.events : EntryShaped(lock.events[k])
  BY DEF LockShaped
<1>2. /\ new = [version |-> LockVersion, context |-> new.context, events |-> new.events]
      /\ DOMAIN new.context = DOMAIN lock.context \cup DOMAIN reg.context
      /\ new.context = [n \in DOMAIN new.context |-> new.context[n]]
      /\ DOMAIN new.events = DOMAIN reg.events
      /\ new.events = [k \in DOMAIN new.events |-> new.events[k]]
      /\ \A k \in DOMAIN reg.events :
            new.events[k] = UpdatedEvent(EntryOf(lock, k), DOMAIN reg.events[k])
  BY DEF UpdateLock, Extend
<1>3. /\ lock.version = LockVersion
      /\ HoldsFields(lock.context, new.context)
      /\ DOMAIN lock.events \subseteq DOMAIN new.events
      /\ \A k \in DOMAIN reg.events :
            k \in DOMAIN lock.events /\ CompareEvent(lock.events[k], new.events[k])
  BY DEF CheckLock
<1> HIDE DEF new
<1>4. lock.context = new.context
  <2>1. lock.context = [n \in DOMAIN lock.context |-> lock.context[n]]
    BY <1>1 DEF FieldsShaped
  <2> QED  BY <1>2, <1>3, <2>1, HoldsIsEqual
<1>5. DOMAIN lock.events = DOMAIN new.events
  BY <1>2, <1>3
<1>6. ASSUME NEW k \in DOMAIN lock.events
      PROVE  lock.events[k] = new.events[k]
  <2> DEFINE e == lock.events[k]
             u == new.events[k]
             wanted == DOMAIN reg.events[k]
  <2>1. k \in DOMAIN reg.events
    BY <1>2, <1>5
  <2>2. CompareEvent(e, u) /\ EntryShaped(e)
    BY <1>1, <1>3, <2>1
  <2>3. u = UpdatedEvent(e, wanted)
    BY <1>2, <2>1 DEF EntryOf
  <2> HIDE DEF e, u, wanted
  <2>4. /\ u = [envelope |-> EnvelopeLock, properties |-> u.properties,
                reserved |-> u.reserved, inOrder |-> TRUE]
        /\ u.properties = [n \in DOMAIN u.properties |-> u.properties[n]]
        /\ u.reserved = e.reserved \cup Retired(e, wanted)
        /\ u.envelope = [n \in DOMAIN u.envelope |-> u.envelope[n]]
    BY <2>3 DEF UpdatedEvent, Extend, EnvelopeLock
  <2>5. /\ e = [envelope |-> e.envelope, properties |-> e.properties,
                reserved |-> e.reserved, inOrder |-> e.inOrder]
        /\ e.properties = [n \in DOMAIN e.properties |-> e.properties[n]]
        /\ e.envelope = [n \in DOMAIN e.envelope |-> e.envelope[n]]
        /\ e.inOrder \in BOOLEAN
    BY <2>2 DEF EntryShaped, FieldsShaped
  <2>6. e.envelope = u.envelope /\ e.properties = u.properties
    BY <2>2, <2>4, <2>5, HoldsIsEqual DEF CompareEvent
  <2>7. e.inOrder = TRUE /\ u.reserved \subseteq e.reserved
    BY <2>2, <2>5 DEF CompareEvent, CompareReservedFields
  <2>8. e.reserved = u.reserved
    BY <2>4, <2>7
  <2>9. u.envelope = EnvelopeLock
    BY <2>4
  <2>10. e = u
    BY <2>4, <2>5, <2>6, <2>7, <2>8, <2>9
  <2> QED  BY <2>10 DEF e, u
<1>7. lock.events = new.events
  BY <1>1, <1>2, <1>5, <1>6
<1> QED  BY <1>1, <1>2, <1>3, <1>4, <1>7 DEF new

\* And what an update accepts and leaves as it is, CheckLock accepts: it
\* refuses nothing else.
LEMMA SettledIsChecked ==
    ASSUME NEW lock, NEW reg, UpdateAccepts(lock, reg), UpdateLock(lock, reg) = lock
    PROVE  CheckLock(lock, reg)
<1>1. lock.version = LockVersion /\ DOMAIN lock.events = DOMAIN reg.events
  <2>1. UpdateLock(lock, reg).version = LockVersion
        /\ DOMAIN UpdateLock(lock, reg).events = DOMAIN reg.events
    BY DEF UpdateLock
  <2> QED  BY <2>1
<1>2. \A fields : HoldsFields(fields, fields)
  BY DEF HoldsFields
<1>3. ASSUME NEW k \in DOMAIN reg.events
      PROVE  CompareEvent(lock.events[k], lock.events[k])
  <2>1. UpdateLock(lock, reg).events[k].inOrder = TRUE
    BY DEF UpdateLock, UpdatedEvent
  <2>2. lock.events[k].inOrder
    BY <2>1
  <2>3. NoSharedReservedNumber(lock.events[k].reserved)
    BY <1>1 DEF UpdateAccepts, ValidateLockDuplicates, CheckDuplicateNumbers
  <2> QED  BY <1>2, <2>2, <2>3 DEF CompareEvent, CompareReservedFields
<1> QED  BY <1>1, <1>2, <1>3 DEF CheckLock

-----------------------------------------------------------------------------
(* Repair *)

\* The sound lock inside a lock that UpdateLock accepts: UpdateLock looks
\* neither at the version, nor at the envelope's entries and the order of the
\* reserved list, nor at events the registry has not.
Repaired(lock, reg) ==
    [version |-> LockVersion,
     context |-> lock.context,
     events  |-> [k \in DOMAIN lock.events \cap DOMAIN reg.events |->
                    [envelope   |-> EnvelopeLock,
                     properties |-> lock.events[k].properties,
                     reserved   |-> lock.events[k].reserved,
                     inOrder    |-> TRUE]]]

\* Fields that pass the validators are sound.
LEMMA AcceptedIsSound ==
    ASSUME NEW fields, NEW others \in SUBSET Int, NEW names, FieldsShaped(fields, names),
           \A n \in DOMAIN fields : fields[n].stableID = n,
           \A x \in NumbersOf(fields) \cup others : ValidProtoNumber(x),
           NoSharedNumber(fields), NumbersOf(fields) \cap others = {},
           CheckDenseNumberHistory(NumbersOf(fields) \cup others),
           Bounded(NumbersOf(fields) \cup others)
    PROVE  Sound(fields, others, names)
<1>1. /\ DOMAIN fields \subseteq names
      /\ \A n \in DOMAIN fields : fields[n] \in [stableID : names, protoNumber : Int]
      /\ fields = [n \in DOMAIN fields |-> fields[n]]
  BY DEF FieldsShaped
<1>2. \A n \in DOMAIN fields : fields[n] = LockedField(n, fields[n].protoNumber)
  BY <1>1 DEF LockedField
<1>3. fields = [n \in DOMAIN fields |-> LockedField(n, fields[n].protoNumber)]
  BY <1>1, <1>2
<1>4. \A x \in NumbersOf(fields) \cup others : x \in Nat
  <2>1. NumbersOf(fields) \subseteq Int
    BY <1>1 DEF NumbersOf
  <2>2. \A x \in Int : ValidProtoNumber(x) => x \in Nat
    BY DEF ValidProtoNumber
  <2> QED  BY <2>1, <2>2
<1> QED  BY <1>1, <1>3, <1>4 DEF Sound, Bounded

\* The inner lock is sound, and an update makes the same of it.
LEMMA RepairedFacts ==
    ASSUME NEW lock, LockShaped(lock), NEW reg, RegistryShaped(reg), UpdateAccepts(lock, reg)
    PROVE  /\ LockSound(Repaired(lock, reg))
           /\ UpdateLock(Repaired(lock, reg), reg) = UpdateLock(lock, reg)
<1> DEFINE inner == Repaired(lock, reg)
<1>1. /\ inner.version = LockVersion
      /\ inner.context = lock.context
      /\ DOMAIN inner.events = DOMAIN lock.events \cap DOMAIN reg.events
      /\ \A k \in DOMAIN inner.events :
            inner.events[k] = [envelope   |-> EnvelopeLock,
                               properties |-> lock.events[k].properties,
                               reserved   |-> lock.events[k].reserved,
                               inOrder    |-> TRUE]
  BY DEF Repaired
<1>2. Sound(lock.context, {}, ContextNames)
  <2>1. NumbersOf(lock.context) \cup {} = NumbersOf(lock.context)
        /\ NumbersOf(lock.context) \cap {} = {} /\ {} \in SUBSET Int
    OBVIOUS
  <2>2. /\ \A n \in DOMAIN lock.context : lock.context[n].stableID = n
        /\ \A x \in NumbersOf(lock.context) : ValidProtoNumber(x)
        /\ NoSharedNumber(lock.context)
        /\ CheckDenseNumberHistory(NumbersOf(lock.context))
    BY DEF UpdateAccepts, ValidateLockNumbers, ValidateActiveStableIDs, StableIDsMatch,
           ValidateLockDuplicates, CheckDuplicateNumbers, ValidateLockNumberHistory
  <2>3. FieldsShaped(lock.context, ContextNames) /\ Bounded(NumbersOf(lock.context))
    BY DEF LockShaped
  <2> QED  BY <2>1, <2>2, <2>3, AcceptedIsSound
<1>3. ASSUME NEW k \in DOMAIN lock.events \cap DOMAIN reg.events
      PROVE  EntrySound(lock.events[k])
  <2> DEFINE e == lock.events[k]
  <2>1. EntryShaped(e)
    BY DEF LockShaped
  <2>2. /\ \A n \in DOMAIN e.properties : e.properties[n].stableID = n
        /\ \A r \in e.reserved : ValidReserved(r)
        /\ \A x \in History(e) : ValidProtoNumber(x)
        /\ CheckDuplicateNumbers(e.properties, e.reserved)
        /\ CheckDenseNumberHistory(History(e))
    <3>1. ValidateLockNumbers(lock) /\ ValidateActiveStableIDs(lock, reg)
          /\ ValidateReservedFieldIdentities(lock, reg)
          /\ ValidateLockDuplicates(lock) /\ ValidateLockNumberHistory(lock)
      BY DEF UpdateAccepts
    <3>2. k \in DOMAIN lock.events /\ k \in DOMAIN reg.events
      OBVIOUS
    <3>3. \A n \in DOMAIN e.properties : e.properties[n].stableID = n
      BY <3>1 DEF ValidateActiveStableIDs, StableIDsMatch
    <3>4. \A x \in History(e) : ValidProtoNumber(x)
      BY <3>1, <3>2 DEF ValidateLockNumbers
    <3> QED  BY <3>1, <3>2, <3>3, <3>4 DEF ValidateReservedFieldIdentities,
                 ValidateLockDuplicates, ValidateLockNumberHistory
  <2> HIDE DEF e
  <2>3. e.reserved \subseteq ReservedShape /\ FieldsShaped(e.properties, PropertyNames)
        /\ Bounded(History(e))
    BY <2>1 DEF EntryShaped
  <2>4. ReservedNumbers(e) \in SUBSET Int
    BY <2>3 DEF ReservedNumbers, ReservedShape
  <2>5. NumbersOf(e.properties) \cap ReservedNumbers(e) = {}
    BY <2>2 DEF CheckDuplicateNumbers, NumbersOf, ReservedNumbers
  <2>6. Sound(e.properties, ReservedNumbers(e), PropertyNames)
    BY <2>2, <2>3, <2>4, <2>5, AcceptedIsSound DEF History, CheckDuplicateNumbers
  <2>7. ASSUME NEW r \in e.reserved
        PROVE  r \in ReservedEntries /\ r.stableID = r.name
    <3>1. r \in ReservedShape /\ ValidReserved(r)
      BY <2>2, <2>3
    <3>2. r.protoNumber \in History(e)
      BY DEF History, ReservedNumbers
    <3>3. r.protoNumber \in Nat
      BY <2>2, <3>1, <3>2 DEF ReservedShape, ValidProtoNumber
    <3> QED  BY <3>1, <3>3 DEF ReservedShape, ReservedEntries, ValidReserved
  <2>8. EntrySound(e)
    BY <2>2, <2>6, <2>7 DEF EntrySound, CheckDuplicateNumbers
  <2> QED  BY <2>8 DEF e
<1> HIDE DEF inner
<1>4. ASSUME NEW k \in DOMAIN inner.events
      PROVE  /\ inner.events[k].envelope = EnvelopeLock
             /\ inner.events[k].inOrder
             /\ EntrySound(inner.events[k])
  <2> DEFINE i == inner.events[k]
             e == lock.events[k]
  <2>1. EntrySound(e)
    BY <1>1, <1>3
  <2>2. i = [envelope |-> EnvelopeLock, properties |-> e.properties,
             reserved |-> e.reserved, inOrder |-> TRUE]
    BY <1>1
  <2> HIDE DEF i, e
  <2>3. /\ i.envelope = EnvelopeLock /\ i.inOrder = TRUE
        /\ i.properties = e.properties /\ i.reserved = e.reserved
    BY <2>2
  <2>4. ReservedNumbers(i) = ReservedNumbers(e)
    BY <2>3 DEF ReservedNumbers
  <2>5. EntrySound(i)
    BY <2>1, <2>3, <2>4 DEF EntrySound
  <2> QED  BY <2>3, <2>5 DEF i
<1>5. LockSound(inner)
  <2>1. DOMAIN inner.events \subseteq Keys
    BY <1>1 DEF RegistryShaped
  <2> QED  BY <1>1, <1>2, <1>4, <2>1 DEF LockSound
<1>6. ASSUME NEW k \in DOMAIN reg.events
      PROVE  UpdatedEvent(EntryOf(inner, k), DOMAIN reg.events[k])
               = UpdatedEvent(EntryOf(lock, k), DOMAIN reg.events[k])
  <2> DEFINE i == EntryOf(inner, k)
             e == EntryOf(lock, k)
             wanted == DOMAIN reg.events[k]
  <2>1. i.properties = e.properties /\ i.reserved = e.reserved
    <3>1. CASE k \in DOMAIN lock.events
      <4>1. i = inner.events[k] /\ e = lock.events[k] /\ k \in DOMAIN inner.events
        BY <1>1, <3>1 DEF EntryOf
      <4> HIDE DEF i, e
      <4>2. inner.events[k] = [envelope   |-> EnvelopeLock,
                               properties |-> lock.events[k].properties,
                               reserved   |-> lock.events[k].reserved,
                               inOrder    |-> TRUE]
        BY <1>1, <4>1
      <4>3. i = [envelope |-> EnvelopeLock, properties |-> e.properties,
                 reserved |-> e.reserved, inOrder |-> TRUE]
        BY <4>1, <4>2
      <4> QED  BY <4>3
    <3>2. CASE k \notin DOMAIN lock.events
      BY <1>1, <3>2 DEF EntryOf
    <3> QED  BY <3>1, <3>2
  <2> HIDE DEF i, e, wanted
  <2>2. History(i) = History(e) /\ Retired(i, wanted) = Retired(e, wanted)
    BY <2>1 DEF History, ReservedNumbers, Retired
  <2>3. UpdatedEvent(i, wanted) = UpdatedEvent(e, wanted)
    BY <2>1, <2>2 DEF UpdatedEvent
  <2> QED  BY <2>3 DEF i, e, wanted
<1>7. UpdateLock(inner, reg) = UpdateLock(lock, reg)
  BY <1>1, <1>6 DEF UpdateLock
<1> QED  BY <1>5, <1>7 DEF inner

\* A lock that was accepted and left alone has nothing UpdateLock overlooks.
LEMMA AcceptedSettledIsSound ==
    ASSUME NEW lock, LockShaped(lock), NEW reg, RegistryShaped(reg),
           UpdateAccepts(lock, reg), UpdateLock(lock, reg) = lock
    PROVE  LockSound(lock)
BY RepairedFacts, UpdateLockIsSound
=============================================================================
