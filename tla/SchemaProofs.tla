----------------------------- MODULE SchemaProofs -----------------------------
(***************************************************************************)
(* Theorems about what `generate` makes of a registry and a lock: the      *)
(* identifiers of two packages (Naming), and the numbers of a schema       *)
(* (Lowering), for every alphabet, name, registry and lock.                *)
(***************************************************************************)
EXTENDS Lowering, Naming, SchemaLockProofs

-----------------------------------------------------------------------------
(* Taking the gaps out *)

\* What is left of the first i characters, for every i up to n.
KeptUpTo(chars, n, kept) ==
    kept = [i \in 0..n |->
        IF i = 0 THEN <<>>
        ELSE IF chars[i] = Gap THEN kept[i - 1] ELSE Append(kept[i - 1], chars[i])]

\* The loop ends.
LEMMA KeptExists ==
    ASSUME NEW chars, NEW n \in Nat
    PROVE  \E kept : KeptUpTo(chars, n, kept)
<1> DEFINE Bad == {i \in Nat : ~ \E kept : KeptUpTo(chars, i, kept)}
<1>1. SUFFICES ASSUME Bad # {} PROVE FALSE
  OBVIOUS
<1>2. PICK i \in Bad : \A y \in Bad : i <= y
  <2>1. Bad \in SUBSET Nat
    OBVIOUS
  <2> HIDE DEF Bad
  <2> QED  BY <1>1, <2>1, LeastNumber
<1>3. CASE i = 0
  <2>1. KeptUpTo(chars, 0, [j \in 0..0 |-> <<>>])
    BY DEF KeptUpTo
  <2> QED  BY <1>3, <2>1
<1>4. CASE i # 0
  <2>1. i - 1 \in Nat /\ i - 1 \notin Bad
    BY <1>2, <1>4
  <2>2. PICK m : KeptUpTo(chars, i - 1, m)
    BY <2>1
  <2> DEFINE step == IF chars[i] = Gap THEN m[i - 1] ELSE Append(m[i - 1], chars[i])
             new == [j \in 0..i |-> IF j = i THEN step ELSE m[j]]
  <2> HIDE DEF step
  <2>3. \A j \in 0..(i - 1) : new[j] = m[j]
    BY <2>1
  <2>4. \A j \in 0..(i - 1) : new[j] =
           IF j = 0 THEN <<>>
           ELSE IF chars[j] = Gap THEN new[j - 1] ELSE Append(new[j - 1], chars[j])
    <3>1. ASSUME NEW j \in 0..(i - 1)
          PROVE  m[j] = IF j = 0 THEN <<>>
                        ELSE IF chars[j] = Gap THEN m[j - 1] ELSE Append(m[j - 1], chars[j])
      BY <2>1, <2>2 DEF KeptUpTo
    <3>2. \A j \in 0..(i - 1) : j # 0 => j - 1 \in 0..(i - 1)
      BY <2>1
    <3> HIDE DEF new
    <3> QED  BY <2>3, <3>1, <3>2
  <2>5. new[i] = IF chars[i] = Gap THEN new[i - 1] ELSE Append(new[i - 1], chars[i])
    <3>1. new[i] = step /\ i - 1 \in 0..(i - 1)
      BY <2>1
    <3> HIDE DEF new
    <3> QED  BY <2>3, <3>1 DEF step
  <2>6. new = [j \in 0..i |-> new[j]]
    OBVIOUS
  <2> HIDE DEF new
  <2>7. \A j \in 0..i : j = i \/ j \in 0..(i - 1)
    BY <2>1
  <2>8. KeptUpTo(chars, i, new)
    <3>1. \A j \in 0..i : new[j] =
             IF j = 0 THEN <<>>
             ELSE IF chars[j] = Gap THEN new[j - 1] ELSE Append(new[j - 1], chars[j])
      BY <1>4, <2>4, <2>5, <2>7
    <3> QED  BY <2>6, <3>1, Zenon DEF KeptUpTo
  <2> QED  BY <2>8
<1> QED  BY <1>3, <1>4

\* What is left is a sequence of the same characters.
LEMMA KeptShape ==
    ASSUME NEW S, NEW chars \in Seq(S), NEW kept, KeptUpTo(chars, Len(chars), kept)
    PROVE  \A i \in 0..Len(chars) : kept[i] \in Seq(S)
<1> DEFINE Bad == {i \in 0..Len(chars) : kept[i] \notin Seq(S)}
<1>1. SUFFICES ASSUME Bad # {} PROVE FALSE
  OBVIOUS
<1>2. PICK i \in Bad : \A y \in Bad : i <= y
  <2>1. Bad \in SUBSET Nat
    OBVIOUS
  <2> HIDE DEF Bad
  <2> QED  BY <1>1, <2>1, LeastNumber
<1>3. kept[i] = IF i = 0 THEN <<>>
                ELSE IF chars[i] = Gap THEN kept[i - 1] ELSE Append(kept[i - 1], chars[i])
  BY <1>2 DEF KeptUpTo
<1>4. CASE i = 0
  <2>1. kept[i] = <<>>
    BY <1>3, <1>4
  <2>2. <<>> \in Seq(S)
    OBVIOUS
  <2> QED  BY <1>2, <2>1, <2>2
<1>5. CASE i # 0
  <2>1. i - 1 \in 0..Len(chars) /\ i - 1 \notin Bad /\ i \in 1..Len(chars)
    BY <1>2, <1>5
  <2>2. kept[i - 1] \in Seq(S) /\ chars[i] \in S
    BY <2>1
  <2>3. kept[i - 1] \in Seq(S) /\ Append(kept[i - 1], chars[i]) \in Seq(S)
    BY <2>2
  <2>4. kept[i] \in {kept[i - 1], Append(kept[i - 1], chars[i])}
    BY <1>3, <1>5
  <2> QED  BY <1>2, <2>3, <2>4
<1> QED  BY <1>4, <1>5

LEMMA WithoutGapsShape ==
    ASSUME NEW S, NEW chars \in Seq(S)
    PROVE  WithoutGaps(chars) \in Seq(S)
<1> DEFINE n == Len(chars)
           chosen == CHOOSE kept : KeptUpTo(chars, n, kept)
<1>1. n \in Nat /\ n \in 0..n
  OBVIOUS
<1>2. KeptUpTo(chars, n, chosen)
  BY <1>1, KeptExists
<1>3. WithoutGaps(chars) = chosen[n]
  BY DEF WithoutGaps, KeptUpTo
<1> HIDE DEF chosen
<1> QED  BY <1>1, <1>2, <1>3, KeptShape

\* Whatever the characters are: there is something to take out of, and to put
\* a version behind.
LEMMA SameBeforeSuffix ==
    ASSUME NEW S, NEW s \in Seq(S), NEW T, NEW t \in Seq(T), NEW U, NEW u \in Seq(U),
           s \o u = t \o u
    PROVE  s = t
<1>1. Len(s \o u) = Len(s) + Len(u) /\ Len(t \o u) = Len(t) + Len(u)
  OBVIOUS
<1>2. Len(s) = Len(t)
  BY <1>1
<1>3. \A i \in 1..Len(s) : s[i] = (s \o u)[i] /\ t[i] = (t \o u)[i]
  BY <1>2
<1> QED  BY <1>2, <1>3

-----------------------------------------------------------------------------
(* Identifiers of events *)

\* A sequence is a function on its positions.
LEMMA SequenceShape ==
    ASSUME NEW S, NEW s \in Seq(S)
    PROVE  s \in [1..Len(s) -> S] /\ DOMAIN s = 1..Len(s) /\ Len(s) \in Nat
OBVIOUS

\* The characters of an event name.
LEMMA EventNameChars ==
    ASSUME NEW name, IsEventName(name), NEW i \in DOMAIN name
    PROVE  /\ name \in [1..Len(name) -> DOMAIN Capital \cup Digits \cup {"_", "."}]
           /\ DOMAIN name = 1..Len(name) /\ Len(name) \in Nat
           /\ i # 1 => i - 1 \in DOMAIN name
           /\ ~IsUpper(name[i])
           /\ name[i] \in Separators <=> ~IsWordChar(name[i])
<1>1. /\ name \in [1..Len(name) -> DOMAIN Capital \cup Digits \cup {"_", "."}]
      /\ DOMAIN name = 1..Len(name) /\ Len(name) \in Nat
  BY SequenceShape, Zenon DEF IsEventName
<1>2. name[i] \in DOMAIN Capital \cup Digits \cup {"_", "."}
  BY <1>1
<1>3. i # 1 => i - 1 \in DOMAIN name
  <2> DEFINE n == Len(name)
  <2>1. i \in 1..n /\ n \in Nat
    BY <1>1
  <2> HIDE DEF n
  <2>2. i # 1 => i - 1 \in 1..n
    BY <2>1
  <2> QED  BY <1>1, <2>2, Zenon DEF n
<1>4. ~IsUpper(name[i]) /\ (name[i] \in Separators <=> ~IsWordChar(name[i]))
  BY <1>2, LettersAssumption DEF IsUpper, IsLower, IsWordChar, Separators
<1> QED  BY <1>1, <1>3, <1>4

\* In an event name a word starts at the beginning and behind a separator, and
\* nowhere else.
LEMMA WordsStartBehindSeparators ==
    ASSUME NEW name, IsEventName(name), NEW i \in DOMAIN name
    PROVE  StartsWord(name, i) <=>
              name[i] \notin Separators /\ (i = 1 \/ name[i - 1] \in Separators)
<1>1. CASE i = 1
  BY <1>1, EventNameChars DEF StartsWord
<1>2. CASE i # 1
  <2>1. i - 1 \in DOMAIN name
    BY <1>2, EventNameChars
  <2>2. ~IsUpper(name[i]) /\ (name[i] \in Separators <=> ~IsWordChar(name[i]))
    BY EventNameChars
  <2>3. name[i - 1] \in Separators <=> ~IsWordChar(name[i - 1])
    BY <2>1, EventNameChars
  <2> QED  BY <1>2, <2>2, <2>3 DEF StartsWord
<1> QED  BY <1>1, <1>2

\* The Go constant of an event has the name of its protobuf message: the two
\* packages split names in two ways, but not the names that registry.Validate
\* lets through (constgen.go:88-122, proto_names.go:119-122).
THEOREM GoIdentsAreMessageNames ==
    ASSUME NEW name, IsEventName(name), NEW version
    PROVE  GoIdent(name, version) = EventMessageName(name, version)
<1>1. ASSUME NEW i \in DOMAIN name
      PROVE  PascalCaseChar(name, i) = GoIdentChar(name, i)
  BY EventNameChars, WordsStartBehindSeparators DEF PascalCaseChar, GoIdentChar, ToLower
<1>2. [i \in DOMAIN name |-> PascalCaseChar(name, i)] = [i \in DOMAIN name |-> GoIdentChar(name, i)]
  BY <1>1
<1> QED  BY <1>2 DEF GoIdent, EventMessageName, PascalCaseOf

\* What pyIdent makes of the characters of a name.
PyIdentChars(name) ==
    [i \in DOMAIN name |-> IF name[i] \in Separators THEN "_" ELSE ToUpper(name[i])]

LEMMA PyIdentShape ==
    ASSUME NEW name, IsEventName(name)
    PROVE  /\ PyIdentChars(name) \in Seq(Range(PyIdentChars(name)))
           /\ Len(PyIdentChars(name)) = Len(name)
<1>1. DOMAIN PyIdentChars(name) = 1..Len(name) /\ Len(name) \in Nat
  BY SequenceShape DEF PyIdentChars, IsEventName
<1>2. \A i \in 1..Len(name) : PyIdentChars(name)[i] \in Range(PyIdentChars(name))
  BY <1>1 DEF Range
<1>3. PyIdentChars(name) = [i \in 1..Len(name) |-> PyIdentChars(name)[i]]
  BY <1>1 DEF PyIdentChars
<1> QED  BY <1>1, <1>2, <1>3

\* Upper case tells letters and digits apart, and "_" from them.
LEMMA PyIdentCharDecides ==
    ASSUME NEW a, IsEventName(a), NEW b, IsEventName(b), NEW i \in DOMAIN a, i \in DOMAIN b,
           PyIdentChars(a)[i] = PyIdentChars(b)[i]
    PROVE  \/ a[i] \in Separators /\ b[i] \in Separators
           \/ a[i] \notin Separators /\ a[i] = b[i]
<1>1. /\ a[i] \in DOMAIN Capital \cup Digits \cup {"_", "."}
      /\ b[i] \in DOMAIN Capital \cup Digits \cup {"_", "."}
  BY EventNameChars
<1>2. /\ PyIdentChars(a)[i] = IF a[i] \in Separators THEN "_" ELSE ToUpper(a[i])
      /\ PyIdentChars(b)[i] = IF b[i] \in Separators THEN "_" ELSE ToUpper(b[i])
  BY DEF PyIdentChars
<1>3. ASSUME NEW c \in DOMAIN Capital \cup Digits, NEW d \in DOMAIN Capital \cup Digits
      PROVE  ToUpper(c) # "_" /\ (ToUpper(c) = ToUpper(d) => c = d)
  <2>1. \A l \in DOMAIN Capital : Capital[l] \in Range(Capital)
    BY DEF Range
  <2> QED  BY <2>1, LettersAssumption DEF ToUpper, IsLower
<1>4. \A c \in {"_", "."} : c \in Separators
  BY DEF Separators
<1> QED  BY <1>1, <1>2, <1>3, <1>4

\* Two events with one Python constant have one message name, so a registry
\* that can be generated from has no such events (constgen.go:99-108).
THEOREM PyIdentsDecideMessageNames ==
    ASSUME NEW a, IsEventName(a), NEW b, IsEventName(b), NEW version,
           PyIdent(a, version) = PyIdent(b, version)
    PROVE  EventMessageName(a, version) = EventMessageName(b, version)
<1> DEFINE suffix == <<"_", "V", version>>
<1>1. PyIdentChars(a) = PyIdentChars(b)
  <2>1. suffix \in Seq({"_", "V", version})
    OBVIOUS
  <2>2. PyIdentChars(a) \o suffix = PyIdentChars(b) \o suffix
    BY DEF PyIdent, PyIdentChars
  <2> HIDE DEF suffix
  <2> QED  BY <2>1, <2>2, PyIdentShape, SameBeforeSuffix
<1>2. DOMAIN a = DOMAIN b
  BY <1>1 DEF PyIdentChars
<1>3. ASSUME NEW i \in DOMAIN a
      PROVE  /\ a[i] \in Separators <=> b[i] \in Separators
             /\ a[i] \notin Separators => a[i] = b[i]
  BY <1>1, <1>2, PyIdentCharDecides
<1>4. ASSUME NEW i \in DOMAIN a
      PROVE  GoIdentChar(a, i) = GoIdentChar(b, i)
  <2>1. i # 1 => i - 1 \in DOMAIN a
    BY EventNameChars
  <2> QED  BY <1>3, <2>1 DEF GoIdentChar
<1>5. [i \in DOMAIN a |-> GoIdentChar(a, i)] = [i \in DOMAIN b |-> GoIdentChar(b, i)]
  BY <1>2, <1>4
<1>6. GoIdent(a, version) = GoIdent(b, version)
  BY <1>5 DEF GoIdent
<1> QED  BY <1>6, GoIdentsAreMessageNames

\* Message names differ where what pascalCase makes of the event names does.
LEMMA MessageNamesDecide ==
    ASSUME NEW a, IsEventName(a), NEW b, IsEventName(b), NEW version,
           EventMessageName(a, version) = EventMessageName(b, version)
    PROVE  PascalCaseOf(a) = PascalCaseOf(b)
<1>1. ASSUME NEW name, IsEventName(name)
      PROVE  \E S : PascalCaseOf(name) \in Seq(S)
  <2> DEFINE chars == [i \in DOMAIN name |-> PascalCaseChar(name, i)]
  <2>1. DOMAIN name = 1..Len(name) /\ Len(name) \in Nat
    BY <1>1, SequenceShape DEF IsEventName
  <2>2. \A i \in 1..Len(name) : chars[i] \in Range(chars)
    BY <2>1 DEF Range
  <2>3. chars = [i \in 1..Len(name) |-> chars[i]]
    BY <2>1
  <2> HIDE DEF chars
  <2>4. chars \in Seq(Range(chars))
    BY <2>1, <2>2, <2>3
  <2>5. PascalCaseOf(name) \in Seq(Range(chars))
    BY <2>4, WithoutGapsShape DEF PascalCaseOf, chars
  <2> QED  BY <2>5
<1>2. PICK S : PascalCaseOf(a) \in Seq(S)
  BY <1>1
<1>3. PICK T : PascalCaseOf(b) \in Seq(T)
  BY <1>1
<1>4. <<"V", version>> \in Seq({"V", version})
  OBVIOUS
<1> QED  BY <1>2, <1>3, <1>4, SameBeforeSuffix, Zenon DEF EventMessageName

-----------------------------------------------------------------------------
(* Numbers of enum values *)

\* In a list without repetitions a value is at one place.
LEMMA EnumNumberIsPlace ==
    ASSUME NEW S, NEW values \in Seq(S),
           \A i, j \in 1..Len(values) : values[i] = values[j] => i = j,
           NEW i \in 1..Len(values)
    PROVE  values[i] \in Range(values) /\ EnumNumbers(values)[values[i]] = i
<1>1. DOMAIN values = 1..Len(values)
  OBVIOUS
<1>2. values[i] \in Range(values)
  BY <1>1 DEF Range
<1>3. EnumNumbers(values)[values[i]] = CHOOSE j \in DOMAIN values : values[j] = values[i]
  BY <1>2 DEF EnumNumbers
<1> QED  BY <1>1, <1>2, <1>3

\* The numbers of enum values are pinned by nothing but their order: an edit of
\* the list keeps the numbers of all values that were there exactly when it
\* only appends to the list (proto_names.go:158-185).
THEOREM AppendingKeepsEnumNumbers ==
    ASSUME NEW S, NEW old \in Seq(S), NEW new \in Seq(S),
           \A i, j \in 1..Len(old) : old[i] = old[j] => i = j,
           \A i, j \in 1..Len(new) : new[i] = new[j] => i = j
    PROVE  (\A v \in Range(old) : v \in Range(new) /\ EnumNumbers(new)[v] = EnumNumbers(old)[v])
              <=> Len(old) <= Len(new) /\ \A i \in 1..Len(old) : new[i] = old[i]
<1>1. /\ Len(old) \in Nat /\ DOMAIN old = 1..Len(old) /\ Range(old) = {old[i] : i \in 1..Len(old)}
      /\ Len(new) \in Nat /\ DOMAIN new = 1..Len(new) /\ Range(new) = {new[i] : i \in 1..Len(new)}
  BY DEF Range
<1>2. /\ \A i \in 1..Len(old) : EnumNumbers(old)[old[i]] = i
      /\ \A i \in 1..Len(new) : EnumNumbers(new)[new[i]] = i
  BY EnumNumberIsPlace
<1>3. ASSUME \A v \in Range(old) : v \in Range(new) /\ EnumNumbers(new)[v] = EnumNumbers(old)[v],
             NEW i \in 1..Len(old)
      PROVE  i \in 1..Len(new) /\ new[i] = old[i]
  <2>1. PICK j \in 1..Len(new) : new[j] = old[i]
    BY <1>1, <1>3
  <2>2. EnumNumbers(new)[old[i]] = i
    BY <1>1, <1>2, <1>3
  <2> QED  BY <1>2, <2>1, <2>2
<1>4. ASSUME \A v \in Range(old) : v \in Range(new) /\ EnumNumbers(new)[v] = EnumNumbers(old)[v]
      PROVE  Len(old) <= Len(new)
  <2>1. CASE Len(old) = 0
    BY <1>1, <2>1
  <2>2. CASE Len(old) # 0
    <3>1. Len(old) \in 1..Len(old)
      BY <1>1, <2>2
    <3>2. Len(old) \in 1..Len(new)
      BY <1>3, <1>4, <3>1
    <3> QED  BY <1>1, <3>2
  <2> QED  BY <2>1, <2>2
<1>5. ASSUME Len(old) <= Len(new), \A i \in 1..Len(old) : new[i] = old[i], NEW v \in Range(old)
      PROVE  v \in Range(new) /\ EnumNumbers(new)[v] = EnumNumbers(old)[v]
  <2>1. PICK i \in 1..Len(old) : v = old[i]
    BY <1>1
  <2>2. i \in 1..Len(new) /\ new[i] = v
    BY <1>1, <1>5, <2>1
  <2> QED  BY <1>1, <1>2, <2>1, <2>2
<1> QED  BY <1>3, <1>4, <1>5
=============================================================================
