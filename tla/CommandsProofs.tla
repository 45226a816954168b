--------------------------- MODULE CommandsProofs ---------------------------
(***************************************************************************)
(* Theorems about the commands of the CLI as processes that share a        *)
(* directory, for any number of processes, files and events.  The lock     *)
(* lemmas (SchemaLockProofs) are about one update; the invariant here says *)
(* whose turn it is to make one.  While no update slipped, a process that  *)
(* has truncated the lock file is the only one, and is about to write what *)
(* follows the committed lock; while nothing slipped, the committed lock   *)
(* keeps all that was published and all that a generation under way will   *)
(* publish.                                                                *)
(***************************************************************************)
EXTENDS Commands, SchemaProofs

-----------------------------------------------------------------------------
(* The registry of a directory *)

\* What loading hands over: names of the universe.
LEMMA MergeKeepsShape ==
    ASSUME NEW dst, RegistryShaped(dst), NEW content,
           content \notin {Missing, Undecodable} => RegistryShaped(content)
    PROVE  /\ RegistryShaped(MergeFile(dst, content))
           /\ DOMAIN dst.events \subseteq DOMAIN MergeFile(dst, content).events
           /\ content \notin {Missing, Undecodable} =>
                 DOMAIN content.events \subseteq DOMAIN MergeFile(dst, content).events
<1> DEFINE new == MergeFile(dst, content)
<1>1. CASE content \in {Missing, Undecodable}
  <2>1. new.context = dst.context /\ new.events = dst.events
    BY <1>1 DEF MergeFile
  <2> QED  BY <1>1, <2>1 DEF RegistryShaped
<1>2. CASE content \notin {Missing, Undecodable}
  <2>1. /\ new.context = Completed(dst.context, content.context)
        /\ new.events = Completed(dst.events, content.events)
    BY <1>2 DEF MergeFile, MergeRegistry
  <2>2. /\ DOMAIN new.context = DOMAIN dst.context \cup DOMAIN content.context
        /\ DOMAIN new.events = DOMAIN dst.events \cup DOMAIN content.events
        /\ \A k \in DOMAIN new.events :
              new.events[k] = IF k \in DOMAIN dst.events THEN dst.events[k] ELSE content.events[k]
    BY <2>1 DEF Completed
  <2> HIDE DEF new
  <2>3. RegistryShaped(new)
    BY <1>2, <2>2 DEF RegistryShaped
  <2> QED  BY <2>2, <2>3 DEF new
<1> QED  BY <1>1, <1>2

\* What LoadFiles has merged after each of the first n files.
MergedUpTo(fs, order, n, merged) ==
    merged = [i \in 0..n |->
        IF i = 0 THEN [NothingMerged EXCEPT !.ok = DiscoverYAMLFiles(fs) # {}]
        ELSE IF order[i] \in DiscoverYAMLFiles(fs) THEN MergeFile(merged[i - 1], fs[order[i]])
        ELSE merged[i - 1]]

\* There is such a function: LoadFiles ends.
LEMMA MergedExists ==
    ASSUME NEW fs, NEW order, NEW n \in Nat
    PROVE  \E merged : MergedUpTo(fs, order, n, merged)
<1> DEFINE Bad == {i \in Nat : ~ \E m : MergedUpTo(fs, order, i, m)}
           First == [NothingMerged EXCEPT !.ok = DiscoverYAMLFiles(fs) # {}]
<1>1. SUFFICES ASSUME Bad # {} PROVE FALSE
  OBVIOUS
<1>2. PICK i \in Bad : \A y \in Bad : i <= y
  <2>1. Bad \in SUBSET Nat
    OBVIOUS
  <2> HIDE DEF Bad
  <2> QED  BY <1>1, <2>1, LeastNumber
<1> HIDE DEF First
<1>3. CASE i = 0
  <2>1. MergedUpTo(fs, order, 0, [j \in 0..0 |-> First])
    BY DEF MergedUpTo, First
  <2> QED  BY <1>3, <2>1
<1>4. CASE i # 0
  <2>1. i - 1 \in Nat /\ i - 1 \notin Bad
    BY <1>2, <1>4
  <2>2. PICK m : MergedUpTo(fs, order, i - 1, m)
    BY <2>1
  <2> DEFINE step == IF order[i] \in DiscoverYAMLFiles(fs) THEN MergeFile(m[i - 1], fs[order[i]])
                                                           ELSE m[i - 1]
             new == [j \in 0..i |-> IF j = i THEN step ELSE m[j]]
  <2> HIDE DEF step
  <2>3. \A j \in 0..(i - 1) : new[j] = m[j]
    BY <2>1
  <2>4. \A j \in 0..(i - 1) : new[j] =
           IF j = 0 THEN First
           ELSE IF order[j] \in DiscoverYAMLFiles(fs) THEN MergeFile(new[j - 1], fs[order[j]])
           ELSE new[j - 1]
    <3>1. ASSUME NEW j \in 0..(i - 1)
          PROVE  m[j] = IF j = 0 THEN First
                        ELSE IF order[j] \in DiscoverYAMLFiles(fs) THEN MergeFile(m[j - 1], fs[order[j]])
                        ELSE m[j - 1]
      BY <2>1, <2>2 DEF MergedUpTo, First
    <3>2. \A j \in 0..(i - 1) : j # 0 => j - 1 \in 0..(i - 1)
      BY <2>1
    <3> HIDE DEF new
    <3> QED  BY <2>3, <3>1, <3>2
  <2>5. new[i] = IF order[i] \in DiscoverYAMLFiles(fs) THEN MergeFile(new[i - 1], fs[order[i]])
                                                       ELSE new[i - 1]
    <3>1. new[i] = step /\ i - 1 \in 0..(i - 1)
      BY <2>1
    <3> HIDE DEF new
    <3> QED  BY <2>3, <3>1 DEF step
  <2>6. MergedUpTo(fs, order, i, new)
    <3>1. new = [j \in 0..i |-> new[j]]
      OBVIOUS
    <3>2. \A j \in 0..i : j = i \/ j \in 0..(i - 1)
      BY <2>1
    <3> HIDE DEF new
    <3>3. \A j \in 0..i : new[j] =
             IF j = 0 THEN First
             ELSE IF order[j] \in DiscoverYAMLFiles(fs) THEN MergeFile(new[j - 1], fs[order[j]])
             ELSE new[j - 1]
      BY <1>4, <2>4, <2>5, <3>2
    <3> QED  BY <3>1, <3>3, Zenon DEF MergedUpTo, First
  <2> QED  BY <2>6
<1> QED  BY <1>3, <1>4

\* The fragments have the names of the universe, so the registry has; and no
\* event of a file that decodes gets lost.
LEMMA LoadedFacts ==
    ASSUME NEW fs \in Directories
    PROVE  LET reg == RegistryAt(fs, Directory)
           IN  RegistryShaped(reg) /\ PermanentEvents \subseteq DOMAIN reg.events
<1> DEFINE n == Len(FileOrder)
           Good(i, reg) ==
              /\ RegistryShaped(reg)
              /\ \A j \in 1..i : fs[FileOrder[j]] \notin {Missing, Undecodable} =>
                    DOMAIN fs[FileOrder[j]].events \subseteq DOMAIN reg.events
<1>1. n \in Nat /\ FileOrder \in [1..n -> YamlFiles] /\ YamlFiles = {FileOrder[i] : i \in 1..n}
  BY FileOrderAssumption DEF YamlFiles, Range
<1>2. \A f \in YamlFiles : fs[f] \notin {Missing, Undecodable} => RegistryShaped(fs[f])
  BY ContentsAssumption DEF Directories, RegistryShaped
<1>3. PICK merged : MergedUpTo(fs, FileOrder, n, merged) /\ LoadFiles(fs, FileOrder) = merged[n]
  <2> DEFINE chosen == CHOOSE m : MergedUpTo(fs, FileOrder, n, m)
  <2>1. LoadFiles(fs, FileOrder) = chosen[n]
    BY DEF LoadFiles, MergedUpTo
  <2>2. MergedUpTo(fs, FileOrder, n, chosen)
    BY <1>1, MergedExists
  <2> QED  BY <2>1, <2>2
<1> HIDE DEF n
<1>4. \A i \in 0..n : Good(i, merged[i])
  <2> DEFINE Bad == {i \in 0..n : ~Good(i, merged[i])}
  <2> HIDE DEF Good
  <2>1. SUFFICES ASSUME Bad # {} PROVE FALSE
    OBVIOUS
  <2>2. PICK i \in Bad : \A y \in Bad : i <= y
    <3>1. Bad \in SUBSET Nat
      BY <1>1
    <3> HIDE DEF Bad
    <3> QED  BY <2>1, <3>1, LeastNumber
  <2>3. CASE i = 0
    <3>1. merged[0] = [NothingMerged EXCEPT !.ok = DiscoverYAMLFiles(fs) # {}]
      BY <1>1, <1>3 DEF MergedUpTo
    <3>2. merged[0].context = EmptyMap /\ merged[0].events = EmptyMap
      BY <3>1 DEF NothingMerged
    <3>3. DOMAIN EmptyMap = {}
      BY DEF EmptyMap
    <3>4. Good(0, merged[0])
      BY <3>2, <3>3 DEF Good, RegistryShaped
    <3> QED  BY <2>3, <3>4
  <2>4. CASE i # 0
    <3> DEFINE f == FileOrder[i]
               dst == merged[i - 1]
    <3>1. i - 1 \in 0..n /\ i \in 1..n /\ f \in YamlFiles
      BY <1>1, <2>4
    <3>2. Good(i - 1, dst)
      BY <1>1, <2>2, <3>1
    <3>3. merged[i] = IF f \in DiscoverYAMLFiles(fs) THEN MergeFile(dst, fs[f]) ELSE dst
      BY <1>1, <1>3, <2>4, <3>1 DEF MergedUpTo
    <3> HIDE DEF f, dst
    <3>4. f \notin DiscoverYAMLFiles(fs) => fs[f] = Missing
      BY <3>1 DEF DiscoverYAMLFiles
    <3>5. /\ RegistryShaped(merged[i])
          /\ DOMAIN dst.events \subseteq DOMAIN merged[i].events
          /\ fs[f] \notin {Missing, Undecodable} =>
                DOMAIN fs[f].events \subseteq DOMAIN merged[i].events
      BY <1>2, <3>1, <3>2, <3>3, <3>4, MergeKeepsShape DEF Good
    <3>6. \A j \in 1..i : j = i \/ j \in 1..(i - 1)
      BY <1>1
    <3>7. Good(i, merged[i])
      BY <3>2, <3>5, <3>6 DEF Good, f
    <3> QED  BY <3>7
  <2> QED  BY <2>3, <2>4
<1>5. Good(n, merged[n])
  <2>1. n \in 0..n
    BY <1>1
  <2> HIDE DEF Good
  <2> QED  BY <1>4, <2>1
<1>6. /\ RegistryAt(fs, Directory).context = merged[n].context
      /\ RegistryAt(fs, Directory).events = merged[n].events
  BY <1>3 DEF RegistryAt, Load
<1>7. PermanentEvents \subseteq DOMAIN merged[n].events
  <2>1. SUFFICES ASSUME NEW k \in PermanentEvents PROVE k \in DOMAIN merged[n].events
    OBVIOUS
  <2>2. PICK f \in YamlFiles : fs[f] \notin {Missing, Undecodable} /\ k \in DOMAIN fs[f].events
    BY DEF Directories, KeepsPermanent
  <2>3. PICK j \in 1..n : f = FileOrder[j]
    BY <1>1
  <2> QED  BY <1>5, <2>2, <2>3
<1> HIDE DEF Good
<1>8. RegistryShaped(merged[n])
  BY <1>5 DEF Good
<1> QED  BY <1>6, <1>7, <1>8 DEF RegistryShaped

\* A single file makes a registry of the same names.
LEMMA AnyLoadIsShaped ==
    ASSUME NEW fs \in Directories, NEW path \in {Directory} \cup YamlFiles
    PROVE  RegistryShaped(RegistryAt(fs, path))
<1>1. CASE path = Directory
  BY <1>1, LoadedFacts
<1>2. CASE path # Directory
  <2> DEFINE new == MergeFile(NothingMerged, fs[path])
  <2>1. DOMAIN NothingMerged.context = {} /\ DOMAIN NothingMerged.events = {}
    BY DEF NothingMerged, EmptyMap
  <2>2. fs[path] \notin {Missing, Undecodable} => RegistryShaped(fs[path])
    BY <1>2, ContentsAssumption DEF Directories, RegistryShaped
  <2>3. RegistryShaped(NothingMerged)
    BY <2>1 DEF RegistryShaped
  <2>4. RegistryShaped(new)
    BY <2>2, <2>3, MergeKeepsShape
  <2>5. /\ RegistryAt(fs, path).context = new.context
        /\ RegistryAt(fs, path).events = new.events
    BY <1>2 DEF RegistryAt, Load
  <2> HIDE DEF new
  <2> QED  BY <2>4, <2>5 DEF RegistryShaped
<1> QED  BY <1>1, <1>2

-----------------------------------------------------------------------------
(* What is loaded does not depend on the order of the files *)

\* Two files that may be merged.
Compatible(c, d) ==
    /\ SingletonsAgree(c.header, d.header)
    /\ DOMAIN c.context \cap DOMAIN d.context = {}
    /\ DOMAIN c.events \cap DOMAIN d.events = {}

\* No file of a set is in the way of another.
Consistent(fs, S) ==
    /\ \A f \in S : fs[f] # Undecodable
    /\ \A f, g \in S : f # g => Compatible(fs[f], fs[g])

\* A map that has what the maps of some files have, and nothing else.
Gathers(map, parts) ==
    /\ map = [x \in DOMAIN map |-> map[x]]
    /\ \A x \in DOMAIN map : \E f \in DOMAIN parts : x \in DOMAIN parts[f]
    /\ \A f \in DOMAIN parts : \A x \in DOMAIN parts[f] :
          x \in DOMAIN map /\ map[x] = parts[f][x]

\* A header that has every singleton that one of some files has.
Heads(header, parts) ==
    /\ header = [s \in Singletons |-> header[s]]
    /\ \A s \in Singletons :
          /\ header[s] = "" \/ \E f \in DOMAIN parts : header[s] = parts[f][s]
          /\ \A f \in DOMAIN parts : parts[f][s] # "" => header[s] = parts[f][s]

\* What the files of a set add up to.
AddsUp(fs, S, reg) ==
    /\ reg = [header |-> reg.header, context |-> reg.context, events |-> reg.events, ok |-> TRUE]
    /\ Heads(reg.header, [f \in S |-> fs[f].header])
    /\ Gathers(reg.context, [f \in S |-> fs[f].context])
    /\ Gathers(reg.events, [f \in S |-> fs[f].events])

\* There is only one thing they can add up to.
LEMMA AddsUpToOne ==
    ASSUME NEW fs, NEW S, NEW r, NEW t, AddsUp(fs, S, r), AddsUp(fs, S, t)
    PROVE  r = t
<1>1. \A parts, m1, m2 : Gathers(m1, parts) /\ Gathers(m2, parts) => m1 = m2
  <2>1. SUFFICES ASSUME NEW parts, NEW m1, NEW m2, Gathers(m1, parts), Gathers(m2, parts)
                 PROVE  m1 = m2
    OBVIOUS
  <2>2. DOMAIN m1 = DOMAIN m2
    BY <2>1 DEF Gathers
  <2>3. \A x \in DOMAIN m1 : m1[x] = m2[x]
    BY <2>1 DEF Gathers
  <2> QED  BY <2>1, <2>2, <2>3 DEF Gathers
<1>2. \A parts, h1, h2 : Heads(h1, parts) /\ Heads(h2, parts) => h1 = h2
  <2>1. SUFFICES ASSUME NEW parts, NEW h1, NEW h2, Heads(h1, parts), Heads(h2, parts)
                 PROVE  h1 = h2
    OBVIOUS
  <2>2. ASSUME NEW s \in Singletons, h1[s] # h2[s] PROVE FALSE
    <3>1. CASE h1[s] # ""
      <4>1. PICK f \in DOMAIN parts : h1[s] = parts[f][s]
        BY <2>1, <3>1 DEF Heads
      <4>2. h2[s] = parts[f][s]
        BY <2>1, <3>1, <4>1 DEF Heads
      <4> QED  BY <2>2, <4>1, <4>2
    <3>2. CASE h2[s] # ""
      <4>1. PICK f \in DOMAIN parts : h2[s] = parts[f][s]
        BY <2>1, <3>2 DEF Heads
      <4>2. h1[s] = parts[f][s]
        BY <2>1, <3>2, <4>1 DEF Heads
      <4> QED  BY <2>2, <4>1, <4>2
    <3> QED  BY <2>2, <3>1, <3>2
  <2> QED  BY <2>1, <2>2 DEF Heads
<1>3. r.header = t.header /\ r.context = t.context /\ r.events = t.events
  BY <1>1, <1>2 DEF AddsUp
<1> QED  BY <1>3 DEF AddsUp

\* A map completed by one more file.
LEMMA GatherMore ==
    ASSUME NEW parts, NEW map, Gathers(map, parts), NEW f, f \notin DOMAIN parts, NEW part,
           \A g \in DOMAIN parts : DOMAIN parts[g] \cap DOMAIN part = {},
           NEW more, more = [g \in DOMAIN parts \cup {f} |-> IF g = f THEN part ELSE parts[g]]
    PROVE  Gathers(Completed(map, part), more)
<1> DEFINE new == Completed(map, part)
<1>1. /\ DOMAIN new = DOMAIN map \cup DOMAIN part
      /\ \A x \in DOMAIN new : new[x] = IF x \in DOMAIN map THEN map[x] ELSE part[x]
      /\ new = [x \in DOMAIN new |-> new[x]]
  BY DEF Completed
<1> HIDE DEF new
<1>2. /\ DOMAIN more = DOMAIN parts \cup {f} /\ more[f] = part
      /\ \A g \in DOMAIN parts : more[g] = parts[g]
  OBVIOUS
<1>3. DOMAIN map \cap DOMAIN part = {}
  BY DEF Gathers
<1>4. \A x \in DOMAIN new : \E g \in DOMAIN more : x \in DOMAIN more[g]
  BY <1>1, <1>2 DEF Gathers
<1>5. ASSUME NEW g \in DOMAIN more, NEW x \in DOMAIN more[g]
      PROVE  x \in DOMAIN new /\ new[x] = more[g][x]
  BY <1>1, <1>2, <1>3, <1>5 DEF Gathers
<1> QED  BY <1>1, <1>4, <1>5 DEF Gathers, new

\* One more file is merged: there is an error if and only if it is in the way
\* of one that was merged.
LEMMA MergeOne ==
    ASSUME NEW fs, NEW S, NEW f, f \notin S, fs[f] \notin {Missing, Undecodable},
           Consistent(fs, S), NEW dst, AddsUp(fs, S, dst)
    PROVE  LET new == MergeFile(dst, fs[f])
           IN  /\ new.ok \in BOOLEAN
               /\ new.ok <=> Consistent(fs, S \cup {f})
               /\ new.ok => AddsUp(fs, S \cup {f}, new)
<1> DEFINE c == fs[f]
           new == MergeFile(dst, c)
           heads == [g \in S |-> fs[g].header]
           contexts == [g \in S |-> fs[g].context]
           entries == [g \in S |-> fs[g].events]
<1>1. /\ Heads(dst.header, heads) /\ Gathers(dst.context, contexts) /\ Gathers(dst.events, entries)
      /\ dst.ok
  BY DEF AddsUp
<1>2. /\ DOMAIN heads = S /\ DOMAIN contexts = S /\ DOMAIN entries = S
      /\ \A g \in S : heads[g] = fs[g].header /\ contexts[g] = fs[g].context /\ entries[g] = fs[g].events
  OBVIOUS
<1>3. new = [header  |-> [s \in Singletons |-> IF dst.header[s] = "" THEN c.header[s] ELSE dst.header[s]],
             context |-> Completed(dst.context, c.context),
             events  |-> Completed(dst.events, c.events),
             ok      |-> /\ dst.ok
                         /\ SingletonsAgree(dst.header, c.header)
                         /\ DOMAIN dst.context \cap DOMAIN c.context = {}
                         /\ DOMAIN dst.events \cap DOMAIN c.events = {}]
  BY DEF MergeFile, MergeRegistry
<1> HIDE DEF heads, contexts, entries
<1>0. \A s \in Singletons :
         /\ dst.header[s] = "" \/ \E g \in S : dst.header[s] = fs[g].header[s]
         /\ \A g \in S : fs[g].header[s] # "" => dst.header[s] = fs[g].header[s]
  <2>1. PICK h : h = dst.header
    OBVIOUS
  <2>2. ASSUME NEW s \in Singletons
        PROVE  /\ h[s] = "" \/ \E g \in DOMAIN heads : h[s] = heads[g][s]
               /\ \A g \in DOMAIN heads : heads[g][s] # "" => h[s] = heads[g][s]
    BY <1>1, <2>1 DEF Heads
  <2>3. ASSUME NEW s \in Singletons
        PROVE  /\ h[s] = "" \/ \E g \in S : h[s] = fs[g].header[s]
               /\ \A g \in S : fs[g].header[s] # "" => h[s] = fs[g].header[s]
    <3>1. h[s] = "" \/ \E g \in S : h[s] = fs[g].header[s]
      <4>1. CASE h[s] = ""
        BY <4>1
      <4>2. CASE h[s] # ""
        <5>1. PICK g \in DOMAIN heads : h[s] = heads[g][s]
          BY <2>2, <4>2
        <5> QED  BY <1>2, <5>1
      <4> QED  BY <4>1, <4>2
    <3>2. ASSUME NEW g \in S, fs[g].header[s] # "" PROVE h[s] = fs[g].header[s]
      <4>1. g \in DOMAIN heads /\ heads[g] = fs[g].header
        BY <1>2
      <4>2. heads[g][s] # "" => h[s] = heads[g][s]
        BY <2>2, <4>1
      <4> QED  BY <3>2, <4>1, <4>2
    <3> QED  BY <3>1, <3>2
  <2> QED  BY <2>1, <2>3
<1>4. SingletonsAgree(dst.header, c.header) <=> \A g \in S : SingletonsAgree(fs[g].header, c.header)
  <2>1. ASSUME NEW s \in Singletons
        PROVE  /\ dst.header[s] = "" \/ \E g \in S : dst.header[s] = fs[g].header[s]
               /\ \A g \in S : fs[g].header[s] # "" => dst.header[s] = fs[g].header[s]
    BY <1>0, <2>1
  <2> QED  BY <2>1 DEF SingletonsAgree
<1>5. DOMAIN dst.context \cap DOMAIN c.context = {} <=>
         \A g \in S : DOMAIN fs[g].context \cap DOMAIN c.context = {}
  BY <1>1, <1>2 DEF Gathers
<1>6. DOMAIN dst.events \cap DOMAIN c.events = {} <=>
         \A g \in S : DOMAIN fs[g].events \cap DOMAIN c.events = {}
  BY <1>1, <1>2 DEF Gathers
<1>7. new.ok \in BOOLEAN /\ (new.ok <=> \A g \in S : Compatible(fs[g], c))
  <2>1. /\ new.ok \in BOOLEAN
        /\ new.ok <=> /\ dst.ok
                      /\ SingletonsAgree(dst.header, c.header)
                      /\ DOMAIN dst.context \cap DOMAIN c.context = {}
                      /\ DOMAIN dst.events \cap DOMAIN c.events = {}
    <3> DEFINE fine == /\ dst.ok
                       /\ SingletonsAgree(dst.header, c.header)
                       /\ DOMAIN dst.context \cap DOMAIN c.context = {}
                       /\ DOMAIN dst.events \cap DOMAIN c.events = {}
    <3>1. fine \in BOOLEAN
      BY <1>1
    <3>2. new.ok = fine
      <4> HIDE DEF fine
      <4>1. \A h, m, e : [header |-> h, context |-> m, events |-> e, ok |-> fine].ok = fine
        OBVIOUS
      <4> USE DEF fine
      <4>2. \E h, m, e : new = [header |-> h, context |-> m, events |-> e, ok |-> fine]
        BY <1>3
      <4> HIDE DEF fine
      <4> QED  BY <4>1, <4>2
    <3> QED  BY <3>1, <3>2
  <2>2. /\ new.ok \in BOOLEAN
        /\ new.ok <=> /\ \A g \in S : SingletonsAgree(fs[g].header, c.header)
                      /\ \A g \in S : DOMAIN fs[g].context \cap DOMAIN c.context = {}
                      /\ \A g \in S : DOMAIN fs[g].events \cap DOMAIN c.events = {}
    BY <1>1, <1>4, <1>5, <1>6, <2>1
  <2> QED  BY <2>2 DEF Compatible
<1> HIDE DEF new, c
<1>8. Consistent(fs, S \cup {f}) <=> \A g \in S : Compatible(fs[g], c)
  <2>1. \A g : Compatible(c, g) <=> Compatible(g, c)
    BY DEF Compatible, SingletonsAgree
  <2> QED  BY <2>1 DEF Consistent, c
<1>9. ASSUME new.ok PROVE AddsUp(fs, S \cup {f}, new)
  <2>1. \A g \in S : Compatible(fs[g], c)
    BY <1>7, <1>9
  <2>2. Gathers(new.context, [g \in S \cup {f} |-> fs[g].context])
    <3> DEFINE more == [g \in S \cup {f} |-> fs[g].context]
    <3>1. more = [g \in DOMAIN contexts \cup {f} |-> IF g = f THEN c.context ELSE contexts[g]]
      BY <1>2 DEF c
    <3>2. new.context = Completed(dst.context, c.context)
      BY <1>3
    <3> HIDE DEF more
    <3>3. /\ f \notin DOMAIN contexts
          /\ \A g \in DOMAIN contexts : DOMAIN contexts[g] \cap DOMAIN c.context = {}
      BY <1>2, <2>1 DEF Compatible
    <3>4. PICK part : part = c.context
      OBVIOUS
    <3>5. Gathers(Completed(dst.context, part), more)
      BY <1>1, <3>1, <3>3, <3>4, GatherMore
    <3> QED  BY <3>2, <3>4, <3>5 DEF more
  <2>3. Gathers(new.events, [g \in S \cup {f} |-> fs[g].events])
    <3> DEFINE more == [g \in S \cup {f} |-> fs[g].events]
    <3>1. more = [g \in DOMAIN entries \cup {f} |-> IF g = f THEN c.events ELSE entries[g]]
      BY <1>2 DEF c
    <3>2. new.events = Completed(dst.events, c.events)
      BY <1>3
    <3> HIDE DEF more
    <3>3. /\ f \notin DOMAIN entries
          /\ \A g \in DOMAIN entries : DOMAIN entries[g] \cap DOMAIN c.events = {}
      BY <1>2, <2>1 DEF Compatible
    <3>4. PICK part : part = c.events
      OBVIOUS
    <3>5. Gathers(Completed(dst.events, part), more)
      <4>1. PICK map : map = dst.events /\ Gathers(map, entries)
        BY <1>1
      <4>2. more = [g \in DOMAIN entries \cup {f} |-> IF g = f THEN part ELSE entries[g]]
        BY <3>1, <3>4
      <4>3. \A g \in DOMAIN entries : DOMAIN entries[g] \cap DOMAIN part = {}
        BY <3>3, <3>4
      <4>4. Gathers(Completed(map, part), more)
        BY <3>3, <4>1, <4>2, <4>3, GatherMore
      <4> QED  BY <4>1, <4>4
    <3> QED  BY <3>2, <3>4, <3>5 DEF more
  <2>4. Heads(new.header, [g \in S \cup {f} |-> fs[g].header])
    <3>1. new.header = [s \in Singletons |-> IF dst.header[s] = "" THEN c.header[s] ELSE dst.header[s]]
      BY <1>3
    <3>2. ASSUME NEW s \in Singletons
          PROVE
             /\ dst.header[s] = "" \/ \E g \in S : dst.header[s] = fs[g].header[s]
             /\ \A g \in S : fs[g].header[s] # "" => dst.header[s] = fs[g].header[s]
             /\ dst.header[s] = "" \/ c.header[s] = "" \/ dst.header[s] = c.header[s]
      <4>1. SingletonsAgree(dst.header, c.header)
        BY <1>4, <2>1 DEF Compatible
      <4>2. dst.header[s] = "" \/ c.header[s] = "" \/ dst.header[s] = c.header[s]
        BY <4>1 DEF SingletonsAgree
      <4> QED  BY <1>0, <4>2
    <3>3. ASSUME NEW s \in Singletons
          PROVE
             /\ new.header[s] = "" \/ \E g \in S \cup {f} : new.header[s] = fs[g].header[s]
             /\ \A g \in S \cup {f} : fs[g].header[s] # "" => new.header[s] = fs[g].header[s]
      <4>1. new.header[s] = IF dst.header[s] = "" THEN c.header[s] ELSE dst.header[s]
        BY <3>1
      <4>2. \A g \in S \cup {f} : g = f \/ g \in S
        OBVIOUS
      <4>3. f \in S \cup {f} /\ c = fs[f]
        BY DEF c
      <4> HIDE DEF c
      <4>4. CASE dst.header[s] = ""
        BY <3>2, <4>1, <4>2, <4>3, <4>4
      <4>5. CASE dst.header[s] # ""
        <5>1. new.header[s] = dst.header[s]
          BY <4>1, <4>5
        <5>2. PICK g \in S : dst.header[s] = fs[g].header[s]
          BY <3>2, <4>5
        <5>3. \A h \in S : fs[h].header[s] # "" => new.header[s] = fs[h].header[s]
          BY <3>2, <5>1
        <5>4. fs[f].header[s] # "" => new.header[s] = fs[f].header[s]
          BY <3>2, <4>3, <4>5, <5>1
        <5> QED  BY <4>2, <5>1, <5>2, <5>3, <5>4
      <4> QED  BY <4>4, <4>5
    <3>4. DOMAIN [g \in S \cup {f} |-> fs[g].header] = S \cup {f}
      OBVIOUS
    <3> QED  BY <3>1, <3>3, <3>4 DEF Heads
  <2>5. new = [header |-> new.header, context |-> new.context, events |-> new.events, ok |-> TRUE]
    BY <1>3, <1>7, <1>9
  <2> QED  BY <2>2, <2>3, <2>4, <2>5 DEF AddsUp
<1> QED  BY <1>7, <1>8, <1>9 DEF new, c

\* Files in any order: they are merged without an error if and only if none is
\* in the way of another, and then to what they add up to.
THEOREM LoadAddsUp ==
    ASSUME NEW fs, NEW order, NEW n \in Nat, Len(order) = n,
           order \in [1..n -> YamlFiles], YamlFiles = {order[i] : i \in 1..n},
           \A i, j \in 1..n : order[i] = order[j] => i = j
    PROVE  LET reg   == LoadFiles(fs, order)
               found == DiscoverYAMLFiles(fs)
           IN  /\ reg.ok \in BOOLEAN
               /\ reg.ok <=> found # {} /\ Consistent(fs, found)
               /\ reg.ok => AddsUp(fs, found, reg)
<1> DEFINE found == DiscoverYAMLFiles(fs)
           Seen(i) == {order[j] : j \in 1..i} \cap found
           Good(i, r) ==
              /\ "ok" \in DOMAIN r
              /\ r.ok \in BOOLEAN
              /\ r.ok <=> found # {} /\ Consistent(fs, Seen(i))
              /\ r.ok => AddsUp(fs, Seen(i), r)
<1>1. PICK merged : MergedUpTo(fs, order, n, merged) /\ LoadFiles(fs, order) = merged[n]
  <2> DEFINE chosen == CHOOSE m : MergedUpTo(fs, order, n, m)
  <2>1. LoadFiles(fs, order) = chosen[n]
    BY DEF LoadFiles, MergedUpTo
  <2>2. MergedUpTo(fs, order, n, chosen)
    BY MergedExists
  <2> QED  BY <2>1, <2>2
<1>2. \A i \in 0..n : merged[i] =
         IF i = 0 THEN [NothingMerged EXCEPT !.ok = found # {}]
         ELSE IF order[i] \in found THEN MergeFile(merged[i - 1], fs[order[i]])
         ELSE merged[i - 1]
  BY <1>1 DEF MergedUpTo
<1>3. \A f \in found : fs[f] # Missing
  BY DEF DiscoverYAMLFiles
<1> HIDE DEF found
<1>4. Good(0, merged[0])
  <2>1. 0 \in 0..n /\ Seen(0) = {}
    OBVIOUS
  <2>2. merged[0] = [NothingMerged EXCEPT !.ok = found # {}]
    BY <1>2, <2>1
  <2>3. PICK any \in BOOLEAN : any <=> found # {}
    OBVIOUS
  <2>4. PICK nowhere : nowhere = [s \in Singletons |-> ""]
    OBVIOUS
  <2>5. merged[0] = [header |-> nowhere, context |-> EmptyMap, events |-> EmptyMap, ok |-> any]
    <3>1. any = (found # {})
      BY <2>3
    <3> QED  BY <2>2, <2>4, <3>1 DEF NothingMerged
  <2>6. "ok" \in DOMAIN merged[0] /\ merged[0].ok \in BOOLEAN /\ (merged[0].ok <=> found # {})
    <3>1. PICK r : r = merged[0]
      OBVIOUS
    <3>2. r.ok = any /\ "ok" \in DOMAIN r
      BY <2>5, <3>1
    <3> QED  BY <2>3, <3>1, <3>2
  <2>7. Consistent(fs, {})
    BY DEF Consistent
  <2>8. ASSUME merged[0].ok PROVE AddsUp(fs, {}, merged[0])
    <3>1. merged[0] = [header |-> merged[0].header, context |-> merged[0].context,
                       events |-> merged[0].events, ok |-> TRUE]
      BY <2>5, <2>6, <2>8
    <3>2. \A parts : Gathers(EmptyMap, [f \in {} |-> parts[f]])
      BY DEF Gathers, EmptyMap
    <3>3. \A parts : Heads([s \in Singletons |-> ""], [f \in {} |-> parts[f]])
      BY DEF Heads
    <3>4. /\ merged[0].header = nowhere /\ nowhere = [s \in Singletons |-> ""]
          /\ merged[0].context = EmptyMap /\ merged[0].events = EmptyMap
      <4>1. PICK r : r = merged[0]
        OBVIOUS
      <4>2. r.header = nowhere /\ r.context = EmptyMap /\ r.events = EmptyMap
        BY <2>5, <4>1
      <4> QED  BY <2>4, <4>1, <4>2
    <3>5. /\ Heads(merged[0].header, [f \in {} |-> fs[f].header])
          /\ Gathers(merged[0].context, [f \in {} |-> fs[f].context])
          /\ Gathers(merged[0].events, [f \in {} |-> fs[f].events])
      <4>1. \A parts : [f \in {} |-> parts[f]] = [f \in {} |-> fs[f].header]
        OBVIOUS
      <4>2. \A parts : [f \in {} |-> parts[f]] = [f \in {} |-> fs[f].context]
        OBVIOUS
      <4>3. \A parts : [f \in {} |-> parts[f]] = [f \in {} |-> fs[f].events]
        OBVIOUS
      <4>4. Heads(nowhere, [f \in {} |-> fs[f].header])
        BY <3>3, <3>4, <4>1
      <4>5. Gathers(EmptyMap, [f \in {} |-> fs[f].context])
        BY <3>2, <4>2
      <4>6. Gathers(EmptyMap, [f \in {} |-> fs[f].events])
        BY <3>2, <4>3
      <4> QED  BY <3>4, <4>4, <4>5, <4>6
    <3> QED  BY <3>1, <3>5 DEF AddsUp
  <2> QED  BY <2>1, <2>6, <2>7, <2>8
<1>5. ASSUME NEW i \in 1..n, Good(i - 1, merged[i - 1])
      PROVE  Good(i, merged[i])
  <2> DEFINE f == order[i]
             dst == merged[i - 1]
             S == Seen(i - 1)
  <2>1. i \in 0..n /\ i # 0
    OBVIOUS
  <2>2. merged[i] = IF f \in found THEN MergeFile(dst, fs[f]) ELSE dst
    BY <1>2, <2>1
  <2>3. f \notin S /\ Seen(i) = IF f \in found THEN S \cup {f} ELSE S
    <3>1. 1..i = 1..(i - 1) \cup {i} /\ \A j \in 1..(i - 1) : j \in 1..n /\ j # i
      OBVIOUS
    <3> QED  BY <3>1
  <2>4. /\ "ok" \in DOMAIN dst /\ dst.ok \in BOOLEAN
        /\ dst.ok <=> found # {} /\ Consistent(fs, S)
        /\ dst.ok => AddsUp(fs, S, dst)
    BY <1>5
  <2> HIDE DEF f, dst, S, Seen
  <2>5. CASE f \notin found
    BY <2>2, <2>3, <2>4, <2>5
  <2>6. CASE f \in found
    <3>1. merged[i] = MergeFile(dst, fs[f]) /\ Seen(i) = S \cup {f} /\ fs[f] # Missing
      BY <1>3, <2>2, <2>3, <2>6
    <3>2. Consistent(fs, S \cup {f}) => Consistent(fs, S)
      BY DEF Consistent
    <3>3. CASE fs[f] = Undecodable
      <4>1. merged[i] = [dst EXCEPT !.ok = FALSE]
        BY <3>1, <3>3 DEF MergeFile
      <4>2. "ok" \in DOMAIN merged[i] /\ merged[i].ok = FALSE
        BY <2>4, <4>1
      <4>3. ~Consistent(fs, S \cup {f})
        BY <3>3 DEF Consistent
      <4> QED  BY <3>1, <4>2, <4>3
    <3>4. CASE fs[f] # Undecodable /\ dst.ok
      <4>1. "ok" \in DOMAIN MergeFile(dst, fs[f])
        BY <3>1, <3>4 DEF MergeFile, MergeRegistry
      <4> DEFINE new == MergeFile(dst, fs[f])
      <4>2. /\ new.ok \in BOOLEAN
            /\ new.ok <=> Consistent(fs, S \cup {f})
            /\ new.ok => AddsUp(fs, S \cup {f}, new)
        BY <2>3, <2>4, <3>1, <3>4, MergeOne
      <4> HIDE DEF new
      <4> QED  BY <2>4, <3>1, <3>4, <4>1, <4>2 DEF new
    <3>5. CASE fs[f] # Undecodable /\ ~dst.ok
      <4>1. "ok" \in DOMAIN MergeFile(dst, fs[f]) /\ MergeFile(dst, fs[f]).ok = FALSE
        BY <2>4, <3>1, <3>5 DEF MergeFile, MergeRegistry
      <4> QED  BY <2>4, <3>1, <3>2, <3>5, <4>1
    <3> QED  BY <3>3, <3>4, <3>5
  <2> QED  BY <2>5, <2>6
<1>6. \A i \in 0..n : Good(i, merged[i])
  <2> DEFINE Bad == {i \in 0..n : ~Good(i, merged[i])}
  <2> HIDE DEF Good
  <2>1. SUFFICES ASSUME Bad # {} PROVE FALSE
    OBVIOUS
  <2>2. PICK i \in Bad : \A y \in Bad : i <= y
    <3>1. Bad \in SUBSET Nat
      OBVIOUS
    <3> HIDE DEF Bad
    <3> QED  BY <2>1, <3>1, LeastNumber
  <2>3. i \in 1..n /\ i - 1 \in 0..n
    BY <1>4, <2>2
  <2>4. Good(i - 1, merged[i - 1])
    BY <2>2, <2>3
  <2> QED  BY <1>5, <2>2, <2>3, <2>4
<1>7. Good(n, merged[n]) /\ Seen(n) = found
  <2>1. Seen(n) = found
    BY DEF found, DiscoverYAMLFiles
  <2> HIDE DEF Good
  <2> QED  BY <1>6, <2>1
<1> HIDE DEF Seen
<1> QED  BY <1>1, <1>7 DEF found

\* Two orders of the same files.
LEMMA OrderIsIgnored ==
    ASSUME NEW fs
    PROVE  LET other == LoadFiles(fs, Reverse(FileOrder))
           IN  /\ other.ok = Load(fs, Directory).ok
               /\ other.ok => other = Load(fs, Directory)
<1> DEFINE n == Len(FileOrder)
           back == Reverse(FileOrder)
<1>1. /\ n \in Nat /\ FileOrder \in [1..n -> YamlFiles] /\ YamlFiles = {FileOrder[i] : i \in 1..n}
      /\ \A i, j \in 1..n : FileOrder[i] = FileOrder[j] => i = j
  BY FileOrderAssumption DEF YamlFiles, Range
<1>2. back = [i \in 1..n |-> FileOrder[(n - i) + 1]]
  BY DEF Reverse
<1> HIDE DEF n, back
<1>3. \A i \in 1..n : (n - i) + 1 \in 1..n /\ (n - ((n - i) + 1)) + 1 = i
  BY <1>1
<1>4. /\ back \in [1..n -> YamlFiles] /\ Len(back) = n
      /\ YamlFiles = {back[i] : i \in 1..n}
      /\ \A i, j \in 1..n : back[i] = back[j] => i = j
  <2>1. back \in [1..n -> YamlFiles] /\ Len(back) = n
    BY <1>1, <1>2, <1>3
  <2>2. \A i \in 1..n : back[i] = FileOrder[(n - i) + 1] /\ back[(n - i) + 1] = FileOrder[i]
    BY <1>2, <1>3
  <2>3. YamlFiles = {back[i] : i \in 1..n}
    <3>1. ASSUME NEW i \in 1..n PROVE FileOrder[i] \in {back[j] : j \in 1..n}
      BY <1>3, <2>2
    <3>2. ASSUME NEW i \in 1..n PROVE back[i] \in YamlFiles
      BY <2>1
    <3>3. \A f \in YamlFiles : f \in {back[j] : j \in 1..n}
      BY <1>1, <3>1
    <3>4. \A f \in {back[j] : j \in 1..n} : f \in YamlFiles
      BY <3>2
    <3> QED  BY <3>3, <3>4
  <2>4. ASSUME NEW i \in 1..n, NEW j \in 1..n, back[i] = back[j] PROVE i = j
    <3>1. FileOrder[(n - i) + 1] = FileOrder[(n - j) + 1]
      BY <2>2, <2>4
    <3>2. (n - i) + 1 = (n - j) + 1
      BY <1>1, <1>3, <3>1
    <3> QED  BY <1>1, <3>2
  <2> QED  BY <2>1, <2>3, <2>4
<1>5. Load(fs, Directory) = LoadFiles(fs, FileOrder)
  BY DEF Load
<1> DEFINE one == LoadFiles(fs, FileOrder)
           two == LoadFiles(fs, back)
           found == DiscoverYAMLFiles(fs)
<1>6. /\ one.ok \in BOOLEAN
      /\ one.ok <=> found # {} /\ Consistent(fs, found)
      /\ one.ok => AddsUp(fs, found, one)
  BY <1>1, LoadAddsUp DEF n
<1>7. /\ two.ok \in BOOLEAN
      /\ two.ok <=> found # {} /\ Consistent(fs, found)
      /\ two.ok => AddsUp(fs, found, two)
  BY <1>1, <1>4, LoadAddsUp
<1> HIDE DEF one, two, found
<1>8. two.ok = one.ok /\ (two.ok => two = one)
  BY <1>6, <1>7, AddsUpToOne
<1> QED  BY <1>5, <1>8 DEF one, two, back

-----------------------------------------------------------------------------
(* The past of a directory *)

\* The locks after each of the first n updates.
LocksUpTo(past, n, lock) ==
    lock = [i \in 0..n |->
        IF i = 0 THEN EmptyLock ELSE UpdateLock(lock[i - 1], RegistryAt(past[i], Directory))]

LEMMA LocksExist ==
    ASSUME NEW past, NEW n \in Nat
    PROVE  \E lock : LocksUpTo(past, n, lock)
<1> DEFINE Bad == {i \in Nat : ~ \E m : LocksUpTo(past, i, m)}
<1>1. SUFFICES ASSUME Bad # {} PROVE FALSE
  OBVIOUS
<1>2. PICK i \in Bad : \A y \in Bad : i <= y
  <2>1. Bad \in SUBSET Nat
    OBVIOUS
  <2> HIDE DEF Bad
  <2> QED  BY <1>1, <2>1, LeastNumber
<1>3. CASE i = 0
  <2>1. LocksUpTo(past, 0, [j \in 0..0 |-> EmptyLock])
    BY DEF LocksUpTo
  <2> QED  BY <1>3, <2>1
<1>4. CASE i # 0
  <2>1. i - 1 \in Nat /\ i - 1 \notin Bad
    BY <1>2, <1>4
  <2>2. PICK m : LocksUpTo(past, i - 1, m)
    BY <2>1
  <2> DEFINE step == UpdateLock(m[i - 1], RegistryAt(past[i], Directory))
             new == [j \in 0..i |-> IF j = i THEN step ELSE m[j]]
  <2> HIDE DEF step
  <2>3. \A j \in 0..(i - 1) : new[j] = m[j]
    BY <2>1
  <2>4. \A j \in 0..(i - 1) : new[j] =
           IF j = 0 THEN EmptyLock ELSE UpdateLock(new[j - 1], RegistryAt(past[j], Directory))
    <3>1. ASSUME NEW j \in 0..(i - 1)
          PROVE  m[j] = IF j = 0 THEN EmptyLock
                        ELSE UpdateLock(m[j - 1], RegistryAt(past[j], Directory))
      BY <2>1, <2>2 DEF LocksUpTo
    <3>2. \A j \in 0..(i - 1) : j # 0 => j - 1 \in 0..(i - 1)
      BY <2>1
    <3> HIDE DEF new
    <3> QED  BY <2>3, <3>1, <3>2
  <2>5. new[i] = UpdateLock(new[i - 1], RegistryAt(past[i], Directory))
    <3>1. new[i] = step /\ i - 1 \in 0..(i - 1)
      BY <2>1
    <3> HIDE DEF new
    <3> QED  BY <2>3, <3>1 DEF step
  <2>6. LocksUpTo(past, i, new)
    <3>1. new = [j \in 0..i |-> new[j]]
      OBVIOUS
    <3>2. \A j \in 0..i : j = i \/ j \in 0..(i - 1)
      BY <2>1
    <3> HIDE DEF new
    <3>3. \A j \in 0..i : new[j] =
             IF j = 0 THEN EmptyLock ELSE UpdateLock(new[j - 1], RegistryAt(past[j], Directory))
      BY <1>4, <2>4, <2>5, <3>2
    <3> QED  BY <3>1, <3>3, Zenon DEF LocksUpTo
  <2> QED  BY <2>6
<1> QED  BY <1>3, <1>4

\* An update keeps what it was given for the context and for the events that
\* the registry has.
LEMMA UpdateKeeps ==
    ASSUME NEW lock, LockSound(lock), NEW reg, RegistryShaped(reg),
           PermanentEvents \subseteq DOMAIN reg.events,
           NEW p, p.scope \in PermanentEvents \cup {ContextScope}, Keeps(lock, p)
    PROVE  Keeps(UpdateLock(lock, reg), p)
<1> DEFINE new == UpdateLock(lock, reg)
<1>1. CASE p.scope = ContextScope
  <2> HIDE DEF new
  <2>1. /\ \A n \in DOMAIN lock.context : new.context[n] = lock.context[n]
        /\ DOMAIN lock.context \subseteq DOMAIN new.context
    BY UpdateLockIsSound DEF new
  <2> QED  BY <1>1, <2>1 DEF Keeps, new
<1>2. CASE p.scope # ContextScope
  <2> DEFINE k == p.scope
  <2>1. k \in DOMAIN reg.events /\ Remembers(EntryOf(lock, k), p.field.name, p.field.number)
    BY <1>2 DEF Keeps, Remembers
  <2>2. EntryOf(new, k) = UpdatedEvent(EntryOf(lock, k), DOMAIN reg.events[k])
    BY <2>1 DEF UpdateLock, EntryOf
  <2>3. DOMAIN reg.events[k] \in SUBSET PropertyNames /\ EntrySound(EntryOf(lock, k))
    BY <2>1, EntryOfIsSound DEF RegistryShaped
  <2> HIDE DEF k, new
  <2>4. Remembers(EntryOf(new, k), p.field.name, p.field.number)
    BY <2>1, <2>2, <2>3, UpdateRemembers
  <2> QED  BY <1>2, <2>4 DEF Remembers, Keeps, k, new
<1> QED  BY <1>1, <1>2

\* A lock that has an entry for every field of a registry keeps the fields of
\* the schema it is lowered to.
LEMMA SchemaIsKept ==
    ASSUME NEW lock, NEW reg, RegistryShaped(reg),
           DOMAIN reg.context \subseteq DOMAIN lock.context,
           \A k \in DOMAIN reg.events :
              /\ k \in DOMAIN lock.events
              /\ DOMAIN reg.events[k] \subseteq DOMAIN lock.events[k].properties,
           NEW p \in Published(FromRegistry(reg, lock))
    PROVE  Keeps(lock, p)
<1> DEFINE schema == FromRegistry(reg, lock)
<1>1. \/ p.scope = ContextScope /\ p.field \in schema.context
      \/ \E k \in DOMAIN schema.events : p.scope = k /\ p.field \in schema.events[k]
  BY DEF Published
<1>2. CASE p.scope = ContextScope /\ p.field \in schema.context
  <2>1. p.field \in LowerMessage(reg.context, lock.context)
    BY <1>2 DEF FromRegistry
  <2>2. PICK n \in DOMAIN reg.context :
           p.field.name = n /\ p.field.number = lock.context[n].protoNumber
    BY <2>1 DEF LowerMessage
  <2> QED  BY <1>2, <2>2 DEF Keeps
<1>3. CASE \E k \in DOMAIN schema.events : p.scope = k /\ p.field \in schema.events[k]
  <2>1. PICK k \in DOMAIN reg.events :
           /\ p.scope = k
           /\ p.field \in LowerMessage(reg.events[k], lock.events[k].properties)
    BY <1>3 DEF FromRegistry
  <2>2. PICK n \in DOMAIN reg.events[k] :
           p.field.name = n /\ p.field.number = lock.events[k].properties[n].protoNumber
    BY <2>1 DEF LowerMessage
  <2>3. k # ContextScope
    BY ContextScopeAssumption DEF RegistryShaped
  <2> QED  BY <2>1, <2>2, <2>3 DEF Keeps, EntryOf
<1> QED  BY <1>1, <1>2, <1>3

\* The committed lock of a directory with a past is sound and keeps every
\* field that was generated from the directory.
Kept(lock, fields) ==
    \A p \in fields : p.scope \in PermanentEvents \cup {ContextScope} => Keeps(lock, p)

LEMMA PastFacts ==
    ASSUME NEW past \in Pasts, NEW n \in 0..Len(past)
    PROVE  LET lock == LocksOf(past)[n]
           IN  /\ LockSound(lock) /\ LockShaped(lock)
               /\ n > 0 => lock.version = LockVersion
               /\ Kept(lock, UNION {Published(SchemaOfPast(past, i)) : i \in 1..n})
<1>1. past \in [1..Len(past) -> Directories] /\ Len(past) \in Nat
  BY PastsAssumption
<1> DEFINE last == Len(past)
           locks == LocksOf(past)
           Good(i) ==
              /\ LockSound(locks[i]) /\ LockShaped(locks[i])
              /\ i > 0 => locks[i].version = LockVersion
              /\ \A j \in 1..i : Kept(locks[i], Published(SchemaOfPast(past, j)))
<1>2. LocksUpTo(past, last, locks)
  <2> DEFINE chosen == CHOOSE m : LocksUpTo(past, last, m)
  <2>1. locks = chosen
    BY DEF LocksOf, LocksUpTo
  <2>2. LocksUpTo(past, last, chosen)
    BY <1>1, LocksExist
  <2> HIDE DEF chosen, locks
  <2> QED  BY <2>1, <2>2
<1>3. \A i \in 1..last : SchemaOfPast(past, i) = FromRegistry(RegistryAt(past[i], Directory), locks[i])
  BY DEF SchemaOfPast
<1> HIDE DEF last, locks
<1>4. \A i \in 0..last : Good(i)
  <2> DEFINE Bad == {i \in 0..last : ~Good(i)}
  <2> HIDE DEF Good
  <2>1. SUFFICES ASSUME Bad # {} PROVE FALSE
    OBVIOUS
  <2>2. PICK i \in Bad : \A y \in Bad : i <= y
    <3>1. Bad \in SUBSET Nat
      BY <1>1 DEF last
    <3> HIDE DEF Bad
    <3> QED  BY <2>1, <3>1, LeastNumber
  <2>3. last \in Nat
    BY <1>1 DEF last
  <2>4. CASE i = 0
    <3>1. locks[0] = EmptyLock
      BY <1>2, <2>3 DEF LocksUpTo
    <3>2. Good(0)
      BY <3>1, EmptyLockIsSound, EmptyIsShaped DEF Good
    <3> QED  BY <2>4, <3>2
  <2>5. CASE i # 0
    <3> DEFINE old == locks[i - 1]
               new == locks[i]
               reg == RegistryAt(past[i], Directory)
    <3>1. i - 1 \in 0..last /\ i \in 1..last
      BY <2>3, <2>5
    <3>2. Good(i - 1)
      BY <2>2, <2>3, <3>1
    <3>3. new = UpdateLock(old, reg)
      BY <1>2, <2>3, <2>5, <3>1 DEF LocksUpTo
    <3>4. RegistryShaped(reg) /\ PermanentEvents \subseteq DOMAIN reg.events
      BY <1>1, <3>1, LoadedFacts DEF last
    <3> HIDE DEF old, new, reg
    <3>5. LockSound(old) /\ LockSound(new) /\ LockShaped(new) /\ new.version = LockVersion
      <4>1. LockSound(old)
        BY <3>2 DEF Good, old
      <4>2. UpdateLock(old, reg).version = LockVersion
        BY DEF UpdateLock
      <4> QED  BY <3>3, <3>4, <4>1, <4>2, UpdateLockIsSound, UpdatedIsShaped
    <3>6. Kept(new, Published(SchemaOfPast(past, i)))
      <4>1. /\ DOMAIN reg.context \subseteq DOMAIN new.context
            /\ \A k \in DOMAIN reg.events :
                  /\ k \in DOMAIN new.events
                  /\ DOMAIN reg.events[k] \subseteq DOMAIN new.events[k].properties
        BY <3>3 DEF UpdateLock, UpdatedEvent, Extend
      <4>2. SchemaOfPast(past, i) = FromRegistry(reg, new)
        BY <1>3, <3>1 DEF reg, new
      <4> QED  BY <3>4, <4>1, <4>2, SchemaIsKept DEF Kept
    <3>7. ASSUME NEW j \in 1..(i - 1) PROVE Kept(new, Published(SchemaOfPast(past, j)))
      <4>1. Kept(old, Published(SchemaOfPast(past, j)))
        BY <3>2 DEF Good, old
      <4> QED  BY <3>3, <3>4, <3>5, <4>1, UpdateKeeps DEF Kept
    <3>8. \A j \in 1..i : j = i \/ j \in 1..(i - 1)
      BY <2>3
    <3>9. Good(i)
      BY <3>5, <3>6, <3>7, <3>8 DEF Good, new
    <3> QED  BY <3>9
  <2> QED  BY <2>4, <2>5
<1>5. Good(n)
  <2> HIDE DEF Good
  <2> QED  BY <1>4 DEF last
<1>6. Kept(locks[n], UNION {Published(SchemaOfPast(past, i)) : i \in 1..n})
  BY <1>5 DEF Kept
<1>7. LockSound(locks[n]) /\ LockShaped(locks[n]) /\ (n > 0 => locks[n].version = LockVersion)
  BY <1>5
<1> QED  BY <1>6, <1>7 DEF locks

-----------------------------------------------------------------------------
(* Locks of which only a part was written *)

\* Where the text of a lock may end.
LEMMA PrefixKinds ==
    ASSUME NEW lock, NEW prefix \in LockPrefixes(lock)
    PROVE  \/ prefix = EmptyLock
           \/ \E fs \in FieldPrefixes(lock.context) :
                 prefix = [lock EXCEPT !.context = fs, !.events = EmptyMap]
           \/ \E k \in DOMAIN lock.events : \E e \in EventPrefixes(lock.events[k]) :
                 prefix = [lock EXCEPT !.events = CutAt(lock.events, k, e)]
<1> DEFINE Cut(k, e) == [lock EXCEPT !.events = CutAt(lock.events, k, e)]
           Early(fs) == [lock EXCEPT !.context = fs, !.events = EmptyMap]
<1>1. LockPrefixes(lock) =
         ({EmptyLock}
          \cup {Early(fs) : fs \in FieldPrefixes(lock.context)}
          \cup UNION {{Cut(k, e) : e \in EventPrefixes(lock.events[k])} : k \in DOMAIN lock.events})
         \ {lock}
  BY DEF LockPrefixes
<1> HIDE DEF Cut, Early
<1>2. \/ prefix = EmptyLock
      \/ \E fs \in FieldPrefixes(lock.context) : prefix = Early(fs)
      \/ \E k \in DOMAIN lock.events : \E e \in EventPrefixes(lock.events[k]) : prefix = Cut(k, e)
  BY <1>1
<1> QED  BY <1>2 DEF Cut, Early

\* What a map of fields cut short says: of each field what the whole one says,
\* except that one number may have lost digits at its end.
SaysLess(part, whole) ==
    /\ DOMAIN part \subseteq DOMAIN whole
    /\ \A n \in DOMAIN part :
          \/ part[n] = whole[n]
          \/ part[n].protoNumber \in CutNumbers(whole[n].protoNumber)
    /\ \A m, n \in DOMAIN part : part[m] # whole[m] /\ part[n] # whole[n] => m = n

LEMMA FieldPrefixFacts ==
    ASSUME NEW fields, NEW names, FieldsShaped(fields, names), Bounded(NumbersOf(fields)),
           NEW part \in FieldPrefixes(fields)
    PROVE  FieldsShaped(part, names) /\ Bounded(NumbersOf(part)) /\ SaysLess(part, fields)
<1>1. ASSUME NEW n
      PROVE  /\ FieldsShaped(UpTo(fields, n), names)
             /\ NumbersOf(UpTo(fields, n)) \subseteq NumbersOf(fields)
             /\ \A m \in DOMAIN UpTo(fields, n) :
                   m \in DOMAIN fields /\ UpTo(fields, n)[m] = fields[m]
  BY DEF FieldsShaped, UpTo, NumbersOf
<1>2. ASSUME NEW n, part = UpTo(fields, n)
      PROVE  FieldsShaped(part, names) /\ Bounded(NumbersOf(part)) /\ SaysLess(part, fields)
  <2>1. Bounded(NumbersOf(part))
    BY <1>1, <1>2 DEF Bounded
  <2>2. SaysLess(part, fields)
    BY <1>1, <1>2 DEF SaysLess
  <2> QED  BY <1>1, <1>2, <2>1, <2>2
<1>3. ASSUME NEW n \in DOMAIN fields, NEW y \in CutNumbers(fields[n].protoNumber),
             part = [UpTo(fields, n) EXCEPT ![n].protoNumber = y]
      PROVE  FieldsShaped(part, names) /\ Bounded(NumbersOf(part)) /\ SaysLess(part, fields)
  <2> DEFINE first == UpTo(fields, n)
  <2>1. /\ FieldsShaped(first, names) /\ NumbersOf(first) \subseteq NumbersOf(fields)
        /\ \A m \in DOMAIN first : m \in DOMAIN fields /\ first[m] = fields[m]
    BY <1>1
  <2>2. /\ y \in Int /\ fields[n].protoNumber \in Int /\ y <= fields[n].protoNumber
        /\ fields[n].protoNumber \in NumbersOf(fields)
    BY DEF CutNumbers, FieldsShaped, NumbersOf
  <2>3. part = [first EXCEPT ![n].protoNumber = y]
    BY <1>3
  <2> HIDE DEF first
  <2>4. /\ part \in [DOMAIN first -> [stableID : names, protoNumber : Int]]
        /\ DOMAIN part = DOMAIN first
        /\ \A m \in DOMAIN part : m # n => part[m] = first[m]
        /\ n \in DOMAIN part => part[n].protoNumber = y
    BY <2>1, <2>2, <2>3 DEF FieldsShaped
  <2>5. FieldsShaped(part, names)
    BY <2>1, <2>4 DEF FieldsShaped
  <2>6. \A x \in NumbersOf(part) : x = y \/ x \in NumbersOf(fields)
    BY <2>1, <2>4 DEF NumbersOf
  <2>7. Bounded(NumbersOf(part))
    <3>1. PICK b \in Nat : \A x \in NumbersOf(fields) : x <= b
      BY DEF Bounded
    <3>2. y <= b
      BY <2>2, <3>1
    <3> QED  BY <2>6, <3>1, <3>2 DEF Bounded
  <2>8. SaysLess(part, fields)
    BY <1>3, <2>1, <2>4 DEF SaysLess
  <2> QED  BY <2>5, <2>7, <2>8
<1>4. \/ \E n : part = UpTo(fields, n)
      \/ \E n \in DOMAIN fields : \E y \in CutNumbers(fields[n].protoNumber) :
            part = [UpTo(fields, n) EXCEPT ![n].protoNumber = y]
  <2> DEFINE Lost(n, y) == [UpTo(fields, n) EXCEPT ![n].protoNumber = y]
  <2>1. FieldPrefixes(fields) =
           {UpTo(fields, n) : n \in {0} \cup DOMAIN fields}
           \cup UNION {{Lost(n, y) : y \in CutNumbers(fields[n].protoNumber)} : n \in DOMAIN fields}
    BY DEF FieldPrefixes
  <2> HIDE DEF Lost
  <2>2. \/ \E n : part = UpTo(fields, n)
        \/ \E n \in DOMAIN fields : \E y \in CutNumbers(fields[n].protoNumber) : part = Lost(n, y)
    BY <2>1
  <2> QED  BY <2>2 DEF Lost
<1> QED  BY <1>2, <1>3, <1>4

\* The same of the properties of an event entry cut short.
LEMMA EntryPrefixFacts ==
    ASSUME NEW e, EntryShaped(e), NEW part \in EventPrefixes(e)
    PROVE  EntryShaped(part) /\ SaysLess(part.properties, e.properties)
<1>1. /\ e = [envelope |-> e.envelope, properties |-> e.properties,
              reserved |-> e.reserved, inOrder |-> e.inOrder]
      /\ FieldsShaped(e.envelope, DOMAIN EnvelopeNumbers \cup {"unknown"})
      /\ FieldsShaped(e.properties, PropertyNames)
      /\ e.reserved \subseteq ReservedShape /\ e.inOrder \in BOOLEAN /\ Bounded(History(e))
  BY DEF EntryShaped
<1>2. /\ NoEntry = [envelope |-> EmptyMap, properties |-> EmptyMap, reserved |-> {}, inOrder |-> TRUE]
      /\ DOMAIN EmptyMap = {} /\ EmptyMap = [x \in DOMAIN EmptyMap |-> EmptyMap[x]]
  BY DEF NoEntry, EmptyMap
<1>3. \A names : FieldsShaped(EmptyMap, names)
  BY <1>2 DEF FieldsShaped
<1>4. CASE part = NoEntry
  <2>1. History(NoEntry) = {}
    BY <1>2 DEF History, NumbersOf, ReservedNumbers
  <2> QED  BY <1>2, <1>3, <1>4, <2>1 DEF EntryShaped, Bounded, SaysLess
<1>5. ASSUME NEW fs \in FieldPrefixes(e.properties),
             part = [NoEntry EXCEPT !.envelope = e.envelope, !.properties = fs]
      PROVE  EntryShaped(part) /\ SaysLess(part.properties, e.properties)
  <2>1. part = [envelope |-> e.envelope, properties |-> fs, reserved |-> {}, inOrder |-> TRUE]
    BY <1>2, <1>5
  <2>2. Bounded(NumbersOf(e.properties))
    BY <1>1 DEF Bounded, History
  <2>3. FieldsShaped(fs, PropertyNames) /\ Bounded(NumbersOf(fs)) /\ SaysLess(fs, e.properties)
    BY <1>1, <2>2, FieldPrefixFacts
  <2>4. History(part) = NumbersOf(fs)
    BY <2>1 DEF History, ReservedNumbers
  <2> QED  BY <1>1, <2>1, <2>3, <2>4 DEF EntryShaped
<1>6. ASSUME NEW x, part = [e EXCEPT !.reserved = {r \in e.reserved : r.protoNumber <= x}]
      PROVE  EntryShaped(part) /\ SaysLess(part.properties, e.properties)
  <2>1. part = [envelope |-> e.envelope, properties |-> e.properties,
                reserved |-> {r \in e.reserved : r.protoNumber <= x}, inOrder |-> e.inOrder]
    BY <1>1, <1>6
  <2>2. History(part) \subseteq History(e)
    BY <2>1 DEF History, ReservedNumbers
  <2>3. SaysLess(part.properties, e.properties)
    BY <2>1 DEF SaysLess
  <2> QED  BY <1>1, <2>1, <2>2, <2>3 DEF EntryShaped, Bounded
<1> QED  BY <1>4, <1>5, <1>6 DEF EventPrefixes

\* And of a lock cut short, in one map of fields only.
LEMMA PrefixFacts ==
    ASSUME NEW lock, LockShaped(lock), NEW prefix \in LockPrefixes(lock)
    PROVE  /\ LockShaped(prefix)
           /\ SaysLess(prefix.context, lock.context)
           /\ \A k \in DOMAIN prefix.events :
                 /\ k \in DOMAIN lock.events
                 /\ SaysLess(prefix.events[k].properties, lock.events[k].properties)
           /\ prefix.context = lock.context \/ DOMAIN prefix.events = {}
           /\ \E k : \A j \in DOMAIN prefix.events :
                 j # k => prefix.events[j] = lock.events[j]
<1>1. /\ lock = [version |-> lock.version, context |-> lock.context, events |-> lock.events]
      /\ FieldsShaped(lock.context, ContextNames)
      /\ Bounded(NumbersOf(lock.context))
      /\ \A k \in DOMAIN lock.events : EntryShaped(lock.events[k])
  BY DEF LockShaped
<1>2. DOMAIN EmptyMap = {} /\ EmptyMap = [x \in DOMAIN EmptyMap |-> EmptyMap[x]]
  BY DEF EmptyMap
<1>3. CASE prefix = EmptyLock
  <2>1. DOMAIN prefix.context = {} /\ DOMAIN prefix.events = {}
    BY <1>2, <1>3 DEF EmptyLock
  <2>2. SaysLess(prefix.context, lock.context)
    BY <2>1 DEF SaysLess
  <2> QED  BY <1>3, <2>1, <2>2, EmptyIsShaped
<1>4. ASSUME NEW fs \in FieldPrefixes(lock.context),
             prefix = [lock EXCEPT !.context = fs, !.events = EmptyMap]
      PROVE  LockShaped(prefix) /\ DOMAIN prefix.events = {} /\ SaysLess(prefix.context, lock.context)
  <2>1. prefix = [version |-> lock.version, context |-> fs, events |-> EmptyMap]
    BY <1>1, <1>4
  <2>2. FieldsShaped(fs, ContextNames) /\ Bounded(NumbersOf(fs)) /\ SaysLess(fs, lock.context)
    BY <1>1, FieldPrefixFacts
  <2> QED  BY <1>2, <2>1, <2>2 DEF LockShaped
<1>5. ASSUME NEW k \in DOMAIN lock.events, NEW e \in EventPrefixes(lock.events[k]),
             prefix = [lock EXCEPT !.events = CutAt(lock.events, k, e)]
      PROVE  /\ LockShaped(prefix)
             /\ prefix.context = lock.context
             /\ \A j \in DOMAIN prefix.events :
                   /\ j \in DOMAIN lock.events
                   /\ j # k => prefix.events[j] = lock.events[j]
                   /\ SaysLess(prefix.events[j].properties, lock.events[j].properties)
  <2> DEFINE cut == CutAt(lock.events, k, e)
  <2>1. prefix = [version |-> lock.version, context |-> lock.context, events |-> cut]
    BY <1>1, <1>5
  <2>2. /\ cut = [j \in DOMAIN cut |-> cut[j]]
        /\ \A j \in DOMAIN cut : j \in DOMAIN lock.events /\ cut[j] = IF j = k THEN e ELSE lock.events[j]
    BY DEF CutAt
  <2> HIDE DEF cut
  <2>3. EntryShaped(e) /\ SaysLess(e.properties, lock.events[k].properties)
    BY <1>1, EntryPrefixFacts
  <2>4. \A j \in DOMAIN cut : EntryShaped(cut[j])
    BY <1>1, <2>2, <2>3
  <2>5. \A fields : SaysLess(fields, fields)
    BY DEF SaysLess
  <2>6. \A j \in DOMAIN cut : SaysLess(cut[j].properties, lock.events[j].properties)
    BY <2>2, <2>3, <2>5
  <2> QED  BY <1>1, <2>1, <2>2, <2>4, <2>6 DEF LockShaped
<1>6. SaysLess(lock.context, lock.context)
  BY DEF SaysLess
<1> QED  BY <1>3, <1>4, <1>5, <1>6, PrefixKinds

\* The messages of a lock cut short differ in the number of one field.
LEMMA LowersAlikeButOne ==
    ASSUME NEW part, NEW whole, SaysLess(part, whole), NEW fields, DOMAIN fields \subseteq DOMAIN part
    PROVE  LET ours == LowerMessage(fields, part)
               theirs == LowerMessage(fields, whole)
           IN  /\ \A f \in ours \ theirs : \E g \in theirs :
                     /\ g = [f EXCEPT !.number = g.number]
                     /\ f.number \in CutNumbers(g.number)
               /\ \A f, g \in ours \ theirs : f = g
<1> DEFINE Field(n, locked) ==
               [name |-> n, number |-> locked[n].protoNumber, type |-> WireType(fields[n])]
<1>1. \A locked : LowerMessage(fields, locked) = {Field(n, locked) : n \in DOMAIN fields}
  BY DEF LowerMessage
<1>2. ASSUME NEW n \in DOMAIN fields, Field(n, part) \notin LowerMessage(fields, whole)
      PROVE  part[n] # whole[n] /\ part[n].protoNumber \in CutNumbers(whole[n].protoNumber)
  <2>1. part[n] # whole[n]
    BY <1>1, <1>2
  <2> QED  BY <2>1 DEF SaysLess
<1>3. ASSUME NEW f \in LowerMessage(fields, part) \ LowerMessage(fields, whole)
      PROVE  \E g \in LowerMessage(fields, whole) :
                g = [f EXCEPT !.number = g.number] /\ f.number \in CutNumbers(g.number)
  <2>1. PICK n \in DOMAIN fields : f = Field(n, part)
    BY <1>1, <1>3
  <2>2. part[n].protoNumber \in CutNumbers(whole[n].protoNumber)
    BY <1>2, <1>3, <2>1
  <2>3. Field(n, whole) \in LowerMessage(fields, whole)
    BY <1>1
  <2> QED  BY <2>1, <2>2, <2>3
<1>4. ASSUME NEW f \in LowerMessage(fields, part) \ LowerMessage(fields, whole),
             NEW g \in LowerMessage(fields, part) \ LowerMessage(fields, whole)
      PROVE  f = g
  <2>1. PICK m \in DOMAIN fields : f = Field(m, part)
    BY <1>1, <1>4
  <2>2. PICK n \in DOMAIN fields : g = Field(n, part)
    BY <1>1, <1>4
  <2>3. part[m] # whole[m] /\ part[n] # whole[n]
    BY <1>2, <1>4, <2>1, <2>2
  <2> QED  BY <2>1, <2>2, <2>3 DEF SaysLess
<1> QED  BY <1>3, <1>4

\* A half-written lock that passes CheckLock gives all fields the numbers the
\* whole lock would have given them, except perhaps for one: the field whose
\* number the file ends in gets what is left of it.  `generate proto` puts that
\* number into the schema, since it does not ask, as lock check does, whether
\* the bytes are canonical (cli/lock.go:147-152, cli/generate.go:53).
THEOREM OneNumberLosesDigits ==
    ASSUME NEW lock, LockShaped(lock), NEW prefix \in LockPrefixes(lock),
           NEW reg, CheckLock(prefix, reg)
    PROVE  LET ours == Published(FromRegistry(reg, prefix))
               theirs == Published(FromRegistry(reg, lock))
           IN  /\ \A p \in ours \ theirs : \E q \in theirs :
                     /\ q = [p EXCEPT !.field = [p.field EXCEPT !.number = q.field.number]]
                     /\ p.field.number \in CutNumbers(q.field.number)
               /\ \A p, q \in ours \ theirs : p = q
<1> DEFINE ours == Published(FromRegistry(reg, prefix))
           theirs == Published(FromRegistry(reg, lock))
           ContextOf(l) == LowerMessage(reg.context, l.context)
           EventOf(l, k) == LowerMessage(reg.events[k], l.events[k].properties)
           InScope(s, f) == [scope |-> s, field |-> f]
           Cut(p, q) == /\ q = [p EXCEPT !.field = [p.field EXCEPT !.number = q.field.number]]
                        /\ p.field.number \in CutNumbers(q.field.number)
\* The registry's fields are all there: what CheckLock accepts, an update keeps.
<1>1. /\ DOMAIN reg.context \subseteq DOMAIN prefix.context
      /\ \A k \in DOMAIN reg.events :
            /\ k \in DOMAIN prefix.events
            /\ DOMAIN reg.events[k] \subseteq DOMAIN prefix.events[k].properties
  <2>1. prefix = UpdateLock(prefix, reg)
    BY PrefixFacts, CheckedIsSettled
  <2>2. /\ DOMAIN reg.context \subseteq DOMAIN UpdateLock(prefix, reg).context
        /\ \A k \in DOMAIN reg.events :
              /\ k \in DOMAIN UpdateLock(prefix, reg).events
              /\ DOMAIN reg.events[k] \subseteq DOMAIN UpdateLock(prefix, reg).events[k].properties
    BY DEF UpdateLock, UpdatedEvent, Extend
  <2> QED  BY <2>1, <2>2
<1>2. \A l : Published(FromRegistry(reg, l)) =
          {InScope(ContextScope, f) : f \in ContextOf(l)}
          \cup UNION {{InScope(k, f) : f \in EventOf(l, k)} : k \in DOMAIN reg.events}
  <2> SUFFICES ASSUME NEW l
               PROVE  Published(FromRegistry(reg, l)) =
                         {InScope(ContextScope, f) : f \in ContextOf(l)}
                         \cup UNION {{InScope(k, f) : f \in EventOf(l, k)} : k \in DOMAIN reg.events}
    OBVIOUS
  <2> DEFINE schema == FromRegistry(reg, l)
  <2>1. /\ schema.context = ContextOf(l)
        /\ DOMAIN schema.events = DOMAIN reg.events
        /\ \A k \in DOMAIN reg.events : schema.events[k] = EventOf(l, k)
    BY DEF FromRegistry
  <2> HIDE DEF schema, ContextOf, EventOf
  <2>2. Published(schema) =
           {InScope(ContextScope, f) : f \in schema.context}
           \cup UNION {{InScope(k, f) : f \in schema.events[k]} : k \in DOMAIN schema.events}
    BY DEF Published
  <2> HIDE DEF InScope
  <2>3. {{InScope(k, f) : f \in schema.events[k]} : k \in DOMAIN schema.events}
           = {{InScope(k, f) : f \in EventOf(l, k)} : k \in DOMAIN reg.events}
    BY <2>1
  <2> QED  BY <2>1, <2>2, <2>3 DEF schema
<1>3. /\ \A f \in ContextOf(prefix) \ ContextOf(lock) : \E g \in ContextOf(lock) :
            g = [f EXCEPT !.number = g.number] /\ f.number \in CutNumbers(g.number)
      /\ \A f, g \in ContextOf(prefix) \ ContextOf(lock) : f = g
  BY <1>1, PrefixFacts, LowersAlikeButOne
<1>4. ASSUME NEW k \in DOMAIN reg.events
      PROVE  /\ \A f \in EventOf(prefix, k) \ EventOf(lock, k) : \E g \in EventOf(lock, k) :
                   g = [f EXCEPT !.number = g.number] /\ f.number \in CutNumbers(g.number)
             /\ \A f, g \in EventOf(prefix, k) \ EventOf(lock, k) : f = g
  BY <1>1, PrefixFacts, LowersAlikeButOne
<1>5. ContextOf(prefix) = ContextOf(lock) \/ DOMAIN reg.events = {}
  BY <1>1, PrefixFacts
<1>6. PICK cut : \A k \in DOMAIN reg.events : k # cut => EventOf(prefix, k) = EventOf(lock, k)
  BY <1>1, PrefixFacts
<1> HIDE DEF ContextOf, EventOf
<1>7. \A p \in ours \ theirs :
         \/ \E f \in ContextOf(prefix) \ ContextOf(lock) : p = InScope(ContextScope, f)
         \/ \E k \in DOMAIN reg.events : \E f \in EventOf(prefix, k) \ EventOf(lock, k) : p = InScope(k, f)
  BY <1>2
<1>8. ASSUME NEW p \in ours \ theirs PROVE \E q \in theirs : Cut(p, q)
  <2>1. CASE \E f \in ContextOf(prefix) \ ContextOf(lock) : p = InScope(ContextScope, f)
    <3>1. PICK f \in ContextOf(prefix) \ ContextOf(lock) : p = InScope(ContextScope, f)
      BY <2>1
    <3>2. PICK g \in ContextOf(lock) : g = [f EXCEPT !.number = g.number] /\ f.number \in CutNumbers(g.number)
      BY <1>3, <3>1
    <3>3. InScope(ContextScope, g) \in theirs
      BY <1>2
    <3>4. Cut(p, InScope(ContextScope, g))
      BY <3>1, <3>2
    <3> QED  BY <3>3, <3>4
  <2>2. ASSUME NEW k \in DOMAIN reg.events, NEW f \in EventOf(prefix, k) \ EventOf(lock, k),
               p = InScope(k, f)
        PROVE  \E q \in theirs : Cut(p, q)
    <3>1. PICK g \in EventOf(lock, k) : g = [f EXCEPT !.number = g.number] /\ f.number \in CutNumbers(g.number)
      BY <1>4
    <3>2. InScope(k, g) \in theirs
      BY <1>2
    <3>3. Cut(p, InScope(k, g))
      BY <2>2, <3>1
    <3> QED  BY <3>2, <3>3
  <2> QED  BY <1>7, <2>1, <2>2
<1>9. ASSUME NEW p \in ours \ theirs, NEW q \in ours \ theirs PROVE p = q
  <2>1. CASE \E f \in ContextOf(prefix) \ ContextOf(lock) : p = InScope(ContextScope, f)
    <3>1. DOMAIN reg.events = {}
      BY <1>5, <2>1
    <3>2. \E f \in ContextOf(prefix) \ ContextOf(lock) : q = InScope(ContextScope, f)
      BY <1>7, <3>1
    <3> QED  BY <1>3, <2>1, <3>2
  <2>2. CASE \E k \in DOMAIN reg.events : \E f \in EventOf(prefix, k) \ EventOf(lock, k) : p = InScope(k, f)
    <3>1. PICK k \in DOMAIN reg.events : \E f \in EventOf(prefix, k) \ EventOf(lock, k) : p = InScope(k, f)
      BY <2>2
    <3>2. ContextOf(prefix) = ContextOf(lock)
      BY <1>5, <3>1
    <3>3. PICK j \in DOMAIN reg.events : \E f \in EventOf(prefix, j) \ EventOf(lock, j) : q = InScope(j, f)
      BY <1>7, <3>2
    <3>4. k = cut /\ j = cut
      BY <1>6, <3>1, <3>3
    <3> QED  BY <1>4, <3>1, <3>3, <3>4
  <2> QED  BY <1>7, <2>1, <2>2
<1> QED  BY <1>8, <1>9

-----------------------------------------------------------------------------
(* The inductive invariant *)

\* What a process holds at each place: a registry that was loaded, and a lock
\* that comes of the file it read.
Places == Rendering \cup {"idle", "update", "write", "truncated", "generate"}
IsState(s) == s = [at |-> s.at, reg |-> s.reg, base |-> s.base, lock |-> s.lock]
StateOK(s) ==
    /\ IsState(s)
    /\ s.at \in Places
    /\ RegistryShaped(s.reg)
    /\ s.at \in {"write", "truncated"} => s.lock = UpdateLock(s.base.lock, s.reg)
    /\ s.at = "write" => s.base.state \in {"absent", "readable"}
    /\ s.at = "open proto" => FromRegistryAccepts(s.reg, s.lock)

Work ==
    /\ proc = [p \in Processes |-> proc[p]]
    /\ \A p \in Processes : StateOK(proc[p])

\* The directory and the output.
Surroundings ==
    /\ files \in Directories
    /\ out = [proto |-> out.proto, metadata |-> out.metadata, disturbed |-> out.disturbed]

\* The lock file is the committed one, or shows that it is not: it is empty,
\* garbled or (what its reader cannot see) torn.
LockFiles ==
    /\ LockFileOK(lockFile)
    /\ committed = AbsentFile \/ committed = WholeFile(committed.lock)
    /\ lockFile.state = "absent" => lockFile = committed
    /\ Decodes(lockFile) => lockFile.torn \/ lockFile = committed

\* While nothing disturbs it, one process renders at a time, and the output
\* is as far as it got.
Outputs ==
    ~out.disturbed =>
        /\ \A p, q \in Processes : InRender(p) /\ InRender(q) => p = q
        /\ \A p \in Processes :
              /\ At(p, "write proto") => out.proto = Torn
              /\ At(p, "open metadata") \/ At(p, "write metadata") => out.proto = SchemaOf(p)
              /\ At(p, "write metadata") => out.metadata = Torn
        /\ (\A p \in Processes : ~InRender(p)) => out.proto = out.metadata

\* Without a slip of an update, the committed lock is sound, and whoever has
\* truncated the lock file is alone and about to write what follows it.
InTurn ==
    slips \subseteq {"torn schema"} =>
        /\ LockSound(committed.lock)
        /\ \A p \in Processes : At(p, "truncated") =>
              /\ lockFile = EmptyFile
              /\ \A q \in Processes : At(q, "truncated") => q = p
              /\ proc[p].lock = UpdateLock(committed.lock, proc[p].reg)
              /\ PermanentEvents \subseteq DOMAIN proc[p].reg.events

\* Without any slip, the committed lock keeps what was published and what a
\* process is about to publish.
Promised ==
    /\ Kept(committed.lock, published)
    /\ \A p \in Processes : At(p, "open proto") \/ At(p, "write proto") =>
          Kept(committed.lock, Published(SchemaOf(p)))

Promises == slips = {} => Promised

IInv == Surroundings /\ Work /\ LockFiles /\ Outputs /\ InTurn /\ Promises

-----------------------------------------------------------------------------
(* The processes *)

\* One process moves, the others stay.
LEMMA Moves ==
    ASSUME Work, NEW p \in Processes, NEW s, Becomes(p, s)
    PROVE  /\ proc' = [q \in Processes |-> proc'[q]]
           /\ proc'[p] = s
           /\ \A q \in Processes \ {p} : proc'[q] = proc[q]
BY DEF Becomes, Work

\* A process record with some fields changed, written out.
LEMMA NewPlace ==
    ASSUME NEW s, IsState(s), NEW a
    PROVE  [s EXCEPT !.at = a] = [at |-> a, reg |-> s.reg, base |-> s.base, lock |-> s.lock]
BY DEF IsState

LEMMA NewPlaceAndRegistry ==
    ASSUME NEW s, IsState(s), NEW a, NEW r
    PROVE  [s EXCEPT !.at = a, !.reg = r] = [at |-> a, reg |-> r, base |-> s.base, lock |-> s.lock]
<1>1. PICK t : t = [s EXCEPT !.at = a]
  OBVIOUS
<1>2. t = [at |-> a, reg |-> s.reg, base |-> s.base, lock |-> s.lock]
  BY <1>1, NewPlace
<1>3. [t EXCEPT !.reg = r] = [at |-> a, reg |-> r, base |-> s.base, lock |-> s.lock]
  BY <1>2
<1>4. [s EXCEPT !.at = a, !.reg = r] = [t EXCEPT !.reg = r]
  BY <1>1
<1> QED  BY <1>3, <1>4

LEMMA NewPlaceAndLock ==
    ASSUME NEW s, IsState(s), NEW a, NEW l
    PROVE  [s EXCEPT !.at = a, !.lock = l] = [at |-> a, reg |-> s.reg, base |-> s.base, lock |-> l]
<1>1. PICK t : t = [s EXCEPT !.at = a]
  OBVIOUS
<1>2. t = [at |-> a, reg |-> s.reg, base |-> s.base, lock |-> s.lock]
  BY <1>1, NewPlace
<1>3. [t EXCEPT !.lock = l] = [at |-> a, reg |-> s.reg, base |-> s.base, lock |-> l]
  BY <1>2
<1>4. [s EXCEPT !.at = a, !.lock = l] = [t EXCEPT !.lock = l]
  BY <1>1
<1> QED  BY <1>3, <1>4

LEMMA NewPlaceBaseAndLock ==
    ASSUME NEW s, IsState(s), NEW a, NEW b, NEW l
    PROVE  [s EXCEPT !.at = a, !.base = b, !.lock = l] = [at |-> a, reg |-> s.reg, base |-> b, lock |-> l]
<1>1. PICK t : t = [s EXCEPT !.at = a]
  OBVIOUS
<1>2. t = [at |-> a, reg |-> s.reg, base |-> s.base, lock |-> s.lock]
  BY <1>1, NewPlace
<1>3. PICK u : u = [t EXCEPT !.base = b]
  OBVIOUS
<1>4. u = [at |-> a, reg |-> s.reg, base |-> b, lock |-> s.lock]
  BY <1>2, <1>3
<1>5. [s EXCEPT !.at = a, !.base = b, !.lock = l] = [u EXCEPT !.lock = l]
  BY <1>1, <1>3
<1> QED  BY <1>4, <1>5

\* Whatever else changes with it, the place is the new one.
LEMMA PlaceOf ==
    ASSUME NEW s, IsState(s), NEW a, NEW b, NEW l
    PROVE  /\ [s EXCEPT !.at = a].at = a
           /\ [s EXCEPT !.at = a, !.lock = l].at = a
           /\ [s EXCEPT !.at = a, !.base = b, !.lock = l].at = a
<1>1. PICK t : t = [s EXCEPT !.at = a]
  OBVIOUS
<1>2. t = [at |-> a, reg |-> s.reg, base |-> s.base, lock |-> s.lock]
  BY <1>1, NewPlace
<1>3. [t EXCEPT !.lock = l].at = a
  BY <1>2
<1>4. [s EXCEPT !.at = a, !.lock = l] = [t EXCEPT !.lock = l]
  BY <1>1
<1>5. PICK u : u = [t EXCEPT !.base = b]
  OBVIOUS
<1>6. u = [at |-> a, reg |-> s.reg, base |-> b, lock |-> s.lock]
  BY <1>2, <1>5
<1>7. [u EXCEPT !.lock = l].at = a
  BY <1>6
<1>8. [s EXCEPT !.at = a, !.base = b, !.lock = l] = [u EXCEPT !.lock = l]
  BY <1>1, <1>5
<1> QED  BY <1>1, <1>2, <1>3, <1>4, <1>7, <1>8

\* Where a step takes the process that makes it.
LEMMA StepMoves ==
    ASSUME Work, NEW p \in Processes, Step(p)
    PROVE  /\ \A q \in Processes \ {p} : proc'[q] = proc[q]
           /\ Start(p) => proc'[p].at \in {"update", "generate"}
           /\ ReadToUpdate(p) => proc'[p].at \in {"idle", "write"}
           /\ ReadToGenerate(p) => proc'[p].at \in {"idle", "open proto"}
           /\ WriteLock(p) \/ WriteFails(p) \/ WriteMetadata(p) \/ Crash(p) => proc'[p].at = "idle"
<1>1. PICK t : t = proc[p] /\ IsState(t)
  BY DEF Work, StateOK
<1>2. Idle.at = "idle"
  BY DEF Idle
<1>3. \A q \in Processes \ {p} : proc'[q] = proc[q]
  BY Moves DEF Step, Start, ReadToUpdate, Truncate, WriteLock, WriteFails, ReadToGenerate,
               OpenProto, WriteProto, OpenMetadata, WriteMetadata, Crash
<1>4. ASSUME Start(p) PROVE proc'[p].at \in {"update", "generate"}
  <2>1. PICK command \in {"update", "generate"}, path \in {Directory} \cup YamlFiles :
           Becomes(p, [Idle EXCEPT !.at = command, !.reg = RegistryAt(files, path)])
    BY <1>4 DEF Start
  <2>2. [Idle EXCEPT !.at = command, !.reg = RegistryAt(files, path)].at = command
    BY DEF Idle
  <2> QED  BY <2>1, <2>2, Moves
<1>5. ASSUME ReadToUpdate(p) PROVE proc'[p].at \in {"idle", "write"}
  <2>1. \A b, l : [t EXCEPT !.at = "write", !.base = b, !.lock = l].at = "write"
    BY <1>1, PlaceOf
  <2>2. \/ proc'[p] = Idle
        \/ proc'[p] = [t EXCEPT !.at = "write", !.base = lockFile,
                                 !.lock = UpdateLock(lockFile.lock, proc[p].reg)]
    BY <1>1, <1>5, Moves DEF ReadToUpdate
  <2>3. CASE proc'[p] = Idle
    BY <1>2, <2>3
  <2>4. CASE proc'[p] # Idle
    <3>1. PICK l : l = UpdateLock(lockFile.lock, proc[p].reg)
      OBVIOUS
    <3>2. proc'[p] = [t EXCEPT !.at = "write", !.base = lockFile, !.lock = l]
      BY <2>2, <2>4, <3>1
    <3>3. [t EXCEPT !.at = "write", !.base = lockFile, !.lock = l].at = "write"
      BY <2>1
    <3> QED  BY <3>2, <3>3
  <2> QED  BY <2>3, <2>4
<1>6. ASSUME ReadToGenerate(p) PROVE proc'[p].at \in {"idle", "open proto"}
  <2>1. \A l : [t EXCEPT !.at = "open proto", !.lock = l].at = "open proto"
    BY <1>1, PlaceOf
  <2>2. \/ proc'[p] = Idle
        \/ proc'[p] = [t EXCEPT !.at = "open proto", !.lock = lockFile.lock]
    BY <1>1, <1>6, Moves DEF ReadToGenerate
  <2> QED  BY <1>2, <2>1, <2>2
<1>7. ASSUME WriteLock(p) \/ WriteFails(p) \/ WriteMetadata(p) \/ Crash(p)
      PROVE  proc'[p].at = "idle"
  BY <1>2, <1>7, Moves DEF WriteLock, WriteFails, WriteMetadata, Crash
<1> QED  BY <1>3, <1>4, <1>5, <1>6, <1>7

\* A step that changes nothing but the place.
LEMMA PlaceMoves ==
    ASSUME Work, NEW p \in Processes, NEW place, Becomes(p, [proc[p] EXCEPT !.at = place])
    PROVE  /\ proc'[p].at = place
           /\ proc'[p].reg = proc[p].reg /\ proc'[p].lock = proc[p].lock
           /\ SchemaOf(p)' = SchemaOf(p)
           /\ \A q \in Processes \ {p} : proc'[q] = proc[q]
<1>1. /\ proc'[p] = [proc[p] EXCEPT !.at = place]
      /\ \A q \in Processes \ {p} : proc'[q] = proc[q]
  BY Moves
<1>2. proc'[p] = [at |-> place, reg |-> proc[p].reg, base |-> proc[p].base, lock |-> proc[p].lock]
  BY <1>1, NewPlace DEF Work, StateOK
<1> QED  BY <1>1, <1>2 DEF SchemaOf

LEMMA IdleIsOK == StateOK(Idle)
<1>1. DOMAIN EmptyRegistry.context = {} /\ DOMAIN EmptyRegistry.events = {}
  BY DEF EmptyRegistry, EmptyMap
<1>2. /\ Idle.at = "idle" /\ Idle.reg = EmptyRegistry
      /\ Idle = [at |-> Idle.at, reg |-> Idle.reg, base |-> Idle.base, lock |-> Idle.lock]
  BY DEF Idle
<1> QED  BY <1>1, <1>2 DEF StateOK, IsState, Places, RegistryShaped

\* What a process holds is what its last steps gave it.
LEMMA WorkIsKept == Surroundings /\ Work /\ [Next]_vars => Work'
<1> SUFFICES ASSUME Surroundings, Work, [Next]_vars PROVE Work'
  OBVIOUS
<1>1. ASSUME NEW p \in Processes, NEW s, Becomes(p, s), StateOK(s) PROVE Work'
  BY <1>1, Moves DEF Work
<1>2. StateOK(Idle)
  BY IdleIsOK
<1>3. ASSUME NEW p \in Processes, Start(p) PROVE Work'
  <2>1. PICK command \in {"update", "generate"}, path \in {Directory} \cup YamlFiles :
           Becomes(p, [Idle EXCEPT !.at = command, !.reg = RegistryAt(files, path)])
    BY <1>3 DEF Start
  <2> DEFINE s == [Idle EXCEPT !.at = command, !.reg = RegistryAt(files, path)]
  <2>2. s = [at |-> command, reg |-> RegistryAt(files, path), base |-> Idle.base, lock |-> Idle.lock]
    BY <1>2, NewPlaceAndRegistry DEF StateOK
  <2> HIDE DEF s
  <2>3. RegistryShaped(RegistryAt(files, path))
    BY AnyLoadIsShaped DEF Surroundings
  <2>4. StateOK(s)
    BY <2>2, <2>3 DEF StateOK, IsState, Places
  <2> QED  BY <1>1, <2>1, <2>4 DEF s
<1>4. ASSUME NEW p \in Processes, ReadToUpdate(p) PROVE Work'
  <2> DEFINE s == [proc[p] EXCEPT !.at = "write", !.base = lockFile,
                                  !.lock = UpdateLock(lockFile.lock, proc[p].reg)]
  <2>1. StateOK(proc[p]) /\ IsState(proc[p])
    BY DEF Work, StateOK
  <2>2. s = [at |-> "write", reg |-> proc[p].reg, base |-> lockFile,
             lock |-> UpdateLock(lockFile.lock, proc[p].reg)]
    <3>1. \A l : [proc[p] EXCEPT !.at = "write", !.base = lockFile, !.lock = l]
                    = [at |-> "write", reg |-> proc[p].reg, base |-> lockFile, lock |-> l]
      BY <2>1, NewPlaceBaseAndLock
    <3> QED  BY <3>1, Zenon
  <2>3. \/ Becomes(p, Idle)
        \/ Becomes(p, s) /\ lockFile.state \in {"absent", "readable"}
    BY <1>4 DEF ReadToUpdate, Decodes
  <2> HIDE DEF s
  <2>4. lockFile.state \in {"absent", "readable"} => StateOK(s)
    BY <2>1, <2>2 DEF StateOK, IsState, Places
  <2> QED  BY <1>1, <1>2, <2>3, <2>4
<1>5. ASSUME NEW p \in Processes, Truncate(p) PROVE Work'
  <2> DEFINE s == [proc[p] EXCEPT !.at = "truncated"]
  <2>1. StateOK(proc[p]) /\ proc[p].at = "write" /\ Becomes(p, s)
    BY <1>5 DEF Work, Truncate, At
  <2>2. s = [at |-> "truncated", reg |-> proc[p].reg, base |-> proc[p].base, lock |-> proc[p].lock]
    BY <2>1, NewPlace DEF StateOK
  <2> HIDE DEF s
  <2>3. StateOK(s)
    BY <2>1, <2>2 DEF StateOK, IsState, Places
  <2> QED  BY <1>1, <2>1, <2>3
<1>6. ASSUME NEW p \in Processes, WriteLock(p) PROVE Work'
  BY <1>1, <1>2, <1>6 DEF WriteLock
<1>7. ASSUME NEW p \in Processes, WriteFails(p) PROVE Work'
  BY <1>1, <1>2, <1>7 DEF WriteFails
<1>8. ASSUME NEW p \in Processes, ReadToGenerate(p) PROVE Work'
  <2> DEFINE s == [proc[p] EXCEPT !.at = "open proto", !.lock = lockFile.lock]
  <2>1. StateOK(proc[p])
    BY DEF Work
  <2>2. \/ Becomes(p, Idle)
        \/ Becomes(p, s) /\ FromRegistryAccepts(proc[p].reg, lockFile.lock)
    BY <1>8 DEF ReadToGenerate
  <2>3. s = [at |-> "open proto", reg |-> proc[p].reg, base |-> proc[p].base, lock |-> lockFile.lock]
    <3>1. IsState(proc[p])
      BY <2>1 DEF StateOK
    <3> QED  BY <3>1, NewPlaceAndLock
  <2> HIDE DEF s
  <2>4. FromRegistryAccepts(proc[p].reg, lockFile.lock) => StateOK(s)
    BY <2>1, <2>3 DEF StateOK, IsState, Places, Rendering
  <2> QED  BY <1>1, <1>2, <2>2, <2>4
<1>9. ASSUME NEW p \in Processes, NEW place \in {"write proto", "open metadata", "write metadata"},
             Becomes(p, [proc[p] EXCEPT !.at = place])
      PROVE  Work'
  <2> DEFINE s == [proc[p] EXCEPT !.at = place]
  <2>1. StateOK(proc[p])
    BY DEF Work
  <2>2. s = [at |-> place, reg |-> proc[p].reg, base |-> proc[p].base, lock |-> proc[p].lock]
    BY <2>1, NewPlace DEF StateOK
  <2> HIDE DEF s
  <2>3. StateOK(s)
    BY <2>1, <2>2 DEF StateOK, IsState, Places, Rendering
  <2> QED  BY <1>1, <1>9, <2>3 DEF s
<1>10. ASSUME NEW p \in Processes, OpenProto(p) \/ WriteProto(p) \/ OpenMetadata(p) PROVE Work'
  BY <1>9, <1>10 DEF OpenProto, WriteProto, OpenMetadata
<1>11. ASSUME NEW p \in Processes, WriteMetadata(p) \/ Crash(p) PROVE Work'
  BY <1>1, <1>2, <1>11 DEF WriteMetadata, Crash
<1>12. CASE EditFile \/ Restore \/ UNCHANGED vars
  BY <1>12 DEF EditFile, Restore, vars, Work
<1> QED
  BY <1>3, <1>4, <1>5, <1>6, <1>7, <1>8, <1>10, <1>11, <1>12 DEF Next, Step

\* Edits leave a directory that keeps the permanent events.
LEMMA SurroundingsAreKept == Surroundings /\ [Next]_vars => Surroundings'
<1> SUFFICES ASSUME Surroundings, [Next]_vars PROVE Surroundings'
  OBVIOUS
<1>1. CASE EditFile
  <2>1. PICK f \in YamlFiles : \E content \in Contents[f] : files' = [files EXCEPT ![f] = content]
    BY <1>1 DEF EditFile
  <2>2. PICK content \in Contents[f] : files' = [files EXCEPT ![f] = content]
    BY <2>1
  <2>3. files' \in Directories
    BY <1>1, <2>2 DEF EditFile, Surroundings, Directories
  <2> QED  BY <1>1, <2>3 DEF EditFile, Surroundings
<1>2. CASE Restore \/ UNCHANGED vars
  BY <1>2 DEF Restore, vars, Surroundings
<1>3. ASSUME NEW p \in Processes, Step(p) PROVE Surroundings'
  <2>1. files' = files
    BY <1>3 DEF Step, Start, ReadToUpdate, Truncate, WriteLock, WriteFails, ReadToGenerate,
                OpenProto, WriteProto, OpenMetadata, WriteMetadata, Crash
  <2>2. out' = [proto |-> out'.proto, metadata |-> out'.metadata, disturbed |-> out'.disturbed]
    BY <1>3 DEF Step, Start, ReadToUpdate, Truncate, WriteLock, WriteFails, ReadToGenerate,
                OpenProto, WriteProto, OpenMetadata, WriteMetadata, Crash, Surroundings
  <2> QED  BY <2>1, <2>2 DEF Surroundings
<1> QED  BY <1>1, <1>2, <1>3 DEF Next

\* What the lock file shows about the committed one.
LEMMA LockFilesAreKept == LockFiles /\ [Next]_vars => LockFiles'
<1> SUFFICES ASSUME LockFiles, [Next]_vars PROVE LockFiles'
  OBVIOUS
<1>1. /\ \A lock : /\ WholeFile(lock).state = "readable" /\ WholeFile(lock).lock = lock
                   /\ WholeFile(lock).canonical /\ ~WholeFile(lock).torn
      /\ EmptyFile.state = "empty" /\ EmptyFile.lock = EmptyLock /\ ~EmptyFile.torn
      /\ GarbledFile.state = "garbled" /\ GarbledFile.lock = EmptyLock /\ ~GarbledFile.torn
  BY DEF WholeFile, EmptyFile, GarbledFile, LockFile
<1>2. AbsentFile.state = "absent" /\ AbsentFile.lock = EmptyLock /\ ~AbsentFile.torn
  BY DEF AbsentFile, LockFile
<1>3. ASSUME NEW p \in Processes, Truncate(p) PROVE LockFiles'
  <2>1. lockFile' = EmptyFile /\ committed' = committed
    BY <1>3 DEF Truncate
  <2> QED  BY <1>1, <2>1 DEF LockFiles, LockFileOK, Decodes
<1>4. ASSUME NEW p \in Processes, WriteLock(p) PROVE LockFiles'
  <2> DEFINE lock == proc[p].lock
  <2>1. \/ lockFile' \in {WholeFile(lock), GarbledFile}
        \/ Decodes(lockFile) /\ lockFile' = lockFile
    <3>1. lockFile' \in CASE lockFile.state = "empty" -> {WholeFile(lock)}
                           [] /\ Decodes(lockFile) /\ lock \in LockPrefixes(lockFile.lock)
                              /\ CutIsCanonical(lock, lockFile.lock) -> {lockFile}
                           [] OTHER -> {WholeFile(lock), GarbledFile}
      BY <1>4 DEF WriteLock
    <3> HIDE DEF lock
    <3>2. ~(lockFile.state = "empty" /\ Decodes(lockFile))
      BY DEF Decodes
    <3> QED  BY <3>1, <3>2
  <2>2. committed' = IF Decodes(lockFile') /\ ~lockFile'.torn THEN lockFile' ELSE committed
    BY <1>4 DEF WriteLock
  <2> HIDE DEF lock
  <2>3. CASE lockFile' = WholeFile(lock)
    BY <1>1, <2>2, <2>3 DEF LockFiles, LockFileOK, Decodes
  <2>4. CASE lockFile' = GarbledFile
    BY <1>1, <2>2, <2>4 DEF LockFiles, LockFileOK, Decodes
  <2>5. CASE Decodes(lockFile) /\ lockFile' = lockFile
    BY <2>2, <2>5 DEF LockFiles, LockFileOK, Decodes
  <2> QED  BY <2>1, <2>3, <2>4, <2>5
<1>5. ASSUME NEW p \in Processes, WriteFails(p) PROVE LockFiles'
  <2>1. PICK prefix \in LockPrefixes(proc[p].lock) : lockFile' = TornFile(prefix, proc[p].lock)
    BY <1>5 DEF WriteFails
  <2>2. lockFile'.state = "readable" /\ lockFile'.torn /\ committed' = committed
    BY <1>5, <2>1 DEF WriteFails, TornFile, LockFile
  <2> QED  BY <2>2 DEF LockFiles, LockFileOK, Decodes
<1>6. CASE Restore
  <2>1. lockFile' = committed /\ committed' = committed
    BY <1>6 DEF Restore
  <2> QED  BY <1>1, <1>2, <2>1 DEF LockFiles, LockFileOK, Decodes
<1>7. ASSUME NEW p \in Processes,
             Step(p) /\ ~Truncate(p) /\ ~WriteLock(p) /\ ~WriteFails(p) PROVE LockFiles'
  BY <1>7 DEF Step, Start, ReadToUpdate, ReadToGenerate, OpenProto, WriteProto, OpenMetadata,
              WriteMetadata, Crash, LockFiles
<1>8. CASE EditFile \/ UNCHANGED vars
  BY <1>8 DEF EditFile, vars, LockFiles
<1> QED  BY <1>3, <1>4, <1>5, <1>6, <1>7, <1>8 DEF Next

\* A process that renders undisturbed writes what it means to write, the next
\* one starts over, and one that dies leaves a mark.
LEMMA OutputsAreKept == Surroundings /\ Work /\ Outputs /\ [Next]_vars => Outputs'
<1> SUFFICES ASSUME Surroundings, Work, Outputs, [Next]_vars PROVE Outputs'
  OBVIOUS
<1>1. ASSUME NEW p \in Processes, ~InRender(p), ~InRender(p)', out' = out,
             \A q \in Processes \ {p} : proc'[q] = proc[q]
      PROVE  Outputs'
  <2>1. \A q \in Processes : InRender(q)' <=> InRender(q)
    BY <1>1 DEF InRender
  <2>2. \A q \in Processes : InRender(q) => SchemaOf(q)' = SchemaOf(q) /\ proc'[q].at = proc[q].at
    BY <1>1 DEF InRender, SchemaOf
  <2>3. \A q \in Processes :
           (At(q, "write proto") \/ At(q, "open metadata") \/ At(q, "write metadata"))' => InRender(q)'
    BY DEF At, InRender, Rendering
  <2> QED  BY <1>1, <2>1, <2>2, <2>3 DEF Outputs, At
<1>2. ASSUME NEW p \in Processes,
             Start(p) \/ ReadToUpdate(p) \/ WriteLock(p) \/ WriteFails(p) \/ ReadToGenerate(p)
      PROVE  Outputs'
  <2>1. Step(p) /\ out' = out /\ ~InRender(p)
    BY <1>2 DEF Step, Start, ReadToUpdate, WriteLock, WriteFails, ReadToGenerate,
                At, InRender, Rendering
  <2>2. proc'[p].at \in {"idle", "update", "generate", "write", "open proto"}
    BY <1>2, <2>1, StepMoves
  <2>3. ~InRender(p)'
    BY <2>2 DEF InRender, Rendering
  <2> QED  BY <1>1, <2>1, <2>3, StepMoves
<1>3. ASSUME NEW p \in Processes, Truncate(p) PROVE Outputs'
  <2>1. out' = out /\ ~InRender(p)
    BY <1>3 DEF Truncate, At, InRender, Rendering
  <2>2. /\ proc'[p].at = "truncated"
        /\ \A q \in Processes \ {p} : proc'[q] = proc[q]
    BY <1>3, PlaceMoves DEF Truncate
  <2>3. ~InRender(p)'
    BY <2>2 DEF InRender, Rendering
  <2> QED  BY <1>1, <2>1, <2>2, <2>3
<1>4. Idle.at = "idle" /\ "idle" \notin Rendering
  BY DEF Idle, Rendering
<1>5. ASSUME NEW p \in Processes, OpenProto(p) PROVE Outputs'
  <2>1. out'.proto = Torn /\ out'.disturbed = \E q \in Processes : InRender(q)
    BY <1>5 DEF OpenProto, Surroundings
  <2>2. /\ proc'[p].at = "write proto"
        /\ \A q \in Processes \ {p} : proc'[q] = proc[q]
    BY PlaceMoves, <1>5 DEF OpenProto
  <2>3. ASSUME ~out'.disturbed
        PROVE  \A q \in Processes : InRender(q)' <=> q = p
    BY <2>1, <2>2, <2>3 DEF InRender, Rendering
  <2>4. \A q \in Processes :
           (At(q, "open metadata") \/ At(q, "write metadata"))' => InRender(q)' /\ q # p
    BY <2>2 DEF At, InRender, Rendering
  <2> QED  BY <2>1, <2>2, <2>3, <2>4 DEF Outputs, At
<1>6. ASSUME NEW p \in Processes, WriteProto(p) PROVE Outputs'
  <2>1. PICK new \in Written(out.proto, SchemaOf(p)) : out' = [out EXCEPT !.proto = new]
    BY <1>6 DEF WriteProto
  <2>2. out'.proto = new /\ out'.disturbed = out.disturbed
    BY <2>1 DEF Surroundings
  <2>3. /\ proc'[p].at = "open metadata" /\ SchemaOf(p)' = SchemaOf(p)
        /\ \A q \in Processes \ {p} : proc'[q] = proc[q]
    BY PlaceMoves, <1>6 DEF WriteProto
  <2>4. ASSUME ~out.disturbed
        PROVE  new = SchemaOf(p) /\ \A q \in Processes : InRender(q)' <=> q = p
    <3>1. InRender(p) /\ out.proto = Torn
      BY <1>6, <2>4 DEF WriteProto, Outputs, At, InRender, Rendering
    <3>2. new = SchemaOf(p)
      BY <2>1, <3>1 DEF Written
    <3>3. \A q \in Processes : InRender(q)' <=> InRender(q)
      <4>1. InRender(p)'
        BY <2>3 DEF InRender, Rendering
      <4>2. \A q \in Processes \ {p} : InRender(q)' <=> InRender(q)
        BY <2>3 DEF InRender
      <4> QED  BY <3>1, <4>1, <4>2
    <3> QED  BY <2>4, <3>1, <3>2, <3>3 DEF Outputs
  <2>5. \A q \in Processes : At(q, "write metadata")' \/ At(q, "write proto")' => InRender(q)' /\ q # p
    BY <2>3 DEF At, InRender, Rendering
  <2>6. \A q \in Processes : At(q, "open metadata")' => InRender(q)'
    BY DEF At, InRender, Rendering
  <2> QED  BY <2>2, <2>3, <2>4, <2>5, <2>6 DEF Outputs
<1>7. ASSUME NEW p \in Processes, OpenMetadata(p) PROVE Outputs'
  <2>1. out'.proto = out.proto /\ out'.metadata = Torn /\ out'.disturbed = out.disturbed
    BY <1>7 DEF OpenMetadata, Surroundings
  <2>2. /\ proc'[p].at = "write metadata" /\ SchemaOf(p)' = SchemaOf(p)
        /\ \A q \in Processes \ {p} : proc'[q] = proc[q]
    BY PlaceMoves, <1>7 DEF OpenMetadata
  <2>3. ASSUME ~out.disturbed
        PROVE  out.proto = SchemaOf(p) /\ \A q \in Processes : InRender(q)' <=> q = p
    <3>1. InRender(p) /\ out.proto = SchemaOf(p)
      BY <1>7, <2>3 DEF OpenMetadata, Outputs, At, InRender, Rendering
    <3>2. \A q \in Processes : InRender(q)' <=> InRender(q)
      BY <2>2, <3>1 DEF InRender, Rendering
    <3> QED  BY <2>3, <3>1, <3>2 DEF Outputs
  <2>4. \A q \in Processes : At(q, "open metadata")' \/ At(q, "write proto")' => InRender(q)' /\ q # p
    BY <2>2 DEF At, InRender, Rendering
  <2>5. \A q \in Processes : At(q, "write metadata")' => InRender(q)'
    BY DEF At, InRender, Rendering
  <2> QED  BY <2>1, <2>2, <2>3, <2>4, <2>5 DEF Outputs
<1>8. ASSUME NEW p \in Processes, WriteMetadata(p) PROVE Outputs'
  <2>1. PICK new \in Written(out.metadata, SchemaOf(p)) : out' = [out EXCEPT !.metadata = new]
    BY <1>8 DEF WriteMetadata
  <2>2. out'.proto = out.proto /\ out'.metadata = new /\ out'.disturbed = out.disturbed
    BY <2>1 DEF Surroundings
  <2>3. proc'[p] = Idle /\ \A q \in Processes \ {p} : proc'[q] = proc[q]
    BY <1>8, Moves DEF WriteMetadata
  <2>4. ASSUME ~out.disturbed
        PROVE  out.proto = new /\ \A q \in Processes : ~InRender(q)'
    <3>1. InRender(p) /\ out.proto = SchemaOf(p) /\ out.metadata = Torn
      BY <1>8, <2>4 DEF WriteMetadata, Outputs, At, InRender, Rendering
    <3>2. new = SchemaOf(p)
      BY <2>1, <3>1 DEF Written
    <3>3. \A q \in Processes : InRender(q)' => InRender(q) /\ q # p
      BY <1>4, <2>3 DEF InRender
    <3> QED  BY <2>4, <3>1, <3>2, <3>3 DEF Outputs
  <2>5. \A q \in Processes :
           (At(q, "write proto") \/ At(q, "open metadata") \/ At(q, "write metadata"))' => InRender(q)'
    BY DEF At, InRender, Rendering
  <2> QED  BY <2>2, <2>4, <2>5 DEF Outputs
<1>9. ASSUME NEW p \in Processes, Crash(p) PROVE Outputs'
  <2>1. /\ out'.proto = out.proto /\ out'.metadata = out.metadata
        /\ out'.disturbed = (out.disturbed \/ InRender(p))
        /\ out' = [proto |-> out'.proto, metadata |-> out'.metadata, disturbed |-> out'.disturbed]
    BY <1>9 DEF Crash, Surroundings
  <2>2. CASE InRender(p)
    BY <2>1, <2>2 DEF Outputs
  <2>3. CASE out.disturbed
    BY <2>1, <2>3 DEF Outputs
  <2>4. CASE ~InRender(p) /\ ~out.disturbed
    <3>1. ~out'.disturbed
      BY <2>1, <2>4
    <3>2. proc'[p] = Idle /\ \A q \in Processes \ {p} : proc'[q] = proc[q]
      BY <1>9, Moves DEF Crash
    <3>3. \A q \in Processes : InRender(q)' <=> InRender(q)
      BY <1>4, <2>4, <3>2 DEF InRender
    <3>4. \A q \in Processes : InRender(q) => SchemaOf(q)' = SchemaOf(q) /\ proc'[q].at = proc[q].at
      BY <2>4, <3>2 DEF InRender, SchemaOf
    <3>5. \A q \in Processes :
             (At(q, "write proto") \/ At(q, "open metadata") \/ At(q, "write metadata"))' => InRender(q)'
      BY DEF At, InRender, Rendering
    <3> QED  BY <2>1, <2>4, <3>3, <3>4, <3>5 DEF Outputs, At
  <2> QED  BY <2>2, <2>3, <2>4
<1>10. CASE EditFile \/ Restore \/ UNCHANGED vars
  BY <1>10 DEF EditFile, Restore, vars, Outputs, InRender, At, SchemaOf
<1> QED
  BY <1>2, <1>3, <1>5, <1>6, <1>7, <1>8, <1>9, <1>10 DEF Next, Step

\* Slips add up.
LEMMA SlipsGrow == [Next]_vars => slips \subseteq slips'
BY DEF Next, vars, Step, Start, ReadToUpdate, Truncate, WriteLock, WriteFails, ReadToGenerate,
       OpenProto, WriteProto, OpenMetadata, WriteMetadata, Crash, EditFile, Restore

\* Steps that write no lock file.
LEMMA LocksStay ==
    ASSUME NEW p \in Processes, Step(p), ~Truncate(p), ~WriteLock(p), ~WriteFails(p)
    PROVE  lockFile' = lockFile /\ committed' = committed
BY DEF Step, Start, ReadToUpdate, ReadToGenerate, OpenProto, WriteProto, OpenMetadata,
       WriteMetadata, Crash

\* The lock that is written is the update of the committed one.
LEMMA WrittenInTurn ==
    ASSUME Work, InTurn, slips \subseteq {"torn schema"}, NEW p \in Processes, WriteLock(p)
    PROVE  /\ committed'.lock = UpdateLock(committed.lock, proc[p].reg)
           /\ RegistryShaped(proc[p].reg)
           /\ PermanentEvents \subseteq DOMAIN proc[p].reg.events
           /\ LockSound(committed.lock)
<1>1. /\ lockFile = EmptyFile
      /\ proc[p].lock = UpdateLock(committed.lock, proc[p].reg)
      /\ PermanentEvents \subseteq DOMAIN proc[p].reg.events
      /\ LockSound(committed.lock)
  BY DEF InTurn, WriteLock
<1>2. lockFile' = WholeFile(proc[p].lock)
  <2>1. lockFile' \in CASE lockFile.state = "empty" -> {WholeFile(proc[p].lock)}
                         [] /\ Decodes(lockFile) /\ proc[p].lock \in LockPrefixes(lockFile.lock)
                            /\ CutIsCanonical(proc[p].lock, lockFile.lock) -> {lockFile}
                         [] OTHER -> {WholeFile(proc[p].lock), GarbledFile}
    BY DEF WriteLock
  <2>2. lockFile.state = "empty" /\ ~Decodes(lockFile)
    BY <1>1 DEF EmptyFile, LockFile, Decodes
  <2> QED  BY <2>1, <2>2
<1>3. /\ WholeFile(proc[p].lock).lock = proc[p].lock
      /\ Decodes(WholeFile(proc[p].lock)) /\ ~WholeFile(proc[p].lock).torn
  BY DEF WholeFile, LockFile, Decodes
<1>4. committed'.lock = proc[p].lock
  BY <1>2, <1>3 DEF WriteLock
<1> QED  BY <1>1, <1>4 DEF Work, StateOK

\* A process truncates the file it has read, which is the committed one, and
\* nobody can then truncate it before it is written.
LEMMA TurnsAreKept == Surroundings /\ Work /\ LockFiles /\ InTurn /\ [Next]_vars => InTurn'
<1> SUFFICES ASSUME Surroundings, Work, LockFiles, [Next]_vars,
                    slips' \subseteq {"torn schema"},
                    LockSound(committed.lock),
                    \A p \in Processes : At(p, "truncated") =>
                       /\ lockFile = EmptyFile
                       /\ \A q \in Processes : At(q, "truncated") => q = p
                       /\ proc[p].lock = UpdateLock(committed.lock, proc[p].reg)
                       /\ PermanentEvents \subseteq DOMAIN proc[p].reg.events
             PROVE  /\ LockSound(committed'.lock)
                    /\ \A p \in Processes : At(p, "truncated")' =>
                          /\ lockFile' = EmptyFile
                          /\ \A q \in Processes : At(q, "truncated")' => q = p
                          /\ proc'[p].lock = UpdateLock(committed'.lock, proc'[p].reg)
                          /\ PermanentEvents \subseteq DOMAIN proc'[p].reg.events
  BY SlipsGrow DEF InTurn
<1>0. InTurn /\ slips \subseteq {"torn schema"}
  BY SlipsGrow DEF InTurn
<1>1. EmptyFile.state = "empty"
  BY DEF EmptyFile, LockFile
<1>2. CASE \E p \in Processes :
              Step(p) /\ ~Truncate(p) /\ ~WriteLock(p) /\ ~WriteFails(p)
  <2>1. PICK p \in Processes : Step(p) /\ ~Truncate(p) /\ ~WriteLock(p) /\ ~WriteFails(p)
    BY <1>2
  <2>2. lockFile' = lockFile /\ committed' = committed
    BY <2>1, LocksStay
  <2>3. /\ proc'[p].at # "truncated"
        /\ \A q \in Processes \ {p} : proc'[q] = proc[q]
    <3>1. CASE OpenProto(p) \/ WriteProto(p) \/ OpenMetadata(p)
      <4>1. PICK place \in {"write proto", "open metadata", "write metadata"} :
               Becomes(p, [proc[p] EXCEPT !.at = place])
        BY <3>1 DEF OpenProto, WriteProto, OpenMetadata
      <4> QED  BY <4>1, PlaceMoves
    <3>2. CASE ~(OpenProto(p) \/ WriteProto(p) \/ OpenMetadata(p))
      BY <2>1, <3>2, StepMoves DEF Step
    <3> QED  BY <3>1, <3>2
  <2> QED  BY <2>2, <2>3 DEF At
<1>3. ASSUME NEW p \in Processes, Truncate(p)
      PROVE  /\ LockSound(committed'.lock)
             /\ \A q \in Processes : At(q, "truncated")' =>
                   /\ lockFile' = EmptyFile
                   /\ q = p
                   /\ proc'[q].lock = UpdateLock(committed'.lock, proc'[q].reg)
                   /\ PermanentEvents \subseteq DOMAIN proc'[q].reg.events
  <2>1. /\ lockFile' = EmptyFile /\ committed' = committed
        /\ proc[p].at = "write"
        /\ Becomes(p, [proc[p] EXCEPT !.at = "truncated"])
        /\ slips' = slips \cup SlipsOf(p)
    BY <1>3 DEF Truncate, At
  <2>2. lockFile = proc[p].base /\ ~proc[p].base.torn /\ proc[p].reg = CurrentRegistry
    <3>1. \A s \in {"lost update", "torn base", "other registry"} : s \notin SlipsOf(p)
      BY <2>1
    <3> QED  BY <3>1 DEF SlipsOf
  <2>3. /\ StateOK(proc[p])
        /\ proc[p].lock = UpdateLock(proc[p].base.lock, proc[p].reg)
        /\ proc[p].base.state \in {"absent", "readable"}
    BY <2>1 DEF Work, StateOK
  <2>4. lockFile = committed
    BY <2>2, <2>3 DEF LockFiles, Decodes
  <2>5. \A q \in Processes : ~At(q, "truncated")
    BY <1>1, <2>2, <2>3
  <2>6. PermanentEvents \subseteq DOMAIN proc[p].reg.events
    BY <2>2, LoadedFacts DEF Surroundings, CurrentRegistry
  <2>7. /\ proc'[p].reg = proc[p].reg /\ proc'[p].lock = proc[p].lock
        /\ \A q \in Processes \ {p} : proc'[q] = proc[q]
    BY <2>1, PlaceMoves
  <2> QED  BY <2>1, <2>2, <2>3, <2>4, <2>5, <2>6, <2>7 DEF At
<1>4. ASSUME NEW p \in Processes, WriteLock(p) \/ WriteFails(p)
      PROVE  /\ LockSound(committed'.lock)
             /\ \A q \in Processes : ~At(q, "truncated")'
  <2>1. At(p, "truncated") /\ Step(p)
    BY <1>4 DEF WriteLock, WriteFails, Step
  <2>2. \A q \in Processes : ~At(q, "truncated")'
    BY <1>4, <2>1, StepMoves DEF At
  <2>3. CASE WriteLock(p)
    <3>1. /\ committed'.lock = UpdateLock(committed.lock, proc[p].reg)
          /\ RegistryShaped(proc[p].reg)
      BY <1>0, <2>3, WrittenInTurn
    <3>2. LockSound(UpdateLock(committed.lock, proc[p].reg))
      BY <3>1, UpdateLockIsSound
    <3> QED  BY <2>2, <3>1, <3>2
  <2>4. CASE WriteFails(p)
    BY <2>2, <2>4 DEF WriteFails
  <2> QED  BY <1>4, <2>3, <2>4
<1>5. CASE EditFile \/ Restore \/ UNCHANGED vars
  BY <1>5 DEF EditFile, Restore, vars, At
<1> QED
  <2>1. \/ \E p \in Processes : Step(p)
        \/ EditFile \/ Restore \/ UNCHANGED vars
    BY DEF Next
  <2> QED  BY <1>2, <1>3, <1>4, <1>5, <2>1

\* What the lock is to keep: an update builds on the committed lock, and a
\* generation goes by it.
LEMMA PromisesAreKept ==
    Surroundings /\ Work /\ LockFiles /\ InTurn /\ Promises /\ [Next]_vars => Promises'
<1> SUFFICES ASSUME Surroundings, Work, LockFiles, InTurn, Promises, [Next]_vars, slips' = {}
             PROVE  Promised'
  BY DEF Promises
<1>1. slips = {} /\ slips \subseteq {"torn schema"}
  BY SlipsGrow
<1>2. /\ Kept(committed.lock, published)
      /\ \A p \in Processes : At(p, "open proto") \/ At(p, "write proto") =>
            Kept(committed.lock, Published(SchemaOf(p)))
  BY <1>1 DEF Promises, Promised
<1>3. ASSUME NEW p \in Processes, proc'[p].at \notin {"open proto", "write proto"},
             \A q \in Processes \ {p} : proc'[q] = proc[q],
             committed' = committed, Kept(committed.lock, published')
      PROVE  Promised'
  BY <1>2, <1>3 DEF Promised, At, SchemaOf
<1>4. ASSUME NEW p \in Processes,
             \/ Start(p) \/ ReadToUpdate(p) \/ Truncate(p) \/ WriteFails(p)
             \/ OpenMetadata(p) \/ WriteMetadata(p) \/ Crash(p)
      PROVE  Promised'
  <2>1. Step(p) /\ committed' = committed /\ published' = published
    BY <1>4 DEF Step, Start, ReadToUpdate, Truncate, WriteFails, OpenMetadata, WriteMetadata, Crash
  <2>2. proc'[p].at \notin {"open proto", "write proto"}
    <3>1. CASE Truncate(p) \/ OpenMetadata(p)
      <4>1. PICK place \in {"truncated", "write metadata"} :
               Becomes(p, [proc[p] EXCEPT !.at = place])
        BY <3>1 DEF Truncate, OpenMetadata
      <4> QED  BY <4>1, PlaceMoves
    <3>2. CASE ~(Truncate(p) \/ OpenMetadata(p))
      BY <1>4, <2>1, <3>2, StepMoves
    <3> QED  BY <3>1, <3>2
  <2> QED  BY <1>2, <1>3, <2>1, <2>2, StepMoves
<1>5. ASSUME NEW p \in Processes, ReadToGenerate(p)
      PROVE  Promised'
  <2> DEFINE reg == proc[p].reg
             accepted == /\ Decodes(lockFile)
                         /\ CheckLock(lockFile.lock, reg)
                         /\ FromRegistryAccepts(reg, lockFile.lock)
  <2>1. Step(p) /\ committed' = committed /\ published' = published
    BY <1>5 DEF Step, ReadToGenerate
  <2>2. CASE ~accepted
    <3>1. proc'[p].at = "idle"
      <4>1. Becomes(p, Idle)
        BY <1>5, <2>2 DEF ReadToGenerate
      <4> QED  BY <4>1, Moves DEF Idle
    <3> QED  BY <1>2, <1>3, <2>1, <3>1, StepMoves
  <2>3. CASE accepted
    <3>1. slips' = slips \cup {s \in {"torn schema"} : lockFile.torn}
      BY <1>5, <2>3 DEF ReadToGenerate
    <3>2. ~lockFile.torn
      BY <3>1
    <3>3. lockFile = committed
      BY <2>3, <3>2 DEF LockFiles
    <3>4. proc'[p] = [proc[p] EXCEPT !.at = "open proto", !.lock = lockFile.lock]
      BY <1>5, <2>3, Moves DEF ReadToGenerate
    <3>5. proc'[p].reg = reg /\ proc'[p].lock = lockFile.lock
      <4>1. PICK t : t = proc[p] /\ IsState(t)
        BY DEF Work, StateOK
      <4>2. \A l : [t EXCEPT !.at = "open proto", !.lock = l]
               = [at |-> "open proto", reg |-> t.reg, base |-> t.base, lock |-> l]
        BY <4>1, NewPlaceAndLock
      <4> QED  BY <3>4, <4>1, <4>2
    <3>6. SchemaOf(p)' = FromRegistry(reg, committed.lock)
      <4> HIDE DEF reg
      <4> QED  BY <3>3, <3>5 DEF SchemaOf
    <3>7. RegistryShaped(reg)
      BY DEF Work, StateOK
    <3>8. /\ DOMAIN reg.context \subseteq DOMAIN committed.lock.context
          /\ \A k \in DOMAIN reg.events :
                /\ k \in DOMAIN committed.lock.events
                /\ DOMAIN reg.events[k] \subseteq DOMAIN committed.lock.events[k].properties
      BY <2>3, <3>3 DEF FromRegistryAccepts, MessageLowers
    <3> HIDE DEF reg, accepted
    <3>9. Kept(committed.lock, Published(SchemaOf(p)'))
      BY <3>6, <3>7, <3>8, SchemaIsKept DEF Kept
    <3> QED  BY <1>2, <2>1, <3>9, StepMoves DEF Promised, At, SchemaOf
  <2> QED  BY <2>2, <2>3
<1>6. ASSUME NEW p \in Processes, OpenProto(p)
      PROVE  Promised'
  <2>1. /\ At(p, "open proto") /\ committed' = committed /\ published' = published
        /\ Becomes(p, [proc[p] EXCEPT !.at = "write proto"])
    BY <1>6 DEF OpenProto
  <2>2. SchemaOf(p)' = SchemaOf(p) /\ \A q \in Processes \ {p} : proc'[q] = proc[q]
    BY <2>1, PlaceMoves
  <2> QED  BY <1>2, <2>1, <2>2 DEF Promised, At, SchemaOf
<1>7. ASSUME NEW p \in Processes, WriteProto(p)
      PROVE  Promised'
  <2>1. /\ At(p, "write proto") /\ committed' = committed
        /\ published' = published \cup Published(SchemaOf(p))
        /\ Becomes(p, [proc[p] EXCEPT !.at = "open metadata"])
    BY <1>7 DEF WriteProto
  <2>2. proc'[p].at = "open metadata" /\ \A q \in Processes \ {p} : proc'[q] = proc[q]
    BY <2>1, PlaceMoves
  <2>3. Kept(committed.lock, published')
    BY <1>2, <2>1 DEF Kept
  <2> QED  BY <1>3, <2>1, <2>2, <2>3
<1>8. ASSUME NEW p \in Processes, WriteLock(p)
      PROVE  Promised'
  <2>1. Step(p) /\ published' = published
    BY <1>8 DEF Step, WriteLock
  <2>2. proc'[p].at = "idle" /\ \A q \in Processes \ {p} : proc'[q] = proc[q]
    BY <1>8, <2>1, StepMoves
  <2>3. /\ committed'.lock = UpdateLock(committed.lock, proc[p].reg)
        /\ RegistryShaped(proc[p].reg)
        /\ PermanentEvents \subseteq DOMAIN proc[p].reg.events
        /\ LockSound(committed.lock)
    BY <1>1, <1>8, WrittenInTurn
  <2>4. \A fields : Kept(committed.lock, fields) => Kept(committed'.lock, fields)
    BY <2>3, UpdateKeeps DEF Kept
  <2> QED  BY <1>2, <2>1, <2>2, <2>4 DEF Promised, At, SchemaOf
<1>9. CASE EditFile \/ Restore \/ UNCHANGED vars
  BY <1>2, <1>9 DEF EditFile, Restore, vars, Promised, At, SchemaOf
<1> QED
  <2>1. \/ \E p \in Processes : Step(p)
        \/ EditFile \/ Restore \/ UNCHANGED vars
    BY DEF Next
  <2> QED  BY <1>4, <1>5, <1>6, <1>7, <1>8, <1>9, <2>1 DEF Step

-----------------------------------------------------------------------------
(* The invariant holds *)

\* A new directory, or one with a past.
\* The lock of a directory with a past is an update's, without one there is
\* none.
LEMMA InitialLock ==
    ASSUME Init
    PROVE  LockShaped(committed.lock) /\ LockSound(committed.lock) /\ lockFile = committed
<1>1. PICK past \in Pasts :
         LET before == Len(past) - 1
         IN  /\ lockFile = IF before = 0 THEN AbsentFile ELSE WholeFile(LocksOf(past)[before])
             /\ committed = lockFile
  BY DEF Init
<1> DEFINE before == Len(past) - 1
<1>2. before \in 0..Len(past)
  BY PastsAssumption
<1>3. LockShaped(LocksOf(past)[before]) /\ LockSound(LocksOf(past)[before])
  BY <1>2, PastFacts
<1>4. /\ AbsentFile.lock = EmptyLock
      /\ \A lock : WholeFile(lock).lock = lock
  BY DEF AbsentFile, WholeFile, LockFile
<1> QED  BY <1>1, <1>3, <1>4, EmptyIsShaped, EmptyLockIsSound

LEMMA InitEstablishes == Init => IInv
<1> SUFFICES ASSUME Init PROVE IInv
  OBVIOUS
<1>1. PICK past \in Pasts :
         LET before == Len(past) - 1
             schema == IF before = 0 THEN NoOutput ELSE SchemaOfPast(past, before)
         IN  /\ files = past[Len(past)]
             /\ lockFile = IF before = 0 THEN AbsentFile ELSE WholeFile(LocksOf(past)[before])
             /\ committed = lockFile
             /\ out = [proto |-> schema, metadata |-> schema, disturbed |-> FALSE]
             /\ proc = [p \in Processes |-> Idle]
             /\ published = UNION {Published(SchemaOfPast(past, i)) : i \in 1..before}
             /\ slips = {}
  BY DEF Init
<1> DEFINE before == Len(past) - 1
<1>2. /\ files = past[Len(past)]
      /\ lockFile = IF before = 0 THEN AbsentFile ELSE WholeFile(LocksOf(past)[before])
      /\ committed = lockFile
      /\ proc = [p \in Processes |-> Idle]
      /\ published = UNION {Published(SchemaOfPast(past, i)) : i \in 1..before}
      /\ out.proto = out.metadata
      /\ out = [proto |-> out.proto, metadata |-> out.metadata, disturbed |-> out.disturbed]
  BY <1>1
<1>3. past \in [1..Len(past) -> Directories] /\ Len(past) \in Nat /\ Len(past) # 0
  BY PastsAssumption
<1>4. before \in 0..Len(past) /\ Len(past) \in 1..Len(past)
  BY <1>3
<1>5. /\ LockSound(LocksOf(past)[before])
      /\ Kept(LocksOf(past)[before], published)
  BY <1>2, <1>4, PastFacts
<1> HIDE DEF before
<1>6. \A p \in Processes : proc[p] = Idle /\ proc[p].at = "idle"
  BY <1>2 DEF Idle
<1>7. /\ AbsentFile.lock = EmptyLock /\ AbsentFile.state = "absent" /\ ~AbsentFile.torn
      /\ \A lock : /\ WholeFile(lock).state = "readable" /\ WholeFile(lock).lock = lock
                   /\ WholeFile(lock).canonical /\ ~WholeFile(lock).torn
  BY DEF AbsentFile, WholeFile, LockFile
<1>8. Surroundings
  BY <1>2, <1>3, <1>4 DEF Surroundings
<1>9. Work
  BY <1>2, <1>6, IdleIsOK DEF Work
<1>10. LockFiles
  BY <1>2, <1>7 DEF LockFiles, LockFileOK, Decodes
<1>11. Outputs
  BY <1>2, <1>6 DEF Outputs, At, InRender, Rendering
<1>12. LockSound(committed.lock)
  BY <1>2, <1>5, <1>7, EmptyLockIsSound
<1>13. Kept(committed.lock, published)
  <2>1. CASE before = 0
    <3>1. published = {}
      BY <1>2, <2>1
    <3> QED  BY <3>1 DEF Kept
  <2>2. CASE before # 0
    BY <1>2, <1>5, <1>7, <2>2
  <2> QED  BY <2>1, <2>2
<1>14. InTurn
  BY <1>6, <1>12 DEF InTurn, At
<1>15. Promises
  BY <1>6, <1>13 DEF Promises, Promised, At
<1> QED  BY <1>8, <1>9, <1>10, <1>11, <1>14, <1>15 DEF IInv

LEMMA IInvHolds == Spec => []IInv
<1>1. IInv /\ [Next]_vars => IInv'
  BY SurroundingsAreKept, WorkIsKept, LockFilesAreKept, OutputsAreKept, TurnsAreKept,
     PromisesAreKept DEF IInv
<1> QED  BY InitEstablishes, <1>1, PTL DEF Spec

-----------------------------------------------------------------------------
(* The theorems *)

\* The files have contents they may be given, the lock file is one of the
\* kinds there are, and each process is at one of its file operations.
THEOREM TypeCorrect == Spec => []TypeOK
<1>1. IInv => TypeOK
  BY DEF IInv, Surroundings, Directories, LockFiles, Work, StateOK, Places, TypeOK
<1> QED  BY <1>1, IInvHolds, PTL

\* With any number of processes that render into one directory: two files of
\* different schemas come only of generations that overlapped or died.
THEOREM OutputsAgree == Spec => []OutputsMatch
<1>1. IInv => OutputsMatch
  BY DEF IInv, Outputs, OutputsMatch
<1> QED  BY <1>1, IInvHolds, PTL

\* With any number of processes, files and contents: the four slips are all
\* that can make the lock forget a published number or give it away again.
THEOREM NumbersSurviveOverlap == Spec => []NumbersKept
<1>1. IInv => NumbersKept
  <2>1. SUFFICES ASSUME IInv, slips = {}
                 PROVE  /\ \A p \in published :
                              p.scope \in PermanentEvents \cup {ContextScope} =>
                                 Keeps(committed.lock, p)
                        /\ \A p, q \in published :
                              /\ p.scope = q.scope
                              /\ p.scope \in PermanentEvents \cup {ContextScope}
                              /\ p.field.number = q.field.number
                              => p.field.name = q.field.name
    BY DEF NumbersKept
  <2>2. Kept(committed.lock, published) /\ LockSound(committed.lock)
    BY <2>1 DEF IInv, Promises, Promised, InTurn
  <2>3. ASSUME NEW p \in published, NEW q \in published, p.scope = q.scope,
               p.scope \in PermanentEvents \cup {ContextScope}, p.field.number = q.field.number
        PROVE  p.field.name = q.field.name
    <3>1. Keeps(committed.lock, p) /\ Keeps(committed.lock, q)
      BY <2>2, <2>3 DEF Kept
    <3>2. CASE p.scope = ContextScope
      <4>1. NoSharedNumber(committed.lock.context)
        BY <2>2 DEF LockSound, Sound
      <4> QED  BY <2>3, <3>1, <3>2, <4>1 DEF Keeps, NoSharedNumber
    <3>3. CASE p.scope # ContextScope
      <4> DEFINE e == EntryOf(committed.lock, p.scope)
      <4>1. EntrySound(e)
        BY <2>2, EntryOfIsSound
      <4>2. /\ Remembers(e, p.field.name, p.field.number)
            /\ Remembers(e, q.field.name, q.field.number)
        BY <2>3, <3>1, <3>3 DEF Keeps, Remembers
      <4> HIDE DEF e
      <4> QED  BY <2>3, <4>1, <4>2, RememberedOnce
    <3> QED  BY <3>2, <3>3
  <2> QED  BY <2>2, <2>3 DEF Kept
<1> QED  BY <1>1, IInvHolds, PTL

\* The committed lock changes when a process has written its update of it.
LEMMA CommitIsRevision ==
    ASSUME IInv, [Next]_vars, slips' \subseteq {"torn schema"}
    PROVE  committed' = committed \/ Ledger!Next
<1>1. CASE committed' = committed
  BY <1>1
<1>2. CASE committed' # committed
  <2>1. PICK p \in Processes : WriteLock(p)
    BY <1>2 DEF Next, vars, Step, Start, ReadToUpdate, Truncate, WriteFails, ReadToGenerate,
                OpenProto, WriteProto, OpenMetadata, WriteMetadata, Crash, EditFile, Restore
  <2> DEFINE lock == committed.lock
             reg  == proc[p].reg
             new  == UpdateLock(lock, reg)
  <2>2. committed'.lock = new /\ RegistryShaped(reg) /\ LockSound(lock)
    BY <2>1, SlipsGrow, WrittenInTurn DEF IInv
  <2> HIDE DEF lock, reg, new
  <2>3. /\ Abstract!Revised(ContextLedger(lock), ContextLedger(new))
        /\ ContextLedger(new).retired = {}
        /\ \A k \in Keys :
              \/ Abstract!Revised(EventLedger(EntryOf(lock, k)), EventLedger(EntryOf(new, k)))
              \/ EventLedger(EntryOf(new, k)) = Abstract!Blank
    BY <2>2, UpdateIsRevision DEF new
  <2>4. LedgerState' = [s \in Keys \cup {ContextScope} |->
           IF s = ContextScope THEN ContextLedger(new) ELSE EventLedger(EntryOf(new, s))]
    BY <2>2 DEF LedgerState, ContextLedger, EventLedger
  <2>5. LedgerState = [s \in Keys \cup {ContextScope} |->
           IF s = ContextScope THEN ContextLedger(lock) ELSE EventLedger(EntryOf(lock, s))]
    BY DEF LedgerState, ContextLedger, EventLedger, lock
  <2>6. /\ LedgerState[ContextScope] = ContextLedger(lock)
        /\ LedgerState'[ContextScope] = ContextLedger(new)
        /\ \A k \in Keys : /\ LedgerState[k] = EventLedger(EntryOf(lock, k))
                           /\ LedgerState'[k] = EventLedger(EntryOf(new, k))
    BY <2>4, <2>5, ContextScopeAssumption
  <2>7. LedgerState' = [s \in Ledger!Scopes |-> LedgerState'[s]]
    BY <2>4 DEF Ledger!Scopes
  <2>8. /\ \A l, m : Abstract!Revised(l, m) => Ledger!Revised(l, m)
        /\ Abstract!Blank = Ledger!Blank
    BY DEF Abstract!Revised, Abstract!NumbersIn, Abstract!Blank,
           Ledger!Revised, Ledger!NumbersIn, Ledger!Blank
  <2> QED  BY <2>3, <2>6, <2>7, <2>8 DEF Ledger!Next, Ledger!Update
<1> QED  BY <1>1, <1>2

\* Without a slip of an update, the committed lock moves by steps of the
\* abstract ledger, whatever the interleaving of file operations.
THEOREM UpdatesAreRevisions == Spec => LedgerUnlessSlip
<1>1. IInv /\ [Next]_vars =>
         [slips' \subseteq {"torn schema"} => committed' = committed \/ Ledger!Next]_vars
  BY CommitIsRevision
<1> QED  BY <1>1, IInvHolds, PTL DEF Spec, LedgerUnlessSlip

\* Whatever lock an update was built on: what is left of its text when the
\* write ends early does not pass for a lock that is up to date.
THEOREM ShortWritesShow == Spec => []ShortWriteNoticed
<1>1. IInv => ShortWriteNoticed
  <2>1. SUFFICES ASSUME IInv, NEW p \in Processes, At(p, "truncated"),
                        NEW prefix \in LockPrefixes(proc[p].lock),
                        LockCheckPasses(TornFile(prefix, proc[p].lock), proc[p].reg)
                 PROVE  /\ [prefix EXCEPT !.events = EmptyMap] = [proc[p].lock EXCEPT !.events = EmptyMap]
                        /\ DOMAIN prefix.events = DOMAIN proc[p].lock.events
                        /\ \A k \in DOMAIN prefix.events :
                              prefix.events[k] # proc[p].lock.events[k] =>
                                  /\ k = LastKey(prefix.events)
                                  /\ prefix.events[k].properties = proc[p].lock.events[k].properties
                                  /\ prefix.events[k].reserved # {}
    BY DEF ShortWriteNoticed
  <2> DEFINE lock == proc[p].lock
             reg  == proc[p].reg
             old  == proc[p].base.lock
  <2>2. lock = UpdateLock(old, reg) /\ RegistryShaped(reg)
    BY <2>1 DEF IInv, Work, StateOK, At
  <2>3. /\ CutIsCanonical(prefix, lock)
        /\ prefix.version = LockVersion
        /\ prefix = UpdateLock(prefix, reg)
    BY <2>1 DEF LockCheckPasses, TornFile, LockFile, CheckLock
  <2> HIDE DEF lock, reg, old
  \* Both locks have an entry of the same build for every event.
  <2>4. /\ DOMAIN lock.events = DOMAIN reg.events
        /\ DOMAIN prefix.events = DOMAIN reg.events
        /\ \A k \in DOMAIN reg.events :
              /\ lock.events[k] = UpdatedEvent(EntryOf(old, k), DOMAIN reg.events[k])
              /\ prefix.events[k] = UpdatedEvent(EntryOf(prefix, k), DOMAIN reg.events[k])
    <3>1. \A l : /\ DOMAIN UpdateLock(l, reg).events = DOMAIN reg.events
                 /\ \A k \in DOMAIN reg.events :
                       UpdateLock(l, reg).events[k] = UpdatedEvent(EntryOf(l, k), DOMAIN reg.events[k])
      BY DEF UpdateLock
    <3> QED  BY <2>2, <2>3, <3>1
  \* The text ended inside the entry of an event.
  <2>5. PICK k \in DOMAIN lock.events :
           \E e \in EventPrefixes(lock.events[k]) :
              prefix = [lock EXCEPT !.events = CutAt(lock.events, k, e)]
    <3>1. prefix # EmptyLock
      BY <2>3 DEF EmptyLock, LockVersion
    <3>2. prefix.events # EmptyMap
      BY <2>3 DEF CutIsCanonical
    <3>3. \A fields : [lock EXCEPT !.context = fields, !.events = EmptyMap].events = EmptyMap
      BY <2>2 DEF UpdateLock
    <3>4. prefix \in LockPrefixes(lock)
      BY <2>1 DEF lock
    <3>5. \/ prefix = EmptyLock
          \/ \E fs \in FieldPrefixes(lock.context) :
                prefix = [lock EXCEPT !.context = fs, !.events = EmptyMap]
          \/ \E k \in DOMAIN lock.events : \E e \in EventPrefixes(lock.events[k]) :
                prefix = [lock EXCEPT !.events = CutAt(lock.events, k, e)]
      BY <3>4, PrefixKinds, Zenon
    <3> QED  BY <3>1, <3>2, <3>3, <3>5
  <2>6. PICK e : prefix = [lock EXCEPT !.events = CutAt(lock.events, k, e)]
    BY <2>5
  <2>7. /\ prefix.events = CutAt(lock.events, k, e)
        /\ [prefix EXCEPT !.events = EmptyMap] = [lock EXCEPT !.events = EmptyMap]
    BY <2>2, <2>6 DEF UpdateLock
  <2>8. /\ k \in DOMAIN prefix.events
        /\ \A j \in DOMAIN prefix.events :
              /\ j = k \/ Precedes(j, k)
              /\ j # k => prefix.events[j] = lock.events[j]
    BY <2>4, <2>7 DEF CutAt
  <2>9. k = LastKey(prefix.events)
    <3>1. \A j \in DOMAIN prefix.events : j[1] \in Int /\ j[2] \in Int
      BY <2>2, <2>4, KeysAssumption DEF RegistryShaped
    <3>2. LastKey(prefix.events) \in DOMAIN prefix.events /\
          \A j \in DOMAIN prefix.events : LastKey(prefix.events) = j \/ Precedes(j, LastKey(prefix.events))
      BY <2>8 DEF LastKey
    <3> QED  BY <2>8, <3>1, <3>2 DEF Precedes
  <2>10. /\ prefix.events[k].envelope = lock.events[k].envelope
         /\ prefix.events[k].properties = lock.events[k].properties
         /\ prefix.events[k].reserved # {} \/ lock.events[k].reserved = {}
    BY <2>3, <2>9 DEF CutIsCanonical
  <2>11. prefix.events[k] # lock.events[k] => prefix.events[k].reserved # {}
    <3> DEFINE Whole(f) == f = [envelope |-> f.envelope, properties |-> f.properties,
                                reserved |-> f.reserved, inOrder |-> TRUE]
    <3>1. \A l, wanted : Whole(UpdatedEvent(l, wanted))
      BY DEF UpdatedEvent
    <3> HIDE DEF Whole
    <3>2. Whole(prefix.events[k]) /\ Whole(lock.events[k])
      BY <2>4, <2>8, <3>1
    <3> QED  BY <2>10, <3>2 DEF Whole
  <2> QED  BY <2>4, <2>7, <2>8, <2>9, <2>10, <2>11 DEF lock
<1> QED  BY <1>1, IInvHolds, PTL

\* A directory of any number of files: the order of their paths, in which the
\* loader merges them, decides neither whether it reports an error nor what
\* comes out.
THEOREM OrderDoesNotMatter == Spec => []MergeIgnoresOrder
<1>1. IInv => MergeIgnoresOrder
  BY OrderIsIgnored DEF MergeIgnoresOrder
<1> QED  BY <1>1, IInvHolds, PTL

\* A registry that loads and its spelling: FromRegistry compares what events
\* render to, and that decides the constants of both languages.
LEMMA ConstantsDiffer ==
    ASSUME files \in Directories, Loads(files, Directory),
           EventsLower(CurrentRegistry),
           NEW j \in DOMAIN CurrentRegistry.events, NEW k \in DOMAIN CurrentRegistry.events, j # k
    PROVE  /\ Entries[j].goIdent # Entries[k].goIdent
           /\ Entries[j].pyIdent # Entries[k].pyIdent
<1> DEFINE a == SpelledEvent[j[1]]
           b == SpelledEvent[k[1]]
<1>1. j \in Keys /\ k \in Keys
  BY LoadedFacts DEF CurrentRegistry, RegistryShaped
<1>2. j[1] \notin MalformedNames /\ k[1] \notin MalformedNames
  BY DEF Loads, Validate, CurrentRegistry, RegistryAt
<1>3. /\ IsEventName(a) /\ PascalCase[j[1]] = PascalCaseOf(a)
      /\ IsEventName(b) /\ PascalCase[k[1]] = PascalCaseOf(b)
  BY <1>1, <1>2, SpellingAssumption
<1>4. j[2] = k[2] /\ PascalCase[j[1]] # PascalCase[k[1]]
  BY DEF EventsLower
<1> HIDE DEF a, b
<1>5. EventMessageName(a, j[2]) # EventMessageName(b, j[2])
  BY <1>3, <1>4, MessageNamesDecide
<1>6. GoIdent(a, j[2]) # GoIdent(b, j[2])
  BY <1>3, <1>5, GoIdentsAreMessageNames
<1>7. PyIdent(a, j[2]) # PyIdent(b, j[2])
  BY <1>3, <1>5, PyIdentsDecideMessageNames
<1>8. /\ Entries[j] = [goIdent |-> GoIdent(a, j[2]), pyIdent |-> PyIdent(a, j[2])]
      /\ Entries[k] = [goIdent |-> GoIdent(b, k[2]), pyIdent |-> PyIdent(b, k[2])]
  BY <1>1 DEF Entries, a, b
<1> QED  BY <1>4, <1>6, <1>7, <1>8

\* For every alphabet and all events: a registry that can be generated from
\* has no two constants of one name, in either language.
THEOREM ConstantsAreUnique == Spec => []IdentifiersDiffer
<1>1. IInv => IdentifiersDiffer
  <2>1. SUFFICES ASSUME IInv, Loads(files, Directory),
                        FromRegistryAccepts(CurrentRegistry, lockFile.lock),
                        NEW j \in DOMAIN CurrentRegistry.events,
                        NEW k \in DOMAIN CurrentRegistry.events, j # k
                 PROVE  /\ Entries[j].goIdent # Entries[k].goIdent
                        /\ Entries[j].pyIdent # Entries[k].pyIdent
    BY DEF IdentifiersDiffer
  <2> QED  BY <2>1, ConstantsDiffer DEF IInv, Surroundings, FromRegistryAccepts
<1> QED  BY <1>1, IInvHolds, PTL

-----------------------------------------------------------------------------
(* Whatever slips *)

\* Any lock that the validators let through, edited or torn ones included:
\* the update of it is sound, and settled for the registry it was made for.
LEMMA AcceptedUpdates ==
    ASSUME NEW lock, LockShaped(lock), NEW reg, RegistryShaped(reg), UpdateAccepts(lock, reg)
    PROVE  LET new == UpdateLock(lock, reg)
           IN  /\ LockShaped(new) /\ LockSound(new)
               /\ UpdateLock(new, reg) = new
               /\ CheckLock(new, reg)
<1> DEFINE inner == Repaired(lock, reg)
           new   == UpdateLock(lock, reg)
<1>1. LockSound(inner) /\ UpdateLock(inner, reg) = new
  BY RepairedFacts
<1> HIDE DEF inner, new
<1>2. LockShaped(new) /\ LockSound(new) /\ UpdateLock(new, reg) = new
  BY <1>1, UpdatedIsShaped, UpdateLockIsSound, LockSettles
<1>3. CheckLock(new, reg)
  BY <1>2, SettledPassesCheck
<1> QED  BY <1>2, <1>3 DEF new

\* What a process is about to write is the update of a lock that the
\* validators let through, whatever has become of the file since.
Accepted(p) ==
    /\ LockShaped(proc[p].base.lock)
    /\ UpdateAccepts(proc[p].base.lock, proc[p].reg)

\* The decoder can make what the lock file holds, and the committed lock is
\* sound.
Legible ==
    /\ LockShaped(lockFile.lock)
    /\ LockShaped(committed.lock) /\ LockSound(committed.lock)
    /\ \A p \in Processes : At(p, "write") \/ At(p, "truncated") => Accepted(p)

\* The lock a process writes.
LEMMA WritesAccepted ==
    ASSUME Work, Legible, NEW p \in Processes, At(p, "write") \/ At(p, "truncated")
    PROVE  /\ LockShaped(proc[p].lock) /\ LockSound(proc[p].lock)
           /\ UpdateLock(proc[p].lock, proc[p].reg) = proc[p].lock
           /\ CheckLock(proc[p].lock, proc[p].reg)
<1>1. proc[p].lock = UpdateLock(proc[p].base.lock, proc[p].reg) /\ RegistryShaped(proc[p].reg)
  BY DEF Work, StateOK, At
<1>2. LockShaped(proc[p].base.lock) /\ UpdateAccepts(proc[p].base.lock, proc[p].reg)
  BY DEF Legible, Accepted
<1> QED  BY <1>1, <1>2, AcceptedUpdates

\* The locks a lock file may hold.
LEMMA LocksOfFiles ==
    /\ \A lock : WholeFile(lock).lock = lock
    /\ \A prefix, lock : TornFile(prefix, lock).lock = prefix
    /\ EmptyFile.lock = EmptyLock /\ GarbledFile.lock = EmptyLock /\ AbsentFile.lock = EmptyLock
BY DEF WholeFile, TornFile, EmptyFile, GarbledFile, AbsentFile, LockFile

LEMMA LegibleIsKept == Work /\ LockFiles /\ Legible /\ [Next]_vars => Legible'
<1> SUFFICES ASSUME Work, LockFiles, Legible, [Next]_vars PROVE Legible'
  OBVIOUS
<1>0. LockShaped(EmptyLock)
  BY EmptyIsShaped
\* Steps of a process that leaves the lock file alone.
<1>1. ASSUME NEW p \in Processes, lockFile' = lockFile, committed' = committed,
             \A q \in Processes \ {p} : proc'[q] = proc[q],
             At(p, "write")' \/ At(p, "truncated")' => Accepted(p)'
      PROVE  Legible'
  BY <1>1 DEF Legible, Accepted, At
\* Steps of one that writes it, and is done.
<1>2. ASSUME NEW p \in Processes, LockShaped(lockFile'.lock),
             LockShaped(committed'.lock), LockSound(committed'.lock),
             \A q \in Processes \ {p} : proc'[q] = proc[q], proc'[p].at = "idle"
      PROVE  Legible'
  BY <1>2 DEF Legible, Accepted, At
<1>3. ASSUME NEW p \in Processes, Start(p) \/ ReadToGenerate(p) \/ Crash(p) \/ WriteMetadata(p)
      PROVE  Legible'
  <2>1. lockFile' = lockFile /\ committed' = committed /\ Step(p)
    BY <1>3 DEF Start, ReadToGenerate, Crash, WriteMetadata, Step
  <2>2. /\ \A q \in Processes \ {p} : proc'[q] = proc[q]
        /\ proc'[p].at \in {"update", "generate", "idle", "open proto"}
    BY <1>3, <2>1, StepMoves
  <2> QED  BY <1>1, <2>1, <2>2 DEF At
<1>4. ASSUME NEW p \in Processes, OpenProto(p) \/ WriteProto(p) \/ OpenMetadata(p)
      PROVE  Legible'
  <2>1. lockFile' = lockFile /\ committed' = committed
    BY <1>4 DEF OpenProto, WriteProto, OpenMetadata
  <2>2. /\ \A q \in Processes \ {p} : proc'[q] = proc[q]
        /\ proc'[p].at \in {"write proto", "open metadata", "write metadata"}
    BY <1>4, PlaceMoves DEF OpenProto, WriteProto, OpenMetadata
  <2> QED  BY <1>1, <2>1, <2>2 DEF At
<1>5. ASSUME NEW p \in Processes, ReadToUpdate(p) PROVE Legible'
  <2>1. lockFile' = lockFile /\ committed' = committed /\ Step(p)
    BY <1>5 DEF ReadToUpdate, Step
  <2>2. \A q \in Processes \ {p} : proc'[q] = proc[q]
    BY <2>1, StepMoves
  <2> DEFINE new == [proc[p] EXCEPT !.at = "write", !.base = lockFile,
                                    !.lock = UpdateLock(lockFile.lock, proc[p].reg)]
  <2>3. \/ proc'[p] = Idle
        \/ UpdateAccepts(lockFile.lock, proc[p].reg) /\ proc'[p] = new
    BY <1>5, Moves DEF ReadToUpdate
  <2>4. new.base = lockFile /\ new.reg = proc[p].reg
    <3>1. IsState(proc[p])
      BY DEF Work, StateOK
    <3>2. \A l : [proc[p] EXCEPT !.at = "write", !.base = lockFile, !.lock = l]
                    = [at |-> "write", reg |-> proc[p].reg, base |-> lockFile, lock |-> l]
      BY <3>1, NewPlaceBaseAndLock
    <3>3. new = [at |-> "write", reg |-> proc[p].reg, base |-> lockFile,
                 lock |-> UpdateLock(lockFile.lock, proc[p].reg)]
      BY <3>2, Zenon
    <3> QED  BY <3>3
  <2> HIDE DEF new
  <2>5. At(p, "write")' \/ At(p, "truncated")' => Accepted(p)'
    BY <2>3, <2>4 DEF Legible, Accepted, At, Idle
  <2> QED  BY <1>1, <2>1, <2>2, <2>5
<1>6. ASSUME NEW p \in Processes, Truncate(p) PROVE Legible'
  <2>1. /\ lockFile' = EmptyFile /\ committed' = committed /\ At(p, "write")
        /\ Becomes(p, [proc[p] EXCEPT !.at = "truncated"])
    BY <1>6 DEF Truncate
  <2>2. /\ \A q \in Processes \ {p} : proc'[q] = proc[q]
        /\ proc'[p].reg = proc[p].reg /\ proc'[p].base = proc[p].base
    <3>1. /\ proc'[p] = [proc[p] EXCEPT !.at = "truncated"]
          /\ \A q \in Processes \ {p} : proc'[q] = proc[q]
      BY <2>1, Moves
    <3> QED  BY <3>1
  <2>3. Accepted(p)
    BY <2>1 DEF Legible
  <2> QED  BY <1>0, <2>1, <2>2, <2>3, LocksOfFiles DEF Legible, Accepted, At
<1>7. ASSUME NEW p \in Processes, WriteLock(p) PROVE Legible'
  <2> DEFINE lock == proc[p].lock
  <2>1. LockShaped(lock) /\ LockSound(lock)
    BY <1>7, WritesAccepted DEF WriteLock
  <2>2. /\ \A q \in Processes \ {p} : proc'[q] = proc[q]
        /\ proc'[p].at = "idle"
    BY <1>7, StepMoves DEF Step
  <2>3. \/ lockFile' \in {WholeFile(lock), GarbledFile}
        \/ lockFile' = lockFile
    <3>1. lockFile' \in CASE lockFile.state = "empty" -> {WholeFile(lock)}
                           [] /\ Decodes(lockFile) /\ lock \in LockPrefixes(lockFile.lock)
                              /\ CutIsCanonical(lock, lockFile.lock) -> {lockFile}
                           [] OTHER -> {WholeFile(lock), GarbledFile}
      BY <1>7 DEF WriteLock
    <3> HIDE DEF lock
    <3>2. ~(lockFile.state = "empty" /\ Decodes(lockFile))
      BY DEF Decodes
    <3> QED  BY <3>1, <3>2
  <2>4. committed' = IF Decodes(lockFile') /\ ~lockFile'.torn THEN lockFile' ELSE committed
    BY <1>7 DEF WriteLock
  <2> HIDE DEF lock
  <2>5. ~Decodes(GarbledFile)
    BY DEF GarbledFile, LockFile, Decodes
  <2>6. CASE lockFile' = WholeFile(lock)
    BY <1>2, <2>1, <2>2, <2>4, <2>6, LocksOfFiles DEF Legible
  <2>7. CASE lockFile' = GarbledFile
    BY <1>0, <1>2, <2>2, <2>4, <2>5, <2>7, LocksOfFiles DEF Legible
  <2>8. CASE lockFile' = lockFile
    <3>1. committed' = committed
      BY <2>4, <2>8 DEF LockFiles
    <3> QED  BY <1>2, <2>2, <2>8, <3>1 DEF Legible
  <2> QED  BY <2>3, <2>6, <2>7, <2>8
<1>8. ASSUME NEW p \in Processes, WriteFails(p) PROVE Legible'
  <2>1. PICK prefix \in LockPrefixes(proc[p].lock) : lockFile' = TornFile(prefix, proc[p].lock)
    BY <1>8 DEF WriteFails
  <2>2. LockShaped(proc[p].lock)
    BY <1>8, WritesAccepted DEF WriteFails
  <2>3. LockShaped(lockFile'.lock)
    BY <2>1, <2>2, PrefixFacts, LocksOfFiles
  <2>4. /\ \A q \in Processes \ {p} : proc'[q] = proc[q]
        /\ proc'[p].at = "idle" /\ committed' = committed
    BY <1>8, StepMoves DEF Step, WriteFails
  <2> QED  BY <1>2, <2>3, <2>4 DEF Legible
<1>9. CASE EditFile \/ Restore \/ UNCHANGED vars
  BY <1>9 DEF EditFile, Restore, vars, Legible, Accepted, At
<1> QED  BY <1>3, <1>4, <1>5, <1>6, <1>7, <1>8, <1>9 DEF Next, Step

LEMMA LegibleHolds == Spec => []Legible
<1>1. Init => Legible
  <2> SUFFICES ASSUME Init PROVE Legible
    OBVIOUS
  <2>1. LockShaped(committed.lock) /\ LockSound(committed.lock) /\ lockFile = committed
    BY InitialLock
  <2>2. \A p \in Processes : proc[p].at = "idle"
    BY DEF Init, Idle
  <2> QED  BY <2>1, <2>2 DEF Legible, At
<1>2. IInv /\ Legible /\ [Next]_vars => Legible'
  BY LegibleIsKept DEF IInv
<1> QED  BY <1>1, <1>2, IInvHolds, PTL DEF Spec

\* No validator of lock update refuses the committed lock, whatever the registry.
CommittedIsUsable == \A reg : UpdateAccepts(committed.lock, reg)

\* Whatever overlaps, slips or dies: a checkout of the committed lock is a place
\* to go on from (cli/lock.go:39-52).
THEOREM CheckoutHelps == Spec => []CommittedIsUsable
<1>1. Legible => CommittedIsUsable
  BY SoundIsAccepted DEF Legible, CommittedIsUsable
<1> QED  BY <1>1, LegibleHolds, PTL

\* A lock about to be written, with the registry its writer has loaded.
UpdatesPassCheck ==
    \A p \in Processes :
        At(p, "truncated") => LockCheckPasses(WholeFile(proc[p].lock), proc[p].reg)

\* What lock update writes passes lock check for the registry it had loaded,
\* even when it started from a half-written lock or lost a race (cli/lock.go:27-103).
THEOREM UpdateThenCheck == Spec => []UpdatesPassCheck
<1>1. IInv /\ Legible => UpdatesPassCheck
  <2> SUFFICES ASSUME IInv, Legible, NEW p \in Processes, At(p, "truncated")
               PROVE  LockCheckPasses(WholeFile(proc[p].lock), proc[p].reg)
    BY DEF UpdatesPassCheck
  <2>1. /\ LockSound(proc[p].lock)
        /\ UpdateLock(proc[p].lock, proc[p].reg) = proc[p].lock
        /\ CheckLock(proc[p].lock, proc[p].reg)
    BY WritesAccepted DEF IInv
  <2>2. UpdateAccepts(proc[p].lock, proc[p].reg)
    BY <2>1, SoundIsAccepted
  <2> QED  BY <2>1, <2>2 DEF LockCheckPasses, WholeFile, LockFile, Decodes
<1> QED  BY <1>1, IInvHolds, LegibleHolds, PTL
=============================================================================
