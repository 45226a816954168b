-------------------------- MODULE LockTamperProofs --------------------------
(***************************************************************************)
(* Theorems about the lock file in people's hands: what UpdateLock and     *)
(* CheckLock make of a lock that somebody edited, for every set of names,  *)
(* events and numbers typed and every reserved range.  A lock in the shape *)
(* the decoder gives it is Shaped; a shaped lock that the validators of    *)
(* UpdateLock accept differs from a sound one (SchemaLockProofs) only      *)
(* where UpdateLock does not look.                                         *)
(***************************************************************************)
EXTENDS LockTamper, LockLifecycleProofs

-----------------------------------------------------------------------------
(* The inductive invariant *)

\* The lock is one the program wrote, or one edit
\* away from a lock the program wrote that was current for the registry.
EditInv ==
    Edited =>
        /\ LockSound(edit.before) /\ LockShaped(edit.before)
        /\ UpdateLock(edit.before, registry) = edit.before
        /\ lockFile.lock \in LockEdits(edit.kind, edit.before)
        /\ lockFile.present
        /\ edit.kind = "swap" => lockFile.canonical

TInv ==
    /\ registry \in Registries
    /\ lockFile = [present |-> lockFile.present, lock |-> lockFile.lock,
                   canonical |-> lockFile.canonical]
    /\ LockShaped(lockFile.lock)
    /\ ~Edited => LockSound(lockFile.lock)
    /\ EditInv

-----------------------------------------------------------------------------
(* Edits *)

\* The five edits of a map of fields, one disjunct each.
LEMMA FieldEditKinds ==
    ASSUME NEW kind, NEW fields, NEW names, NEW new \in FieldEdits(kind, fields, names)
    PROVE  \/ /\ kind = "renumber"
              /\ \E n \in DOMAIN fields, x \in EditNumbers :
                    new = [fields EXCEPT ![n].protoNumber = x]
           \/ /\ kind = "reidentify"
              /\ \E n \in DOMAIN fields, i \in names :
                    new = [fields EXCEPT ![n].stableID = i]
           \/ /\ kind = "drop"
              /\ \E n \in DOMAIN fields : new = Without(fields, n)
           \/ /\ kind = "add"
              /\ \E n \in names \ DOMAIN fields, x \in EditNumbers :
                    new = With(fields, n, LockedField(n, x))
           \/ /\ kind = "swap"
              /\ \E m, n \in DOMAIN fields : new = Swapped(fields, m, n)
<1>1. CASE kind = "renumber"
  BY <1>1 DEF FieldEdits
<1>2. CASE kind = "reidentify"
  BY <1>2 DEF FieldEdits
<1>3. CASE kind = "drop"
  BY <1>3 DEF FieldEdits
<1>4. CASE kind = "add"
  BY <1>4 DEF FieldEdits
<1>5. CASE kind = "swap"
  BY <1>5 DEF FieldEdits
<1>6. CASE kind \notin {"renumber", "reidentify", "drop", "add", "swap"}
  <2>1. FieldEdits(kind, fields, names) = {}
    BY <1>6 DEF FieldEdits
  <2> QED  BY <2>1
<1> QED  BY <1>1, <1>2, <1>3, <1>4, <1>5, <1>6

\* An edit of a map of fields leaves a map of fields, takes at most one number
\* out and puts at most one in; only two kinds change the number of a field
\* that stays.
LEMMA FieldEditFacts ==
    ASSUME NEW kind, NEW names, NEW fields, FieldsShaped(fields, names),
           NEW new \in FieldEdits(kind, fields, names)
    PROVE  /\ FieldsShaped(new, names)
           /\ \E gone : NumbersOf(fields) \subseteq NumbersOf(new) \cup {gone}
           /\ \E x \in Int : NumbersOf(new) \subseteq NumbersOf(fields) \cup {x}
           /\ kind \notin {"renumber", "swap"} =>
                 \A n \in DOMAIN new \cap DOMAIN fields :
                    new[n].protoNumber = fields[n].protoNumber
<1>1. /\ DOMAIN fields \subseteq names
      /\ \A n \in DOMAIN fields : fields[n] \in [stableID : names, protoNumber : Int]
      /\ fields = [n \in DOMAIN fields |-> fields[n]]
      /\ EditNumbers \subseteq Int
  BY EditNumbersAssumption DEF FieldsShaped
<1>2. CASE \E n \in DOMAIN fields, x \in EditNumbers :
              kind = "renumber" /\ new = [fields EXCEPT ![n].protoNumber = x]
  <2>1. PICK n \in DOMAIN fields, x \in EditNumbers :
           kind = "renumber" /\ new = [fields EXCEPT ![n].protoNumber = x]
    BY <1>2
  <2>2. /\ DOMAIN new = DOMAIN fields
        /\ \A m \in DOMAIN fields \ {n} : new[m] = fields[m]
        /\ new[n] = [fields[n] EXCEPT !.protoNumber = x]
        /\ new = [m \in DOMAIN new |-> new[m]]
    BY <2>1
  <2>3. new[n] \in [stableID : names, protoNumber : Int] /\ new[n].protoNumber = x
    BY <1>1, <2>2
  <2>4. FieldsShaped(new, names)
    BY <1>1, <2>2, <2>3 DEF FieldsShaped
  <2>5. NumbersOf(fields) \subseteq NumbersOf(new) \cup {fields[n].protoNumber}
    BY <2>2 DEF NumbersOf
  <2>6. NumbersOf(new) \subseteq NumbersOf(fields) \cup {x}
    BY <2>2, <2>3 DEF NumbersOf
  <2> QED  BY <1>1, <2>1, <2>4, <2>5, <2>6
<1>3. CASE \E n \in DOMAIN fields, i \in names :
              kind = "reidentify" /\ new = [fields EXCEPT ![n].stableID = i]
  <2>1. PICK n \in DOMAIN fields, i \in names :
           kind = "reidentify" /\ new = [fields EXCEPT ![n].stableID = i]
    BY <1>3
  <2>2. /\ DOMAIN new = DOMAIN fields
        /\ \A m \in DOMAIN fields \ {n} : new[m] = fields[m]
        /\ new[n] = [fields[n] EXCEPT !.stableID = i]
        /\ new = [m \in DOMAIN new |-> new[m]]
    BY <2>1
  <2>3. /\ new[n] \in [stableID : names, protoNumber : Int]
        /\ new[n].protoNumber = fields[n].protoNumber
    BY <1>1, <2>2
  <2>4. FieldsShaped(new, names)
    BY <1>1, <2>2, <2>3 DEF FieldsShaped
  <2>5. \A m \in DOMAIN fields : new[m].protoNumber = fields[m].protoNumber
    BY <2>2, <2>3
  <2>6. NumbersOf(fields) = NumbersOf(new)
    BY <2>2, <2>5 DEF NumbersOf
  <2> QED  BY <2>4, <2>5, <2>6
<1>4. CASE \E n \in DOMAIN fields : kind = "drop" /\ new = Without(fields, n)
  <2>1. PICK n \in DOMAIN fields : kind = "drop" /\ new = Without(fields, n)
    BY <1>4
  <2>2. /\ DOMAIN new = DOMAIN fields \ {n}
        /\ \A m \in DOMAIN new : new[m] = fields[m]
        /\ new = [m \in DOMAIN new |-> new[m]]
    BY <2>1 DEF Without
  <2>3. FieldsShaped(new, names)
    BY <1>1, <2>2 DEF FieldsShaped
  <2>4. NumbersOf(fields) \subseteq NumbersOf(new) \cup {fields[n].protoNumber}
    BY <2>2 DEF NumbersOf
  <2>5. NumbersOf(new) \subseteq NumbersOf(fields) \cup {0}
    BY <2>2 DEF NumbersOf
  <2>6. 0 \in Int
    OBVIOUS
  <2> QED  BY <2>2, <2>3, <2>4, <2>5, <2>6
<1>5. CASE \E n \in names \ DOMAIN fields, x \in EditNumbers :
              kind = "add" /\ new = With(fields, n, LockedField(n, x))
  <2>1. PICK n \in names \ DOMAIN fields, x \in EditNumbers :
           kind = "add" /\ new = With(fields, n, LockedField(n, x))
    BY <1>5
  <2>2. /\ DOMAIN new = DOMAIN fields \cup {n}
        /\ \A m \in DOMAIN fields : new[m] = fields[m]
        /\ new[n] = [stableID |-> n, protoNumber |-> x]
        /\ new = [m \in DOMAIN new |-> new[m]]
    BY <2>1 DEF With, LockedField
  <2>3. FieldsShaped(new, names)
    BY <1>1, <2>2 DEF FieldsShaped
  <2>4. NumbersOf(fields) \subseteq NumbersOf(new) \cup {0}
    BY <2>2 DEF NumbersOf
  <2>5. NumbersOf(new) \subseteq NumbersOf(fields) \cup {x}
    BY <2>2 DEF NumbersOf
  <2> QED  BY <1>1, <2>2, <2>3, <2>4, <2>5
<1>6. CASE \E m, n \in DOMAIN fields : kind = "swap" /\ new = Swapped(fields, m, n)
  <2>1. PICK m \in DOMAIN fields, n \in DOMAIN fields :
           kind = "swap" /\ new = Swapped(fields, m, n)
    BY <1>6
  <2> DEFINE mid == [fields EXCEPT ![m].protoNumber = fields[n].protoNumber]
  <2>2. /\ DOMAIN mid = DOMAIN fields
        /\ \A k \in DOMAIN fields \ {m} : mid[k] = fields[k]
        /\ mid[m] = [fields[m] EXCEPT !.protoNumber = fields[n].protoNumber]
    OBVIOUS
  <2>3. mid[m] \in [stableID : names, protoNumber : Int]
        /\ mid[m].protoNumber = fields[n].protoNumber
    BY <1>1, <2>2
  <2>4. new = [mid EXCEPT ![n].protoNumber = fields[m].protoNumber]
    BY <2>1 DEF Swapped
  <2> HIDE DEF mid
  <2>5. /\ DOMAIN new = DOMAIN fields
        /\ \A k \in DOMAIN fields \ {n} : new[k] = mid[k]
        /\ new[n] = [mid[n] EXCEPT !.protoNumber = fields[m].protoNumber]
        /\ new = [k \in DOMAIN new |-> new[k]]
    BY <2>2, <2>4
  <2>6. \A k \in DOMAIN fields : mid[k] \in [stableID : names, protoNumber : Int]
    BY <1>1, <2>2, <2>3
  <2>7. new[n] \in [stableID : names, protoNumber : Int]
        /\ new[n].protoNumber = fields[m].protoNumber
    BY <1>1, <2>5, <2>6
  <2>8. FieldsShaped(new, names)
    BY <1>1, <2>5, <2>6, <2>7 DEF FieldsShaped
  <2>9. \A k \in DOMAIN fields \ {m, n} : new[k] = fields[k]
    BY <2>2, <2>5
  <2>10. new[m].protoNumber = fields[n].protoNumber
    BY <2>3, <2>5, <2>7
  <2>11. NumbersOf(fields) \subseteq NumbersOf(new)
    BY <2>5, <2>7, <2>9, <2>10 DEF NumbersOf
  <2>12. NumbersOf(new) \subseteq NumbersOf(fields)
    BY <2>5, <2>7, <2>9, <2>10 DEF NumbersOf
  <2>13. 0 \in Int
    OBVIOUS
  <2> QED  BY <2>1, <2>8, <2>11, <2>12, <2>13
<1>7. CASE kind = "renumber"
  BY <1>2, <1>7, FieldEditKinds
<1>8. CASE kind = "reidentify"
  BY <1>3, <1>8, FieldEditKinds
<1>9. CASE kind = "drop"
  BY <1>4, <1>9, FieldEditKinds
<1>10. CASE kind = "add"
  BY <1>5, <1>10, FieldEditKinds
<1>11. CASE kind = "swap"
  BY <1>6, <1>11, FieldEditKinds
<1> QED  BY <1>7, <1>8, <1>9, <1>10, <1>11, FieldEditKinds

\* So does an edit of a reserved list.
LEMMA ReservedEditFacts ==
    ASSUME NEW kind, NEW set \in SUBSET ReservedShape, NEW new \in ReservedEdits(kind, set)
    PROVE  /\ new \subseteq ReservedShape
           /\ \E gone : \A r \in set : r.protoNumber # gone =>
                 \E s \in new : s.protoNumber = r.protoNumber
           /\ \E x \in Int : \A s \in new : s.protoNumber # x =>
                 \E r \in set : r.protoNumber = s.protoNumber
<1>1. EditNumbers \subseteq Int /\ 0 \in Int
  BY EditNumbersAssumption
<1>2. ASSUME NEW r \in set, NEW s \in ReservedShape, new = Replaced(set, r, s)
      PROVE  /\ new \subseteq ReservedShape
             /\ \A q \in set : q.protoNumber # r.protoNumber =>
                   \E t \in new : t.protoNumber = q.protoNumber
             /\ s.protoNumber \in Int
             /\ \A t \in new : t.protoNumber # s.protoNumber =>
                   \E q \in set : q.protoNumber = t.protoNumber
  <2>1. s.protoNumber \in Int
    BY DEF ReservedShape
  <2> QED  BY <1>2, <2>1 DEF Replaced
<1>3. ASSUME NEW r \in set
      PROVE  /\ \A x \in Int : [r EXCEPT !.protoNumber = x] \in ReservedShape
             /\ \A i \in PropertyNames : [r EXCEPT !.stableID = i] \in ReservedShape
             /\ \A i \in PropertyNames \cup {0} : [r EXCEPT !.name = i] \in ReservedShape
             /\ [r EXCEPT !.reason = "because"] \in ReservedShape
  <2>1. r \in ReservedShape
    OBVIOUS
  <2> QED  BY <2>1 DEF ReservedShape
<1>4. CASE \E r \in set, s \in ReservedShape : new = Replaced(set, r, s)
  <2>1. PICK r \in set, s \in ReservedShape : new = Replaced(set, r, s)
    BY <1>4
  <2>2. new \subseteq ReservedShape /\ s.protoNumber \in Int
    BY <1>2, <2>1
  <2>3. \A q \in set : q.protoNumber # r.protoNumber =>
           \E t \in new : t.protoNumber = q.protoNumber
    BY <1>2, <2>1
  <2>4. \A t \in new : t.protoNumber # s.protoNumber =>
           \E q \in set : q.protoNumber = t.protoNumber
    BY <1>2, <2>1
  <2> QED  BY <2>2, <2>3, <2>4, Zenon
<1>5. CASE \E r \in set : new = set \ {r}
  BY <1>1, <1>5
<1>6. CASE \E s \in ReservedShape : new = set \cup {s}
  <2>1. PICK s \in ReservedShape : new = set \cup {s}
    BY <1>6
  <2>2. s.protoNumber \in Int
    BY DEF ReservedShape
  <2> QED  BY <2>1, <2>2
<1>7. CASE kind = "renumber"
  <2>1. PICK r \in set, x \in EditNumbers : new = Replaced(set, r, [r EXCEPT !.protoNumber = x])
    BY <1>7 DEF ReservedEdits
  <2> QED  BY <1>1, <1>3, <1>4, <2>1
<1>8. CASE kind = "reidentify"
  <2> DEFINE Identified(r, i) == [r EXCEPT !.stableID = i]
             Named(r, i) == [r EXCEPT !.name = i]
             Reasoned(r) == [r EXCEPT !.reason = "because"]
  <2>1. ReservedEdits(kind, set) =
           {Replaced(set, r, Identified(r, i)) : r \in set, i \in PropertyNames}
           \cup {Replaced(set, r, Named(r, i)) : r \in set, i \in PropertyNames \cup {0}}
           \cup {Replaced(set, r, Reasoned(r)) : r \in set}
    BY <1>8 DEF ReservedEdits
  <2>2. \A r \in set :
           /\ \A i \in PropertyNames : Identified(r, i) \in ReservedShape
           /\ \A i \in PropertyNames \cup {0} : Named(r, i) \in ReservedShape
           /\ Reasoned(r) \in ReservedShape
    BY <1>3
  <2> HIDE DEF Identified, Named, Reasoned
  <2>3. \E r \in set, s \in ReservedShape : new = Replaced(set, r, s)
    BY <2>1, <2>2
  <2> QED  BY <1>4, <2>3
<1>9. CASE kind = "drop"
  BY <1>5, <1>9 DEF ReservedEdits
<1>10. CASE kind = "add"
  <2>1. PICK n \in PropertyNames, x \in EditNumbers :
           new = set \cup {[name |-> n, stableID |-> n, protoNumber |-> x, reason |-> Removed]}
    BY <1>10 DEF ReservedEdits
  <2>2. [name |-> n, stableID |-> n, protoNumber |-> x, reason |-> Removed] \in ReservedShape
    BY <1>1 DEF ReservedShape
  <2> QED  BY <1>6, <2>1, <2>2
<1>11. CASE kind \notin {"renumber", "reidentify", "drop", "add"}
  <2>1. ReservedEdits(kind, set) = {}
    BY <1>11 DEF ReservedEdits
  <2> QED  BY <2>1
<1> QED  BY <1>7, <1>8, <1>9, <1>10, <1>11

\* An edit of an event's entry leaves an entry and takes at most one number
\* out of its history; numbers of properties change only where properties were
\* edited.
LEMMA EventEditFacts ==
    ASSUME NEW kind, NEW e, EntryShaped(e), NEW new \in EventEdits(kind, e)
    PROVE  /\ EntryShaped(new)
           /\ \E gone : History(e) \subseteq History(new) \cup {gone}
           /\ \/ new.properties = e.properties
              \/ /\ new.reserved = e.reserved
                 /\ new.properties \in FieldEdits(kind, e.properties, PropertyNames)
<1>1. /\ e = [envelope |-> e.envelope, properties |-> e.properties,
              reserved |-> e.reserved, inOrder |-> e.inOrder]
      /\ FieldsShaped(e.envelope, DOMAIN EnvelopeNumbers \cup {"unknown"})
      /\ FieldsShaped(e.properties, PropertyNames)
      /\ e.reserved \subseteq ReservedShape
      /\ e.inOrder \in BOOLEAN
      /\ Bounded(History(e))
  BY DEF EntryShaped
<1>2. ASSUME NEW x \in Int, History(new) \subseteq History(e) \cup {x}, History(e) \subseteq Int
      PROVE  Bounded(History(new))
  <2>1. PICK b \in Nat : \A y \in History(e) : y <= b
    BY <1>1 DEF Bounded
  <2>2. CASE x <= b
    BY <1>2, <2>1, <2>2 DEF Bounded
  <2>3. CASE x > b
    <3>1. x \in Nat /\ \A y \in History(new) : y <= x
      BY <1>2, <2>1, <2>3
    <3> QED  BY <3>1 DEF Bounded
  <2> QED  BY <2>2, <2>3
<1>3. History(e) \subseteq Int
  <2>1. NumbersOf(e.properties) \subseteq Int
    BY <1>1 DEF FieldsShaped, NumbersOf
  <2>2. ReservedNumbers(e) \subseteq Int
    BY <1>1 DEF ReservedNumbers, ReservedShape
  <2> QED  BY <2>1, <2>2 DEF History
<1>4. CASE \E p \in FieldEdits(kind, e.properties, PropertyNames) :
              new = [e EXCEPT !.properties = p]
  <2>1. PICK p \in FieldEdits(kind, e.properties, PropertyNames) :
           new = [e EXCEPT !.properties = p]
    BY <1>4
  <2>2. new = [envelope |-> e.envelope, properties |-> p,
               reserved |-> e.reserved, inOrder |-> e.inOrder]
    BY <1>1, <2>1
  <2>3. /\ FieldsShaped(p, PropertyNames)
        /\ \E gone : NumbersOf(e.properties) \subseteq NumbersOf(p) \cup {gone}
        /\ \E x \in Int : NumbersOf(p) \subseteq NumbersOf(e.properties) \cup {x}
    BY <1>1, FieldEditFacts
  <2>4. ReservedNumbers(new) = ReservedNumbers(e) /\ new.properties = p
    BY <2>2 DEF ReservedNumbers
  <2>5. \E gone : History(e) \subseteq History(new) \cup {gone}
    BY <2>3, <2>4 DEF History
  <2>6. \E x \in Int : History(new) \subseteq History(e) \cup {x}
    BY <2>3, <2>4 DEF History
  <2>7. Bounded(History(new))
    BY <1>2, <1>3, <2>6
  <2>8. EntryShaped(new)
    BY <1>1, <2>2, <2>3, <2>7 DEF EntryShaped
  <2> QED  BY <2>1, <2>2, <2>5, <2>8
<1>5. CASE \E v \in FieldEdits(kind, e.envelope, DOMAIN EnvelopeNumbers \cup {"unknown"}) :
              new = [e EXCEPT !.envelope = v]
  <2>1. PICK v \in FieldEdits(kind, e.envelope, DOMAIN EnvelopeNumbers \cup {"unknown"}) :
           new = [e EXCEPT !.envelope = v]
    BY <1>5
  <2>2. new = [envelope |-> v, properties |-> e.properties,
               reserved |-> e.reserved, inOrder |-> e.inOrder]
    BY <1>1, <2>1
  <2>3. FieldsShaped(v, DOMAIN EnvelopeNumbers \cup {"unknown"})
    BY <1>1, FieldEditFacts
  <2>4. History(new) = History(e)
    BY <2>2 DEF History, ReservedNumbers
  <2> QED  BY <1>1, <2>2, <2>3, <2>4 DEF EntryShaped
<1>6. CASE \E r \in ReservedEdits(kind, e.reserved) : new = [e EXCEPT !.reserved = r]
  <2>1. PICK r \in ReservedEdits(kind, e.reserved) : new = [e EXCEPT !.reserved = r]
    BY <1>6
  <2>2. new = [envelope |-> e.envelope, properties |-> e.properties,
               reserved |-> r, inOrder |-> e.inOrder]
    BY <1>1, <2>1
  <2>3. /\ r \subseteq ReservedShape
        /\ \E gone : \A s \in e.reserved : s.protoNumber # gone =>
              \E t \in r : t.protoNumber = s.protoNumber
        /\ \E x \in Int : \A t \in r : t.protoNumber # x =>
              \E s \in e.reserved : s.protoNumber = t.protoNumber
    BY <1>1, ReservedEditFacts
  <2>4. \E gone : ReservedNumbers(e) \subseteq ReservedNumbers(new) \cup {gone}
    <3>1. PICK gone : \A s \in e.reserved : s.protoNumber # gone =>
                         \E t \in r : t.protoNumber = s.protoNumber
      BY <2>3
    <3>2. new.reserved = r
      BY <2>2
    <3>3. ReservedNumbers(e) \subseteq ReservedNumbers(new) \cup {gone}
      BY <3>1, <3>2 DEF ReservedNumbers
    <3> QED  BY <3>3
  <2>5. \E x \in Int : ReservedNumbers(new) \subseteq ReservedNumbers(e) \cup {x}
    BY <2>2, <2>3 DEF ReservedNumbers
  <2>6. new.properties = e.properties
    BY <2>2
  <2>7. /\ \E gone : History(e) \subseteq History(new) \cup {gone}
        /\ \E x \in Int : History(new) \subseteq History(e) \cup {x}
    BY <2>4, <2>5, <2>6 DEF History
  <2>8. Bounded(History(new))
    BY <1>2, <1>3, <2>7
  <2> QED  BY <1>1, <2>2, <2>3, <2>6, <2>7, <2>8 DEF EntryShaped
<1>7. CASE new = [e EXCEPT !.inOrder = FALSE]
  <2>1. new = [envelope |-> e.envelope, properties |-> e.properties,
               reserved |-> e.reserved, inOrder |-> FALSE]
    BY <1>1, <1>7
  <2>2. History(new) = History(e)
    BY <2>1 DEF History, ReservedNumbers
  <2> QED  BY <1>1, <2>1, <2>2 DEF EntryShaped
<1> QED  BY <1>4, <1>5, <1>6, <1>7 DEF EventEdits

\* What one edit of a lock can be.
LEMMA LockEditKinds ==
    ASSUME NEW kind, NEW lock, NEW new \in LockEdits(kind, lock)
    PROVE  \/ \E c \in FieldEdits(kind, lock.context, ContextNames) :
                 new = WithContext(lock, c)
           \/ \E k \in DOMAIN lock.events : \E e \in EventEdits(kind, lock.events[k]) :
                 new = WithEntry(lock, k, e)
           \/ new = WithVersion(lock, 2)
           \/ new = lock
BY DEF LockEdits

\* The same, event by event: an edited lock is in the decoder's shape, has the
\* events it had, and no event lost more than one number.
LEMMA LockEditFacts ==
    ASSUME NEW kind, NEW lock, LockShaped(lock), NEW new \in LockEdits(kind, lock)
    PROVE  /\ LockShaped(new)
           /\ \/ new.context = lock.context
              \/ new.context \in FieldEdits(kind, lock.context, ContextNames)
           /\ DOMAIN new.events = DOMAIN lock.events
           /\ \A k \in DOMAIN lock.events :
                 /\ \E gone : History(lock.events[k])
                                 \subseteq History(new.events[k]) \cup {gone}
                 /\ \/ new.events[k].properties = lock.events[k].properties
                    \/ /\ new.events[k].reserved = lock.events[k].reserved
                       /\ new.events[k].properties
                             \in FieldEdits(kind, lock.events[k].properties, PropertyNames)
<1>1. /\ lock = [version |-> lock.version, context |-> lock.context, events |-> lock.events]
      /\ FieldsShaped(lock.context, ContextNames)
      /\ Bounded(NumbersOf(lock.context))
      /\ lock.events = [k \in DOMAIN lock.events |-> lock.events[k]]
      /\ \A k \in DOMAIN lock.events : EntryShaped(lock.events[k])
  BY DEF LockShaped
<1>2. \A k \in DOMAIN lock.events :
         \E gone : History(lock.events[k]) \subseteq History(lock.events[k]) \cup {gone}
  OBVIOUS
<1>3. CASE \E c \in FieldEdits(kind, lock.context, ContextNames) :
              new = WithContext(lock, c)
  <2>1. PICK c \in FieldEdits(kind, lock.context, ContextNames) :
           new = WithContext(lock, c)
    BY <1>3
  <2>2. new = [version |-> lock.version, context |-> c, events |-> lock.events]
    BY <1>1, <2>1 DEF WithContext
  <2>3. /\ FieldsShaped(c, ContextNames)
        /\ \E x \in Int : NumbersOf(c) \subseteq NumbersOf(lock.context) \cup {x}
    BY <1>1, FieldEditFacts
  <2>4. Bounded(NumbersOf(c))
    <3>1. PICK b \in Nat : \A y \in NumbersOf(lock.context) : y <= b
      BY <1>1 DEF Bounded
    <3>2. PICK x \in Int : NumbersOf(c) \subseteq NumbersOf(lock.context) \cup {x}
      BY <2>3
    <3>3. NumbersOf(lock.context) \subseteq Int
      BY <1>1 DEF FieldsShaped, NumbersOf
    <3>4. CASE x <= b
      BY <3>1, <3>2, <3>4 DEF Bounded
    <3>5. CASE x > b
      <4>1. x \in Nat /\ \A y \in NumbersOf(c) : y <= x
        BY <3>1, <3>2, <3>3, <3>5
      <4> QED  BY <4>1 DEF Bounded
    <3> QED  BY <3>4, <3>5
  <2>5. LockShaped(new)
    BY <1>1, <2>2, <2>3, <2>4 DEF LockShaped
  <2> QED  BY <1>2, <2>2, <2>5
<1>4. CASE \E k \in DOMAIN lock.events : \E e \in EventEdits(kind, lock.events[k]) :
              new = WithEntry(lock, k, e)
  <2>0. PICK k \in DOMAIN lock.events : \E e \in EventEdits(kind, lock.events[k]) :
           new = WithEntry(lock, k, e)
    BY <1>4
  <2>1. PICK e \in EventEdits(kind, lock.events[k]) : new = WithEntry(lock, k, e)
    BY <2>0
  <2>2. /\ new = [version |-> lock.version, context |-> lock.context, events |-> new.events]
        /\ DOMAIN new.events = DOMAIN lock.events
        /\ new.events = [j \in DOMAIN new.events |-> new.events[j]]
        /\ new.events[k] = e
        /\ \A j \in DOMAIN lock.events \ {k} : new.events[j] = lock.events[j]
    BY <1>1, <2>1 DEF WithEntry
  <2>3. /\ EntryShaped(e)
        /\ \E gone : History(lock.events[k]) \subseteq History(e) \cup {gone}
        /\ \/ e.properties = lock.events[k].properties
           \/ /\ e.reserved = lock.events[k].reserved
              /\ e.properties \in FieldEdits(kind, lock.events[k].properties, PropertyNames)
    <3>1. EntryShaped(lock.events[k])
      BY <1>1
    <3> QED  BY <3>1, EventEditFacts
  <2>4. new.context = lock.context
    BY <2>2
  <2>5. \A j \in DOMAIN new.events : EntryShaped(new.events[j])
    BY <1>1, <2>2, <2>3
  <2>6. LockShaped(new)
    BY <1>1, <2>2, <2>4, <2>5 DEF LockShaped
  <2> QED  BY <1>2, <2>2, <2>3, <2>4, <2>6
<1>5. CASE new = WithVersion(lock, 2)
  <2>1. new = [version |-> 2, context |-> lock.context, events |-> lock.events]
    BY <1>1, <1>5 DEF WithVersion
  <2> QED  BY <1>1, <1>2, <2>1 DEF LockShaped
<1>6. CASE new = lock
  BY <1>2, <1>6
<1> QED  BY <1>3, <1>4, <1>5, <1>6, LockEditKinds

-----------------------------------------------------------------------------
(* The invariant holds *)

\* Nobody has edited the file of an empty directory.
LEMMA TamperInitEstablishes == TamperInit => TInv
<1> SUFFICES ASSUME TamperInit PROVE TInv
  OBVIOUS
<1>1. ~Edited /\ lockFile.lock = EmptyLock
  BY DEF TamperInit, Init, Edited, NoEdit
<1>2. registry \in Registries /\ LockSound(lockFile.lock)
  BY InitEstablishes DEF TamperInit, IInv
<1>3. lockFile = [present |-> FALSE, lock |-> EmptyLock, canonical |-> FALSE]
  BY DEF TamperInit, Init
<1>4. lockFile = [present |-> lockFile.present, lock |-> lockFile.lock,
                  canonical |-> lockFile.canonical]
  BY <1>3
<1> QED  BY <1>1, <1>2, <1>4, EmptyIsShaped DEF TInv, EditInv

\* The program keeps the lock sound; an edit starts from a current lock, and a
\* revert brings that lock back.
LEMMA TamperNextPreserves == TInv /\ [TamperNext]_tamperVars => TInv'
<1> SUFFICES ASSUME TInv, [TamperNext]_tamperVars PROVE TInv'
  OBVIOUS
<1> USE DEF TInv, EditInv, Edited
<1> DEFINE IsFile(f) == f = [present |-> f.present, lock |-> f.lock, canonical |-> f.canonical]
<1>0. ASSUME NEW l, NEW c, lockFile' = [lockFile EXCEPT !.lock = l, !.canonical = c]
      PROVE  /\ lockFile'.lock = l /\ IsFile(lockFile')
             /\ lockFile'.present = lockFile.present /\ lockFile'.canonical = c
  <2>1. lockFile' = [present |-> lockFile.present, lock |-> l, canonical |-> c]
    BY <1>0
  <2> QED  BY <2>1
<1>1. CASE edit.kind = "none" /\ EditRegistry /\ UNCHANGED edit
  BY <1>1 DEF EditRegistry
<1>2. CASE edit.kind = "none" /\ LockUpdate /\ UNCHANGED edit
  <2>1. /\ lockFile'.lock = UpdateLock(lockFile.lock, registry)
        /\ registry' = registry
        /\ IsFile(lockFile')
    BY <1>2 DEF LockUpdate
  <2>2. LockSound(lockFile.lock) /\ registry \in Registries
    BY <1>2
  <2>3. LockSound(lockFile'.lock) /\ LockShaped(lockFile'.lock)
    BY <2>1, <2>2, RegistryShape, UpdateLockIsSound, UpdatedIsShaped
  <2> QED  BY <1>2, <2>1, <2>2, <2>3
<1>3. CASE HandEdit
  <2>1. PICK kind \in Kinds : \E new \in LockEdits(kind, lockFile.lock) :
           /\ lockFile' = [lockFile EXCEPT !.lock = new,
                                           !.canonical = kind \notin {"reorder", "reformat"}]
           /\ edit' = [kind |-> kind, before |-> lockFile.lock]
    BY <1>3 DEF HandEdit
  <2>2. PICK new \in LockEdits(kind, lockFile.lock) :
           /\ lockFile' = [lockFile EXCEPT !.lock = new,
                                           !.canonical = kind \notin {"reorder", "reformat"}]
           /\ edit' = [kind |-> kind, before |-> lockFile.lock]
    BY <2>1
  <2>3. /\ ~Edited /\ registry' = registry /\ lockFile.present
        /\ UpdateLock(lockFile.lock, registry) = lockFile.lock
    BY <1>3 DEF HandEdit, LockCheckPasses
  <2>4. /\ lockFile'.lock = new /\ IsFile(lockFile')
        /\ lockFile'.present = lockFile.present
        /\ kind = "swap" => lockFile'.canonical = TRUE
    BY <1>0, <2>2
  <2>5. LockShaped(new)
    BY LockEditFacts
  <2>6. kind # "none" /\ edit'.kind = kind /\ edit'.before = lockFile.lock
    BY <2>2 DEF Kinds
  <2> QED  BY <2>3, <2>4, <2>5, <2>6
<1>4. CASE Revert
  <2>1. /\ edit' = NoEdit /\ registry' = registry
        /\ lockFile'.lock = edit.before /\ IsFile(lockFile')
        /\ Edited
    BY <1>0, <1>4 DEF Revert
  <2> QED  BY <2>1 DEF NoEdit
<1>5. CASE UNCHANGED tamperVars
  BY <1>5 DEF tamperVars, vars
<1> QED  BY <1>1, <1>2, <1>3, <1>4, <1>5 DEF TamperNext

\* In every life of the file, edited or not.
LEMMA TInvHolds == TamperSpec => []TInv
BY TamperInitEstablishes, TamperNextPreserves, PTL DEF TamperSpec

\* CheckLock accepts exactly the locks that lock update accepts and leaves as
\* they are, for every edit of every lock the program wrote.
THEOREM CheckFindsEveryEdit == TamperSpec => []CheckIsFixpoint
<1>1. TInv => CheckIsFixpoint
  BY CheckedIsSettled, SettledIsChecked DEF TInv, CheckIsFixpoint, CheckLock
<1> QED  BY <1>1, TInvHolds, PTL

\* Whatever lock update accepts it also repairs: the lock it writes passes
\* CheckLock, and another update leaves it alone.
THEOREM UpdateRepairs == TamperSpec => []RepairSettles
<1>1. TInv => RepairSettles
  <2> DEFINE lock  == lockFile.lock
             inner == Repaired(lock, registry)
             new   == UpdateLock(lock, registry)
  <2>1. SUFFICES ASSUME TInv, UpdateAccepts(lock, registry)
                 PROVE  CheckLock(new, registry) /\ UpdateLock(new, registry) = new
    BY DEF RepairSettles, UpdateSettles
  <2>2. RegistryShaped(registry) /\ LockShaped(lock)
    BY <2>1, RegistryShape DEF TInv
  <2>3. LockSound(inner) /\ UpdateLock(inner, registry) = new
    BY <2>1, <2>2, RepairedFacts
  <2> HIDE DEF inner, new
  <2>4. LockSound(new) /\ UpdateLock(new, registry) = new
    BY <2>2, <2>3, UpdateLockIsSound, LockSettles
  <2> QED  BY <2>2, <2>4, SettledPassesCheck
<1> QED  BY <1>1, TInvHolds, PTL

\* The two gates agree on edited locks too: what passes lock check and has no
\* left-over context field passes the validation FromRegistry repeats.
THEOREM EditedGatesAgree == TamperSpec => []GatesAgree
<1>1. TInv => GatesAgree
  <2> DEFINE lock == lockFile.lock
  <2>1. SUFFICES ASSUME TInv, LockCheckPasses,
                        DOMAIN lock.context \subseteq DOMAIN registry.context
                 PROVE  ValidateLockForLowering(registry, lock)
    BY DEF GatesAgree
  <2>2. /\ registry \in Registries /\ LockShaped(lock)
        /\ UpdateAccepts(lock, registry) /\ UpdateLock(lock, registry) = lock
        /\ lock.version = LockVersion
    BY <2>1 DEF TInv, LockCheckPasses, CheckLock
  <2> HIDE DEF lock
  <2> QED  BY <2>1, <2>2, RegistryShape, AcceptedSettledIsSound, SoundGatesAgree
<1> QED  BY <1>1, TInvHolds, PTL

-----------------------------------------------------------------------------
(* What an edit can get past lock check *)

\* The history of a sound entry: allowed numbers, without a hole, bounded.
LEMMA HistoryFacts ==
    ASSUME NEW e, EntrySound(e)
    PROVE  /\ \A x \in History(e) : x \in Nat /\ ValidProtoNumber(x)
           /\ CheckDenseNumberHistory(History(e))
           /\ Bounded(History(e))
BY DEF EntrySound, Sound, History, Bounded

\* A number that left a history without leaving a hole was its highest.
LEMMA OnlyTheHighestLeaves ==
    ASSUME NEW old, NEW new, NEW gone, old \subseteq new \cup {gone},
           \A x \in old : x \in Nat /\ ValidProtoNumber(x),
           Bounded(old), CheckDenseNumberHistory(new)
    PROVE  old \ new \subseteq {MaxUsed(old)}
<1> SUFFICES ASSUME NEW o \in old \ new PROVE o = MaxUsed(old)
  OBVIOUS
<1>1. old \in SUBSET Nat /\ o \in Nat /\ ValidProtoNumber(o) /\ o = gone
  OBVIOUS
<1>2. MaxUsed(old) \in old \cup {0} /\ \A x \in old : x <= MaxUsed(old)
  <2>1. PICK b \in Nat : \A x \in old : x <= b
    BY DEF Bounded
  <2> QED  BY <1>1, <2>1, MaxUsedFacts
<1> DEFINE m == MaxUsed(old)
<1>3. o >= 1 /\ o <= m /\ m \in old
  <2>1. o >= 1
    BY <1>1 DEF ValidProtoNumber
  <2>2. o <= m
    BY <1>2
  <2> QED  BY <1>1, <1>2, <2>1, <2>2
<1>4. SUFFICES ASSUME m # o PROVE FALSE
  OBVIOUS
<1>5. m \in new /\ m \in Nat
  BY <1>1, <1>3, <1>4
<1>6. o \in 1..m
  <2> HIDE DEF m
  <2> QED  BY <1>1, <1>3, <1>5
<1>7. o \in new \/ IsProtobufReservedNumber(o)
  BY <1>5, <1>6 DEF CheckDenseNumberHistory
<1> QED  BY <1>1, <1>7 DEF ValidProtoNumber

\* No other number fits where a field's number was: one above leaves a hole,
\* one below is taken.
LEMMA OnlyItsNumberFits ==
    ASSUME NEW fields, NEW others, NEW names, Sound(fields, others, names),
           NEW n \in DOMAIN fields, NEW x \in Int, NEW new,
           new = [fields EXCEPT ![n].protoNumber = x], Sound(new, others, names)
    PROVE  x = fields[n].protoNumber
<1> DEFINE o    == fields[n].protoNumber
           used == NumbersOf(fields) \cup others
           now  == NumbersOf(new) \cup others
<1>1. /\ DOMAIN new = DOMAIN fields
      /\ \A m \in DOMAIN fields \ {n} : new[m] = fields[m]
      /\ new[n] = [fields[n] EXCEPT !.protoNumber = x]
  OBVIOUS
<1>2. new[n].protoNumber = x
  <2>1. fields[n] = [stableID |-> n, protoNumber |-> fields[n].protoNumber]
    BY DEF Sound, LockedField
  <2>2. new[n] = [stableID |-> n, protoNumber |-> x]
    BY <1>1, <2>1
  <2> QED  BY <2>2
<1>3. o \in used /\ x \in now
  BY <1>1, <1>2 DEF NumbersOf
<1>4. /\ o \in Nat /\ ValidProtoNumber(o)
      /\ x \in Nat /\ ValidProtoNumber(x)
  BY <1>3 DEF Sound
<1>5. o # x => o \notin now
  <2>1. SUFFICES ASSUME o \in now, o # x PROVE FALSE
    OBVIOUS
  <2>2. CASE o \in others
    BY <2>2 DEF Sound, NumbersOf
  <2>3. CASE \E m \in DOMAIN fields : o = new[m].protoNumber
    <3>1. PICK m \in DOMAIN fields : o = new[m].protoNumber
      BY <2>3
    <3>2. m # n
      BY <1>2, <2>1, <3>1
    <3>3. fields[m].protoNumber = fields[n].protoNumber
      BY <1>1, <3>1, <3>2
    <3> QED  BY <3>2, <3>3 DEF Sound, NoSharedNumber
  <2> QED  BY <1>1, <2>1, <2>2, <2>3 DEF NumbersOf
<1>6. o # x => x \notin used
  <2>1. SUFFICES ASSUME x \in used, o # x PROVE FALSE
    OBVIOUS
  <2>2. CASE x \in others
    BY <1>1, <1>2, <2>2 DEF Sound, NumbersOf
  <2>3. CASE \E m \in DOMAIN fields : x = fields[m].protoNumber
    <3>1. PICK m \in DOMAIN fields : x = fields[m].protoNumber
      BY <2>3
    <3>2. m # n
      BY <2>1, <3>1
    <3>3. new[m].protoNumber = new[n].protoNumber
      BY <1>1, <1>2, <3>1, <3>2
    <3> QED  BY <1>1, <3>2, <3>3 DEF Sound, NoSharedNumber
  <2> QED  BY <2>1, <2>2, <2>3 DEF NumbersOf
<1>7. CheckDenseNumberHistory(used) /\ CheckDenseNumberHistory(now)
  BY DEF Sound
<1> HIDE DEF o, used, now
<1>8. CASE o < x
  <2>1. o \in 1..x
    BY <1>4, <1>8 DEF ValidProtoNumber
  <2>2. o \in now
    BY <1>3, <1>4, <1>7, <2>1 DEF CheckDenseNumberHistory, ValidProtoNumber
  <2> QED  BY <1>4, <1>5, <1>8, <2>2
<1>9. CASE x < o
  <2>1. x \in 1..o
    BY <1>4, <1>9 DEF ValidProtoNumber
  <2>2. x \in used
    BY <1>3, <1>4, <1>7, <2>1 DEF CheckDenseNumberHistory, ValidProtoNumber
  <2> QED  BY <1>4, <1>6, <1>9, <2>2
<1> QED  BY <1>4, <1>8, <1>9 DEF o

\* One edit of one message, both the message before and after it sound: the
\* fields that stay have their numbers.
LEMMA NumbersStay ==
    ASSUME NEW kind, kind # "swap", NEW names, NEW fields, NEW others,
           Sound(fields, others, names), NEW new \in FieldEdits(kind, fields, names),
           Sound(new, others, names)
    PROVE  \A n \in DOMAIN new \cap DOMAIN fields :
              new[n].protoNumber = fields[n].protoNumber
<1>1. CASE kind = "renumber"
  <2>1. PICK n \in DOMAIN fields, x \in EditNumbers : new = [fields EXCEPT ![n].protoNumber = x]
    BY <1>1, FieldEditKinds
  <2>2. x = fields[n].protoNumber
    BY <2>1, EditNumbersAssumption, OnlyItsNumberFits
  <2>3. fields[n] = [stableID |-> n, protoNumber |-> fields[n].protoNumber]
    BY DEF Sound, LockedField
  <2>4. [fields[n] EXCEPT !.protoNumber = x] = fields[n]
    BY <2>2, <2>3
  <2>5. \A m \in DOMAIN fields : new[m] = fields[m]
    BY <2>1, <2>4
  <2> QED  BY <2>5
<1>2. CASE kind # "renumber"
  <2>1. FieldsShaped(fields, names) /\ kind \notin {"renumber", "swap"}
    BY <1>2, SoundIsShaped
  <2> QED  BY <2>1, FieldEditFacts
<1> QED  BY <1>1, <1>2

\* What the registry holds, a lock that is current for it holds.
LEMMA SettledDomains ==
    ASSUME NEW lock, NEW reg, UpdateLock(lock, reg) = lock
    PROVE  /\ DOMAIN reg.context \subseteq DOMAIN lock.context
           /\ DOMAIN lock.events = DOMAIN reg.events
           /\ \A k \in DOMAIN reg.events :
                 DOMAIN lock.events[k].properties = DOMAIN reg.events[k]
<1>1. /\ DOMAIN reg.context \subseteq DOMAIN UpdateLock(lock, reg).context
      /\ DOMAIN UpdateLock(lock, reg).events = DOMAIN reg.events
      /\ \A k \in DOMAIN reg.events :
            DOMAIN UpdateLock(lock, reg).events[k].properties = DOMAIN reg.events[k]
  BY DEF UpdateLock, UpdatedEvent, Extend
<1> QED  BY <1>1

\* What lock check's verdict says of an edited lock.
LEMMA PassedEdit ==
    ASSUME TInv, Edited, LockCheckPasses
    PROVE  /\ registry \in Registries
           /\ LockSound(edit.before) /\ LockShaped(edit.before)
           /\ UpdateLock(edit.before, registry) = edit.before
           /\ LockSound(lockFile.lock) /\ LockShaped(lockFile.lock)
           /\ UpdateLock(lockFile.lock, registry) = lockFile.lock
           /\ lockFile.lock \in LockEdits(edit.kind, edit.before)
BY RegistryShape, AcceptedSettledIsSound DEF TInv, EditInv, LockCheckPasses

\* An edit that lock check lets pass changed the number of no field in the
\* registry, unless two fields traded numbers.
THEOREM RenumberingIsNoticed == TamperSpec => []NoSilentRenumber
<1> DEFINE lock   == lockFile.lock
           before == edit.before
<1>1. TInv => NoSilentRenumber
  <2>1. SUFFICES ASSUME TInv, Edited, LockCheckPasses, edit.kind # "swap"
                 PROVE  /\ ActiveContext(lock) = ActiveContext(before)
                        /\ \A k \in DOMAIN registry.events :
                              ActiveProperties(lock, k) = ActiveProperties(before, k)
    BY DEF NoSilentRenumber
  <2>2. /\ registry \in Registries
        /\ LockSound(before) /\ LockShaped(before)
        /\ UpdateLock(before, registry) = before
        /\ LockSound(lock) /\ LockShaped(lock)
        /\ UpdateLock(lock, registry) = lock
        /\ lock \in LockEdits(edit.kind, before)
    BY <2>1, PassedEdit
  <2> HIDE DEF lock, before
  <2>3. ActiveContext(lock) = ActiveContext(before)
    <3>1. Sound(lock.context, {}, ContextNames) /\ Sound(before.context, {}, ContextNames)
      BY <2>2 DEF LockSound
    <3>2. DOMAIN registry.context \subseteq DOMAIN lock.context \cap DOMAIN before.context
      BY <2>2, SettledDomains
    <3>3. \/ lock.context = before.context
          \/ lock.context \in FieldEdits(edit.kind, before.context, ContextNames)
      BY <2>2, LockEditFacts
    <3>4. \A n \in DOMAIN lock.context \cap DOMAIN before.context :
             lock.context[n].protoNumber = before.context[n].protoNumber
      BY <2>1, <3>1, <3>3, NumbersStay
    <3> QED  BY <3>2, <3>4 DEF ActiveContext
  <2>4. ASSUME NEW k \in DOMAIN registry.events
        PROVE  ActiveProperties(lock, k) = ActiveProperties(before, k)
    <3> DEFINE e == lock.events[k]
               b == before.events[k]
    <3>1. /\ k \in DOMAIN lock.events /\ k \in DOMAIN before.events
          /\ DOMAIN e.properties = DOMAIN registry.events[k]
          /\ DOMAIN b.properties = DOMAIN registry.events[k]
      BY <2>2, SettledDomains
    <3>2. /\ Sound(e.properties, ReservedNumbers(e), PropertyNames)
          /\ Sound(b.properties, ReservedNumbers(b), PropertyNames)
      BY <2>2, <3>1 DEF LockSound, EntrySound
    <3>3. \/ e.properties = b.properties
          \/ /\ e.reserved = b.reserved
             /\ e.properties \in FieldEdits(edit.kind, b.properties, PropertyNames)
      BY <2>2, <3>1, LockEditFacts
    <3> HIDE DEF e, b
    <3>4. e.reserved = b.reserved => ReservedNumbers(e) = ReservedNumbers(b)
      BY DEF ReservedNumbers
    <3>5. \A n \in DOMAIN e.properties \cap DOMAIN b.properties :
             e.properties[n].protoNumber = b.properties[n].protoNumber
      BY <2>1, <3>2, <3>3, <3>4, NumbersStay
    <3> QED  BY <3>1, <3>5 DEF ActiveProperties, e, b
  <2> QED  BY <2>3, <2>4
<1> QED  BY <1>1, TInvHolds, PTL

\* Two fields of one message that trade their numbers leave it sound.
LEMMA TradeIsSound ==
    ASSUME NEW names, NEW fields, NEW others, Sound(fields, others, names),
           NEW new \in FieldEdits("swap", fields, names)
    PROVE  Sound(new, others, names) /\ DOMAIN new = DOMAIN fields
<1>1. PICK m \in DOMAIN fields, n \in DOMAIN fields : new = Swapped(fields, m, n)
  BY FieldEditKinds
<1> DEFINE number(p) == fields[p].protoNumber
           other(p)  == IF p = n THEN m ELSE IF p = m THEN n ELSE p
<1>2. \A p \in DOMAIN fields : fields[p] = [stableID |-> p, protoNumber |-> number(p)]
  BY DEF Sound, LockedField
<1>3. /\ DOMAIN new = DOMAIN fields
      /\ new = [p \in DOMAIN fields |-> LockedField(p, number(other(p)))]
  <2>1. new = [[fields EXCEPT ![m] = [fields[m] EXCEPT !.protoNumber = number(n)]]
                      EXCEPT ![n] = [[fields EXCEPT ![m] = [fields[m] EXCEPT
                                         !.protoNumber = number(n)]][n]
                                       EXCEPT !.protoNumber = number(m)]]
    BY <1>1 DEF Swapped
  <2>2. ASSUME NEW p \in DOMAIN fields
        PROVE  new[p] = LockedField(p, number(other(p)))
    <3> HIDE DEF number
    <3>1. [fields[m] EXCEPT !.protoNumber = number(n)]
            = [stableID |-> m, protoNumber |-> number(n)]
      BY <1>2
    <3>2. CASE p = n
      BY <1>2, <2>1, <3>1, <3>2 DEF LockedField
    <3>3. CASE p = m /\ p # n
      BY <2>1, <3>1, <3>3 DEF LockedField
    <3>4. CASE p # m /\ p # n
      BY <1>2, <2>1, <3>4 DEF LockedField
    <3> QED  BY <3>2, <3>3, <3>4
  <2>3. DOMAIN new = DOMAIN fields /\ new = [p \in DOMAIN fields |-> new[p]]
    BY <2>1
  <2> HIDE DEF number, other
  <2> QED  BY <2>2, <2>3
<1>4. \A p \in DOMAIN fields : /\ other(p) \in DOMAIN fields
                              /\ other(other(p)) = p
  OBVIOUS
<1>5. \A p \in DOMAIN fields : new[p].protoNumber = number(other(p))
  BY <1>3 DEF LockedField
<1> HIDE DEF other
<1>6. NumbersOf(new) = NumbersOf(fields)
  <2>1. ASSUME NEW p \in DOMAIN fields
        PROVE  /\ new[p].protoNumber \in NumbersOf(fields)
               /\ fields[p].protoNumber \in NumbersOf(new)
    <3>1. fields[p].protoNumber = new[other(p)].protoNumber
      BY <1>4, <1>5
    <3> QED  BY <1>3, <1>4, <1>5, <3>1 DEF NumbersOf
  <2> QED  BY <1>3, <2>1 DEF NumbersOf
<1>7. NoSharedNumber(new)
  <2>1. NoSharedNumber(fields)
    BY DEF Sound
  <2>2. \A p, q \in DOMAIN fields : number(other(p)) = number(other(q)) => p = q
    BY <1>4, <2>1 DEF NoSharedNumber
  <2> QED  BY <1>3, <1>5, <2>2 DEF NoSharedNumber
<1>8. new = [p \in DOMAIN new |-> LockedField(p, new[p].protoNumber)]
  BY <1>3, <1>5
<1> QED  BY <1>3, <1>6, <1>7, <1>8 DEF Sound

\* So it does in a lock, unless the two entries were of an envelope.
LEMMA TradedLockIsSound ==
    ASSUME NEW lock, LockSound(lock), LockShaped(lock),
           NEW new \in LockEdits("swap", lock),
           \A k \in DOMAIN lock.events : new.events[k].envelope = lock.events[k].envelope
    PROVE  /\ LockSound(new) /\ new.version = lock.version
           /\ DOMAIN new.context = DOMAIN lock.context
           /\ DOMAIN new.events = DOMAIN lock.events
           /\ \A k \in DOMAIN lock.events :
                 DOMAIN new.events[k].properties = DOMAIN lock.events[k].properties
<1>1. /\ lock = [version |-> lock.version, context |-> lock.context, events |-> lock.events]
      /\ lock.events = [k \in DOMAIN lock.events |-> lock.events[k]]
      /\ \A k \in DOMAIN lock.events : EntryShaped(lock.events[k])
  BY DEF LockShaped
<1>2. CASE \E c \in FieldEdits("swap", lock.context, ContextNames) :
              new = WithContext(lock, c)
  <2>1. PICK c \in FieldEdits("swap", lock.context, ContextNames) :
           new = WithContext(lock, c)
    BY <1>2
  <2>2. new.version = lock.version /\ new.context = c /\ new.events = lock.events
    BY <1>1, <2>1 DEF WithContext
  <2>3. Sound(c, {}, ContextNames) /\ DOMAIN c = DOMAIN lock.context
    BY TradeIsSound DEF LockSound
  <2> QED  BY <2>2, <2>3 DEF LockSound
<1>3. CASE \E k \in DOMAIN lock.events : \E e \in EventEdits("swap", lock.events[k]) :
              new = WithEntry(lock, k, e)
  <2>1. PICK k \in DOMAIN lock.events : \E e \in EventEdits("swap", lock.events[k]) :
           new = WithEntry(lock, k, e)
    BY <1>3
  <2>2. PICK e \in EventEdits("swap", lock.events[k]) : new = WithEntry(lock, k, e)
    BY <2>1
  <2> DEFINE old == lock.events[k]
  <2>3. /\ new.version = lock.version /\ new.context = lock.context
        /\ DOMAIN new.events = DOMAIN lock.events
        /\ new.events[k] = e
        /\ \A j \in DOMAIN lock.events \ {k} : new.events[j] = lock.events[j]
    BY <1>1, <2>2 DEF WithEntry
  <2>4. EntryShaped(old) /\ EntrySound(old) /\ old.envelope = EnvelopeLock /\ old.inOrder
    BY <1>1 DEF LockSound
  <2>5. e.envelope = old.envelope
    BY <2>3
  <2>6. \/ \E p \in FieldEdits("swap", old.properties, PropertyNames) :
              e = [old EXCEPT !.properties = p]
        \/ \E v : e = [old EXCEPT !.envelope = v]
    BY DEF EventEdits, ReservedEdits
  <2> HIDE DEF old
  <2>7. old = [envelope |-> old.envelope, properties |-> old.properties,
               reserved |-> old.reserved, inOrder |-> old.inOrder]
    BY <2>4 DEF EntryShaped
  <2>8. /\ e.reserved = old.reserved /\ e.inOrder = old.inOrder
        /\ \/ e.properties = old.properties
           \/ e.properties \in FieldEdits("swap", old.properties, PropertyNames)
    BY <2>6, <2>7
  <2>9. /\ Sound(e.properties, ReservedNumbers(e), PropertyNames)
        /\ DOMAIN e.properties = DOMAIN old.properties
    BY <2>4, <2>8, TradeIsSound DEF EntrySound, ReservedNumbers
  <2>10. EntrySound(e) /\ e.envelope = EnvelopeLock /\ e.inOrder
    BY <2>4, <2>5, <2>8, <2>9 DEF EntrySound
  <2>11. ASSUME NEW j \in DOMAIN lock.events
         PROVE  /\ EntrySound(new.events[j])
                /\ new.events[j].envelope = EnvelopeLock /\ new.events[j].inOrder
                /\ DOMAIN new.events[j].properties = DOMAIN lock.events[j].properties
    <3>1. CASE j = k
      BY <2>3, <2>9, <2>10, <3>1 DEF old
    <3>2. CASE j # k
      BY <2>3, <3>2 DEF LockSound
    <3> QED  BY <3>1, <3>2
  <2> QED  BY <2>3, <2>11 DEF LockSound
<1> QED  BY <1>2, <1>3 DEF LockEdits

\* A lock with the fields of the registry and no other property is one that
\* an update leaves alone.
LEMMA NothingToUpdate ==
    ASSUME NEW lock, LockSound(lock), LockShaped(lock), lock.version = LockVersion, NEW reg,
           DOMAIN reg.context \subseteq DOMAIN lock.context,
           DOMAIN lock.events = DOMAIN reg.events,
           \A k \in DOMAIN reg.events : DOMAIN lock.events[k].properties = DOMAIN reg.events[k]
    PROVE  UpdateLock(lock, reg) = lock
<1>1. /\ lock = [version |-> lock.version, context |-> lock.context, events |-> lock.events]
      /\ lock.events = [k \in DOMAIN lock.events |-> lock.events[k]]
      /\ FieldsShaped(lock.context, ContextNames)
      /\ \A k \in DOMAIN lock.events : EntryShaped(lock.events[k])
  BY DEF LockShaped
<1>2. lock.context = [n \in DOMAIN lock.context |-> lock.context[n]]
  BY <1>1 DEF FieldsShaped
<1>3. DOMAIN lock.context \cup DOMAIN reg.context = DOMAIN lock.context
  OBVIOUS
<1>4. Extend(lock.context, DOMAIN lock.context \cup DOMAIN reg.context,
             MaxUsed(NumbersOf(lock.context))) = lock.context
  BY <1>2, <1>3, NothingToExtend
<1>5. ASSUME NEW k \in DOMAIN reg.events
      PROVE  UpdatedEvent(EntryOf(lock, k), DOMAIN reg.events[k]) = lock.events[k]
  <2> DEFINE e == lock.events[k]
  <2>1. EntryOf(lock, k) = e
    BY DEF EntryOf
  <2>2. /\ EntryShaped(e) /\ e.envelope = EnvelopeLock /\ e.inOrder
        /\ DOMAIN e.properties = DOMAIN reg.events[k]
    BY <1>1 DEF LockSound
  <2> HIDE DEF e
  <2>3. /\ e = [envelope |-> e.envelope, properties |-> e.properties,
                reserved |-> e.reserved, inOrder |-> e.inOrder]
        /\ e.inOrder = TRUE
        /\ e.properties = [n \in DOMAIN e.properties |-> e.properties[n]]
    BY <2>2 DEF EntryShaped, FieldsShaped
  <2>4. Extend(e.properties, DOMAIN reg.events[k], MaxUsed(History(e))) = e.properties
    BY <2>2, <2>3, NothingToExtend
  <2>5. Retired(e, DOMAIN reg.events[k]) = {}
    BY <2>2 DEF Retired
  <2> QED  BY <2>1, <2>2, <2>3, <2>4, <2>5 DEF UpdatedEvent, e
<1>6. [k \in DOMAIN reg.events |-> UpdatedEvent(EntryOf(lock, k), DOMAIN reg.events[k])]
        = lock.events
  BY <1>1, <1>5
<1> QED  BY <1>1, <1>4, <1>6 DEF UpdateLock

\* Nothing notices a trade of two numbers, for every lock and registry: lock
\* check passes and lock update leaves the file as it is.
THEOREM TradesArePassed == TamperSpec => []TradesPass
<1> DEFINE lock   == lockFile.lock
           before == edit.before
<1>1. TInv => TradesPass
  <2>1. SUFFICES ASSUME TInv, edit.kind = "swap",
                        \A k \in DOMAIN registry.events :
                           lock.events[k].envelope = before.events[k].envelope
                 PROVE  LockCheckPasses
    BY DEF TradesPass
  <2>2. /\ registry \in Registries
        /\ LockSound(before) /\ LockShaped(before) /\ LockShaped(lock)
        /\ UpdateLock(before, registry) = before
        /\ lock \in LockEdits("swap", before)
        /\ lockFile.present /\ lockFile.canonical
    BY <2>1 DEF TInv, EditInv, Edited
  <2> HIDE DEF lock, before
  <2>3. RegistryShaped(registry)
    BY <2>2, RegistryShape
  <2>4. /\ DOMAIN registry.context \subseteq DOMAIN before.context
        /\ DOMAIN before.events = DOMAIN registry.events
        /\ \A k \in DOMAIN registry.events :
              DOMAIN before.events[k].properties = DOMAIN registry.events[k]
    BY <2>2, SettledDomains
  <2>5. before.version = LockVersion
    <3>1. UpdateLock(before, registry).version = LockVersion
      BY DEF UpdateLock
    <3> QED  BY <2>2, <3>1
  <2>6. /\ LockSound(lock) /\ lock.version = before.version
        /\ DOMAIN lock.context = DOMAIN before.context
        /\ DOMAIN lock.events = DOMAIN before.events
        /\ \A k \in DOMAIN before.events :
              DOMAIN lock.events[k].properties = DOMAIN before.events[k].properties
    BY <2>1, <2>2, <2>4, TradedLockIsSound
  <2>7. UpdateLock(lock, registry) = lock
    BY <2>2, <2>4, <2>5, <2>6, NothingToUpdate
  <2>8. CheckLock(lock, registry)
    BY <2>3, <2>6, <2>7, SettledPassesCheck
  <2> QED  BY <2>2, <2>7, <2>8 DEF LockCheckPasses, CheckLock, lock
<1> QED  BY <1>1, TInvHolds, PTL

\* An edit that lock check lets pass took at most the highest retired number
\* of an event off its history.
THEOREM HolesAreNoticed == TamperSpec => []OnlyTheTailIsForgotten
<1> DEFINE lock   == lockFile.lock
           before == edit.before
<1>1. TInv => OnlyTheTailIsForgotten
  <2>1. SUFFICES ASSUME TInv, Edited, LockCheckPasses, NEW k \in DOMAIN registry.events
                 PROVE  History(before.events[k]) \ History(lock.events[k])
                          \subseteq {MaxUsed(History(before.events[k]))}
    BY DEF OnlyTheTailIsForgotten
  <2>2. /\ LockSound(before) /\ LockShaped(before)
        /\ UpdateLock(before, registry) = before
        /\ LockSound(lock)
        /\ UpdateLock(lock, registry) = lock
        /\ lock \in LockEdits(edit.kind, before)
    BY <2>1, PassedEdit
  <2> HIDE DEF lock, before
  <2>3. k \in DOMAIN lock.events /\ k \in DOMAIN before.events
    BY <2>2, SettledDomains
  <2>4. EntrySound(lock.events[k]) /\ EntrySound(before.events[k])
    BY <2>2, <2>3 DEF LockSound
  <2>5. PICK gone : History(before.events[k]) \subseteq History(lock.events[k]) \cup {gone}
    <3>1. \A j \in DOMAIN before.events :
             \E gone : History(before.events[j]) \subseteq History(lock.events[j]) \cup {gone}
      BY <2>2, LockEditFacts
    <3> QED  BY <2>3, <3>1
  <2>6. /\ \A x \in History(before.events[k]) : x \in Nat /\ ValidProtoNumber(x)
        /\ Bounded(History(before.events[k]))
    BY <2>4, HistoryFacts
  <2>7. CheckDenseNumberHistory(History(lock.events[k]))
    BY <2>4, HistoryFacts
  <2> QED  BY <2>5, <2>6, <2>7, OnlyTheHighestLeaves
<1> QED  BY <1>1, TInvHolds, PTL
=============================================================================
