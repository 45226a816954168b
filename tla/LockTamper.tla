----------------------------- MODULE LockTamper -----------------------------
(***************************************************************************)
(* Hands on the lock file.  openevents.lock.yaml is a text file under      *)
(* version control: people and merges edit it.  After any life of the      *)
(* registry that left the lock current, one edit is made to one entry, and *)
(* the validators of lock_update.go, CheckLock and the canonical-bytes     *)
(* comparison of `lock check` are asked what they make of it.              *)
(*                                                                         *)
(* edit - the kind of edit made ("none" before it) and the lock before it  *)
(***************************************************************************)
EXTENDS LockLifecycle

CONSTANT EditNumbers  \* the numbers an editor may type

\* A proto_number decodes into an int (cli/lock.go:173).
ASSUME EditNumbersAssumption == EditNumbers \subseteq Int

VARIABLE edit
tamperVars == <<vars, edit>>

NoEdit == [kind |-> "none", before |-> EmptyLock]

Without(map, n) == [x \in DOMAIN map \ {n} |-> map[x]]
With(map, n, v) == [x \in DOMAIN map \cup {n} |-> IF x = n THEN v ELSE map[x]]

Swapped(fields, m, n) ==
    [fields EXCEPT ![m].protoNumber = fields[n].protoNumber,
                   ![n].protoNumber = fields[m].protoNumber]

\* One entry of a map of locked fields: given another number or stable ID,
\* taken out, put in, or made to trade numbers with another.
FieldEdits(kind, fields, names) ==
    CASE kind = "renumber" -> {[fields EXCEPT ![n].protoNumber = x] :
                                  n \in DOMAIN fields, x \in EditNumbers}
      [] kind = "reidentify" -> {[fields EXCEPT ![n].stableID = i] :
                                  n \in DOMAIN fields, i \in names}
      [] kind = "drop" -> {Without(fields, n) : n \in DOMAIN fields}
      [] kind = "add"  -> {With(fields, n, LockedField(n, x)) :
                                  n \in names \ DOMAIN fields, x \in EditNumbers}
      [] kind = "swap" -> {Swapped(fields, m, n) : m, n \in DOMAIN fields}
      [] OTHER -> {}

\* One entry of a reserved list; 0 is the empty name.
Replaced(set, old, new) == (set \ {old}) \cup {new}
ReservedEdits(kind, set) ==
    CASE kind = "renumber" -> {Replaced(set, r, [r EXCEPT !.protoNumber = x]) :
                                  r \in set, x \in EditNumbers}
      [] kind = "reidentify" ->
            {Replaced(set, r, [r EXCEPT !.stableID = i]) : r \in set, i \in PropertyNames}
            \cup {Replaced(set, r, [r EXCEPT !.name = i]) : r \in set, i \in PropertyNames \cup {0}}
            \cup {Replaced(set, r, [r EXCEPT !.reason = "because"]) : r \in set}
      [] kind = "drop" -> {set \ {r} : r \in set}
      [] kind = "add"  -> {set \cup {[name |-> n, stableID |-> n, protoNumber |-> x,
                                      reason |-> Removed]} :
                              n \in PropertyNames, x \in EditNumbers}
      [] OTHER -> {}

EventEdits(kind, e) ==
    {[e EXCEPT !.properties = p] : p \in FieldEdits(kind, e.properties, PropertyNames)}
    \cup {[e EXCEPT !.envelope = v] :
             v \in FieldEdits(kind, e.envelope, DOMAIN EnvelopeNumbers \cup {"unknown"})}
    \cup {[e EXCEPT !.reserved = r] : r \in ReservedEdits(kind, e.reserved)}
    \cup {[e EXCEPT !.inOrder = FALSE] : x \in {y \in {kind} : y = "reorder" /\ Cardinality(e.reserved) > 1}}

Kinds == {"renumber", "reidentify", "drop", "add", "swap", "reorder", "reformat", "version"}

WithContext(lock, c) == [lock EXCEPT !.context = c]
WithEntry(lock, k, e) == [lock EXCEPT !.events[k] = e]
WithVersion(lock, v) == [lock EXCEPT !.version = v]

LockEdits(kind, lock) ==
    {WithContext(lock, c) : c \in FieldEdits(kind, lock.context, ContextNames)}
    \cup (UNION {{WithEntry(lock, k, e) : e \in EventEdits(kind, lock.events[k])} :
                    k \in DOMAIN lock.events})
    \cup (IF kind = "version" THEN {WithVersion(lock, 2)} ELSE {})
    \cup (IF kind = "reformat" THEN {lock} ELSE {})

HandEdit ==
    /\ edit.kind = "none"
    /\ LockCheckPasses
    /\ \E kind \in Kinds : \E new \in LockEdits(kind, lockFile.lock) :
          /\ new # lockFile.lock \/ kind = "reformat"
          /\ lockFile' = [lockFile EXCEPT !.lock = new,
                                          !.canonical = kind \notin {"reorder", "reformat"}]
          /\ edit' = [kind |-> kind, before |-> lockFile.lock]
    /\ UNCHANGED <<registry, published>>

\* Version control brings the file back.
Revert ==
    /\ edit.kind # "none"
    /\ lockFile' = [lockFile EXCEPT !.lock = edit.before, !.canonical = TRUE]
    /\ edit' = NoEdit
    /\ UNCHANGED <<registry, published>>

TamperInit == Init /\ edit = NoEdit

TamperNext ==
    \/ edit.kind = "none" /\ EditRegistry /\ UNCHANGED edit
    \/ edit.kind = "none" /\ LockUpdate /\ UNCHANGED edit
    \/ HandEdit
    \/ Revert

TamperSpec == TamperInit /\ [][TamperNext]_tamperVars

-----------------------------------------------------------------------------
(* Properties *)

Edited == edit.kind # "none"

\* The number each field of the registry has in a lock.
ActiveContext(lock) == [n \in DOMAIN registry.context |-> lock.context[n].protoNumber]
ActiveProperties(lock, k) ==
    [n \in DOMAIN registry.events[k] |-> lock.events[k].properties[n].protoNumber]

\* An edit that lock check lets pass changed the number of no field in the
\* registry, unless it made two fields trade numbers (the duplicate, density
\* and staleness checks of lock_update.go:457-569 work together here).  What
\* becomes of a trade, TradesPass says.
NoSilentRenumber ==
    Edited /\ LockCheckPasses /\ edit.kind # "swap" =>
        /\ ActiveContext(lockFile.lock) = ActiveContext(edit.before)
        /\ \A k \in DOMAIN registry.events :
              ActiveProperties(lockFile.lock, k) = ActiveProperties(edit.before, k)

\* The one renumbering nothing notices, though lock update "fails if you try to
\* renumber an existing field" (examples/demo/GUIDE.md:150): when two fields of
\* the context or of an event trade their numbers, lock check passes and lock
\* update accepts the file and leaves it so.  The history of numbers
\* (lock_update.go:483-502) says which were used, not by whom.
TradesPass ==
    /\ edit.kind = "swap"
    /\ \A k \in DOMAIN registry.events :
          lockFile.lock.events[k].envelope = edit.before.events[k].envelope
    => LockCheckPasses

\* An edit that lock check lets pass took at most the highest retired number
\* of an event off its history: any other leaves a hole (lock_update.go:483-502).
OnlyTheTailIsForgotten ==
    Edited /\ LockCheckPasses =>
        \A k \in DOMAIN registry.events :
            LET old == History(edit.before.events[k])
            IN  old \ History(lockFile.lock.events[k]) \subseteq {MaxUsed(old)}

\* CheckLock accepts exactly the locks that UpdateLock accepts and leaves as
\* they are; its field-by-field comparison misses nothing and refuses nothing
\* else (lock_update.go:135-223 against 29-133).
CheckIsFixpoint ==
    CheckLock(lockFile.lock, registry)
        <=> /\ UpdateAccepts(lockFile.lock, registry)
            /\ UpdateLock(lockFile.lock, registry) = lockFile.lock

\* Whatever lock update accepts it also repairs: the lock it writes over an
\* edited one passes CheckLock and stays as it is.
RepairSettles == UpdateAccepts(lockFile.lock, registry) => UpdateSettles
=============================================================================
