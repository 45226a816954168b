-------------------------- MODULE MCLockLifecycle ---------------------------
(***************************************************************************)
(* Instances of LockLifecycle for TLC.  A field name is its position in    *)
(* the byte order; event names are 11 and 12.  The full product of two     *)
(* events, long histories and published schemas is out of reach: run       *)
(* lifecycle explores three regions of it, and every passage between them. *)
(***************************************************************************)
EXTENDS LockLifecycle

CONSTANTS
    ShortHistory,  \* numbers one event may use up where schemas are published
    LongHistory    \* numbers one event may use up where none is

StringType == [kind |-> "string", item |-> "", values |-> <<>>]
EnumXY     == [kind |-> "enum",   item |-> "", values |-> <<21, 22>>]
EnumYX     == [kind |-> "enum",   item |-> "", values |-> <<22, 21>>]

First     == <<11, 1>>
Second    == <<12, 1>>
OneEvent  == {First}
TwoEvents == {First, Second}

Strings == {StringType}
Enums   == {EnumXY, EnumYX}

MCPascalCase == [n \in Names \cup {11, 12} |-> n]
MCValueName  == [nv \in Names \X {Unspecified, 21, 22} |-> nv]

HistoryWithin(bound) ==
    \A k \in Keys : Cardinality(History(EntryOf(lockFile.lock, k))) <= bound

\* The context and one event.
Alone ==
    /\ DOMAIN registry.events \subseteq OneEvent
    /\ DOMAIN lockFile.lock.events \subseteq OneEvent
    /\ \A p \in published : p.scope \in OneEvent \cup {ContextScope}
NoContext == registry.context = EmptyMap /\ lockFile.lock.context = EmptyMap

Short == Alone /\ HistoryWithin(ShortHistory)

\* Long histories, across protobuf's reserved range.
Long == Alone /\ NoContext /\ published = {} /\ HistoryWithin(LongHistory)

\* Two events with one property name each.
Pair ==
    /\ NoContext
    /\ \A k \in DOMAIN registry.events : DOMAIN registry.events[k] \subseteq {1}
    /\ \A k \in DOMAIN lockFile.lock.events :
          /\ DOMAIN lockFile.lock.events[k].properties \subseteq {1}
          /\ \A r \in lockFile.lock.events[k].reserved : r.name = 1
    /\ HistoryWithin(ShortHistory)

Bounded == Short \/ Long \/ Pair

MCInit == Init /\ Bounded
MCNext == Next /\ Bounded'
MCSpec == MCInit /\ [][MCNext]_vars
=============================================================================
