---------------------------- MODULE MCLockTamper ----------------------------
(* Instances of LockTamper for TLC; names as in MCLockLifecycle. *)
EXTENDS LockTamper

CONSTANT MaxHistory

OneEvent == {<<11, 1>>}
Strings == {[kind |-> "string", item |-> "", values |-> <<>>]}
MCPascalCase == [n \in Names \cup {11} |-> n]
MCValueName == [v \in {} |-> v]  \* no field is an enum

MCTamperNext ==
    /\ TamperNext
    /\ \A k \in Keys : Cardinality(History(EntryOf(lockFile'.lock, k))) <= MaxHistory
MCTamperSpec == TamperInit /\ [][MCTamperNext]_tamperVars
=============================================================================
