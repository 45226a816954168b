---------------------------- MODULE NumberLedger ----------------------------
(***************************************************************************)
(* What a schema lock promises, without files, validators or registries.   *)
(* Each scope (the context, or one event version) has a ledger:            *)
(*   active  : name -> number, the numbers in use                          *)
(*   retired : numbers that once were in use and must stay unused          *)
(* A ledger moves by Revise: names that stay keep their number, names that *)
(* go leave it to `retired', names that come get a number nobody had.      *)
(* The context is never forgotten.  An event may be, with its whole        *)
(* ledger (Forget): the lock then promises nothing about its numbers.      *)
(***************************************************************************)
EXTENDS Integers

CONSTANTS
    Names,        \* field names
    EventScopes,  \* scopes that may be forgotten
    Context       \* the one scope that may not (no event scope)

Scopes == EventScopes \cup {Context}

VARIABLE ledger

NumbersIn(active) == {active[n] : n \in DOMAIN active}
Blank == [active |-> [n \in {} |-> n], retired |-> {}]

Init == ledger = [s \in Scopes |-> Blank]

\* One ledger's step: nothing that was handed out is ever handed out again.
Revised(old, new) ==
    /\ DOMAIN new.active \subseteq Names
    /\ \A n \in DOMAIN old.active \cap DOMAIN new.active : new.active[n] = old.active[n]
    /\ new.retired = old.retired
          \cup {old.active[n] : n \in DOMAIN old.active \ DOMAIN new.active}
    /\ \A n \in DOMAIN new.active \ DOMAIN old.active :
          /\ new.active[n] \in Nat
          /\ new.active[n] \notin NumbersIn(old.active) \cup old.retired
    /\ \A m, n \in DOMAIN new.active : new.active[m] = new.active[n] => m = n

\* An update revises every scope at once, or forgets events.
Update ==
    /\ ledger' = [s \in Scopes |-> ledger'[s]]
    /\ Revised(ledger[Context], ledger'[Context])
    /\ ledger'[Context].retired = {}
    /\ \A s \in EventScopes : Revised(ledger[s], ledger'[s]) \/ ledger'[s] = Blank

Next == Update

Spec == Init /\ [][Next]_ledger

\* In every scope a number belongs to at most one name, and no retired
\* number is in use: what protobuf needs of a schema that evolves.
OneOwner ==
    \A s \in Scopes :
        /\ \A m, n \in DOMAIN ledger[s].active :
              ledger[s].active[m] = ledger[s].active[n] => m = n
        /\ NumbersIn(ledger[s].active) \cap ledger[s].retired = {}
=============================================================================
