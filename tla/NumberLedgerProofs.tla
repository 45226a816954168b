------------------------- MODULE NumberLedgerProofs -------------------------
(***************************************************************************)
(* What the abstract ledger of numbers guarantees, for any names and       *)
(* scopes: one owner per number, and no retired number in use.             *)
(***************************************************************************)
EXTENDS NumberLedger, TLAPS

OneOwnerIn(l) ==
    /\ \A m, n \in DOMAIN l.active : l.active[m] = l.active[n] => m = n
    /\ NumbersIn(l.active) \cap l.retired = {}

\* A revision of a ledger with one owner per number has one owner per number.
LEMMA RevisedHasOneOwner ==
    ASSUME NEW old, NEW new, OneOwnerIn(old), Revised(old, new)
    PROVE  OneOwnerIn(new)
<1>1. \A m, n \in DOMAIN new.active : new.active[m] = new.active[n] => m = n
  BY DEF Revised
<1>2. ASSUME NEW n \in DOMAIN new.active, new.active[n] \in new.retired
      PROVE  FALSE
  <2>1. CASE n \notin DOMAIN old.active
    <3>1. new.active[n] \notin NumbersIn(old.active) \cup old.retired
      BY <2>1 DEF Revised
    <3> QED  BY <1>2, <3>1 DEF Revised, NumbersIn
  <2>2. CASE n \in DOMAIN old.active
    <3>1. new.active[n] = old.active[n] /\ new.active[n] \in NumbersIn(old.active)
      BY <2>2 DEF Revised, NumbersIn
    <3>2. new.active[n] \notin old.retired
      BY <3>1 DEF OneOwnerIn
    <3>3. PICK m \in DOMAIN old.active \ DOMAIN new.active : old.active[m] = new.active[n]
      BY <1>2, <3>2 DEF Revised
    <3>4. m = n
      BY <2>2, <3>1, <3>3 DEF OneOwnerIn
    <3> QED  BY <3>3, <3>4
  <2> QED  BY <2>1, <2>2
<1> QED  BY <1>1, <1>2 DEF OneOwnerIn, NumbersIn

\* An abandoned ledger has no numbers at all.
LEMMA BlankHasOneOwner == OneOwnerIn(Blank)
BY DEF OneOwnerIn, Blank, NumbersIn

\* In every scope a number has one owner at any time and, once retired, none.
THEOREM LedgerHasOneOwner == Spec => []OneOwner
<1> DEFINE Inv == \A s \in Scopes : OneOwnerIn(ledger[s])
<1>1. Init => Inv
  BY BlankHasOneOwner DEF Init
<1>2. Inv /\ [Next]_ledger => Inv'
  <2> SUFFICES ASSUME Inv, Next PROVE Inv'
    OBVIOUS
  <2>1. ASSUME NEW s \in Scopes PROVE OneOwnerIn(ledger'[s])
    <3>1. Revised(ledger[s], ledger'[s]) \/ ledger'[s] = Blank
      BY DEF Next, Update, Scopes
    <3> QED  BY <3>1, BlankHasOneOwner, RevisedHasOneOwner
  <2> QED  BY <2>1
<1>3. Inv => OneOwner
  BY DEF OneOwner, OneOwnerIn
<1> QED  BY <1>1, <1>2, <1>3, PTL DEF Spec
=============================================================================
