----------------------------- MODULE MCConsumer -----------------------------
(* Instances of Consumer for TLC: a1.. carry event "a", b1 event "b". *)
EXTENDS Consumer, TLC

CONSTANTS a1, a2, a3, b1, bad, c1, c2

JustOne  == a1 :> "a"
Pair     == (a1 :> "a") @@ (a2 :> "a")
Assorted == (a1 :> "a") @@ (a2 :> "a") @@ (a3 :> "a") @@ (b1 :> "b") @@ (bad :> Poison)

OwnDirs == (c1 :> "out1") @@ (c2 :> "out2")
SharedDir == (c1 :> "out") @@ (c2 :> "out")
OneDir  == c1 :> "out"
=============================================================================
