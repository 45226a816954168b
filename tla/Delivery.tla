------------------------------ MODULE Delivery ------------------------------
(***************************************************************************)
(* What the queue and its consumers make of a message, without polling,    *)
(* receipts, buffers or files.  A message somebody sent is stored in a     *)
(* file for good, goes down with a process, or is dropped because no       *)
(* consumer can decode it.  A message that went down may still be stored:  *)
(* SQS hands a message to several consumers, and another one may hold it.  *)
(* Consumer implements this specification; Pipeline puts the API in front  *)
(* of it.                                                                  *)
(***************************************************************************)

CONSTANTS
    Messages,
    Undecodable  \* the messages no consumer can decode

VARIABLE fate

Fates == {"unsent", "queued", "stored", "lost", "dropped"}

Become(ms, f) == fate' = [m \in Messages |-> IF m \in ms THEN f ELSE fate[m]]

\* Some messages may be on the queue already.
Init == fate \in [Messages -> {"unsent", "queued"}]

Send(m) == fate[m] = "unsent" /\ Become({m}, "queued")

\* One flush stores the rows of one file at once.
Store(ms) == (\A m \in ms : fate[m] \in {"queued", "lost"}) /\ Become(ms, "stored")

Lose(ms) == (\A m \in ms : fate[m] = "queued") /\ Become(ms, "lost")

Drop(m) == fate[m] = "queued" /\ Become({m}, "dropped")

Next ==
    \/ \E m \in Messages : Send(m)
    \/ \E m \in Undecodable : Drop(m)
    \/ \E ms \in SUBSET (Messages \ Undecodable) : Store(ms) \/ Lose(ms)

Spec == Init /\ [][Next]_fate
=============================================================================
