------------------------------ MODULE MCPipeline ------------------------------
(***************************************************************************)
(* An instance of Pipeline for TLC: one event is there from the start,     *)
(* another may be added or take its place, and a client posts the other.   *)
(***************************************************************************)
EXTENDS Pipeline

CONSTANT r1

MCEventOf == [r \in Requests |-> "search.performed@1"]
MCBlanks == [r \in Requests |-> {{"user_id", "result_count"}, {"query", "filters"}}]

\* The registry starts without the event of the requests.
MCInit == PipelineInit /\ registry = {"checkout.started@1"}
MCSpec == MCInit /\ [][Next]_vars /\ \A m \in Messages : WF_vars(Consume(m))
=============================================================================
