------------------------------ MODULE Pipeline ------------------------------
(***************************************************************************)
(* An event's way through the demo, end to end.  The API is built from the *)
(* generated Go constants and the consumer from the Python ones            *)
(* (Constants); a client posts a request, the handler builds an event and  *)
(* publishes it (server.go, eventmap.go, publisher.go), and queue and      *)
(* consumers do with it what Delivery says, which is all that Consumer     *)
(* does.                                                                   *)
(*                                                                         *)
(* api      - the names whose routes the running API has                   *)
(* consumer - the keys of the running consumers' EVENT_REGISTRY            *)
(* fate     - what became of each SQS message; <<r, n>> is the nth message *)
(*            that SQS accepted for request r                              *)
(* idOf     - the event_id in the body of a message                        *)
(* req      - each client's request and the handler at work on it          *)
(* inStep   - history: the consumers were deployed after the last change   *)
(*            of a generated file                                          *)
(* careful  - history: events were only added, and every deployment took   *)
(*            files of one undisturbed generation, the consumers' first    *)
(***************************************************************************)
EXTENDS Constants

CONSTANTS
    Requests,
    EventOf,       \* request -> the event it posts
    Blanks,        \* request -> the sets of fields it may come without, or
                   \* with a value that is none of the field's
    MaxTries,      \* how often the AWS SDK sends one message (3 by default)
    MaxAttempts,   \* bound: how often a client posts
    MaxMessages    \* bound: how many messages SQS accepts for a request

ASSUME BoundsAssumption == MaxTries \in Nat /\ MaxAttempts \in Nat

Messages == Requests \X (1..MaxMessages)
NoId == <<>>

VARIABLES api, consumer, fate, idOf, req, inStep, careful
demoVars == <<api, consumer, fate, idOf, req, inStep, careful>>
vars == <<constantsVars, demoVars>>

Queue == INSTANCE Delivery WITH Undecodable <- Messages

NameOf(m) == EventOf[m[1]]
Sent(r) == {m \in Messages : m[1] = r /\ fate[m] # "unsent"}

\* answer: the status the client got, "none" while it waits or got nothing.
Unsent == [at |-> "client", attempt |-> 0, try |-> 0, id |-> NoId,
           answer |-> "none", answeredId |-> NoId]

PipelineInit ==
    /\ Init
    /\ api = registry /\ consumer = registry
    /\ fate = [m \in Messages |-> "unsent"]
    /\ idOf = [m \in Messages |-> NoId]
    /\ req = [r \in Requests |-> Unsent]
    /\ inStep = TRUE /\ careful = TRUE

-----------------------------------------------------------------------------
(* The API: bindBuild, handle, Publish *)

\* The fields each Validate looks at; the numbers are not among them.
ContextFields == {"tenant_id", "platform"}
CheckoutStartedFields == ContextFields \cup {"cart_id", "currency"}
CheckoutCompletedFields == ContextFields \cup {"cart_id", "order_id", "payment_method"}
SearchPerformedFields == ContextFields \cup {"query"}

CheckedFields(event) ==
    CASE event = "checkout.started@1" -> CheckoutStartedFields
      [] event = "checkout.completed@1" -> CheckoutCompletedFields
      [] event = "search.performed@1" -> SearchPerformedFields

Validate(event, blank) == blank \cap CheckedFields(event) = {}

\* A fresh envelope for every call of ToProto; its event_id is what matters.
NewEventId(r, attempt) == <<r, attempt>>

Answer(r, status) ==
    [Unsent EXCEPT !.attempt = req[r].attempt, !.answer = status,
                   !.answeredId = IF status = "202" THEN req[r].id ELSE NoId]

Serves(r) == UNCHANGED <<constantsVars, api, consumer, inStep, careful>>

Post(r) ==
    /\ req[r].at = "client" /\ req[r].answer \in {"none", "502"}
    /\ req[r].attempt < MaxAttempts
    /\ LET n == req[r].attempt + 1
           posted == [Unsent EXCEPT !.attempt = n]
       IN  \E blank \in Blanks[r] :
              req' = [req EXCEPT ![r] =
                 IF EventOf[r] \notin api THEN [posted EXCEPT !.answer = "404"]
                 ELSE IF ~Validate(EventOf[r], blank) THEN [posted EXCEPT !.answer = "400"]
                 ELSE [posted EXCEPT !.at = "publish", !.id = NewEventId(r, n)]]
    /\ UNCHANGED <<fate, idOf>>
    /\ Serves(r)

\* One SendMessage call of the SDK.  Its answer may not come back, and so may
\* the handler's.
Accepted(r, id) ==
    LET m == <<r, 1 + Cardinality(Sent(r))>>
    IN  /\ m \in Messages
        /\ Queue!Send(m)
        /\ idOf' = [idOf EXCEPT ![m] = id]
        /\ \/ \E status \in {"202", "none"} : req' = [req EXCEPT ![r] = Answer(r, status)]
           \/ req' = [req EXCEPT ![r].try = @ + 1]

\* A mutant of SendMessage: the body is built anew for each try.
SendMessageRebuilt(r) ==
    /\ req[r].at = "publish" /\ req[r].try < MaxTries
    /\ \/ Accepted(r, <<r, req[r].attempt, req[r].try>>)
       \/ req' = [req EXCEPT ![r].try = @ + 1] /\ UNCHANGED <<fate, idOf>>
    /\ Serves(r)

\* A mutant of SendMessage: the SDK never gives up.
SendMessageForever(r) ==
    /\ req[r].at = "publish"
    /\ \/ Accepted(r, req[r].id)
       \/ req' = [req EXCEPT ![r].try = @ + 1] /\ UNCHANGED <<fate, idOf>>
    /\ Serves(r)

SendMessage(r) ==
    /\ req[r].at = "publish" /\ req[r].try < MaxTries
    /\ \/ Accepted(r, req[r].id)
       \/ req' = [req EXCEPT ![r].try = @ + 1] /\ UNCHANGED <<fate, idOf>>
    /\ Serves(r)

\* Publish returns an error: no try was answered, or one with a final error.
PublishFails(r) ==
    /\ req[r].at = "publish" /\ req[r].try > 0
    /\ req' = [req EXCEPT ![r] = Answer(r, "502")]
    /\ UNCHANGED <<fate, idOf>>
    /\ Serves(r)

\* The API is killed and started again; its handlers go down with it.
HandlersGone ==
    [r \in Requests |-> IF req[r].at = "publish" THEN Answer(r, "none") ELSE req[r]]

-----------------------------------------------------------------------------
(* The consumers: decode, and the rest as Delivery has it *)

Consumes == UNCHANGED <<api, consumer, idOf, req, inStep, careful>>

\* A mutant of StoreRows: a buffer waits for company; its timer is not looked at.
StoreRowsInPairs(m) ==
    /\ \E ms \in SUBSET Messages :
          /\ m \in ms /\ Cardinality(ms) > 1
          /\ (\A x \in ms : NameOf(x) \in consumer) /\ Queue!Store(ms)
    /\ UNCHANGED constantsVars /\ Consumes

StoreRows(m) ==
    /\ \E ms \in SUBSET Messages :
          m \in ms /\ (\A x \in ms : NameOf(x) \in consumer) /\ Queue!Store(ms)
    /\ UNCHANGED constantsVars /\ Consumes

DropUnknown(m) ==
    /\ NameOf(m) \notin consumer
    /\ Queue!Drop(m)
    /\ UNCHANGED constantsVars /\ Consumes

ConsumerDies ==
    /\ faults < MaxFaults
    /\ \E ms \in SUBSET Messages :
          (\A x \in ms : NameOf(x) \in consumer) /\ Queue!Lose(ms)
    /\ faults' = faults + 1
    /\ UNCHANGED <<registry, fileVars, edits>> /\ Consumes

Consume(m) == StoreRows(m) \/ DropUnknown(m)

-----------------------------------------------------------------------------
(* Development and rollout *)

HalfGenerated == disturbed \/ Running # {}

Develop ==
    /\ \/ EditRegistry
       \/ \E g \in Generators : Generate(g)
    /\ inStep' = (inStep /\ file' = file)
    /\ careful' = (careful /\ registry \subseteq registry')
    /\ UNCHANGED <<api, consumer, fate, idOf, req>>

\* go build takes the Go file there is; it must be complete.  The routes are
\* written by hand (server.go:62-88); whoever builds the API has brought them
\* in line with the file.
DeployApi ==
    /\ file["go"].state = "whole"
    /\ api' = file["go"].names
    /\ req' = HandlersGone
    /\ careful' = (careful /\ inStep /\ ~HalfGenerated)
    /\ UNCHANGED <<constantsVars, consumer, fate, idOf, inStep>>

\* So must the Python module the consumer imports.
DeployConsumer ==
    /\ file["python"].state = "whole"
    /\ consumer' = file["python"].names
    /\ inStep' = TRUE
    /\ careful' = (careful /\ ~HalfGenerated)
    /\ UNCHANGED <<constantsVars, api, fate, idOf, req>>

Next ==
    \/ \E r \in Requests : Post(r) \/ SendMessage(r) \/ PublishFails(r)
    \/ \E m \in Messages : Consume(m)
    \/ ConsumerDies
    \/ Develop \/ DeployApi \/ DeployConsumer

\* The consumers go on: Consumer's EventuallyStored, under its fairness.
Spec == PipelineInit /\ [][Next]_vars
FairSpec == Spec /\ \A m \in Messages : WF_vars(Consume(m))

-----------------------------------------------------------------------------
(* Properties *)

TypeOK ==
    /\ registry \subseteq EventNames
    /\ api \subseteq EventNames /\ consumer \subseteq EventNames
    /\ fate \in [Messages -> Queue!Fates]
    /\ \A r \in Requests :
          /\ req[r].at \in {"client", "publish"}
          /\ req[r].attempt \in 0..MaxAttempts /\ req[r].try \in 0..MaxTries
          /\ req[r].answer \in {"none", "202", "400", "404", "502"}

\* The event of a request that was answered 202 gets into a file under the
\* event_id of the answer, if the rollout was careful and no consumer went down
\* with it, and no copy of the request stays on the queue for ever, whatever
\* the answer was (server.go:122-130, sqs.py:45-61).
AcceptedArrives ==
    \A r \in Requests :
        /\ req[r].answer = "202" ~>
              \/ ~careful
              \/ \E m \in Sent(r) :
                    idOf[m] = req[r].answeredId /\ fate[m] \in {"stored", "lost"}
        /\ []<>(\A m \in Sent(r) : fate[m] # "queued")

\* Nothing the API published is dropped by a consumer that does not know the
\* event, if events are only added, every deployment takes files that one
\* undisturbed generation wrote, and the consumers are deployed before the API
\* (generate.go:107-131, dispatch.py:23-25).
RolloutLosesNothing == careful => \A m \in Messages : fate[m] # "dropped"

\* The event_id of a 202 answer is that of every copy the SDK's retries put on
\* the queue for this attempt; copies under another event_id are left by
\* earlier attempts the client got no 202 for.  So a consumer that goes by
\* event_id (examples/demo/GUIDE.md:427) can tell the SDK's duplicates and
\* cannot tell a client's (server.go:122, eventmap.go:71).
AnswerNamesEvent ==
    \A r \in Requests : req[r].answer = "202" =>
        /\ \E m \in Sent(r) : idOf[m] = req[r].answeredId
        /\ \A m \in Sent(r) : idOf[m] # req[r].answeredId => idOf[m][2] < req[r].attempt
=============================================================================
