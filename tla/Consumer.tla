------------------------------ MODULE Consumer ------------------------------
(***************************************************************************)
(* The demo's consumer: processes that poll an SQS queue (sqs.py), decode  *)
(* each message (dispatch.py) and collect the rows in a sink (sink.py)     *)
(* that writes them to Parquet files.                                      *)
(*                                                                         *)
(* queue    - where SQS has each message                                   *)
(* receives - how often SQS handed each message out; a receipt is a        *)
(*            <<message, receive>> pair, and so is the row made of it      *)
(* proc     - the consumer processes, memory and program counter           *)
(* files    - the Parquet files: <<directory, event, second, seq>> -> rows *)
(* second   - the clock file names are made of                             *)
(* lost     - history: messages deleted from the queue whose row went down *)
(*            with a process                                               *)
(* crashes, stops - how often the environment struck, for the bounds       *)
(***************************************************************************)
EXTENDS Integers, FiniteSets, Functions, FiniteSetsExt

CONSTANTS
    Consumers,      \* processes that share the queue
    OutputDir,      \* consumer -> the directory it writes to (OPENEVENTS_OUTPUT_DIR)
    Messages,
    Events,         \* the keys of EVENT_REGISTRY
    EventOf,        \* message -> its event, or Poison
    Poison,         \* no event_name attribute, or a body that does not decode
    MaxMessages,    \* messages one receive returns (max_messages, 10)
    BatchSize,      \* rows that make a buffer full (batch_size, 10)
    WaitTime,       \* length of a long poll (wait_time_s, 20)
    FlushInterval,  \* age at which buffers are flushed (flush_interval_s, 5)
    UntilEmpty,     \* the --until-empty flag
    MaxReceives,    \* bound: times a message is handed out while it is held
    MaxCrashes,     \* bound: processes that are killed or die of an exception
    MaxStops        \* bound: SIGINT or SIGTERM sent

ASSUME EventsAssumption == EventOf \in [Messages -> Events \cup {Poison}] /\ Poison \notin Events
ASSUME SettingsAssumption ==
    /\ MaxMessages \in Nat \ {0} /\ BatchSize \in Nat \ {0}
    /\ WaitTime \in Nat /\ FlushInterval \in Nat
    /\ UntilEmpty \in BOOLEAN

ASSUME OutputDirAssumption == Consumers \subseteq DOMAIN OutputDir

\* Every process writes to a directory of its own.  An assumption of some
\* theorems only: the demo starts one consumer, and nothing in the code keeps
\* a second one out of its directory.
OwnDirectories == \A c, d \in Consumers : OutputDir[c] = OutputDir[d] => c = d

VARIABLES queue, receives, proc, files, second, lost, crashes, stops
vars == <<queue, receives, proc, files, second, lost, crashes, stops>>

Rows == Messages \X Nat
NoRow == <<>>
NoFile == <<>>

\* batch and row: what is left of a receive, and the row being handled.
\* pending: the buffers flush_all has still to look at.
\* exiting: the flush is the one after the loop.
Down == [pc |-> "down", batch |-> {}, row |-> NoRow, buffers |-> [e \in Events |-> {}],
         pending |-> {}, file |-> NoFile, seq |-> 1, age |-> 0, streak |-> 0,
         stop |-> FALSE, exiting |-> FALSE]

Init ==
    /\ queue \in [Messages -> {"unsent", "visible"}]
    /\ receives = [m \in Messages |-> 0]
    /\ proc = [c \in Consumers |-> Down]
    /\ files = [f \in {} |-> {}]
    /\ second = 0
    /\ lost = {}
    /\ crashes = 0 /\ stops = 0

-----------------------------------------------------------------------------
(* SQS *)

Visible == {m \in Messages : queue[m] = "visible"}

\* Messages a live process has received and not yet deleted.
Held(p) == {r[1] : r \in p.batch} \cup (IF p.pc = "delete" THEN {p.row[1]} ELSE {})

\* The API publishes a message.
Send(m) ==
    /\ queue[m] = "unsent"
    /\ queue' = [queue EXCEPT ![m] = "visible"]
    /\ UNCHANGED <<receives, proc, files, second, lost, crashes, stops>>

\* A received message that is not deleted in time is handed out again.
VisibilityExpires(m) ==
    /\ queue[m] = "inflight"
    /\ (\E c \in Consumers : m \in Held(proc[c])) => receives[m] < MaxReceives
    /\ queue' = [queue EXCEPT ![m] = "visible"]
    /\ UNCHANGED <<receives, proc, files, second, lost, crashes, stops>>

\* delete_message with the latest receipt deletes; with an older one it may not.
QueuesAfterDelete(row) ==
    {[queue EXCEPT ![row[1]] = "deleted"]}
    \cup (IF receives[row[1]] = row[2] THEN {} ELSE {queue})

-----------------------------------------------------------------------------
(* sqs.poll *)

\* What happens to a process leaves SQS, the files and the history alone.
Local(c, p) ==
    /\ proc' = [proc EXCEPT ![c] = p]
    /\ UNCHANGED <<second, lost, crashes, stops>>

Aged(p, d) == Min({p.age + d, FlushInterval})

\* flush_all is entered, from maybe_flush or after the loop.
Flushing(p, exiting) == [p EXCEPT !.pc = "flush", !.pending = Events, !.exiting = exiting]

\* A mutant of Receive: message ids are kept instead of receipts.
ReceiveWithoutReceipts(c) ==
    LET p == proc[c]
    IN  /\ p.pc = "loop" /\ ~p.stop
        /\ \E ms \in SUBSET Visible, d \in 0..WaitTime :
              /\ Cardinality(ms) \in 1..MaxMessages
              /\ queue' = [m \in Messages |-> IF m \in ms THEN "inflight" ELSE queue[m]]
              /\ receives' = [m \in Messages |-> IF m \in ms THEN receives[m] + 1 ELSE receives[m]]
              /\ Local(c, [p EXCEPT !.pc = "batch", !.streak = 0, !.age = Aged(p, d),
                                    !.batch = ms])
        /\ UNCHANGED files

Receive(c) ==
    LET p == proc[c]
    IN  /\ p.pc = "loop" /\ ~p.stop
        /\ \E ms \in SUBSET Visible, d \in 0..WaitTime :
              /\ Cardinality(ms) \in 1..MaxMessages
              /\ queue' = [m \in Messages |-> IF m \in ms THEN "inflight" ELSE queue[m]]
              /\ receives' = [m \in Messages |-> IF m \in ms THEN receives[m] + 1 ELSE receives[m]]
              /\ Local(c, [p EXCEPT !.pc = "batch", !.streak = 0, !.age = Aged(p, d),
                                    !.batch = {<<m, receives[m] + 1>> : m \in ms}])
        /\ UNCHANGED files

\* A mutant of ReceiveNothing: the streak is started anew every time.
ReceiveNothingForgetful(c) ==
    LET p == [proc[c] EXCEPT !.streak = 1, !.age = Aged(proc[c], WaitTime)]
    IN  /\ p.pc = "loop" /\ ~p.stop
        /\ Visible = {}
        /\ Local(c, IF UntilEmpty /\ p.streak >= 2 THEN Flushing(p, TRUE)
                                                   ELSE [p EXCEPT !.pc = "maybe_flush"])
        /\ UNCHANGED <<queue, receives, files>>

\* A long poll that nothing answers; the second in a row may end the loop.
ReceiveNothing(c) ==
    LET p == [proc[c] EXCEPT !.streak = Min({2, proc[c].streak + 1}),
                             !.age = Aged(proc[c], WaitTime)]
    IN  /\ p.pc = "loop" /\ ~p.stop
        /\ Visible = {}
        /\ Local(c, IF UntilEmpty /\ p.streak >= 2 THEN Flushing(p, TRUE)
                                                   ELSE [p EXCEPT !.pc = "maybe_flush"])
        /\ UNCHANGED <<queue, receives, files>>

\* A mutant of LeaveLoop: the process ends without the last flush.
LeaveLoopAtOnce(c) ==
    /\ proc[c].pc = "loop" /\ proc[c].stop
    /\ Local(c, Down)
    /\ UNCHANGED <<queue, receives, files>>

LeaveLoop(c) ==
    /\ proc[c].pc = "loop" /\ proc[c].stop
    /\ Local(c, Flushing(proc[c], TRUE))
    /\ UNCHANGED <<queue, receives, files>>

\* A mutant of DropPoison: nothing tells a poison message from a good one.
DropAny(c) ==
    LET p == proc[c]
    IN  /\ p.pc = "batch"
        /\ \E r \in p.batch :
              /\ queue' \in QueuesAfterDelete(r)
              /\ Local(c, [p EXCEPT !.batch = @ \ {r}])
        /\ UNCHANGED <<receives, files>>

\* A poison message is deleted and forgotten.
DropPoison(c) ==
    LET p == proc[c]
    IN  /\ p.pc = "batch"
        /\ \E r \in p.batch :
              /\ EventOf[r[1]] = Poison
              /\ queue' \in QueuesAfterDelete(r)
              /\ Local(c, [p EXCEPT !.batch = @ \ {r}])
        /\ UNCHANGED <<receives, files>>

\* sink.append
Append(c) ==
    LET p == proc[c]
    IN  /\ p.pc = "batch"
        /\ \E r \in p.batch :
              /\ EventOf[r[1]] # Poison
              /\ Local(c, [p EXCEPT !.pc = "delete", !.row = r, !.batch = @ \ {r},
                                    !.buffers[EventOf[r[1]]] = @ \cup {r}])
        /\ UNCHANGED <<queue, receives, files>>

\* The row is in memory only when its message is deleted.
Delete(c) ==
    LET p == proc[c]
    IN  /\ p.pc = "delete"
        /\ queue' \in QueuesAfterDelete(p.row)
        /\ Local(c, [p EXCEPT !.pc = "batch", !.row = NoRow])
        /\ UNCHANGED <<receives, files>>

BatchDone(c) ==
    /\ proc[c].pc = "batch" /\ proc[c].batch = {}
    /\ Local(c, [proc[c] EXCEPT !.pc = "maybe_flush"])
    /\ UNCHANGED <<queue, receives, files>>

-----------------------------------------------------------------------------
(* Sink *)

Full(p) == \E e \in Events : Cardinality(p.buffers[e]) >= BatchSize

\* Mutants of MaybeFlush: only a full buffer, or only the timer, has it flush.
MaybeFlushWhenFull(c) ==
    LET p == proc[c]
    IN  /\ p.pc = "maybe_flush"
        /\ Local(c, IF Full(p) THEN Flushing(p, FALSE) ELSE [p EXCEPT !.pc = "loop"])
        /\ UNCHANGED <<queue, receives, files>>
MaybeFlushWhenDue(c) ==
    LET p == proc[c]
    IN  /\ p.pc = "maybe_flush"
        /\ Local(c, IF p.age >= FlushInterval THEN Flushing(p, FALSE)
                                              ELSE [p EXCEPT !.pc = "loop"])
        /\ UNCHANGED <<queue, receives, files>>

MaybeFlush(c) ==
    LET p == proc[c]
    IN  /\ p.pc = "maybe_flush"
        /\ Local(c, IF Full(p) \/ p.age >= FlushInterval THEN Flushing(p, FALSE)
                                                         ELSE [p EXCEPT !.pc = "loop"])
        /\ UNCHANGED <<queue, receives, files>>

\* A mutant of WriteTemporary: the counter does not count.
WriteTemporaryUncounted(c) ==
    LET p == proc[c]
    IN  /\ p.pc = "flush"
        /\ \E e \in p.pending :
              /\ p.buffers[e] # {}
              /\ Local(c, [p EXCEPT !.pc = "replace",
                                    !.file = <<OutputDir[c], e, second, p.seq>>])
        /\ UNCHANGED <<queue, receives, files>>

\* _write up to the temporary file: the name is chosen, the rows are written.
WriteTemporary(c) ==
    LET p == proc[c]
    IN  /\ p.pc = "flush"
        /\ \E e \in p.pending :
              /\ p.buffers[e] # {}
              /\ Local(c, [p EXCEPT !.pc = "replace", !.seq = @ + 1,
                                    !.file = <<OutputDir[c], e, second, p.seq>>])
        /\ UNCHANGED <<queue, receives, files>>

\* A mutant of Replace: the buffer is not emptied.
ReplaceKeepingBuffer(c) ==
    LET p == proc[c]
        e == p.file[2]
    IN  /\ p.pc = "replace"
        /\ files' = [f \in DOMAIN files \cup {p.file} |->
                        IF f = p.file THEN p.buffers[e] ELSE files[f]]
        /\ Local(c, [p EXCEPT !.pc = "flush", !.file = NoFile, !.pending = @ \ {e}])
        /\ UNCHANGED <<queue, receives>>

\* os.replace puts the file in place, over one of that name; the buffer is emptied.
Replace(c) ==
    LET p == proc[c]
        e == p.file[2]
    IN  /\ p.pc = "replace"
        /\ files' = [f \in DOMAIN files \cup {p.file} |->
                        IF f = p.file THEN p.buffers[e] ELSE files[f]]
        /\ Local(c, [p EXCEPT !.pc = "flush", !.buffers[e] = {}, !.file = NoFile,
                              !.pending = @ \ {e}])
        /\ UNCHANGED <<queue, receives>>

\* A mutant of FlushDone: the flush after the loop leads back into it.
FlushDoneAgain(c) ==
    LET p == proc[c]
    IN  /\ p.pc = "flush"
        /\ \A e \in p.pending : p.buffers[e] = {}
        /\ Local(c, [p EXCEPT !.pc = "loop", !.age = 0, !.pending = {}])
        /\ UNCHANGED <<queue, receives, files>>

\* maybe_flush sets the timer back; after the loop the process ends.
FlushDone(c) ==
    LET p == proc[c]
    IN  /\ p.pc = "flush"
        /\ \A e \in p.pending : p.buffers[e] = {}
        /\ Local(c, IF p.exiting THEN Down ELSE [p EXCEPT !.pc = "loop", !.age = 0, !.pending = {}])
        /\ UNCHANGED <<queue, receives, files>>

-----------------------------------------------------------------------------
(* Processes come and go *)

\* Starting Python, boto3 and polars takes longer than the clock's second.
Start(c) ==
    /\ proc[c].pc = "down"
    /\ second < MaxCrashes + MaxStops + Cardinality(Consumers)
    /\ second' = second + 1
    /\ proc' = [proc EXCEPT ![c] = [Down EXCEPT !.pc = "loop"]]
    /\ UNCHANGED <<queue, receives, files, lost, crashes, stops>>

\* SIGINT or SIGTERM: the loop ends when it is next tested.
Signal(c) ==
    /\ stops < MaxStops
    /\ proc[c].pc # "down" /\ ~proc[c].stop
    /\ stops' = stops + 1
    /\ proc' = [proc EXCEPT ![c].stop = TRUE]
    /\ UNCHANGED <<queue, receives, files, second, lost, crashes>>

\* The process is killed, or dies of an exception of SQS, polars or the file
\* system: nothing in poll or main catches one or flushes what is buffered.
Crash(c) ==
    /\ crashes < MaxCrashes
    /\ proc[c].pc # "down"
    /\ crashes' = crashes + 1
    /\ proc' = [proc EXCEPT ![c] = Down]
    /\ lost' = lost \cup {m \in Messages : queue[m] = "deleted" /\
                            \E e \in Events : \E r \in proc[c].buffers[e] : r[1] = m}
    /\ UNCHANGED <<queue, receives, files, second, stops>>

\* The program's own steps.
Step(c) ==
    \/ Receive(c) \/ ReceiveNothing(c) \/ LeaveLoop(c)
    \/ DropPoison(c) \/ Append(c) \/ Delete(c) \/ BatchDone(c)
    \/ MaybeFlush(c) \/ WriteTemporary(c) \/ Replace(c) \/ FlushDone(c)

Next ==
    \/ \E m \in Messages : Send(m) \/ VisibilityExpires(m)
    \/ \E c \in Consumers : Step(c) \/ Start(c) \/ Signal(c) \/ Crash(c)

Spec == Init /\ [][Next]_vars

\* A running process keeps running, an operator starts it again, and SQS
\* does not keep a message of a dead process to itself for ever.
Fairness ==
    /\ \A c \in Consumers : WF_vars(Step(c)) /\ WF_vars(Start(c))
    /\ \A m \in Messages : WF_vars(VisibilityExpires(m))

FairSpec == Spec /\ Fairness
-----------------------------------------------------------------------------
(* Properties *)

TypeOK ==
    /\ queue \in [Messages -> {"unsent", "visible", "inflight", "deleted"}]
    /\ receives \in [Messages -> Nat]
    /\ \A c \in Consumers :
          LET p == proc[c]
          IN  /\ DOMAIN p = DOMAIN Down
              /\ p.pc \in {"down", "loop", "batch", "delete", "maybe_flush", "flush", "replace"}
              /\ p.batch \subseteq Rows /\ p.row \in Rows \cup {NoRow}
              /\ p.buffers \in [Events -> SUBSET Rows] /\ p.pending \subseteq Events
              /\ p.seq \in Nat \ {0} /\ p.age \in 0..FlushInterval /\ p.streak \in 0..2
              /\ p.stop \in BOOLEAN /\ p.exiting \in BOOLEAN
    /\ DOMAIN files \subseteq Range(OutputDir) \X Events \X Nat \X Nat
    /\ \A f \in DOMAIN files : files[f] \subseteq Rows
    /\ lost \subseteq Messages

Good == {m \in Messages : EventOf[m] # Poison}
StoredRows == UNION {files[f] : f \in DOMAIN files}
Buffered(p) == UNION {p.buffers[e] : e \in Events}
MessagesOf(rows) == {r[1] : r \in rows}
Stored == MessagesOf(StoredRows)

\* A message that left the queue has its row in a file or in the buffer of a
\* running process, or went down with a process that died: graceful stops,
\* redeliveries and flushes lose nothing (sqs.py:45-61, sink.py:39-55).
NothingVanishes ==
    \A m \in Good : queue[m] = "deleted" =>
        m \in Stored \cup lost \cup UNION {MessagesOf(Buffered(proc[c])) : c \in Consumers}

\* One crash costs less than a full buffer and one more receive of any event:
\* maybe_flush runs after every batch and leaves no buffer full (sink.py:32-37).
CrashCost ==
    [][\A e \in Events :
          Cardinality({m \in lost' \ lost : EventOf[m] = e}) < BatchSize + MaxMessages]_vars

\* Each delivery of a message ends up in one file at most and is never in a
\* file and still in memory: rows repeat only when SQS repeats the message
\* (sink.py:43-44).
OneRowPerReceive ==
    /\ \A f, g \in DOMAIN files : f # g => files[f] \cap files[g] = {}
    /\ \A c \in Consumers : Buffered(proc[c]) \cap StoredRows = {}

\* What is in a file stays in one: no later flush, of this process or of one
\* started after it or writing elsewhere, takes its name (sink.py:49-55).
StoredForGood == [][StoredRows \subseteq StoredRows']_vars

\* "Filenames are <UTC-timestamp>-<monotonic-seq>.parquet so flushes within the
\* same second never collide" (examples/demo/services/consumer/README.md:55-57):
\* a file about to be put in place replaces none.  The counter is each
\* process's own, so two that share a directory can choose one name (sink.py:50-55).
NamesDoNotCollide ==
    \A c \in Consumers : proc[c].pc = "replace" => proc[c].file \notin DOMAIN files

\* Every message the API publishes is written to a file in the end, or went
\* down with a process that died; rows of a quiet event do not sit in a buffer
\* for ever (the time-based flush, sink.py:35).
EventuallyStored ==
    \A m \in Good : queue[m] # "unsent" ~> m \in Stored \cup lost

\* SIGTERM ends the process: the handler only sets a flag, but poll tests it
\* after every receive and a receive ends with or without a message (sqs.py:30-36).
StopIsHonoured == \A c \in Consumers : proc[c].stop ~> proc[c].pc = "down"

\* consumer --until-empty comes to its end on a queue that is filled by
\* nobody any more, and what it took off the queue is in files by then
\* (the second way out of poll's loop, sqs.py:40-41 and 61).
DrainEnds ==
    <>[](/\ \A c \in Consumers : proc[c].pc = "down"
         /\ \A m \in Good : queue[m] = "deleted" => m \in Stored \cup lost)

\* "At-least-once" (examples/demo/GUIDE.md:350): a message leaves the queue only
\* when its row is safe.  It leaves when the row is in memory (sqs.py:58-59).
AtLeastOnce ==
    \A m \in Good : queue[m] = "deleted" =>
        m \in Stored \cup UNION {MessagesOf(Buffered(proc[c])) : c \in Consumers}

\* The processes implement Delivery: whatever they do with receipts, buffers
\* and files, a message moves only from the queue to a file, down with a
\* process, or out as poison, and what is in a file stays in one.
FateOf(m) ==
    IF queue[m] = "unsent" THEN "unsent"
    ELSE IF m \in Stored THEN "stored"
    ELSE IF m \in lost THEN "lost"
    ELSE IF m \notin Good /\ queue[m] = "deleted" THEN "dropped"
    ELSE IF queue[m] # "deleted" \/ \E c \in Consumers : m \in MessagesOf(Buffered(proc[c]))
         THEN "queued" ELSE "vanished"

Delivered == INSTANCE Delivery WITH
    Undecodable <- Messages \ Good, fate <- [m \in Messages |-> FateOf(m)]

ImplementsDelivery == Delivered!Spec
=============================================================================
