---------------------------- MODULE ConsumerProofs ----------------------------
(***************************************************************************)
(* Theorems about the demo's consumer, for every number of processes,      *)
(* messages, events, receives, crashes and signals, and every setting.     *)
(***************************************************************************)
EXTENDS Consumer, FiniteSetTheorems, TLAPS

-----------------------------------------------------------------------------
(* The inductive invariant *)

FileNames == Range(OutputDir) \X Events \X Nat \X Nat

ProcStates ==
    [pc : {"down", "loop", "batch", "delete", "maybe_flush", "flush", "replace"},
     batch : SUBSET Rows, row : Rows \cup {NoRow}, buffers : [Events -> SUBSET Rows],
     pending : SUBSET Events, file : FileNames \cup {NoFile}, seq : Nat \ {0},
     age : 0..FlushInterval, streak : 0..2, stop : BOOLEAN, exiting : BOOLEAN]

Types ==
    /\ queue \in [Messages -> {"unsent", "visible", "inflight", "deleted"}]
    /\ receives \in [Messages -> Nat]
    /\ proc \in [Consumers -> ProcStates]
    /\ second \in Nat
    /\ DOMAIN files \subseteq FileNames
    /\ \A f \in DOMAIN files : files[f] \subseteq Rows
    /\ lost \subseteq Messages

InMemory(p) == p.batch \cup Buffered(p)

\* What the program counter of a process says of its memory.
Phase(c, p, now) ==
    /\ p.pc = "down" => p = Down
    /\ p.pc \notin {"batch", "delete"} => p.batch = {}
    /\ p.pc = "delete" =>
          /\ p.row \in Rows /\ EventOf[p.row[1]] \in Events
          /\ p.row \in p.buffers[EventOf[p.row[1]]]
    /\ p.pc \in {"flush", "replace"} => \A e \in Events \ p.pending : p.buffers[e] = {}
    /\ p.pc = "replace" =>
          /\ p.file \in FileNames /\ p.file[1] = OutputDir[c] /\ p.file[2] \in p.pending
          /\ p.file[3] <= now /\ p.file[4] < p.seq

Phases == \A c \in Consumers : Phase(c, proc[c], second)

\* A row was made of a receive that has happened, of a message somebody sent.
WasIssued(r) == r[2] <= receives[r[1]] /\ queue[r[1]] # "unsent"
Issued ==
    /\ \A c \in Consumers : \A r \in InMemory(proc[c]) : WasIssued(r)
    /\ \A f \in DOMAIN files : \A r \in files[f] : WasIssued(r)

\* Buffers and files hold rows of their own event.
SortedBuffers(p) == \A e \in Events : \A r \in p.buffers[e] : EventOf[r[1]] = e
Sorted ==
    /\ \A c \in Consumers : SortedBuffers(proc[c])
    /\ \A f \in DOMAIN files : \A r \in files[f] : EventOf[r[1]] = f[2]

\* A row is in one place.
Apart ==
    /\ \A c \in Consumers : proc[c].batch \cap Buffered(proc[c]) = {}
    /\ \A c, d \in Consumers : c # d => InMemory(proc[c]) \cap InMemory(proc[d]) = {}
    /\ \A c \in Consumers : \A f \in DOMAIN files : InMemory(proc[c]) \cap files[f] = {}
    /\ \A f, g \in DOMAIN files : f # g => files[f] \cap files[g] = {}

LostInOrder == \A m \in lost : m \in Good /\ queue[m] = "deleted"

IInv == Types /\ Phases /\ Issued /\ Sorted /\ Apart /\ LostInOrder

\* A process whose directory no other one writes to.
Sole(c) == \A d \in Consumers : OutputDir[d] = OutputDir[c] => d = c

\* The names of its files lie before the name it would choose next.
Fresh ==
    \A f \in DOMAIN files :
        /\ f[3] <= second
        /\ \A c \in Consumers :
              Sole(c) /\ f[1] = OutputDir[c] /\ proc[c].pc # "down" /\ f[3] = second
                 => f[4] < proc[c].seq
NewName ==
    \A c \in Consumers :
        Sole(c) /\ proc[c].pc = "replace" => proc[c].file \notin DOMAIN files

NInv == Fresh /\ NewName

-----------------------------------------------------------------------------
(* Lemmas about the operators of Consumer *)

QueueStates == [Messages -> {"unsent", "visible", "inflight", "deleted"}]

LEMMA DownIsAState == Down \in ProcStates /\ InMemory(Down) = {} /\ SortedBuffers(Down)
<1>1. 0 \in 0..FlushInterval
  BY SettingsAssumption
<1> QED  BY <1>1 DEF Down, ProcStates, InMemory, Buffered, SortedBuffers, NoRow, NoFile

\* The timer counts up to the interval.
LEMMA AgedIsAnAge ==
    ASSUME NEW p \in ProcStates, NEW d \in Nat
    PROVE  Aged(p, d) \in 0..FlushInterval
<1> DEFINE S == {p.age + d, FlushInterval}
<1>1. p.age \in 0..FlushInterval /\ FlushInterval \in Nat
  BY SettingsAssumption DEF ProcStates
<1>2. \E x \in S : \A y \in S : x <= y
  <2>1. CASE p.age + d <= FlushInterval
    BY <1>1, <2>1
  <2>2. CASE ~(p.age + d <= FlushInterval)
    BY <1>1, <2>2
  <2> QED  BY <2>1, <2>2
<1>3. Min(S) \in S /\ \A y \in S : Min(S) <= y
  BY <1>2 DEF Min
<1> QED  BY <1>1, <1>3 DEF Aged

LEMMA StreakIsAStreak ==
    ASSUME NEW n \in 0..2
    PROVE  Min({2, n + 1}) \in 0..2
<1>1. \E x \in {2, n + 1} : \A y \in {2, n + 1} : x <= y
  BY n \in {0, 1, 2}
<1>2. Min({2, n + 1}) \in {2, n + 1} /\ \A y \in {2, n + 1} : Min({2, n + 1}) <= y
  BY <1>1 DEF Min
<1> QED  BY <1>2

\* A delete takes no message back and sends none.
LEMMA DeleteFacts ==
    ASSUME Types, NEW r \in Rows, queue' \in QueuesAfterDelete(r)
    PROVE  /\ queue' \in QueueStates
           /\ \A m \in Messages : queue[m] # "unsent" => queue'[m] # "unsent"
           /\ \A m \in Messages : queue[m] = "deleted" => queue'[m] = "deleted"
           /\ \A m \in Messages : queue'[m] # queue[m] => m = r[1] /\ queue'[m] = "deleted"
BY DEF QueuesAfterDelete, Types, QueueStates, Rows

LEMMA FlushingFacts ==
    ASSUME NEW p \in ProcStates, NEW exiting \in BOOLEAN, p.batch = {}, SortedBuffers(p),
           NEW c, NEW now
    PROVE  LET q == Flushing(p, exiting)
           IN  /\ q \in ProcStates /\ q.pc = "flush" /\ Phase(c, q, now)
               /\ q.batch = {} /\ q.buffers = p.buffers
BY DEF Flushing, ProcStates, Phase

-----------------------------------------------------------------------------
(* Steps *)

LEMMA IInvInit == Init => IInv
<1> SUFFICES ASSUME Init PROVE IInv
  OBVIOUS
<1>1. \A c \in Consumers : proc[c] = Down /\ InMemory(proc[c]) = {} /\ Down.pc = "down" /\ Down.batch = {}
  BY DownIsAState DEF Init, Down
<1>2. Types
  BY DownIsAState DEF Init, Types
<1>3. Phases
  BY <1>1 DEF Phases, Phase
<1>4. Issued /\ Sorted /\ Apart /\ LostInOrder
  BY <1>1, DownIsAState DEF Init, Issued, Sorted, Apart, LostInOrder
<1> QED  BY <1>2, <1>3, <1>4 DEF IInv

\* A step of one process that makes no row and writes no file.
LEMMA MemoryStep ==
    ASSUME IInv, NEW c \in Consumers, NEW q \in ProcStates,
           proc' = [proc EXCEPT ![c] = q], UNCHANGED <<receives, files>>,
           second' \in Nat, second' >= second, Phase(c, q, second'),
           InMemory(q) \subseteq InMemory(proc[c]), q.batch \cap Buffered(q) = {}, SortedBuffers(q),
           queue' \in QueueStates,
           \A m \in Messages : queue[m] # "unsent" => queue'[m] # "unsent",
           \A m \in Messages : queue[m] = "deleted" => queue'[m] = "deleted",
           lost' \subseteq Messages, \A m \in lost' \ lost : m \in Good /\ queue'[m] = "deleted"
    PROVE  IInv'
<1>1. /\ proc'[c] = q /\ \A d \in Consumers : d # c => proc'[d] = proc[d]
      /\ \A d \in Consumers : InMemory(proc'[d]) \subseteq InMemory(proc[d])
  BY DEF IInv, Types
<1>2. Types'
  BY DEF IInv, Types, QueueStates
<1>3. Phases'
  <2>1. ASSUME NEW d \in Consumers, d # c PROVE Phase(d, proc'[d], second')
    <3>1. Phase(d, proc[d], second)
      BY DEF IInv, Phases
    <3>2. proc[d].pc = "replace" => proc[d].file[3] \in Nat /\ second \in Nat
      BY <3>1 DEF Phase, FileNames, IInv, Types
    <3> QED  BY <1>1, <2>1, <3>1, <3>2 DEF Phase
  <2> QED  BY <1>1, <2>1 DEF Phases
<1>4. \A r \in Rows : WasIssued(r) => WasIssued(r)'
  BY DEF WasIssued, Rows
<1>5. /\ \A d \in Consumers : InMemory(proc[d]) \subseteq Rows
      /\ \A f \in DOMAIN files : files[f] \subseteq Rows
  BY DEF IInv, Types, ProcStates, InMemory, Buffered
<1>6. Issued'
  BY <1>1, <1>4, <1>5 DEF IInv, Issued
<1>7. Sorted'
  BY <1>1 DEF IInv, Sorted, SortedBuffers
<1>8. Apart'
  BY <1>1 DEF IInv, Apart
<1>9. LostInOrder'
  BY DEF IInv, LostInOrder, Types
<1> QED  BY <1>2, <1>3, <1>6, <1>7, <1>8, <1>9 DEF IInv

\* What the invariant says of one process.
LEMMA ProcFacts ==
    ASSUME IInv, NEW c \in Consumers
    PROVE  /\ proc[c] \in ProcStates /\ Phase(c, proc[c], second) /\ SortedBuffers(proc[c])
           /\ proc[c].batch \cap Buffered(proc[c]) = {}
           /\ queue \in QueueStates /\ second \in Nat /\ lost \subseteq Messages
BY DEF IInv, Types, Phases, Sorted, Apart, QueueStates

\* Steps that only move the program counter, or forget memory.
LEMMA ControlStep ==
    ASSUME IInv, NEW c \in Consumers, NEW q \in ProcStates,
           Local(c, q), UNCHANGED <<queue, receives, files>>,
           Phase(c, q, second), q.batch = {} \/ q.batch = proc[c].batch,
           q.buffers = proc[c].buffers \/ q = Down
    PROVE  IInv'
<1>1. InMemory(q) \subseteq InMemory(proc[c]) /\ q.batch \cap Buffered(q) = {} /\ SortedBuffers(q)
  BY ProcFacts, DownIsAState DEF InMemory, Buffered, SortedBuffers
<1>2. second' = second /\ second \in Nat /\ queue' = queue /\ queue' \in QueueStates
  BY ProcFacts DEF Local
<1>3. lost' = lost /\ lost' \subseteq Messages
  BY ProcFacts DEF Local
<1>4. second' >= second /\ Phase(c, q, second')
  BY <1>2
<1> QED  BY <1>1, <1>2, <1>3, <1>4, MemoryStep DEF Local

LEMMA ReceiveNothingStep ==
    ASSUME IInv, NEW c \in Consumers, ReceiveNothing(c)
    PROVE  IInv'
<1> DEFINE p == [proc[c] EXCEPT !.streak = Min({2, proc[c].streak + 1}),
                                !.age = Aged(proc[c], WaitTime)]
           q == IF UntilEmpty /\ p.streak >= 2 THEN Flushing(p, TRUE)
                                               ELSE [p EXCEPT !.pc = "maybe_flush"]
<1>1. proc[c] \in ProcStates /\ proc[c].streak \in 0..2 /\ Phase(c, proc[c], second)
      /\ SortedBuffers(proc[c])
  BY ProcFacts DEF ProcStates
<1>2. p \in ProcStates /\ p.batch = {} /\ p.buffers = proc[c].buffers
  BY <1>1, AgedIsAnAge, StreakIsAStreak, SettingsAssumption DEF ProcStates, ReceiveNothing, Phase
<1>3. SortedBuffers(p)
  BY <1>1, <1>2 DEF SortedBuffers
<1>4. q \in ProcStates /\ q.batch = {} /\ q.buffers = proc[c].buffers /\ Phase(c, q, second)
  <2>1. CASE UntilEmpty /\ p.streak >= 2
    <3>1. q = Flushing(p, TRUE)
      BY <2>1
    <3> HIDE DEF p, q
    <3> QED  BY <1>2, <1>3, <3>1, FlushingFacts
  <2>2. CASE ~(UntilEmpty /\ p.streak >= 2)
    <3>1. q = [p EXCEPT !.pc = "maybe_flush"]
      BY <2>2
    <3> HIDE DEF p, q
    <3> QED  BY <1>2, <3>1 DEF ProcStates, Phase
  <2> QED  BY <2>1, <2>2
<1>5. Local(c, q) /\ UNCHANGED <<queue, receives, files>>
  BY DEF ReceiveNothing
<1> HIDE DEF q
<1> QED  BY <1>4, <1>5, ControlStep

LEMMA LoopSteps ==
    ASSUME IInv, NEW c \in Consumers,
           LeaveLoop(c) \/ BatchDone(c) \/ MaybeFlush(c) \/ FlushDone(c)
    PROVE  IInv'
<1>1. proc[c] \in ProcStates /\ Phase(c, proc[c], second) /\ SortedBuffers(proc[c])
  BY ProcFacts
<1>2. CASE LeaveLoop(c)
  <2>1. proc[c].batch = {}
    BY <1>1, <1>2 DEF LeaveLoop, Phase
  <2> QED  BY <1>1, <1>2, <2>1, FlushingFacts, ControlStep DEF LeaveLoop
<1>3. CASE BatchDone(c)
  <2> DEFINE q == [proc[c] EXCEPT !.pc = "maybe_flush"]
  <2>1. q \in ProcStates /\ Phase(c, q, second) /\ q.batch = {} /\ q.buffers = proc[c].buffers
    BY <1>1, <1>3 DEF ProcStates, Phase, BatchDone
  <2> QED  BY <1>3, <2>1, ControlStep DEF BatchDone
<1>4. CASE MaybeFlush(c)
  <2>1. proc[c].batch = {}
    BY <1>1, <1>4 DEF MaybeFlush, Phase
  <2>2. CASE Local(c, Flushing(proc[c], FALSE))
    BY <1>1, <1>4, <2>1, <2>2, FlushingFacts, ControlStep DEF MaybeFlush
  <2>3. CASE Local(c, [proc[c] EXCEPT !.pc = "loop"])
    <3> DEFINE q == [proc[c] EXCEPT !.pc = "loop"]
    <3>1. q \in ProcStates /\ Phase(c, q, second) /\ q.batch = {} /\ q.buffers = proc[c].buffers
      BY <1>1, <2>1 DEF ProcStates, Phase
    <3> QED  BY <1>4, <2>3, <3>1, ControlStep DEF MaybeFlush
  <2> QED  BY <1>4, <2>2, <2>3 DEF MaybeFlush
<1>5. CASE FlushDone(c)
  <2>1. proc[c].batch = {}
    BY <1>1, <1>5 DEF FlushDone, Phase
  <2>2. CASE Local(c, Down)
    <3>1. Phase(c, Down, second) /\ Down.batch = {}
      BY DEF Phase, Down
    <3> QED  BY <1>5, <2>2, <3>1, DownIsAState, ControlStep DEF FlushDone
  <2>3. CASE Local(c, [proc[c] EXCEPT !.pc = "loop", !.age = 0, !.pending = {}])
    <3> DEFINE q == [proc[c] EXCEPT !.pc = "loop", !.age = 0, !.pending = {}]
    <3>1. 0 \in 0..FlushInterval
      BY SettingsAssumption
    <3>2. q \in ProcStates /\ q.pc = "loop" /\ q.batch = {} /\ q.buffers = proc[c].buffers
      BY <1>1, <2>1, <3>1 DEF ProcStates
    <3>3. Local(c, q)
      BY <2>3
    <3> HIDE DEF q
    <3>4. Phase(c, q, second)
      BY <3>2 DEF Phase
    <3> QED  BY <1>5, <3>2, <3>3, <3>4, ControlStep DEF FlushDone
  <2> QED  BY <1>5, <2>2, <2>3 DEF FlushDone
<1> QED  BY <1>2, <1>3, <1>4, <1>5

LEMMA WriteTemporaryStep ==
    ASSUME IInv, NEW c \in Consumers, WriteTemporary(c)
    PROVE  IInv'
<1>1. proc[c] \in ProcStates /\ Phase(c, proc[c], second) /\ second \in Nat
  BY ProcFacts
<1>2. PICK e \in proc[c].pending :
         Local(c, [proc[c] EXCEPT !.pc = "replace", !.seq = @ + 1,
                                  !.file = <<OutputDir[c], e, second, proc[c].seq>>])
  BY DEF WriteTemporary
<1> DEFINE name == <<OutputDir[c], e, second, proc[c].seq>>
           q == [proc[c] EXCEPT !.pc = "replace", !.seq = @ + 1, !.file = name]
<1>3. name \in FileNames
  BY <1>1, OutputDirAssumption DEF FileNames, ProcStates, Range
<1> HIDE DEF name
<1>4. /\ q \in ProcStates /\ q.pc = "replace" /\ q.batch = proc[c].batch
      /\ q.buffers = proc[c].buffers /\ q.pending = proc[c].pending
      /\ q.file = name /\ q.seq = proc[c].seq + 1
  <2>1. proc[c].seq + 1 \in Nat \ {0}
    BY <1>1 DEF ProcStates
  <2>2. q \in ProcStates
    BY <1>1, <1>3, <2>1 DEF ProcStates
  <2> QED  BY <1>1, <2>2 DEF ProcStates
<1>5. Local(c, q)
  BY <1>2 DEF name
<1> HIDE DEF q
<1>6. proc[c].batch = {} /\ \A x \in Events \ proc[c].pending : proc[c].buffers[x] = {}
  BY <1>1 DEF Phase, WriteTemporary
<1>7. name[1] = OutputDir[c] /\ name[2] = e /\ name[3] = second /\ name[4] = proc[c].seq
      /\ proc[c].seq \in Nat
  BY <1>1 DEF name, ProcStates
<1>8. Phase(c, q, second)
  BY <1>1, <1>3, <1>4, <1>6, <1>7 DEF Phase
<1> QED  BY <1>4, <1>5, <1>6, <1>8, ControlStep DEF WriteTemporary

LEMMA AppendStep ==
    ASSUME IInv, NEW c \in Consumers, Append(c)
    PROVE  IInv'
<1>1. /\ proc[c] \in ProcStates /\ Phase(c, proc[c], second) /\ SortedBuffers(proc[c])
      /\ proc[c].batch \cap Buffered(proc[c]) = {}
      /\ queue \in QueueStates /\ second \in Nat /\ lost \subseteq Messages
  BY ProcFacts
<1>2. PICK r \in proc[c].batch :
         /\ EventOf[r[1]] # Poison
         /\ Local(c, [proc[c] EXCEPT !.pc = "delete", !.row = r, !.batch = @ \ {r},
                                     !.buffers[EventOf[r[1]]] = @ \cup {r}])
  BY DEF Append
<1> DEFINE e == EventOf[r[1]]
           q == [proc[c] EXCEPT !.pc = "delete", !.row = r, !.batch = @ \ {r},
                                !.buffers[e] = @ \cup {r}]
<1>3. r \in Rows /\ e \in Events
  BY <1>1, <1>2, EventsAssumption DEF ProcStates, Rows
<1> HIDE DEF e
<1>4. /\ q \in ProcStates /\ q.pc = "delete" /\ q.row = r /\ q.batch = proc[c].batch \ {r}
      /\ q.buffers = [proc[c].buffers EXCEPT ![e] = @ \cup {r}]
  BY <1>1, <1>3 DEF ProcStates
<1> HIDE DEF q
<1>5. proc[c].buffers \in [Events -> SUBSET Rows]
  BY <1>1 DEF ProcStates
<1>6. Buffered(q) = Buffered(proc[c]) \cup {r}
  BY <1>3, <1>4, <1>5 DEF Buffered
<1>7. InMemory(q) \subseteq InMemory(proc[c]) /\ q.batch \cap Buffered(q) = {}
  BY <1>1, <1>2, <1>4, <1>6 DEF InMemory
<1>8. SortedBuffers(q)
  BY <1>1, <1>3, <1>4, <1>5 DEF SortedBuffers, e
<1>9. Phase(c, q, second)
  BY <1>3, <1>4, <1>5 DEF Phase, e
<1>10. proc' = [proc EXCEPT ![c] = q] /\ UNCHANGED <<queue, receives, files, second, lost>>
  BY <1>2 DEF Append, Local, q, e
<1>11. /\ second' \in Nat /\ second' >= second /\ Phase(c, q, second')
       /\ queue' \in QueueStates /\ lost' \subseteq Messages
  BY <1>1, <1>9, <1>10
<1> QED  BY <1>4, <1>7, <1>8, <1>10, <1>11, MemoryStep

LEMMA DeleteSteps ==
    ASSUME IInv, NEW c \in Consumers, DropPoison(c) \/ Delete(c)
    PROVE  IInv'
<1>1. /\ proc[c] \in ProcStates /\ Phase(c, proc[c], second) /\ SortedBuffers(proc[c])
      /\ proc[c].batch \cap Buffered(proc[c]) = {}
      /\ second \in Nat /\ lost \subseteq Messages
  BY ProcFacts
<1>2. ASSUME NEW r \in Rows, queue' \in QueuesAfterDelete(r),
             NEW q \in ProcStates, Local(c, q), UNCHANGED <<receives, files>>,
             q.batch \subseteq proc[c].batch, q.buffers = proc[c].buffers, q.pc = "batch"
      PROVE  IInv'
  <2>1. /\ queue' \in QueueStates
        /\ \A m \in Messages : queue[m] # "unsent" => queue'[m] # "unsent"
        /\ \A m \in Messages : queue[m] = "deleted" => queue'[m] = "deleted"
    BY <1>2, DeleteFacts DEF IInv
  <2>2. InMemory(q) \subseteq InMemory(proc[c]) /\ q.batch \cap Buffered(q) = {} /\ SortedBuffers(q)
    BY <1>1, <1>2 DEF InMemory, Buffered, SortedBuffers
  <2>3. /\ second' \in Nat /\ second' >= second /\ lost' = lost /\ lost' \subseteq Messages
        /\ proc' = [proc EXCEPT ![c] = q]
    BY <1>1, <1>2 DEF Local
  <2>4. Phase(c, q, second')
    BY <1>2 DEF Phase
  <2> QED  BY <1>2, <2>1, <2>2, <2>3, <2>4, MemoryStep
<1>3. CASE DropPoison(c)
  <2>1. PICK r \in proc[c].batch :
           queue' \in QueuesAfterDelete(r) /\ Local(c, [proc[c] EXCEPT !.batch = @ \ {r}])
    BY <1>3 DEF DropPoison
  <2> DEFINE q == [proc[c] EXCEPT !.batch = @ \ {r}]
  <2>2. /\ r \in Rows /\ q \in ProcStates /\ q.pc = "batch"
        /\ q.batch \subseteq proc[c].batch /\ q.buffers = proc[c].buffers
    BY <1>1, <1>3 DEF ProcStates, DropPoison
  <2> QED  BY <1>2, <1>3, <2>1, <2>2 DEF DropPoison
<1>4. CASE Delete(c)
  <2> DEFINE q == [proc[c] EXCEPT !.pc = "batch", !.row = NoRow]
  <2>1. proc[c].row \in Rows
    BY <1>1, <1>4 DEF Phase, Delete
  <2>2. /\ q \in ProcStates /\ q.pc = "batch"
        /\ q.batch = proc[c].batch /\ q.buffers = proc[c].buffers
    BY <1>1 DEF ProcStates
  <2> QED  BY <1>2, <1>4, <2>1, <2>2 DEF Delete
<1> QED  BY <1>3, <1>4

LEMMA StartStep ==
    ASSUME IInv, NEW c \in Consumers, Start(c)
    PROVE  IInv'
<1> DEFINE q == [Down EXCEPT !.pc = "loop"]
<1>1. /\ second \in Nat /\ lost \subseteq Messages /\ queue \in QueueStates
      /\ Phase(c, proc[c], second)
  BY ProcFacts
<1>2. q \in ProcStates /\ q.pc = "loop" /\ q.batch = {} /\ q.buffers = [e \in Events |-> {}]
  BY DownIsAState DEF Down, ProcStates
<1>3. /\ proc' = [proc EXCEPT ![c] = q] /\ second' = second + 1
      /\ UNCHANGED <<queue, receives, files, lost>>
  BY DEF Start
<1> HIDE DEF q
<1>4. InMemory(q) \subseteq InMemory(proc[c]) /\ q.batch \cap Buffered(q) = {} /\ SortedBuffers(q)
  BY <1>2 DEF InMemory, Buffered, SortedBuffers
<1>5. Phase(c, q, second')
  BY <1>2 DEF Phase
<1>6. /\ second' \in Nat /\ second' >= second /\ queue' \in QueueStates /\ lost' \subseteq Messages
  BY <1>1, <1>3
<1> QED  BY <1>2, <1>3, <1>4, <1>5, <1>6, MemoryStep

LEMMA SignalStep ==
    ASSUME IInv, NEW c \in Consumers, Signal(c)
    PROVE  IInv'
<1> DEFINE q == [proc[c] EXCEPT !.stop = TRUE]
<1>1. /\ proc[c] \in ProcStates /\ Phase(c, proc[c], second) /\ SortedBuffers(proc[c])
      /\ proc[c].batch \cap Buffered(proc[c]) = {}
      /\ second \in Nat /\ lost \subseteq Messages /\ queue \in QueueStates
  BY ProcFacts
<1>2. /\ q \in ProcStates /\ q.pc = proc[c].pc /\ q.batch = proc[c].batch /\ q.row = proc[c].row
      /\ q.buffers = proc[c].buffers /\ q.pending = proc[c].pending /\ q.file = proc[c].file
      /\ q.seq = proc[c].seq
  BY <1>1 DEF ProcStates
<1>3. /\ proc' = [proc EXCEPT ![c] = q] /\ proc[c].pc # "down"
      /\ UNCHANGED <<queue, receives, files, second, lost>>
  BY DEF Signal, IInv, Types
<1> HIDE DEF q
<1>4. InMemory(q) \subseteq InMemory(proc[c]) /\ q.batch \cap Buffered(q) = {} /\ SortedBuffers(q)
  BY <1>1, <1>2 DEF InMemory, Buffered, SortedBuffers
<1>5. Phase(c, q, second')
  BY <1>1, <1>2, <1>3 DEF Phase
<1>6. /\ second' \in Nat /\ second' >= second /\ queue' \in QueueStates /\ lost' \subseteq Messages
  BY <1>1, <1>3
<1> QED  BY <1>2, <1>3, <1>4, <1>5, <1>6, MemoryStep

\* What a crash takes with it was made of messages the consumer can decode.
LEMMA CrashStep ==
    ASSUME IInv, NEW c \in Consumers, Crash(c)
    PROVE  IInv'
<1>1. /\ second \in Nat /\ lost \subseteq Messages /\ queue \in QueueStates
      /\ SortedBuffers(proc[c])
  BY ProcFacts
<1>2. /\ proc' = [proc EXCEPT ![c] = Down]
      /\ UNCHANGED <<queue, receives, files, second>>
      /\ lost' = lost \cup {m \in Messages : queue[m] = "deleted" /\
                              \E e \in Events : \E r \in proc[c].buffers[e] : r[1] = m}
  BY DEF Crash
<1>3. Down.batch = {} /\ Phase(c, Down, second')
  BY DEF Down, Phase
<1>4. lost' \subseteq Messages /\ \A m \in lost' \ lost : m \in Good /\ queue'[m] = "deleted"
  BY <1>1, <1>2, EventsAssumption DEF SortedBuffers, Good
<1>5. second' \in Nat /\ second' >= second /\ queue' \in QueueStates
  BY <1>1, <1>2
<1>6. InMemory(Down) \subseteq InMemory(proc[c]) /\ Down.batch \cap Buffered(Down) = {}
  BY <1>3, DownIsAState
<1> QED  BY <1>1, <1>2, <1>3, <1>4, <1>5, <1>6, DownIsAState, MemoryStep

LEMMA QueueSteps ==
    ASSUME IInv, NEW m \in Messages, Send(m) \/ VisibilityExpires(m)
    PROVE  IInv'
<1>1. /\ queue' = [queue EXCEPT ![m] = "visible"] /\ queue[m] \in {"unsent", "inflight"}
      /\ UNCHANGED <<receives, proc, files, second, lost>>
  BY DEF Send, VisibilityExpires
<1>2. Types'
  BY <1>1 DEF IInv, Types
<1>3. Phases' /\ Sorted' /\ Apart'
  BY <1>1 DEF IInv, Phases, Sorted, Apart
<1>4. \A r \in Rows : WasIssued(r) => WasIssued(r)'
  BY <1>1 DEF WasIssued, Rows, IInv, Types
<1>5. /\ \A d \in Consumers : InMemory(proc[d]) \subseteq Rows
      /\ \A f \in DOMAIN files : files[f] \subseteq Rows
  BY DEF IInv, Types, ProcStates, InMemory, Buffered
<1>6. Issued'
  BY <1>1, <1>4, <1>5 DEF IInv, Issued
<1>7. LostInOrder'
  BY <1>1 DEF IInv, LostInOrder, Types
<1> QED  BY <1>2, <1>3, <1>6, <1>7 DEF IInv

\* A receive makes rows that are nowhere yet: it counts on.
LEMMA ReceiveStep ==
    ASSUME IInv, NEW c \in Consumers, Receive(c)
    PROVE  IInv'
<1>1. /\ proc[c] \in ProcStates /\ Phase(c, proc[c], second) /\ SortedBuffers(proc[c])
      /\ queue \in QueueStates /\ receives \in [Messages -> Nat]
  BY ProcFacts DEF IInv, Types
<1>2. PICK ms \in SUBSET Visible, d \in 0..WaitTime :
         /\ queue' = [m \in Messages |-> IF m \in ms THEN "inflight" ELSE queue[m]]
         /\ receives' = [m \in Messages |-> IF m \in ms THEN receives[m] + 1 ELSE receives[m]]
         /\ Local(c, [proc[c] EXCEPT !.pc = "batch", !.streak = 0, !.age = Aged(proc[c], d),
                                     !.batch = {<<m, receives[m] + 1>> : m \in ms}])
  BY DEF Receive
<1> DEFINE new == {<<m, receives[m] + 1>> : m \in ms}
           age == Aged(proc[c], d)
           q == [proc[c] EXCEPT !.pc = "batch", !.streak = 0, !.age = age, !.batch = new]
<1>3. /\ ms \subseteq Messages /\ \A m \in ms : queue[m] = "visible"
      /\ new \subseteq Rows /\ \A r \in new : r[1] \in ms /\ r[2] = receives[r[1]] + 1
  BY <1>1 DEF Visible, Rows
<1>4. age \in 0..FlushInterval
  BY <1>1, AgedIsAnAge, SettingsAssumption
<1> HIDE DEF new, age
<1>5. q \in ProcStates /\ q.pc = "batch" /\ q.batch = new /\ q.buffers = proc[c].buffers
  <2>1. 0 \in 0..2 /\ new \in SUBSET Rows
    BY <1>3
  <2>2. q \in ProcStates
    BY <1>1, <1>4, <2>1 DEF ProcStates
  <2> QED  BY <1>1, <2>2 DEF ProcStates
<1>6. /\ proc' = [proc EXCEPT ![c] = q] /\ UNCHANGED <<second, lost, files>>
  BY <1>2 DEF Receive, Local, new, age
<1> HIDE DEF q
<1>7. proc[c].batch = {} /\ InMemory(q) = InMemory(proc[c]) \cup new
  BY <1>1, <1>5 DEF Phase, Receive, InMemory, Buffered
<1>8. /\ proc'[c] = q /\ \A x \in Consumers : x # c => proc'[x] = proc[x]
      /\ \A x \in Consumers : InMemory(proc'[x]) \subseteq InMemory(proc[x]) \cup new
      /\ \A x \in Consumers : x # c => InMemory(proc'[x]) = InMemory(proc[x])
  BY <1>6, <1>7 DEF IInv, Types
<1>9. /\ \A x \in Consumers : InMemory(proc[x]) \subseteq Rows
      /\ \A f \in DOMAIN files : files[f] \subseteq Rows
  BY DEF IInv, Types, ProcStates, InMemory, Buffered
<1>10. \A r \in Rows : WasIssued(r) => r \notin new
  BY <1>1, <1>3 DEF WasIssued, Rows
<1>11. /\ \A x \in Consumers : InMemory(proc[x]) \cap new = {}
       /\ \A f \in DOMAIN files : files[f] \cap new = {}
  BY <1>9, <1>10 DEF IInv, Issued
<1>12. Types'
  BY <1>1, <1>2, <1>5, <1>6 DEF IInv, Types, QueueStates
<1>13. Phases'
  <2>1. Phase(c, q, second)
    BY <1>5 DEF Phase
  <2>2. \A x \in Consumers : Phase(x, proc'[x], second)
    BY <1>8, <2>1 DEF IInv, Phases
  <2> QED  BY <1>6, <2>2 DEF Phases
<1>14. Issued'
  <2>1. \A r \in Rows : WasIssued(r) => WasIssued(r)'
    BY <1>1, <1>2 DEF WasIssued, Rows
  <2>2. \A r \in new : WasIssued(r)'
    <3> SUFFICES ASSUME NEW r \in new PROVE WasIssued(r)'
      OBVIOUS
    <3>1. r[1] \in Messages /\ receives'[r[1]] = receives[r[1]] + 1 /\ queue'[r[1]] = "inflight"
      BY <1>2, <1>3
    <3>2. r[2] = receives'[r[1]] /\ receives'[r[1]] \in Nat
      BY <1>1, <1>3, <3>1
    <3> QED  BY <3>1, <3>2 DEF WasIssued
  <2> QED  BY <1>6, <1>8, <1>9, <2>1, <2>2 DEF IInv, Issued
<1>15. Sorted'
  BY <1>1, <1>5, <1>6, <1>8 DEF IInv, Sorted, SortedBuffers
<1>16. Apart'
  <2>1. Buffered(q) = Buffered(proc[c]) /\ Buffered(q) \cap new = {}
    BY <1>5, <1>11 DEF Buffered, InMemory
  <2>2. \A x \in Consumers : proc'[x].batch \cap Buffered(proc'[x]) = {}
    BY <1>5, <1>8, <2>1 DEF IInv, Apart
  <2>3. \A x, y \in Consumers : x # y => InMemory(proc'[x]) \cap InMemory(proc'[y]) = {}
    BY <1>8, <1>11 DEF IInv, Apart
  <2>4. \A x \in Consumers : \A f \in DOMAIN files : InMemory(proc'[x]) \cap files[f] = {}
    BY <1>8, <1>11 DEF IInv, Apart
  <2> QED  BY <1>6, <2>2, <2>3, <2>4 DEF IInv, Apart
<1>17. LostInOrder'
  BY <1>2, <1>3, <1>6 DEF IInv, LostInOrder, Types
<1> QED  BY <1>12, <1>13, <1>14, <1>15, <1>16, <1>17 DEF IInv

\* The parts of a replace.
LEMMA ReplaceFacts ==
    ASSUME IInv, NEW c \in Consumers, Replace(c)
    PROVE  LET name == proc[c].file
               e == name[2]
               rows == proc[c].buffers[e]
           IN  /\ name \in FileNames /\ e \in Events /\ rows \subseteq Rows
               /\ rows \subseteq InMemory(proc[c])
               /\ \A r \in rows : EventOf[r[1]] = e
               /\ DOMAIN files' = DOMAIN files \cup {name} /\ files'[name] = rows
               /\ \A f \in DOMAIN files : f # name => files'[f] = files[f]
               /\ proc'[c] \in ProcStates /\ proc'[c].pc = "flush" /\ proc'[c].batch = {}
               /\ proc'[c].seq = proc[c].seq
               /\ InMemory(proc'[c]) = InMemory(proc[c]) \ rows
               /\ SortedBuffers(proc'[c])
               /\ proc'[c].buffers = [proc[c].buffers EXCEPT ![e] = {}]
               /\ proc'[c].pending = proc[c].pending \ {e}
               /\ \A d \in Consumers : d # c => proc'[d] = proc[d]
               /\ proc' \in [Consumers -> ProcStates]
               /\ UNCHANGED <<queue, receives, second, lost>>
<1> DEFINE name == proc[c].file
           e == name[2]
           rows == proc[c].buffers[e]
           q == [proc[c] EXCEPT !.pc = "flush", !.buffers[e] = {}, !.file = NoFile,
                                !.pending = @ \ {e}]
<1>1. /\ proc[c] \in ProcStates /\ Phase(c, proc[c], second) /\ SortedBuffers(proc[c])
      /\ proc \in [Consumers -> ProcStates]
  BY ProcFacts DEF IInv, Types
<1>2. /\ name \in FileNames /\ e \in proc[c].pending /\ e \in Events /\ proc[c].batch = {}
      /\ proc[c].buffers \in [Events -> SUBSET Rows]
  BY <1>1 DEF Replace, Phase, ProcStates
<1>3. /\ files' = [f \in DOMAIN files \cup {name} |-> IF f = name THEN rows ELSE files[f]]
      /\ proc' = [proc EXCEPT ![c] = q] /\ UNCHANGED <<queue, receives, second, lost>>
  BY DEF Replace, Local
<1> HIDE DEF name, e
<1>4. /\ q \in ProcStates /\ q.pc = "flush" /\ q.batch = {} /\ q.seq = proc[c].seq
      /\ q.buffers = [proc[c].buffers EXCEPT ![e] = {}] /\ q.pending = proc[c].pending \ {e}
  BY <1>1, <1>2 DEF ProcStates
<1> HIDE DEF q
<1>5. \A x, y \in Events : \A r \in proc[c].buffers[x] : r \in proc[c].buffers[y] => x = y
  BY <1>1 DEF SortedBuffers
<1>6. Buffered(q) = Buffered(proc[c]) \ rows /\ rows \subseteq Buffered(proc[c])
  BY <1>2, <1>4, <1>5 DEF Buffered
<1>7. SortedBuffers(q) /\ \A r \in rows : EventOf[r[1]] = e
  BY <1>1, <1>2, <1>4 DEF SortedBuffers
<1>8. /\ proc'[c] = q /\ \A d \in Consumers : d # c => proc'[d] = proc[d]
      /\ proc' \in [Consumers -> ProcStates]
  BY <1>1, <1>3, <1>4
<1>9. InMemory(q) = InMemory(proc[c]) \ rows /\ rows \subseteq InMemory(proc[c])
  BY <1>2, <1>4, <1>6 DEF InMemory
<1>10. rows \subseteq Rows
  BY <1>2
<1>11. /\ DOMAIN files' = DOMAIN files \cup {name} /\ files'[name] = rows
       /\ \A f \in DOMAIN files : f # name => files'[f] = files[f]
  BY <1>3
<1> QED  BY <1>2, <1>3, <1>4, <1>7, <1>8, <1>9, <1>10, <1>11 DEF name, e

LEMMA ReplaceStep ==
    ASSUME IInv, NEW c \in Consumers, Replace(c)
    PROVE  IInv'
<1> DEFINE name == proc[c].file
           e == name[2]
           rows == proc[c].buffers[e]
<1>1. /\ name \in FileNames /\ rows \subseteq Rows /\ rows \subseteq InMemory(proc[c])
      /\ \A r \in rows : EventOf[r[1]] = name[2]
      /\ DOMAIN files' = DOMAIN files \cup {name} /\ files'[name] = rows
      /\ \A f \in DOMAIN files : f # name => files'[f] = files[f]
      /\ proc'[c] \in ProcStates /\ proc'[c].pc = "flush" /\ proc'[c].batch = {}
      /\ InMemory(proc'[c]) = InMemory(proc[c]) \ rows
      /\ SortedBuffers(proc'[c])
      /\ proc'[c].buffers = [proc[c].buffers EXCEPT ![name[2]] = {}]
      /\ proc'[c].pending = proc[c].pending \ {name[2]}
      /\ \A d \in Consumers : d # c => proc'[d] = proc[d]
      /\ proc' \in [Consumers -> ProcStates]
      /\ UNCHANGED <<queue, receives, second, lost>>
  BY ReplaceFacts
<1>2. /\ proc[c] \in ProcStates /\ Phase(c, proc[c], second) /\ SortedBuffers(proc[c])
  BY ProcFacts
<1>3. \A x \in Events \ proc'[c].pending : proc'[c].buffers[x] = {}
  <2>1. proc[c].pc = "replace"
    BY DEF Replace
  <2>2. \A x \in Events \ proc[c].pending : proc[c].buffers[x] = {}
    BY <1>2, <2>1 DEF Phase
  <2>3. proc[c].buffers \in [Events -> SUBSET Rows]
    BY <1>2 DEF ProcStates
  <2> HIDE DEF name
  <2>4. \A x \in Events : proc'[c].buffers[x] = IF x = name[2] THEN {} ELSE proc[c].buffers[x]
    BY <1>1, <2>3
  <2> QED  BY <1>1, <2>2, <2>4
<1> HIDE DEF name, rows
<1>4. \A f \in DOMAIN files' : f = name \/ (f \in DOMAIN files /\ files'[f] = files[f])
  BY <1>1
<1>5. Types'
  BY <1>1, <1>4 DEF IInv, Types
<1>6. Phases'
  <2>1. Phase(c, proc'[c], second)
    BY <1>1, <1>3 DEF Phase
  <2>2. \A x \in Consumers : Phase(x, proc'[x], second)
    BY <1>1, <2>1 DEF IInv, Phases
  <2> QED  BY <1>1, <2>2 DEF Phases
<1>7. Issued'
  <2>1. \A r : WasIssued(r)' <=> WasIssued(r)
    BY <1>1 DEF WasIssued
  <2>2. \A d \in Consumers : \A r \in InMemory(proc'[d]) : WasIssued(r)
    BY <1>1 DEF IInv, Issued
  <2>3. \A f \in DOMAIN files' : \A r \in files'[f] : WasIssued(r)
    BY <1>1, <1>4 DEF IInv, Issued
  <2> QED  BY <2>1, <2>2, <2>3 DEF Issued
<1>8. Sorted'
  BY <1>1, <1>4 DEF IInv, Sorted
<1>9. Apart'
  <2>1. proc'[c].batch \cap Buffered(proc'[c]) = {}
    BY <1>1
  <2>2. \A x \in Consumers : InMemory(proc'[x]) \subseteq InMemory(proc[x])
    BY <1>1
  <2>3. \A x \in Consumers : InMemory(proc'[x]) \cap rows = {}
    BY <1>1 DEF IInv, Apart
  <2>4. \A f \in DOMAIN files : files[f] \cap rows = {}
    BY <1>1 DEF IInv, Apart
  <2>5. \A x \in Consumers : proc'[x].batch \cap Buffered(proc'[x]) = {}
    BY <1>1, <2>1 DEF IInv, Apart
  <2>6. \A x, y \in Consumers : x # y => InMemory(proc'[x]) \cap InMemory(proc'[y]) = {}
    BY <2>2 DEF IInv, Apart
  <2>7. \A x \in Consumers : \A f \in DOMAIN files' : InMemory(proc'[x]) \cap files'[f] = {}
    BY <1>1, <1>4, <2>2, <2>3 DEF IInv, Apart
  <2>8. \A f, g \in DOMAIN files' : f # g => files'[f] \cap files'[g] = {}
    BY <1>1, <1>4, <2>4 DEF IInv, Apart
  <2> QED  BY <2>5, <2>6, <2>7, <2>8 DEF Apart
<1>10. LostInOrder'
  BY <1>1 DEF IInv, LostInOrder
<1> QED  BY <1>5, <1>6, <1>7, <1>8, <1>9, <1>10 DEF IInv

LEMMA IInvNext ==
    ASSUME IInv, [Next]_vars
    PROVE  IInv'
<1>1. CASE UNCHANGED vars
  BY <1>1 DEF vars, IInv, Types, Phases, Phase, Issued, WasIssued, Sorted, Apart, LostInOrder
<1>2. CASE \E m \in Messages : Send(m) \/ VisibilityExpires(m)
  BY <1>2, QueueSteps
<1>3. ASSUME NEW c \in Consumers, Step(c) PROVE IInv'
  BY <1>3, ReceiveStep, ReceiveNothingStep, LoopSteps, DeleteSteps, AppendStep,
     WriteTemporaryStep, ReplaceStep DEF Step
<1>4. CASE \E c \in Consumers : Start(c) \/ Signal(c) \/ Crash(c)
  BY <1>4, StartStep, SignalStep, CrashStep
<1> QED  BY <1>1, <1>2, <1>3, <1>4 DEF Next

LEMMA InOrder == Spec => []IInv
<1> QED  BY IInvInit, IInvNext, PTL DEF Spec

-----------------------------------------------------------------------------
(* Types and places *)

\* The consumer's types.
THEOREM TypeCorrect == Spec => []TypeOK
<1>1. ASSUME NEW p \in ProcStates PROVE DOMAIN p = DOMAIN Down
  BY <1>1 DEF ProcStates, Down
<1>2. IInv => TypeOK
  BY <1>1 DEF IInv, Types, TypeOK, ProcStates, FileNames
<1> QED  BY <1>2, InOrder, PTL

\* Each delivery of a message ends up in one file at most, and is never in a
\* file and still in memory (sink.py:43-44).
THEOREM EachReceiveOnce == Spec => []OneRowPerReceive
<1>1. IInv => OneRowPerReceive
  BY DEF IInv, Apart, OneRowPerReceive, StoredRows, InMemory
<1> QED  BY <1>1, InOrder, PTL

-----------------------------------------------------------------------------
(* The names of files *)

\* Steps of a process that choose no name and put no file in place.
Quiet(c) ==
    \/ Receive(c) \/ ReceiveNothing(c) \/ LeaveLoop(c) \/ DropPoison(c) \/ Append(c)
    \/ Delete(c) \/ BatchDone(c) \/ MaybeFlush(c) \/ FlushDone(c) \/ Signal(c) \/ Crash(c)

LEMMA QuietFacts ==
    ASSUME IInv, NEW c \in Consumers, Quiet(c)
    PROVE  /\ UNCHANGED <<files, second>> /\ \A d \in Consumers : d # c => proc'[d] = proc[d]
           /\ \/ proc'[c].pc = "down"
              \/ /\ proc[c].pc # "down" /\ proc'[c].seq = proc[c].seq
                 /\ proc'[c].pc = "replace" => proc[c].pc = "replace" /\ proc'[c].file = proc[c].file
<1>1. proc[c] \in ProcStates /\ proc \in [Consumers -> ProcStates]
  BY DEF IInv, Types
<1>2. CASE Receive(c)
  BY <1>1, <1>2 DEF Receive, Local, ProcStates
<1>3. CASE ReceiveNothing(c)
  BY <1>1, <1>3 DEF ReceiveNothing, Local, Flushing, ProcStates
<1>4. CASE LeaveLoop(c)
  BY <1>1, <1>4 DEF LeaveLoop, Local, Flushing, ProcStates
<1>5. CASE DropPoison(c)
  BY <1>1, <1>5 DEF DropPoison, Local, ProcStates
<1>6. CASE Append(c)
  BY <1>1, <1>6 DEF Append, Local, ProcStates
<1>7. CASE Delete(c)
  BY <1>1, <1>7 DEF Delete, Local, ProcStates
<1>8. CASE BatchDone(c)
  BY <1>1, <1>8 DEF BatchDone, Local, ProcStates
<1>9. CASE MaybeFlush(c)
  BY <1>1, <1>9 DEF MaybeFlush, Local, Flushing, ProcStates
<1>10. CASE FlushDone(c)
  <2>1. CASE proc[c].exiting
    BY <1>1, <1>10, <2>1 DEF FlushDone, Local, Down
  <2>2. CASE ~proc[c].exiting
    BY <1>1, <1>10, <2>2 DEF FlushDone, Local, ProcStates
  <2> QED  BY <2>1, <2>2
<1>11. CASE Signal(c)
  BY <1>1, <1>11 DEF Signal, ProcStates
<1>12. CASE Crash(c)
  BY <1>1, <1>12 DEF Crash, Down
<1> QED  BY <1>2, <1>3, <1>4, <1>5, <1>6, <1>7, <1>8, <1>9, <1>10, <1>11, <1>12 DEF Quiet

\* A summary of Next for what looks at names and files.
LEMMA NextCases ==
    ASSUME IInv, [Next]_vars
    PROVE  \/ UNCHANGED <<proc, files, second>>
           \/ \E c \in Consumers : Quiet(c) \/ WriteTemporary(c) \/ Replace(c) \/ Start(c)
BY DEF Next, vars, Step, Quiet, Send, VisibilityExpires

LEMMA WriteTemporaryFacts ==
    ASSUME IInv, NEW c \in Consumers, WriteTemporary(c)
    PROVE  /\ UNCHANGED <<queue, receives, files, second, lost>>
           /\ \A d \in Consumers : d # c => proc'[d] = proc[d]
           /\ proc[c].pc # "down" /\ proc[c].seq \in Nat
           /\ proc'[c].pc = "replace" /\ proc'[c].seq = proc[c].seq + 1
           /\ proc'[c].buffers = proc[c].buffers /\ proc'[c].batch = proc[c].batch
           /\ \E e \in Events : proc'[c].file = <<OutputDir[c], e, second, proc[c].seq>>
<1>1. proc[c] \in ProcStates /\ proc \in [Consumers -> ProcStates]
  BY DEF IInv, Types
<1> QED  BY <1>1 DEF WriteTemporary, Local, ProcStates

LEMMA NInvNext ==
    ASSUME IInv, NInv, [Next]_vars
    PROVE  NInv'
<1>1. CASE UNCHANGED <<proc, files, second>>
  BY <1>1 DEF NInv, Fresh, NewName
<1>2. ASSUME NEW c \in Consumers, Quiet(c) PROVE NInv'
  <2>1. /\ UNCHANGED <<files, second>> /\ \A d \in Consumers : d # c => proc'[d] = proc[d]
        /\ \/ proc'[c].pc = "down"
           \/ /\ proc[c].pc # "down" /\ proc'[c].seq = proc[c].seq
              /\ proc'[c].pc = "replace" => proc[c].pc = "replace" /\ proc'[c].file = proc[c].file
    BY <1>2, QuietFacts
  <2>2. Fresh'
    BY <2>1 DEF NInv, Fresh
  <2>3. NewName'
    BY <2>1 DEF NInv, NewName
  <2> QED  BY <2>2, <2>3 DEF NInv
<1>3. ASSUME NEW c \in Consumers, WriteTemporary(c) PROVE NInv'
  <2>1. PICK e \in Events :
           /\ UNCHANGED <<files, second>> /\ \A d \in Consumers : d # c => proc'[d] = proc[d]
           /\ proc[c].pc # "down" /\ proc[c].seq \in Nat
           /\ proc'[c].pc = "replace" /\ proc'[c].seq = proc[c].seq + 1
           /\ proc'[c].file = <<OutputDir[c], e, second, proc[c].seq>>
    BY <1>3, WriteTemporaryFacts
  <2>2. \A f \in DOMAIN files : f[4] \in Nat
    BY DEF IInv, Types, FileNames
  <2>3. Fresh'
    BY <2>1, <2>2 DEF NInv, Fresh
  <2>4. Sole(c) => proc'[c].file \notin DOMAIN files
    BY <2>1 DEF NInv, Fresh
  <2>5. NewName'
    BY <2>1, <2>4 DEF NInv, NewName
  <2> QED  BY <2>3, <2>5 DEF NInv
<1>4. ASSUME NEW c \in Consumers, Replace(c) PROVE NInv'
  <2>1. /\ DOMAIN files' = DOMAIN files \cup {proc[c].file}
        /\ proc'[c].pc = "flush" /\ proc'[c].seq = proc[c].seq
        /\ \A d \in Consumers : d # c => proc'[d] = proc[d]
        /\ second' = second
    BY <1>4, ReplaceFacts
  <2>2. /\ proc[c].pc = "replace" /\ proc[c].file[1] = OutputDir[c]
        /\ proc[c].file[3] <= second /\ proc[c].file[4] < proc[c].seq
    BY <1>4, ProcFacts DEF Replace, Phase
  <2>3. Fresh'
    <3> SUFFICES ASSUME NEW f \in DOMAIN files'
                 PROVE  /\ f[3] <= second
                        /\ \A d \in Consumers :
                              Sole(d) /\ f[1] = OutputDir[d] /\ proc'[d].pc # "down"
                                 /\ f[3] = second
                                 => f[4] < proc'[d].seq
      BY <2>1 DEF Fresh
    <3>1. CASE f = proc[c].file
      BY <2>1, <2>2, <3>1 DEF Sole
    <3>2. CASE f \in DOMAIN files
      BY <2>1, <2>2, <3>2 DEF NInv, Fresh
    <3> QED  BY <2>1, <3>1, <3>2
  <2>4. \A d \in Consumers : proc'[d].pc = "replace" => proc'[d].file[1] = OutputDir[d] /\ d # c
    BY <2>1, ProcFacts DEF Phase
  <2>5. NewName'
    BY <2>1, <2>2, <2>4 DEF NInv, NewName, Sole
  <2> QED  BY <2>3, <2>5 DEF NInv
<1>5. ASSUME NEW c \in Consumers, Start(c) PROVE NInv'
  <2>1. /\ second' = second + 1 /\ files' = files /\ second \in Nat
        /\ \A d \in Consumers : d # c => proc'[d] = proc[d]
        /\ proc'[c].pc = "loop"
    BY <1>5 DEF Start, IInv, Types, Down
  <2>2. \A f \in DOMAIN files : f[3] \in Nat /\ f[3] <= second
    BY DEF IInv, Types, FileNames, NInv, Fresh
  <2>3. Fresh'
    BY <2>1, <2>2 DEF Fresh
  <2>4. NewName'
    BY <2>1 DEF NInv, NewName
  <2> QED  BY <2>3, <2>4 DEF NInv
<1> QED  BY <1>1, <1>2, <1>3, <1>4, <1>5, NextCases

LEMMA NamesInOrder == Spec => []NInv
<1>1. Init => NInv
  BY DEF Init, NInv, Fresh, NewName, Down
<1>2. IInv /\ NInv /\ [Next]_vars => NInv'
  BY NInvNext
<1> QED  BY <1>1, <1>2, InOrder, PTL DEF Spec

\* The names of the files never collide while no two processes share a
\* directory, whatever dies and is started again (sink.py:49-55).
THEOREM OwnNamesDoNotCollide ==
    ASSUME OwnDirectories
    PROVE  Spec => []NamesDoNotCollide
<1>1. NInv => NamesDoNotCollide
  BY DEF NInv, NewName, OwnDirectories, Sole, NamesDoNotCollide
<1> QED  BY <1>1, NamesInOrder, PTL

\* A replace adds its rows to what is stored, and takes nothing away.
LEMMA ReplaceStores ==
    ASSUME OwnDirectories, IInv, NInv, NEW c \in Consumers, Replace(c)
    PROVE  StoredRows' = StoredRows \cup proc[c].buffers[proc[c].file[2]]
<1> DEFINE name == proc[c].file
           rows == proc[c].buffers[name[2]]
<1>1. /\ DOMAIN files' = DOMAIN files \cup {name} /\ files'[name] = rows
      /\ \A f \in DOMAIN files : f # name => files'[f] = files[f]
  BY ReplaceFacts
<1>2. name \notin DOMAIN files
  BY DEF Replace, NInv, NewName, OwnDirectories, Sole
<1> HIDE DEF name, rows
<1>3. StoredRows' = StoredRows \cup rows
  BY <1>1, <1>2 DEF StoredRows
<1> QED  BY <1>3 DEF rows, name

LEMMA OnlyReplaceStores ==
    ASSUME IInv, [Next]_vars
    PROVE  \/ UNCHANGED files
           \/ \E c \in Consumers : Replace(c)
BY NextCases, QuietFacts, WriteTemporaryFacts DEF Start

Shared(dir) == \E c, d \in Consumers : c # d /\ OutputDir[c] = dir /\ OutputDir[d] = dir

KeepsFiles ==
    \A f \in DOMAIN files : Shared(f[1]) \/ (f \in DOMAIN files' /\ files'[f] = files[f])

\* A file is replaced by nobody but a process that shares its directory with
\* another one, however many there are and whatever dies (sink.py:49-55).
THEOREM OnlySharedDirectoriesLose == Spec => [][KeepsFiles]_vars
<1>1. ASSUME IInv, NInv, NEW c \in Consumers, Replace(c) PROVE KeepsFiles
  <2>1. /\ DOMAIN files' = DOMAIN files \cup {proc[c].file}
        /\ \A f \in DOMAIN files : f # proc[c].file => files'[f] = files[f]
    BY <1>1, ReplaceFacts
  <2>2. proc[c].pc = "replace" /\ proc[c].file[1] = OutputDir[c]
    BY <1>1, ProcFacts DEF Replace, Phase
  <2>3. proc[c].file \in DOMAIN files => ~Sole(c)
    BY <1>1, <2>2 DEF NInv, NewName
  <2>4. ~Sole(c) => Shared(OutputDir[c])
    BY DEF Sole, Shared
  <2> QED  BY <2>1, <2>2, <2>3, <2>4 DEF KeepsFiles
<1>2. IInv /\ NInv /\ [Next]_vars => KeepsFiles
  BY <1>1, OnlyReplaceStores DEF KeepsFiles
<1>3. IInv /\ NInv /\ [Next]_vars => [KeepsFiles]_vars
  BY <1>2
<1> QED  BY <1>3, InOrder, NamesInOrder, PTL DEF Spec

\* What is in a file stays in one, while no two processes share a directory
\* (sink.py:49-55).
THEOREM StoredStays ==
    ASSUME OwnDirectories
    PROVE  Spec => StoredForGood
<1>1. IInv /\ NInv /\ [Next]_vars => StoredRows \subseteq StoredRows'
  BY OnlyReplaceStores, ReplaceStores DEF StoredRows
<1>2. IInv /\ NInv /\ [Next]_vars => [StoredRows \subseteq StoredRows']_vars
  BY <1>1
<1> QED  BY <1>2, InOrder, NamesInOrder, PTL DEF Spec, StoredForGood

-----------------------------------------------------------------------------
(* Where the messages are *)

\* Steps that leave the queue, the files and the history alone.
Still(c) ==
    \/ ReceiveNothing(c) \/ LeaveLoop(c) \/ Append(c) \/ BatchDone(c) \/ MaybeFlush(c)
    \/ WriteTemporary(c) \/ FlushDone(c) \/ Start(c) \/ Signal(c)

\* They forget no row.
LEMMA StillFacts ==
    ASSUME IInv, NEW c \in Consumers, Still(c)
    PROVE  /\ UNCHANGED <<queue, files, lost>>
           /\ \A d \in Consumers : \A e \in Events : proc[d].buffers[e] \subseteq proc'[d].buffers[e]
<1>1. proc[c] \in ProcStates /\ proc \in [Consumers -> ProcStates] /\ Phase(c, proc[c], second)
  BY ProcFacts DEF IInv, Types
<1> SUFFICES ASSUME NEW e \in Events
             PROVE  /\ UNCHANGED <<queue, files, lost>>
                    /\ \A d \in Consumers : d # c => proc'[d] = proc[d]
                    /\ proc[c].buffers[e] \subseteq proc'[c].buffers[e]
  BY DEF Still, ReceiveNothing, LeaveLoop, Append, BatchDone, MaybeFlush, WriteTemporary,
         FlushDone, Start, Signal, Local
<1>2. CASE ReceiveNothing(c)
  BY <1>1, <1>2 DEF ReceiveNothing, Local, Flushing, ProcStates
<1>3. CASE LeaveLoop(c)
  BY <1>1, <1>3 DEF LeaveLoop, Local, Flushing, ProcStates
<1>4. CASE BatchDone(c)
  BY <1>1, <1>4 DEF BatchDone, Local, ProcStates
<1>5. CASE MaybeFlush(c)
  BY <1>1, <1>5 DEF MaybeFlush, Local, Flushing, ProcStates
<1>6. CASE Append(c)
  <2>1. PICK r \in proc[c].batch :
           /\ EventOf[r[1]] # Poison
           /\ Local(c, [proc[c] EXCEPT !.pc = "delete", !.row = r, !.batch = @ \ {r},
                                       !.buffers[EventOf[r[1]]] = @ \cup {r}])
    BY <1>6 DEF Append
  <2>2. proc'[c].buffers = [proc[c].buffers EXCEPT ![EventOf[r[1]]] = @ \cup {r}]
        /\ \A d \in Consumers : d # c => proc'[d] = proc[d]
    BY <1>1, <2>1 DEF Local, ProcStates
  <2>3. proc[c].buffers \in [Events -> SUBSET Rows]
    BY <1>1 DEF ProcStates
  <2> QED  BY <1>6, <2>1, <2>2, <2>3 DEF Append, Local
<1>7. CASE WriteTemporary(c)
  BY <1>7, WriteTemporaryFacts
<1>8. CASE FlushDone(c)
  <2>1. proc[c].buffers[e] = {}
    BY <1>1, <1>8 DEF FlushDone, Phase
  <2> QED  BY <1>1, <1>8, <2>1 DEF FlushDone, Local
<1>9. CASE Start(c)
  BY <1>1, <1>9 DEF Start, Phase, Down
<1>10. CASE Signal(c)
  BY <1>1, <1>10 DEF Signal, ProcStates
<1> QED  BY <1>2, <1>3, <1>4, <1>5, <1>6, <1>7, <1>8, <1>9, <1>10 DEF Still

LEMMA ReceiveFacts ==
    ASSUME IInv, NEW c \in Consumers, Receive(c)
    PROVE  /\ UNCHANGED <<files, lost>>
           /\ \A d \in Consumers : proc'[d].buffers = proc[d].buffers
           /\ \A m \in Messages : \/ queue'[m] = queue[m]
                                  \/ queue[m] = "visible" /\ queue'[m] = "inflight"
<1>1. proc[c] \in ProcStates /\ proc \in [Consumers -> ProcStates]
  BY DEF IInv, Types
<1> QED  BY <1>1 DEF Receive, Visible, Local, ProcStates

LEMMA DropPoisonFacts ==
    ASSUME IInv, NEW c \in Consumers, DropPoison(c)
    PROVE  /\ UNCHANGED <<files, lost>>
           /\ \A d \in Consumers : proc'[d].buffers = proc[d].buffers
           /\ \E m \in Messages \ Good :
                 /\ queue[m] # "unsent" /\ queue'[m] # "unsent"
                 /\ \A x \in Messages : queue'[x] # queue[x] => x = m /\ queue'[m] = "deleted"
<1>1. proc[c] \in ProcStates /\ proc \in [Consumers -> ProcStates]
  BY DEF IInv, Types
<1>2. PICK r \in proc[c].batch :
         EventOf[r[1]] = Poison /\ queue' \in QueuesAfterDelete(r)
         /\ Local(c, [proc[c] EXCEPT !.batch = @ \ {r}])
  BY DEF DropPoison
<1>3. r \in Rows /\ r[1] \in Messages \ Good
  BY <1>1, <1>2 DEF ProcStates, Rows, Good
<1>4. queue[r[1]] # "unsent"
  BY <1>2 DEF IInv, Issued, WasIssued, InMemory
<1>5. /\ \A m \in Messages : queue[m] # "unsent" => queue'[m] # "unsent"
      /\ \A m \in Messages : queue'[m] # queue[m] => m = r[1] /\ queue'[m] = "deleted"
  BY <1>2, <1>3, DeleteFacts DEF IInv
<1>6. \A d \in Consumers : proc'[d].buffers = proc[d].buffers
  BY <1>1, <1>2 DEF Local, ProcStates
<1> QED  BY <1>2, <1>3, <1>4, <1>5, <1>6 DEF DropPoison, Local

LEMMA DeletedIsBuffered ==
    ASSUME IInv, NEW c \in Consumers, Delete(c)
    PROVE  /\ UNCHANGED <<files, lost>>
           /\ \A d \in Consumers : proc'[d].buffers = proc[d].buffers
           /\ \E e \in Events : \E r \in proc[c].buffers[e] :
                 /\ r[1] \in Good /\ queue[r[1]] # "unsent"
                 /\ \A x \in Messages : queue'[x] # queue[x] => x = r[1] /\ queue'[x] = "deleted"
<1>1. proc[c] \in ProcStates /\ proc \in [Consumers -> ProcStates] /\ Phase(c, proc[c], second)
  BY ProcFacts DEF IInv, Types
<1> DEFINE r == proc[c].row
           e == EventOf[r[1]]
<1>2. r \in Rows /\ e \in Events /\ r \in proc[c].buffers[e] /\ r[1] \in Messages /\ r[1] \in Good
  BY <1>1, EventsAssumption DEF Phase, Delete, Rows, Good
<1>3. queue[r[1]] # "unsent"
  BY <1>2 DEF IInv, Issued, WasIssued, InMemory, Buffered
<1>4. \A m \in Messages : queue'[m] # queue[m] => m = r[1] /\ queue'[m] = "deleted"
  BY <1>2, DeleteFacts DEF IInv, Delete
<1>5. \A d \in Consumers : proc'[d].buffers = proc[d].buffers
  BY <1>1 DEF Delete, Local, ProcStates
<1> HIDE DEF r, e
<1> QED  BY <1>2, <1>3, <1>4, <1>5 DEF Delete, Local

\* A summary of Next for what looks at messages.
LEMMA NextMoves ==
    ASSUME IInv, [Next]_vars
    PROVE  \/ UNCHANGED <<queue, files, lost, proc>>
           \/ \E m \in Messages : Send(m) \/ VisibilityExpires(m)
           \/ \E c \in Consumers : Still(c) \/ Receive(c) \/ DropPoison(c) \/ Delete(c)
                                   \/ Replace(c) \/ Crash(c)
BY DEF Next, vars, Step, Still

\* Rows of a message are in a buffer.
InBuffer(m) == \E c \in Consumers : \E e \in Events : \E r \in proc[c].buffers[e] : r[1] = m
StoredIs(m) == \E r \in StoredRows : r[1] = m

VInv == \A m \in Good : queue[m] = "deleted" => StoredIs(m) \/ m \in lost \/ InBuffer(m)

LEMMA VInvNext ==
    ASSUME OwnDirectories, IInv, NInv, VInv, [Next]_vars
    PROVE  VInv'
<1>1. CASE UNCHANGED <<queue, files, lost, proc>>
  BY <1>1 DEF VInv, StoredIs, StoredRows, InBuffer
<1>2. ASSUME NEW m \in Messages, Send(m) \/ VisibilityExpires(m) PROVE VInv'
  BY <1>2 DEF Send, VisibilityExpires, IInv, Types, VInv, StoredIs, StoredRows, InBuffer, Good
<1>3. ASSUME NEW c \in Consumers, Still(c) PROVE VInv'
  BY <1>3, StillFacts DEF VInv, StoredIs, StoredRows, InBuffer
<1>4. ASSUME NEW c \in Consumers, Receive(c) PROVE VInv'
  BY <1>4, ReceiveFacts DEF VInv, StoredIs, StoredRows, InBuffer, Good
<1>5. ASSUME NEW c \in Consumers, DropPoison(c) PROVE VInv'
  BY <1>5, DropPoisonFacts DEF VInv, StoredIs, StoredRows, InBuffer, Good
<1>6. ASSUME NEW c \in Consumers, Delete(c) PROVE VInv'
  BY <1>6, DeletedIsBuffered DEF VInv, StoredIs, StoredRows, InBuffer, Good
<1>7. ASSUME NEW c \in Consumers, Replace(c) PROVE VInv'
  <2>1. StoredRows' = StoredRows \cup proc[c].buffers[proc[c].file[2]]
    BY <1>7, ReplaceStores
  <2>2. /\ \A d \in Consumers : d # c => proc'[d] = proc[d]
        /\ proc'[c].buffers = [proc[c].buffers EXCEPT ![proc[c].file[2]] = {}]
        /\ UNCHANGED <<queue, lost>>
    BY <1>7, ReplaceFacts
  <2>3. proc[c].buffers \in [Events -> SUBSET Rows]
    BY ProcFacts DEF ProcStates
  <2>4. \A m : InBuffer(m) => InBuffer(m)' \/ StoredIs(m)'
    BY <2>1, <2>2, <2>3 DEF InBuffer, StoredIs
  <2>5. \A m : StoredIs(m) => StoredIs(m)'
    BY <2>1 DEF StoredIs
  <2> QED  BY <2>2, <2>4, <2>5 DEF VInv
<1>8. ASSUME NEW c \in Consumers, Crash(c) PROVE VInv'
  <2>1. /\ \A d \in Consumers : d # c => proc'[d] = proc[d]
        /\ UNCHANGED <<queue, files>>
        /\ lost' = lost \cup {m \in Messages : queue[m] = "deleted" /\
                                \E e \in Events : \E r \in proc[c].buffers[e] : r[1] = m}
    BY <1>8 DEF Crash, IInv, Types
  <2>2. \A m \in Good : queue[m] = "deleted" /\ InBuffer(m) => InBuffer(m)' \/ m \in lost'
    BY <2>1 DEF InBuffer, Good
  <2> QED  BY <2>1, <2>2 DEF VInv, StoredIs, StoredRows
<1> QED  BY <1>1, <1>2, <1>3, <1>4, <1>5, <1>6, <1>7, <1>8, NextMoves

LEMMA VInvIs == VInv <=> NothingVanishes
BY DEF VInv, NothingVanishes, StoredIs, InBuffer, Stored, MessagesOf, Buffered

LEMMA NoneVanishes ==
    ASSUME OwnDirectories
    PROVE  Spec => []VInv
<1>1. Init => VInv
  BY DEF Init, VInv, Good
<1>2. IInv /\ NInv /\ VInv /\ [Next]_vars => VInv'
  BY VInvNext
<1> QED  BY <1>1, <1>2, InOrder, NamesInOrder, PTL DEF Spec

\* A message that left the queue is in a file, in a running process or went
\* down with one (sqs.py:45-61, sink.py:39-55).
THEOREM NothingIsMislaid ==
    ASSUME OwnDirectories
    PROVE  Spec => []NothingVanishes
BY VInvIs, NoneVanishes, PTL

-----------------------------------------------------------------------------
(* The consumers implement Delivery *)

\* The fate of a message when none vanishes.
Fate(m) ==
    IF queue[m] = "unsent" THEN "unsent"
    ELSE IF StoredIs(m) THEN "stored"
    ELSE IF m \in lost THEN "lost"
    ELSE IF m \notin Good /\ queue[m] = "deleted" THEN "dropped"
    ELSE "queued"

fateMap == [m \in Messages |-> FateOf(m)]

LEMMA FateIs ==
    ASSUME VInv
    PROVE  \A m \in Messages : fateMap[m] = Fate(m) /\ FateOf(m) = Fate(m)
<1> SUFFICES ASSUME NEW m \in Messages PROVE FateOf(m) = Fate(m)
  BY DEF fateMap
<1>1. m \in Stored <=> StoredIs(m)
  BY DEF Stored, MessagesOf, StoredIs
<1>2. InBuffer(m) <=> \E c \in Consumers : m \in MessagesOf(Buffered(proc[c]))
  BY DEF InBuffer, MessagesOf, Buffered
<1>3. m \in Good /\ queue[m] = "deleted" => StoredIs(m) \/ m \in lost \/ InBuffer(m)
  BY DEF VInv
<1> QED  BY <1>1, <1>2, <1>3 DEF FateOf, Fate

LEMMA FateIsPrimed ==
    ASSUME VInv'
    PROVE  \A m \in Messages : fateMap'[m] = Fate(m)' /\ FateOf(m)' = Fate(m)'
<1> SUFFICES ASSUME NEW m \in Messages PROVE FateOf(m)' = Fate(m)'
  BY DEF fateMap
<1>1. m \in Stored' <=> StoredIs(m)'
  BY DEF Stored, MessagesOf, StoredIs
<1>2. InBuffer(m)' <=> \E c \in Consumers : m \in MessagesOf(Buffered(proc[c]))'
  BY DEF InBuffer, MessagesOf, Buffered
<1>3. m \in Good /\ queue'[m] = "deleted" => StoredIs(m)' \/ m \in lost' \/ InBuffer(m)'
  BY DEF VInv, Good
<1> QED  BY <1>1, <1>2, <1>3 DEF FateOf, Fate, Good

\* A stored message was received: somebody sent it, and it can be decoded.
LEMMA StoredFacts ==
    ASSUME IInv, NEW m \in Messages, StoredIs(m) \/ m \in lost
    PROVE  m \in Good /\ queue[m] # "unsent"
<1>1. CASE StoredIs(m)
  <2>1. PICK f \in DOMAIN files : \E r \in files[f] : r[1] = m
    BY <1>1 DEF StoredIs, StoredRows
  <2>2. f[2] \in Events
    BY DEF IInv, Types, FileNames
  <2> QED  BY <2>1, <2>2, EventsAssumption DEF IInv, Sorted, Issued, WasIssued, Good
<1>2. CASE m \in lost
  BY <1>2 DEF IInv, LostInOrder
<1> QED  BY <1>1, <1>2

\* The messages ms, with a fate among these, get that one; the others keep theirs.
Moves(ms, these, that) ==
    /\ \A m \in ms : Fate(m) \in these /\ Fate(m)' = that
    /\ \A x \in Messages \ ms : Fate(x)' = Fate(x)

\* One step of the consumers, on the fates.
FatesMove ==
    \/ \A m \in Messages : Fate(m)' = Fate(m)
    \/ \E m \in Messages : Moves({m}, {"unsent"}, "queued")
    \/ \E m \in Messages \ Good : Moves({m}, {"queued"}, "dropped")
    \/ \E ms \in SUBSET Good : Moves(ms, {"queued", "lost"}, "stored") \/ Moves(ms, {"queued"}, "lost")

LEMMA StepOnFates ==
    ASSUME OwnDirectories, IInv, NInv, VInv, [Next]_vars
    PROVE  FatesMove
<1>1. CASE UNCHANGED <<queue, files, lost>>
  <2>1. \A m \in Messages : Fate(m)' = Fate(m)
    BY <1>1 DEF Fate, StoredIs, StoredRows, Good
  <2> QED  BY <2>1 DEF FatesMove
<1>2. ASSUME NEW m \in Messages, Send(m) PROVE FatesMove
  <2>1. /\ queue[m] = "unsent" /\ queue' = [queue EXCEPT ![m] = "visible"]
        /\ UNCHANGED <<files, lost>> /\ queue \in QueueStates
    BY <1>2 DEF Send, IInv, Types, QueueStates
  <2>2. /\ queue'[m] = "visible" /\ \A x \in Messages \ {m} : queue'[x] = queue[x]
    BY <2>1 DEF QueueStates
  <2>3. ~StoredIs(m) /\ m \notin lost
    BY <2>1, StoredFacts
  <2>4. \A x \in Messages : StoredIs(x)' <=> StoredIs(x)
    BY <2>1 DEF StoredIs, StoredRows
  <2>5. Fate(m) = "unsent" /\ Fate(m)' = "queued"
    BY <2>1, <2>2, <2>3, <2>4 DEF Fate
  <2>6. \A x \in Messages \ {m} : Fate(x)' = Fate(x)
    BY <2>1, <2>2, <2>4 DEF Fate, Good
  <2> QED  BY <2>5, <2>6 DEF FatesMove, Moves
<1>3. ASSUME UNCHANGED <<files, lost>>,
             \A x \in Messages :
                \/ queue'[x] = queue[x]
                \/ /\ queue[x] # "unsent" /\ queue'[x] # "unsent"
                   /\ x \notin Good => queue[x] # "deleted" /\ queue'[x] # "deleted"
      PROVE  FatesMove
  <2>1. \A x \in Messages : StoredIs(x)' <=> StoredIs(x)
    BY <1>3 DEF StoredIs, StoredRows
  <2>2. \A x \in Messages : Fate(x)' = Fate(x)
    BY <1>3, <2>1 DEF Fate, Good
  <2> QED  BY <2>2 DEF FatesMove
<1>4. ASSUME NEW m \in Messages, VisibilityExpires(m) PROVE FatesMove
  <2>1. /\ UNCHANGED <<files, lost>>
        /\ \A x \in Messages : \/ queue'[x] = queue[x]
                               \/ queue[x] = "inflight" /\ queue'[x] = "visible"
    BY <1>4 DEF VisibilityExpires, IInv, Types
  <2> QED  BY <1>3, <2>1
<1>5. ASSUME NEW c \in Consumers, Still(c) PROVE FatesMove
  BY <1>1, <1>5, StillFacts
<1>6. ASSUME NEW c \in Consumers, Receive(c) PROVE FatesMove
  BY <1>3, <1>6, ReceiveFacts
<1>7. ASSUME NEW c \in Consumers, Delete(c) PROVE FatesMove
  BY <1>3, <1>7, DeletedIsBuffered
<1>8. ASSUME NEW c \in Consumers, DropPoison(c) PROVE FatesMove
  <2>1. PICK m \in Messages \ Good :
           /\ queue[m] # "unsent" /\ queue'[m] # "unsent" /\ UNCHANGED <<files, lost>>
           /\ \A x \in Messages : queue'[x] # queue[x] => x = m /\ queue'[m] = "deleted"
    BY <1>8, DropPoisonFacts
  <2>2. \A x \in Messages : StoredIs(x)' <=> StoredIs(x)
    BY <2>1 DEF StoredIs, StoredRows
  <2>3. ~StoredIs(m) /\ m \notin lost
    BY StoredFacts
  <2>4. \A x \in Messages \ {m} : Fate(x)' = Fate(x)
    BY <2>1, <2>2 DEF Fate, Good
  <2>5. CASE queue'[m] = queue[m]
    <3>1. Fate(m)' = Fate(m)
      BY <2>1, <2>2, <2>5 DEF Fate, Good
    <3> QED  BY <2>4, <3>1 DEF FatesMove
  <2>6. CASE queue'[m] # queue[m]
    <3>1. Fate(m) = "queued" /\ Fate(m)' = "dropped"
      BY <2>1, <2>2, <2>3, <2>6 DEF Fate, Good
    <3> QED  BY <2>4, <3>1 DEF FatesMove, Moves
  <2> QED  BY <2>5, <2>6
<1>9. ASSUME NEW c \in Consumers, Replace(c) PROVE FatesMove
  <2> DEFINE rows == proc[c].buffers[proc[c].file[2]]
             ms == {m \in Messages : ~StoredIs(m) /\ \E r \in rows : r[1] = m}
  <2>1. /\ StoredRows' = StoredRows \cup rows /\ UNCHANGED <<queue, lost>>
        /\ rows \subseteq Rows /\ rows \subseteq InMemory(proc[c])
        /\ proc[c].file[2] \in Events
        /\ \A r \in rows : EventOf[r[1]] \in Events
    BY <1>9, ReplaceFacts, ReplaceStores
  <2>2. \A m \in ms : m \in Good /\ queue[m] # "unsent"
    BY <2>1, EventsAssumption DEF IInv, Issued, WasIssued, Good
  <2>3. \A x \in Messages : StoredIs(x)' <=> StoredIs(x) \/ x \in ms
    BY <2>1 DEF StoredIs
  <2> HIDE DEF ms, rows
  <2>4. \A m \in ms : ~StoredIs(m) /\ m \in Messages
    BY DEF ms
  <2>5. \A m \in ms : Fate(m) \in {"queued", "lost"} /\ Fate(m)' = "stored"
    BY <2>1, <2>2, <2>3, <2>4 DEF Fate
  <2>6. \A x \in Messages \ ms : Fate(x)' = Fate(x)
    BY <2>1, <2>3 DEF Fate, Good
  <2>7. ms \in SUBSET Good
    BY <2>2
  <2>8. Moves(ms, {"queued", "lost"}, "stored")
    BY <2>5, <2>6 DEF Moves
  <2> QED  BY <2>7, <2>8 DEF FatesMove
<1>10. ASSUME NEW c \in Consumers, Crash(c) PROVE FatesMove
  <2> DEFINE ms == {m \in Messages : m \in lost' \ lost /\ ~StoredIs(m)}
  <2>1. /\ UNCHANGED <<queue, files>> /\ lost \subseteq lost'
        /\ \A m \in lost' \ lost : queue[m] = "deleted"
                                   /\ \E e \in Events : \E r \in proc[c].buffers[e] : r[1] = m
    BY <1>10 DEF Crash
  <2>2. \A m \in ms : m \in Good
    BY <2>1, ProcFacts, EventsAssumption DEF SortedBuffers, Good
  <2>3. \A x \in Messages : StoredIs(x)' <=> StoredIs(x)
    BY <2>1 DEF StoredIs, StoredRows
  <2>4. \A m \in ms : /\ m \in lost' /\ m \notin lost /\ ~StoredIs(m) /\ m \in Messages
                      /\ queue[m] = "deleted"
    BY <2>1
  <2>5. \A x \in Messages \ ms : StoredIs(x) \/ (x \in lost' <=> x \in lost)
    BY <2>1
  <2> HIDE DEF ms
  <2>6. \A m \in ms : Fate(m) = "queued" /\ Fate(m)' = "lost"
    BY <2>1, <2>2, <2>3, <2>4 DEF Fate
  <2>7. \A x \in Messages \ ms : Fate(x)' = Fate(x)
    BY <2>1, <2>3, <2>5 DEF Fate, Good
  <2>8. ms \in SUBSET Good
    BY <2>2
  <2>9. Moves(ms, {"queued"}, "lost")
    BY <2>6, <2>7 DEF Moves
  <2> QED  BY <2>8, <2>9 DEF FatesMove
<1> QED  BY <1>1, <1>2, <1>4, <1>5, <1>6, <1>7, <1>8, <1>9, <1>10, NextMoves

LEMMA StepImplements ==
    ASSUME OwnDirectories, IInv, NInv, VInv, VInv', [Next]_vars
    PROVE  [Delivered!Next]_fateMap
<1>1. \A m \in Messages : fateMap[m] = Fate(m) /\ FateOf(m) = Fate(m)
  BY FateIs
<1>2. \A m \in Messages : fateMap'[m] = Fate(m)' /\ FateOf(m)' = Fate(m)'
  BY FateIsPrimed
<1>3. CASE \A m \in Messages : Fate(m)' = Fate(m)
  <2>1. \A m \in Messages : FateOf(m)' = FateOf(m)
    BY <1>1, <1>2, <1>3
  <2> QED  BY <2>1 DEF fateMap
<1>4. ASSUME NEW ms \in SUBSET Messages, NEW these, NEW that, Moves(ms, these, that)
      PROVE  Delivered!Become(ms, that) /\ \A m \in ms : FateOf(m) \in these
  <2>1. fateMap' = [m \in Messages |-> IF m \in ms THEN that ELSE fateMap[m]]
    BY <1>1, <1>2, <1>4 DEF fateMap, Moves
  <2> QED  BY <1>1, <1>4, <2>1 DEF Delivered!Become, fateMap, Moves
<1>5. ASSUME NEW m \in Messages, Moves({m}, {"unsent"}, "queued")
      PROVE  Delivered!Send(m)
  <2>1. Delivered!Become({m}, "queued") /\ FateOf(m) = "unsent"
    BY <1>4, <1>5
  <2> QED  BY <2>1 DEF Delivered!Send
<1>6. ASSUME NEW m \in Messages, Moves({m}, {"queued"}, "dropped")
      PROVE  Delivered!Drop(m)
  <2>1. Delivered!Become({m}, "dropped") /\ FateOf(m) = "queued"
    BY <1>4, <1>6
  <2> QED  BY <2>1 DEF Delivered!Drop
<1>7. Good \subseteq Messages /\ Messages \ (Messages \ Good) = Good
  BY DEF Good
<1>8. ASSUME NEW ms \in SUBSET Good, Moves(ms, {"queued", "lost"}, "stored")
      PROVE  Delivered!Store(ms)
  BY <1>4, <1>7, <1>8 DEF Delivered!Store
<1>9. ASSUME NEW ms \in SUBSET Good, Moves(ms, {"queued"}, "lost")
      PROVE  Delivered!Lose(ms)
  <2>1. Delivered!Become(ms, "lost") /\ \A m \in ms : FateOf(m) = "queued"
    BY <1>4, <1>7, <1>9
  <2> QED  BY <1>7, <2>1 DEF Delivered!Lose
<1> QED  BY <1>3, <1>5, <1>6, <1>7, <1>8, <1>9, StepOnFates DEF FatesMove, Delivered!Next

\* Whatever consumers do with receipts, buffers and files, a message moves as
\* Delivery has it.
THEOREM ConsumersImplementDelivery ==
    ASSUME OwnDirectories
    PROVE  Spec => ImplementsDelivery
<1>1. Init => Delivered!Init
  <2> SUFFICES ASSUME Init PROVE \A m \in Messages : FateOf(m) \in {"unsent", "queued"}
    BY DEF Delivered!Init
  <2>1. StoredRows = {} /\ Stored = {} /\ lost = {}
        /\ \A m \in Messages : queue[m] \in {"unsent", "visible"}
    BY DEF Init, StoredRows, Stored, MessagesOf
  <2> QED  BY <2>1 DEF FateOf
<1>2. IInv /\ NInv /\ VInv /\ VInv' /\ [Next]_vars
        => [Delivered!Next]_[m \in Messages |-> FateOf(m)]
  BY StepImplements DEF fateMap
<1> QED  BY <1>1, <1>2, InOrder, NamesInOrder, NoneVanishes, PTL
         DEF Spec, ImplementsDelivery, Delivered!Spec

-----------------------------------------------------------------------------
(* What a crash costs *)

\* A buffer holds less, with the rest of the receive, than a full one and a
\* receive, and is not full when the next receive begins.
Small(p, e) ==
    /\ IsFiniteSet(p.batch) /\ IsFiniteSet(p.buffers[e])
    /\ Cardinality(p.buffers[e]) + Cardinality(p.batch) < BatchSize + MaxMessages
    /\ p.pc = "loop" => Cardinality(p.buffers[e]) < BatchSize

SInv == \A c \in Consumers : \A e \in Events : Small(proc[c], e)

LEMMA EmptyIsSmall ==
    ASSUME NEW p, NEW e \in Events, p.batch = {}, p.buffers[e] = {}
    PROVE  Small(p, e)
BY FS_EmptySet, SettingsAssumption DEF Small

\* A process that keeps its rows, and does not begin to poll, stays small.
LEMMA KeepsSmall ==
    ASSUME NEW p, NEW q, NEW e \in Events, Small(p, e),
           q.batch = p.batch, q.buffers[e] = p.buffers[e],
           q.pc = "loop" => p.pc = "loop" \/ Cardinality(p.buffers[e]) < BatchSize
    PROVE  Small(q, e)
BY DEF Small

LEMMA ReceiveStaysSmall ==
    ASSUME IsFiniteSet(Messages), IInv, SInv, NEW c \in Consumers, Receive(c), NEW e \in Events
    PROVE  Small(proc'[c], e)
<1>1. proc[c] \in ProcStates /\ Small(proc[c], e) /\ proc[c].pc = "loop"
  BY DEF IInv, Types, SInv, Receive
<1>2. PICK ms \in SUBSET Visible, d \in 0..WaitTime :
         /\ Cardinality(ms) \in 1..MaxMessages
         /\ Local(c, [proc[c] EXCEPT !.pc = "batch", !.streak = 0, !.age = Aged(proc[c], d),
                                     !.batch = {<<m, receives[m] + 1>> : m \in ms}])
  BY DEF Receive
<1> DEFINE new == {<<m, receives[m] + 1>> : m \in ms}
           f == [m \in ms |-> <<m, receives[m] + 1>>]
<1>3. IsFiniteSet(ms)
  <2>1. ms \in SUBSET Messages
    BY DEF Visible
  <2> QED  BY <2>1, FS_Subset
<1>4. f \in Surjection(ms, new)
  BY DEF Surjection
<1> HIDE DEF f
<1>5. IsFiniteSet(new) /\ Cardinality(new) <= Cardinality(ms)
  BY <1>3, <1>4, FS_Surjection
<1>6. proc'[c].batch = new /\ proc'[c].buffers = proc[c].buffers /\ proc'[c].pc = "batch"
  BY <1>1, <1>2 DEF Local, ProcStates, IInv, Types
<1> HIDE DEF new
<1>7. /\ IsFiniteSet(proc[c].buffers[e]) /\ Cardinality(proc[c].buffers[e]) < BatchSize
  BY <1>1 DEF Small
<1>8. /\ Cardinality(new) \in Nat /\ Cardinality(proc[c].buffers[e]) \in Nat
      /\ Cardinality(new) <= MaxMessages /\ BatchSize \in Nat /\ MaxMessages \in Nat
  BY <1>2, <1>3, <1>5, <1>7, FS_CardinalityType, SettingsAssumption
<1> QED  BY <1>5, <1>6, <1>7, <1>8 DEF Small

LEMMA AppendStaysSmall ==
    ASSUME IInv, SInv, NEW c \in Consumers, Append(c), NEW e \in Events
    PROVE  Small(proc'[c], e)
<1>1. proc[c] \in ProcStates /\ Small(proc[c], e)
  BY DEF IInv, Types, SInv
<1>2. PICK r \in proc[c].batch :
         /\ EventOf[r[1]] # Poison
         /\ Local(c, [proc[c] EXCEPT !.pc = "delete", !.row = r, !.batch = @ \ {r},
                                     !.buffers[EventOf[r[1]]] = @ \cup {r}])
  BY DEF Append
<1> DEFINE old == proc[c].buffers[e]
           rest == proc[c].batch
<1>3. /\ proc'[c].buffers = [proc[c].buffers EXCEPT ![EventOf[r[1]]] = @ \cup {r}]
      /\ proc'[c].batch = rest \ {r} /\ proc'[c].pc = "delete"
  BY <1>1, <1>2 DEF Local, ProcStates, IInv, Types
<1>4. proc[c].buffers \in [Events -> SUBSET Rows]
  BY <1>1 DEF ProcStates
<1>5. proc'[c].buffers[e] = old \/ proc'[c].buffers[e] = old \cup {r}
  BY <1>3, <1>4
<1>6. IsFiniteSet(old) /\ IsFiniteSet(rest) /\ Cardinality(old) + Cardinality(rest) < BatchSize + MaxMessages
  BY <1>1 DEF Small
<1> HIDE DEF old, rest
<1>7. /\ IsFiniteSet(rest \ {r}) /\ Cardinality(rest \ {r}) = Cardinality(rest) - 1
  BY <1>2, <1>6, FS_RemoveElement DEF rest
<1>8. /\ IsFiniteSet(old \cup {r}) /\ Cardinality(old \cup {r}) <= Cardinality(old) + 1
  <2>1. Cardinality(old) \in Nat
    BY <1>6, FS_CardinalityType
  <2>2. IsFiniteSet(old \cup {r})
        /\ Cardinality(old \cup {r}) = IF r \in old THEN Cardinality(old) ELSE Cardinality(old) + 1
    BY <1>6, FS_AddElement
  <2> QED  BY <2>1, <2>2
<1>9. Cardinality(old) \in Nat /\ Cardinality(rest) \in Nat /\ Cardinality(old \cup {r}) \in Nat
      /\ BatchSize \in Nat /\ MaxMessages \in Nat
  BY <1>6, <1>8, FS_CardinalityType, SettingsAssumption
<1> DEFINE left == rest \ {r}
           more == old \cup {r}
<1> HIDE DEF left, more
<1>10. /\ IsFiniteSet(left) /\ Cardinality(left) = Cardinality(rest) - 1
       /\ IsFiniteSet(more) /\ Cardinality(more) <= Cardinality(old) + 1
       /\ proc'[c].batch = left /\ (proc'[c].buffers[e] = old \/ proc'[c].buffers[e] = more)
       /\ Cardinality(more) \in Nat
  BY <1>3, <1>5, <1>7, <1>8, <1>9 DEF left, more
<1>11. /\ Cardinality(old) + Cardinality(left) < BatchSize + MaxMessages
       /\ Cardinality(more) + Cardinality(left) < BatchSize + MaxMessages
  BY <1>6, <1>9, <1>10
<1>12. CASE proc'[c].buffers[e] = old
  BY <1>3, <1>6, <1>10, <1>11, <1>12 DEF Small
<1>13. CASE proc'[c].buffers[e] = more
  BY <1>3, <1>6, <1>10, <1>11, <1>13 DEF Small
<1> QED  BY <1>10, <1>12, <1>13

LEMMA DropStaysSmall ==
    ASSUME IInv, SInv, NEW c \in Consumers, DropPoison(c), NEW e \in Events
    PROVE  Small(proc'[c], e)
<1>1. proc[c] \in ProcStates /\ Small(proc[c], e)
  BY DEF IInv, Types, SInv
<1>2. PICK r \in proc[c].batch : Local(c, [proc[c] EXCEPT !.batch = @ \ {r}])
  BY DEF DropPoison
<1>3. /\ proc'[c].buffers = proc[c].buffers /\ proc'[c].batch = proc[c].batch \ {r}
      /\ proc'[c].pc = "batch"
  BY <1>1, <1>2 DEF Local, ProcStates, DropPoison, IInv, Types
<1>4. IsFiniteSet(proc[c].batch) /\ IsFiniteSet(proc[c].buffers[e])
      /\ Cardinality(proc[c].buffers[e]) + Cardinality(proc[c].batch) < BatchSize + MaxMessages
  BY <1>1 DEF Small
<1>5. /\ IsFiniteSet(proc[c].batch \ {r})
      /\ Cardinality(proc[c].batch \ {r}) = Cardinality(proc[c].batch) - 1
  BY <1>2, <1>4, FS_RemoveElement
<1>6. Cardinality(proc[c].batch) \in Nat /\ Cardinality(proc[c].buffers[e]) \in Nat
      /\ BatchSize \in Nat /\ MaxMessages \in Nat
  BY <1>4, FS_CardinalityType, SettingsAssumption
<1> QED  BY <1>3, <1>4, <1>5, <1>6 DEF Small

LEMMA StepStaysSmall ==
    ASSUME IsFiniteSet(Messages), IInv, SInv, NEW c \in Consumers,
           Step(c) \/ Start(c) \/ Signal(c) \/ Crash(c), NEW e \in Events
    PROVE  Small(proc'[c], e)
<1>1. /\ proc[c] \in ProcStates /\ proc \in [Consumers -> ProcStates] /\ Small(proc[c], e)
      /\ Phase(c, proc[c], second)
  BY ProcFacts DEF IInv, Types, SInv
<1>2. Small(Down, e)
  BY EmptyIsSmall DEF Down
<1>3. ASSUME proc'[c].batch = proc[c].batch, proc'[c].buffers[e] = proc[c].buffers[e],
             proc'[c].pc = "loop" => proc[c].pc = "loop" \/ Cardinality(proc[c].buffers[e]) < BatchSize
      PROVE  Small(proc'[c], e)
  BY <1>1, <1>3, KeepsSmall
<1>4. CASE ReceiveNothing(c)
  BY <1>1, <1>3, <1>4 DEF ReceiveNothing, Local, Flushing, ProcStates
<1>5. CASE LeaveLoop(c)
  BY <1>1, <1>3, <1>5 DEF LeaveLoop, Local, Flushing, ProcStates
<1>6. CASE Delete(c)
  BY <1>1, <1>3, <1>6 DEF Delete, Local, ProcStates
<1>7. CASE BatchDone(c)
  BY <1>1, <1>3, <1>7 DEF BatchDone, Local, ProcStates
<1>8. CASE MaybeFlush(c)
  <2>1. ~Full(proc[c]) => Cardinality(proc[c].buffers[e]) < BatchSize
    <3>1. Cardinality(proc[c].buffers[e]) \in Nat /\ BatchSize \in Nat
      BY <1>1, FS_CardinalityType, SettingsAssumption DEF Small
    <3> QED  BY <3>1 DEF Full
  <2>2. proc'[c].batch = proc[c].batch /\ proc'[c].buffers = proc[c].buffers
        /\ (proc'[c].pc = "loop" => ~Full(proc[c]))
    BY <1>1, <1>8 DEF MaybeFlush, Local, Flushing, ProcStates
  <2> QED  BY <1>3, <2>1, <2>2
<1>9. CASE WriteTemporary(c)
  BY <1>3, <1>9, WriteTemporaryFacts
<1>10. CASE Replace(c)
  <2>1. /\ proc'[c].buffers = [proc[c].buffers EXCEPT ![proc[c].file[2]] = {}]
        /\ proc'[c].batch = {} /\ proc'[c].pc = "flush"
    BY <1>10, ReplaceFacts
  <2>2. proc[c].batch = {} /\ proc[c].buffers \in [Events -> SUBSET Rows]
    BY <1>1, <1>10 DEF Replace, Phase, ProcStates
  <2>3. proc'[c].buffers[e] = {} \/ proc'[c].buffers[e] = proc[c].buffers[e]
    BY <2>1, <2>2
  <2>4. CASE proc'[c].buffers[e] = {}
    BY <2>1, <2>4, EmptyIsSmall
  <2>5. CASE proc'[c].buffers[e] = proc[c].buffers[e]
    BY <1>3, <2>1, <2>2, <2>5
  <2> QED  BY <2>3, <2>4, <2>5
<1>11. CASE FlushDone(c)
  <2>1. proc[c].buffers[e] = {} /\ proc[c].batch = {}
    BY <1>1, <1>11 DEF FlushDone, Phase
  <2>2. CASE proc[c].exiting
    BY <1>1, <1>2, <1>11, <2>2 DEF FlushDone, Local
  <2>3. CASE ~proc[c].exiting
    <3>1. proc'[c].buffers = proc[c].buffers /\ proc'[c].batch = proc[c].batch
      BY <1>1, <1>11, <2>3 DEF FlushDone, Local, ProcStates
    <3> QED  BY <2>1, <3>1, EmptyIsSmall
  <2> QED  BY <2>2, <2>3
<1>12. CASE Start(c)
  <2>1. proc'[c].batch = {} /\ proc'[c].buffers[e] = {}
    BY <1>1, <1>12 DEF Start, Down
  <2> QED  BY <2>1, EmptyIsSmall
<1>13. CASE Signal(c)
  BY <1>1, <1>3, <1>13 DEF Signal, ProcStates
<1>14. CASE Crash(c)
  BY <1>1, <1>2, <1>14 DEF Crash
<1> QED  BY <1>4, <1>5, <1>6, <1>7, <1>8, <1>9, <1>10, <1>11, <1>12, <1>13, <1>14,
            ReceiveStaysSmall, AppendStaysSmall, DropStaysSmall DEF Step

LEMMA SInvNext ==
    ASSUME IsFiniteSet(Messages), IInv, SInv, [Next]_vars
    PROVE  SInv'
<1>1. CASE UNCHANGED proc
  BY <1>1 DEF SInv
<1>2. ASSUME NEW c \in Consumers, Step(c) \/ Start(c) \/ Signal(c) \/ Crash(c) PROVE SInv'
  <2>1. \A d \in Consumers : d # c => proc'[d] = proc[d]
    BY <1>2 DEF Step, Receive, ReceiveNothing, LeaveLoop, DropPoison, Append, Delete, BatchDone,
                MaybeFlush, WriteTemporary, Replace, FlushDone, Start, Signal, Crash, Local,
                IInv, Types
  <2>2. \A e \in Events : Small(proc'[c], e)
    BY <1>2, StepStaysSmall
  <2> QED  BY <2>1, <2>2 DEF SInv
<1> QED  BY <1>1, <1>2 DEF Next, vars, Send, VisibilityExpires

\* One crash costs less of any event than a full buffer and one more receive
\* (sink.py:32-37).
THEOREM CrashIsBounded ==
    ASSUME IsFiniteSet(Messages)
    PROVE  Spec => CrashCost
<1>1. Init => SInv
  BY EmptyIsSmall DEF Init, SInv, Down
<1>2. IInv /\ SInv /\ [Next]_vars => SInv'
  BY SInvNext
<1>3. ASSUME IInv, SInv, [Next]_vars, NEW e \in Events
      PROVE  Cardinality({m \in lost' \ lost : EventOf[m] = e}) < BatchSize + MaxMessages
  <2> DEFINE down == {m \in lost' \ lost : EventOf[m] = e}
  <2>1. CASE UNCHANGED lost
    <3>1. down = {}
      BY <2>1
    <3> QED  BY <3>1, FS_EmptySet, SettingsAssumption
  <2>2. ASSUME NEW c \in Consumers, Crash(c)
        PROVE  Cardinality(down) < BatchSize + MaxMessages
    <3> DEFINE rows == proc[c].buffers[e]
               T == {r[1] : r \in rows}
               f == [r \in rows |-> r[1]]
    <3>1. down \subseteq T
      BY <1>3, <2>2, ProcFacts DEF Crash, SortedBuffers
    <3>2. f \in Surjection(rows, T)
      BY DEF Surjection
    <3>3. /\ IsFiniteSet(rows) /\ IsFiniteSet(proc[c].batch)
          /\ Cardinality(rows) + Cardinality(proc[c].batch) < BatchSize + MaxMessages
      BY <1>3 DEF SInv, Small
    <3> HIDE DEF f, T, rows, down
    <3>4. IsFiniteSet(T) /\ Cardinality(T) <= Cardinality(rows)
      BY <3>2, <3>3, FS_Surjection
    <3>5. IsFiniteSet(down) /\ Cardinality(down) <= Cardinality(T)
      BY <3>1, <3>4, FS_Subset
    <3>6. /\ Cardinality(down) \in Nat /\ Cardinality(T) \in Nat /\ Cardinality(rows) \in Nat
          /\ Cardinality(proc[c].batch) \in Nat /\ BatchSize \in Nat /\ MaxMessages \in Nat
      BY <3>3, <3>4, <3>5, FS_CardinalityType, SettingsAssumption
    <3> QED  BY <3>3, <3>4, <3>5, <3>6
  <2>3. UNCHANGED lost \/ \E c \in Consumers : Crash(c)
    <3>1. ASSUME NEW m \in Messages, Send(m) \/ VisibilityExpires(m) PROVE UNCHANGED lost
      BY <3>1 DEF Send, VisibilityExpires
    <3>2. ASSUME NEW c \in Consumers, Start(c) \/ Signal(c) PROVE UNCHANGED lost
      BY <3>2 DEF Start, Signal
    <3>3. ASSUME NEW c \in Consumers, Step(c) PROVE UNCHANGED lost
      BY <3>3 DEF Step, Receive, ReceiveNothing, LeaveLoop, DropPoison, Append, Delete, BatchDone,
                  MaybeFlush, WriteTemporary, Replace, FlushDone, Local
    <3> QED  BY <1>3, <3>1, <3>2, <3>3 DEF Next, vars
  <2> HIDE DEF down
  <2> QED  BY <2>1, <2>2, <2>3 DEF down
<1>4. IInv /\ SInv /\ [Next]_vars
        => [\A e \in Events : Cardinality({m \in lost' \ lost : EventOf[m] = e})
                                < BatchSize + MaxMessages]_vars
  BY <1>3
<1> QED  BY <1>1, <1>2, <1>4, InOrder, PTL DEF Spec, CrashCost
=============================================================================
