------------------------------ MODULE Constants ------------------------------
(***************************************************************************)
(* `openevents generate constants`: the names of the registry's events as  *)
(* a Go file for the API and a Python file for the consumer.  Each file is *)
(* written under a temporary name and renamed (writeFileAtomic); the       *)
(* temporary name is the same in every process.                            *)
(*                                                                         *)
(* registry   - the event names "<name>@<version>" in the registry         *)
(* file, tmp  - target -> the generated file, and its temporary            *)
(* gen        - the processes that generate, in the order they start       *)
(* overlapped - history: two generations ran at the same time              *)
(* disturbed  - history: a generation overlapped or died half way, and     *)
(*              none ran alone and to its end since                        *)
(* edits, faults - for the bounds                                          *)
(***************************************************************************)
EXTENDS Naturals, Sequences, FiniteSets

CONSTANTS
    EventNames,
    MaxEdits, MaxRuns, MaxFaults  \* bounds

VARIABLES registry, file, tmp, gen, overlapped, disturbed, edits, faults
fileVars == <<file, tmp, gen, overlapped, disturbed>>
constantsVars == <<registry, fileVars, edits, faults>>

Targets == {"go", "python"}
Generators == 1..MaxRuns

Content(state, names) == [state |-> state, names |-> names]
Absent == Content("absent", {})
Empty == Content("empty", {})
Garbled == Content("garbled", {})
Constants(names) == Content("whole", names)

\* handle: the name of the file that is open, "gone" when it lost its name.
Waiting == [at |-> "waiting", target |-> "go", names |-> {}, handle |-> "gone", alone |-> TRUE]
Exited == [Waiting EXCEPT !.at = "exited"]

Init ==
    /\ registry \in (SUBSET EventNames) \ {{}}
    /\ file = [t \in Targets |-> Constants(registry)]
    /\ tmp = [t \in Targets |-> Absent]
    /\ gen = [g \in Generators |-> Waiting]
    /\ overlapped = FALSE /\ disturbed = FALSE
    /\ edits = 0 /\ faults = 0

Running == {g \in Generators : gen[g].at \notin {"waiting", "exited"}}

EditRegistry ==
    /\ edits < MaxEdits
    /\ registry' \in (SUBSET EventNames) \ {registry}
    /\ edits' = edits + 1
    /\ UNCHANGED <<fileVars, faults>>

\* loadValidatedRegistry and Entries; the Go file comes first.
Begin(g) ==
    /\ gen[g].at = "waiting" /\ \A h \in 1..g-1 : gen[h].at # "waiting"
    /\ gen' = [h \in Generators |->
                 IF h = g THEN [Waiting EXCEPT !.at = "open", !.names = registry,
                                               !.alone = Running = {}]
                 ELSE [gen[h] EXCEPT !.alone = @ /\ h \notin Running]]
    /\ overlapped' = (overlapped \/ Running # {})
    /\ disturbed' = (disturbed \/ Running # {})
    /\ UNCHANGED <<registry, file, tmp, edits, faults>>

\* A mutant of OpenTemporary: no temporary, the file itself is opened.
OpenTheFile(g) ==
    /\ gen[g].at = "open"
    /\ file' = [file EXCEPT ![gen[g].target] = Empty]
    /\ tmp' = [tmp EXCEPT ![gen[g].target] = Empty]
    /\ gen' = [gen EXCEPT ![g].at = "write", ![g].handle = "file"]
    /\ UNCHANGED <<registry, overlapped, disturbed, edits, faults>>

\* A mutant of OpenTemporary: a temporary that is there already is not truncated.
OpenTemporaryKept(g) ==
    /\ gen[g].at = "open"
    /\ tmp' = [tmp EXCEPT ![gen[g].target] = IF @ = Absent THEN Empty ELSE @]
    /\ gen' = [gen EXCEPT ![g].at = "write", ![g].handle = "tmp"]
    /\ UNCHANGED <<registry, file, overlapped, disturbed, edits, faults>>

\* os.WriteFile truncates a temporary that is there already.
OpenTemporary(g) ==
    /\ gen[g].at = "open"
    /\ tmp' = [tmp EXCEPT ![gen[g].target] = Empty]
    /\ gen' = [gen EXCEPT ![g].at = "write", ![g].handle = "tmp"]
    /\ UNCHANGED <<registry, file, overlapped, disturbed, edits, faults>>

\* What a file holds after names are written over it from its beginning.
WrittenOver(old, names) ==
    IF old \in {Empty, Constants(names)} THEN {Constants(names)} ELSE {Constants(names), Garbled}

\* The bytes go to the file that was opened, whatever its name is by now.
WriteTemporary(g) ==
    LET t == gen[g].target
    IN  /\ gen[g].at = "write"
        /\ IF gen[g].handle = "tmp"
           THEN \E new \in WrittenOver(tmp[t], gen[g].names) :
                   tmp' = [tmp EXCEPT ![t] = new] /\ UNCHANGED file
           ELSE IF gen[g].handle = "file"
           THEN \E new \in WrittenOver(file[t], gen[g].names) :
                   file' = [file EXCEPT ![t] = new] /\ UNCHANGED tmp
           ELSE UNCHANGED <<file, tmp>>
        /\ gen' = [gen EXCEPT ![g].at = "rename", ![g].handle = "gone"]
        /\ UNCHANGED <<registry, overlapped, disturbed, edits, faults>>

\* Where the open files of a target are when its temporary takes its place.
Renamed(handle) == CASE handle = "tmp" -> "file" [] OTHER -> "gone"

\* The last generation that ran alone makes up for the ones before it.
Finished(g) == gen[g].target = "python"

\* A mutant of Rename: the Python file is not waited for.
RenameAndStop(g) ==
    LET t == gen[g].target
    IN  /\ gen[g].at = "rename" /\ tmp[t] # Absent
        /\ file' = [file EXCEPT ![t] = tmp[t]]
        /\ tmp' = [tmp EXCEPT ![t] = Absent]
        /\ gen' = [gen EXCEPT ![g] = Exited]
        /\ disturbed' = (disturbed /\ ~gen[g].alone)
        /\ UNCHANGED <<registry, overlapped, edits, faults>>

Rename(g) ==
    LET t == gen[g].target
    IN  /\ gen[g].at = "rename" /\ tmp[t] # Absent
        /\ file' = [file EXCEPT ![t] = tmp[t]]
        /\ tmp' = [tmp EXCEPT ![t] = Absent]
        /\ gen' = [h \in Generators |->
                     IF h = g
                     THEN IF Finished(g) THEN Exited
                          ELSE [gen[g] EXCEPT !.at = "open", !.target = "python"]
                     ELSE IF gen[h].target = t THEN [gen[h] EXCEPT !.handle = Renamed(@)] ELSE gen[h]]
        /\ disturbed' = (disturbed /\ ~(Finished(g) /\ gen[g].alone))
        /\ UNCHANGED <<registry, overlapped, edits, faults>>

\* The command ends before its time: once Go is renamed, Python is behind.
BreaksOff(g) ==
    /\ gen' = [gen EXCEPT ![g] = Exited]
    /\ disturbed' = (disturbed \/ gen[g].target = "python")

\* Somebody else renamed the temporary.
RenameFails(g) ==
    /\ gen[g].at = "rename" /\ tmp[gen[g].target] = Absent
    /\ BreaksOff(g)
    /\ UNCHANGED <<registry, file, tmp, overlapped, edits, faults>>

\* Killed, or a file operation fails; a write may have got half way.
Dies(g) ==
    /\ g \in Running /\ faults < MaxFaults
    /\ \/ UNCHANGED <<file, tmp>>
       \/ /\ gen[g].at = "write" /\ gen[g].handle = "tmp"
          /\ tmp' = [tmp EXCEPT ![gen[g].target] = Garbled] /\ UNCHANGED file
       \/ /\ gen[g].at = "write" /\ gen[g].handle = "file"
          /\ file' = [file EXCEPT ![gen[g].target] = Garbled] /\ UNCHANGED tmp
    /\ BreaksOff(g)
    /\ faults' = faults + 1
    /\ UNCHANGED <<registry, overlapped, edits>>

Generate(g) ==
    \/ Begin(g) \/ OpenTemporary(g) \/ WriteTemporary(g) \/ Rename(g)
    \/ RenameFails(g) \/ Dies(g)

-----------------------------------------------------------------------------
(* Properties *)

\* A file of constants that anybody can read is complete, wherever a
\* generation is killed, unless two ran at the same time: they share the
\* temporary (generate.go:139-150).
ConstantsWhole == overlapped \/ \A t \in Targets : file[t].state = "whole"

\* A generation that ran alone and was not killed leaves both files whole and
\* with the names of the registry it read, whatever files and temporaries those
\* before it left when they died or overlapped (generate.go:107-150): running
\* the command again is the way out of every mess it can make.
GenerationHeals ==
    [][\A g \in Generators :
          g \in Running /\ gen[g].alone /\ gen'[g].at = "exited" /\ ~Dies(g)
             => \A t \in Targets : file'[t] = Constants(gen[g].names)]_constantsVars

\* "There is no possible state where Go and Python disagree about the canonical
\* name of an event" (examples/demo/GUIDE.md:194-195); asked here only of the
\* states where no generation is under way.
LanguagesAgree == Running = {} => file["go"] = file["python"]
=============================================================================
