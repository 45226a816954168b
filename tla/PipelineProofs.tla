---------------------------- MODULE PipelineProofs ----------------------------
(***************************************************************************)
(* Theorems about the demo from the registry to the queue, for every       *)
(* number of requests, attempts, tries, messages, generations, edits and   *)
(* faults.                                                                 *)
(*                                                                         *)
(* The first part is about the generated files (Constants): a generation   *)
(* that runs alone finds in the temporary what it wrote itself; that is    *)
(* the inductive invariant GInv.  Pipeline takes these steps among its     *)
(* own.  Then come the requests and the queue (PInv) and the rollout of    *)
(* new registries (RInv).                                                  *)
(***************************************************************************)
EXTENDS Pipeline, TLAPS

-----------------------------------------------------------------------------
(* Generated files: the inductive invariant *)

Files == [state : {"absent", "empty", "garbled", "whole"}, names : SUBSET EventNames]
GenStates ==
    [at     : {"waiting", "open", "write", "rename", "exited"},
     target : Targets,
     names  : SUBSET EventNames,
     handle : {"tmp", "file", "gone"},
     alone  : BOOLEAN]

ConstantsTypeOK ==
    /\ registry \in SUBSET EventNames
    /\ file \in [Targets -> Files] /\ tmp \in [Targets -> Files]
    /\ gen \in [Generators -> GenStates]
    /\ overlapped \in BOOLEAN /\ disturbed \in BOOLEAN

\* What a generation has open or has written is its own.
OwnFiles(g) ==
    /\ gen[g].at = "write" => gen[g].handle = "tmp" /\ tmp[gen[g].target] = Empty
    /\ gen[g].at = "rename" => tmp[gen[g].target] = Constants(gen[g].names)
    /\ gen[g].target = "python" => file["go"] = Constants(gen[g].names)

AloneMeansAlone == \A g \in Running : gen[g].alone => Running = {g} /\ OwnFiles(g)
QuietMeansAlone == ~overlapped \/ ~disturbed => \A g \in Running : gen[g].alone
GoFirst ==
    ~disturbed => file["go"] = file["python"] \/ \E g \in Running : gen[g].target = "python"

GInv ==
    /\ ConstantsTypeOK
    /\ AloneMeansAlone
    /\ QuietMeansAlone
    /\ ConstantsWhole
    /\ GoFirst

-----------------------------------------------------------------------------
(* Generated files: shapes *)

\* The constants of files and processes have their types.
LEMMA ContentShapes ==
    /\ Absent \in Files /\ Empty \in Files /\ Garbled \in Files
    /\ \A names \in SUBSET EventNames : Constants(names) \in Files
    /\ Waiting \in GenStates /\ Exited \in GenStates
    /\ Absent.state # "whole" /\ \A names : Constants(names).state = "whole"
    /\ \A names : Constants(names) # Absent
BY DEF Absent, Empty, Garbled, Constants, Content, Files, Waiting, Exited, GenStates, Targets

\* Files that agree and no process: the beginning.
LEMMA GInvInit == Init => GInv
<1> SUFFICES ASSUME Init PROVE GInv
  OBVIOUS
<1>1. Running = {}
  BY DEF Init, Running, Waiting
<1>2. ConstantsTypeOK
  BY ContentShapes DEF Init, ConstantsTypeOK
<1>3. ConstantsWhole /\ GoFirst
  BY ContentShapes DEF Init, ConstantsWhole, GoFirst, Targets
<1> QED  BY <1>1, <1>2, <1>3 DEF GInv, AloneMeansAlone, QuietMeansAlone

-----------------------------------------------------------------------------
(* Generated files: one lemma per action *)

\* Steps that touch none of the files and processes.
LEMMA GInvUnchanged ==
    ASSUME GInv, registry' \in SUBSET EventNames, UNCHANGED fileVars
    PROVE  GInv'
BY DEF GInv, ConstantsTypeOK, AloneMeansAlone, QuietMeansAlone, ConstantsWhole, GoFirst,
       OwnFiles, Running, fileVars

\* A process that begins while another is at work makes both not alone.
LEMMA GInvBegin ==
    ASSUME GInv, NEW g \in Generators, Begin(g)
    PROVE  GInv'
<1> DEFINE new == [Waiting EXCEPT !.at = "open", !.names = registry, !.alone = Running = {}]
<1>1. new \in GenStates /\ new.at = "open" /\ new.target = "go" /\ new.alone = (Running = {})
  BY DEF GInv, ConstantsTypeOK, Waiting, GenStates, Targets
<1>2. /\ gen' = [h \in Generators |-> IF h = g THEN new
                                      ELSE [gen[h] EXCEPT !.alone = @ /\ h \notin Running]]
      /\ UNCHANGED <<registry, file, tmp>>
      /\ overlapped' = (overlapped \/ Running # {})
      /\ disturbed' = (disturbed \/ Running # {})
      /\ g \notin Running
  BY DEF Begin, Running
<1>3. \A h \in Generators \ {g} :
         /\ gen'[h] \in GenStates
         /\ gen'[h].at = gen[h].at /\ gen'[h].target = gen[h].target
         /\ gen'[h].alone = (gen[h].alone /\ h \notin Running)
  <2>1. SUFFICES ASSUME NEW h \in Generators \ {g}
                 PROVE  /\ gen'[h] \in GenStates
                        /\ gen'[h].at = gen[h].at /\ gen'[h].target = gen[h].target
                        /\ gen'[h].alone = (gen[h].alone /\ h \notin Running)
    OBVIOUS
  <2>2. gen'[h] = [gen[h] EXCEPT !.alone = @ /\ h \notin Running]
    BY <1>2
  <2>3. gen[h] \in GenStates
    BY DEF GInv, ConstantsTypeOK
  <2> QED  BY <2>2, <2>3 DEF GenStates
<1>4. gen'[g] = new
  BY <1>2
<1>5. Running' = Running \cup {g}
  BY <1>1, <1>2, <1>3, <1>4 DEF Running
<1>6. ConstantsTypeOK'
  BY <1>1, <1>2, <1>3, <1>4 DEF GInv, ConstantsTypeOK
<1>7. \A h \in Running' : gen'[h].alone => h = g /\ Running = {}
  BY <1>1, <1>3, <1>4, <1>5 DEF Running
<1>8. AloneMeansAlone'
  BY <1>1, <1>4, <1>5, <1>7 DEF AloneMeansAlone, OwnFiles
<1>9. QuietMeansAlone'
  <2>1. ASSUME ~overlapped' \/ ~disturbed' PROVE Running = {}
    BY <1>2, <2>1
  <2> QED  BY <1>1, <1>4, <1>5, <2>1 DEF QuietMeansAlone
<1>10. ConstantsWhole'
  BY <1>2 DEF GInv, ConstantsWhole
<1>11. GoFirst'
  BY <1>2 DEF GInv, GoFirst
<1> QED  BY <1>6, <1>8, <1>9, <1>10, <1>11 DEF GInv

\* The step of one process that stays at work: only its own record, its
\* target's temporary and, when its name has moved, its target's file change.
LEMMA GInvStays ==
    ASSUME GInv, NEW g \in Running, ConstantsTypeOK',
           \A h \in Generators \ {g} : gen'[h] = gen[h],
           g \in Running', gen'[g].alone = gen[g].alone, gen'[g].target = gen[g].target,
           UNCHANGED <<overlapped, disturbed>>,
           gen[g].alone => OwnFiles(g)' /\ file' = file
    PROVE  GInv'
<1>1. Running' = Running
  BY DEF Running
<1>2. AloneMeansAlone'
  <2> SUFFICES ASSUME NEW h \in Running, gen'[h].alone
               PROVE  Running = {h} /\ OwnFiles(h)'
    BY <1>1 DEF AloneMeansAlone
  <2>1. gen[h].alone
    BY DEF Running
  <2>2. Running = {h}
    BY <2>1 DEF GInv, AloneMeansAlone
  <2>3. h = g
    BY <2>2
  <2> QED  BY <2>1, <2>2, <2>3
<1>3. QuietMeansAlone'
  <2> SUFFICES ASSUME ~overlapped \/ ~disturbed, NEW h \in Running PROVE gen'[h].alone
    BY <1>1 DEF QuietMeansAlone
  <2>1. gen[h].alone
    BY DEF GInv, QuietMeansAlone
  <2> QED  BY <2>1 DEF Running
<1>4. ASSUME ~overlapped \/ ~disturbed PROVE file' = file
  <2>1. gen[g].alone
    BY <1>4 DEF GInv, QuietMeansAlone
  <2> QED  BY <2>1
<1>5. ConstantsWhole'
  BY <1>4 DEF GInv, ConstantsWhole
<1>6. GoFirst'
  <2>1. \A h \in Running : gen'[h].target = gen[h].target
    BY DEF Running
  <2> QED  BY <1>1, <1>4, <2>1 DEF GInv, GoFirst
<1> QED  BY <1>2, <1>3, <1>5, <1>6 DEF GInv

LEMMA GInvOpenTemporary ==
    ASSUME GInv, NEW g \in Generators, OpenTemporary(g)
    PROVE  GInv'
<1> DEFINE t == gen[g].target
<1>1. gen \in [Generators -> GenStates] /\ gen[g] \in GenStates /\ t \in Targets
  BY DEF GInv, ConstantsTypeOK, GenStates
<1>2. /\ gen' = [gen EXCEPT ![g] = [gen[g] EXCEPT !.at = "write", !.handle = "tmp"]]
      /\ tmp' = [tmp EXCEPT ![t] = Empty]
      /\ gen[g].at = "open"
      /\ UNCHANGED <<registry, file, overlapped, disturbed>>
  BY <1>1 DEF OpenTemporary
<1>3. /\ gen'[g].at = "write" /\ gen'[g].handle = "tmp" /\ gen'[g].target = t
      /\ gen'[g].alone = gen[g].alone /\ gen'[g].names = gen[g].names
      /\ gen'[g] \in GenStates
  BY <1>1, <1>2 DEF GenStates
<1>4. \A h \in Generators \ {g} : gen'[h] = gen[h]
  BY <1>1, <1>2
<1>5. ConstantsTypeOK'
  BY <1>1, <1>2, <1>3, ContentShapes DEF GInv, ConstantsTypeOK
<1>6. g \in Running /\ g \in Running'
  BY <1>2, <1>3 DEF Running
<1>7. gen[g].alone => OwnFiles(g)'
  BY <1>1, <1>2, <1>3, <1>6 DEF GInv, ConstantsTypeOK, AloneMeansAlone, OwnFiles
<1> QED  BY <1>2, <1>3, <1>4, <1>5, <1>6, <1>7, GInvStays

LEMMA GInvWriteTemporary ==
    ASSUME GInv, NEW g \in Generators, WriteTemporary(g)
    PROVE  GInv'
<1> DEFINE t == gen[g].target
<1>1. /\ gen \in [Generators -> GenStates] /\ gen[g] \in GenStates /\ t \in Targets
      /\ file \in [Targets -> Files] /\ tmp \in [Targets -> Files]
      /\ gen[g].names \in SUBSET EventNames
  BY DEF GInv, ConstantsTypeOK, GenStates
<1>2. /\ gen' = [gen EXCEPT ![g] = [gen[g] EXCEPT !.at = "rename", !.handle = "gone"]]
      /\ gen[g].at = "write"
      /\ UNCHANGED <<registry, overlapped, disturbed>>
  BY <1>1 DEF WriteTemporary
<1>3. /\ gen'[g].at = "rename" /\ gen'[g].target = t
      /\ gen'[g].alone = gen[g].alone /\ gen'[g].names = gen[g].names
      /\ gen'[g] \in GenStates
  BY <1>1, <1>2 DEF GenStates
<1>4. \A h \in Generators \ {g} : gen'[h] = gen[h]
  BY <1>1, <1>2
<1>5. \A old : WrittenOver(old, gen[g].names) \subseteq Files
  BY <1>1, ContentShapes DEF WrittenOver
<1>6. file' \in [Targets -> Files] /\ tmp' \in [Targets -> Files]
  BY <1>1, <1>5 DEF WriteTemporary
<1>7. ConstantsTypeOK'
  BY <1>1, <1>2, <1>3, <1>6 DEF GInv, ConstantsTypeOK
<1>8. g \in Running /\ g \in Running'
  BY <1>2, <1>3 DEF Running
<1>9. gen[g].alone => OwnFiles(g)' /\ file' = file
  <2> SUFFICES ASSUME gen[g].alone PROVE OwnFiles(g)' /\ file' = file
    OBVIOUS
  <2>1. OwnFiles(g)
    BY <1>8 DEF GInv, AloneMeansAlone
  <2>2. gen[g].handle = "tmp" /\ tmp[t] = Empty
    BY <1>2, <2>1 DEF OwnFiles
  <2>3. WrittenOver(tmp[t], gen[g].names) = {Constants(gen[g].names)}
    BY <2>2 DEF WrittenOver
  <2>4. file' = file /\ tmp' = [tmp EXCEPT ![t] = Constants(gen[g].names)]
    BY <2>2, <2>3 DEF WriteTemporary
  <2>5. tmp'[t] = Constants(gen[g].names)
    BY <1>1, <2>4
  <2> QED  BY <1>3, <2>1, <2>4, <2>5 DEF OwnFiles
<1> QED  BY <1>2, <1>3, <1>4, <1>7, <1>8, <1>9, GInvStays

\* A process that ends early: the files stay as they are if it was alone.
LEMMA GInvBreaksOff ==
    ASSUME GInv, NEW g \in Running, BreaksOff(g), ConstantsTypeOK',
           UNCHANGED overlapped, gen[g].alone => file' = file
    PROVE  GInv'
<1>1. /\ g \in Generators /\ gen \in [Generators -> GenStates]
      /\ gen'[g] = Exited /\ \A h \in Generators \ {g} : gen'[h] = gen[h]
      /\ disturbed' = (disturbed \/ gen[g].target = "python")
  BY DEF GInv, ConstantsTypeOK, BreaksOff, Running
<1>2. Running' = Running \ {g}
  BY <1>1 DEF Running, Exited, Waiting
<1>3. AloneMeansAlone'
  <2> SUFFICES ASSUME NEW h \in Running', gen'[h].alone PROVE FALSE
    BY DEF AloneMeansAlone
  <2>1. h \in Running /\ h # g /\ gen[h].alone
    BY <1>1, <1>2 DEF Running
  <2>2. Running = {h}
    BY <2>1 DEF GInv, AloneMeansAlone
  <2> QED  BY <2>1, <2>2
<1>4. ASSUME ~overlapped \/ ~disturbed PROVE file' = file /\ \A h \in Running : gen[h].alone
  BY <1>4 DEF GInv, QuietMeansAlone
<1>5. QuietMeansAlone'
  <2> SUFFICES ASSUME ~overlapped \/ ~disturbed, NEW h \in Running' PROVE gen'[h].alone
    BY <1>1 DEF QuietMeansAlone
  <2>1. gen'[h] = gen[h] /\ h \in Running
    BY <1>1, <1>2 DEF Running
  <2> QED  BY <1>4, <2>1
<1>6. ConstantsWhole'
  BY <1>4 DEF GInv, ConstantsWhole
<1>7. GoFirst'
  <2> SUFFICES ASSUME ~disturbed, gen[g].target # "python" PROVE file["go"] = file["python"]
    BY <1>1, <1>4 DEF GoFirst
  <2>1. gen[g].alone /\ Running = {g}
    BY <1>4 DEF GInv, AloneMeansAlone
  <2> QED  BY <2>1 DEF GInv, GoFirst
<1> QED  BY <1>3, <1>5, <1>6, <1>7 DEF GInv

LEMMA GInvRenameFails ==
    ASSUME GInv, NEW g \in Generators, RenameFails(g)
    PROVE  GInv'
<1>1. g \in Running /\ UNCHANGED <<registry, file, tmp, overlapped>> /\ BreaksOff(g)
  BY DEF RenameFails, Running
<1>2. ConstantsTypeOK'
  BY <1>1, ContentShapes DEF GInv, ConstantsTypeOK, BreaksOff
<1> QED  BY <1>1, <1>2, GInvBreaksOff

LEMMA GInvDies ==
    ASSUME GInv, NEW g \in Generators, Dies(g)
    PROVE  GInv'
<1>1. g \in Running /\ UNCHANGED <<registry, overlapped>> /\ BreaksOff(g)
  BY DEF Dies
<1>2. file' \in [Targets -> Files] /\ tmp' \in [Targets -> Files]
  BY ContentShapes DEF Dies, GInv, ConstantsTypeOK
<1>3. ConstantsTypeOK'
  BY <1>1, <1>2, ContentShapes DEF GInv, ConstantsTypeOK, BreaksOff
<1>4. gen[g].alone => file' = file
  <2> SUFFICES ASSUME gen[g].alone PROVE file' = file
    OBVIOUS
  <2>1. gen[g].at = "write" => gen[g].handle = "tmp"
    BY <1>1 DEF GInv, AloneMeansAlone, OwnFiles
  <2> QED  BY <2>1 DEF Dies
<1> QED  BY <1>1, <1>3, <1>4, GInvBreaksOff

\* The renaming of a process that runs alone puts its own names in place.
LEMMA RenameAlone ==
    ASSUME GInv, NEW g \in Generators, Rename(g), gen[g].alone
    PROVE  /\ tmp[gen[g].target] = Constants(gen[g].names)
           /\ file' = [file EXCEPT ![gen[g].target] = Constants(gen[g].names)]
           /\ gen[g].target = "python" => file["go"] = Constants(gen[g].names)
           /\ Running = {g}
<1>1. g \in Running
  BY DEF Rename, Running
<1>2. Running = {g} /\ OwnFiles(g)
  BY <1>1 DEF GInv, AloneMeansAlone
<1> QED  BY <1>2 DEF OwnFiles, Rename

LEMMA GInvRename ==
    ASSUME GInv, NEW g \in Generators, Rename(g)
    PROVE  GInv'
<1> DEFINE t == gen[g].target
           goes == [gen[g] EXCEPT !.at = "open", !.target = "python"]
<1>1. /\ gen \in [Generators -> GenStates] /\ gen[g] \in GenStates /\ t \in Targets
      /\ file \in [Targets -> Files] /\ tmp \in [Targets -> Files] /\ g \in Running
  BY DEF GInv, ConstantsTypeOK, GenStates, Rename, Running
<1>2. /\ file' = [file EXCEPT ![t] = tmp[t]]
      /\ tmp' = [tmp EXCEPT ![t] = Absent]
      /\ disturbed' = (disturbed /\ ~(t = "python" /\ gen[g].alone))
      /\ UNCHANGED <<registry, overlapped>>
  BY DEF Rename, Finished
<1>3. gen'[g] = IF t = "python" THEN Exited ELSE goes
  BY DEF Rename, Finished
<1>4. /\ goes \in GenStates /\ goes.at = "open" /\ goes.target = "python"
      /\ goes.names = gen[g].names /\ goes.alone = gen[g].alone
  BY <1>1 DEF GenStates, Targets
<1>5. \A h \in Generators \ {g} :
         /\ gen'[h] \in GenStates
         /\ gen'[h].at = gen[h].at /\ gen'[h].alone = gen[h].alone
  <2> SUFFICES ASSUME NEW h \in Generators \ {g}
               PROVE  /\ gen'[h] \in GenStates
                      /\ gen'[h].at = gen[h].at /\ gen'[h].alone = gen[h].alone
    OBVIOUS
  <2>1. gen'[h] = IF gen[h].target = t THEN [gen[h] EXCEPT !.handle = Renamed(@)] ELSE gen[h]
    BY DEF Rename
  <2>2. Renamed(gen[h].handle) \in {"tmp", "file", "gone"}
    BY DEF Renamed
  <2> QED  BY <1>1, <2>1, <2>2 DEF GenStates
<1>6. ConstantsTypeOK'
  <2>1. gen' \in [Generators -> GenStates]
    BY <1>3, <1>4, <1>5, ContentShapes DEF Rename
  <2>2. file' \in [Targets -> Files] /\ tmp' \in [Targets -> Files]
    BY <1>1, <1>2, ContentShapes
  <2> QED  BY <1>2, <2>1, <2>2 DEF GInv, ConstantsTypeOK
<1>7. Running' = IF t = "python" THEN Running \ {g} ELSE Running
  BY <1>1, <1>3, <1>4, <1>5 DEF Running, Exited, Waiting
<1>8. AloneMeansAlone'
  <2> SUFFICES ASSUME NEW h \in Running', gen'[h].alone PROVE Running' = {h} /\ OwnFiles(h)'
    BY DEF AloneMeansAlone
  <2>1. h \in Running /\ gen[h].alone
    BY <1>3, <1>4, <1>5, <1>7 DEF Running
  <2>2. Running = {h} /\ h = g /\ t = "go"
    BY <1>1, <1>7, <2>1 DEF GInv, AloneMeansAlone, Targets
  <2>3. file'["go"] = Constants(gen[g].names)
    BY <1>1, <2>1, <2>2, RenameAlone
  <2> QED  BY <1>3, <1>4, <1>7, <2>2, <2>3 DEF OwnFiles
<1>9. CASE gen[g].alone
  <2>1. /\ file' = [file EXCEPT ![t] = Constants(gen[g].names)] /\ Running = {g}
        /\ t = "python" => file["go"] = Constants(gen[g].names)
    BY <1>9, RenameAlone
  <2>2. QuietMeansAlone'
    BY <1>3, <1>4, <1>7, <1>9, <2>1 DEF QuietMeansAlone
  <2>3. ConstantsWhole'
    BY <1>1, <1>2, <2>1, ContentShapes DEF GInv, ConstantsWhole
  <2>4. GoFirst'
    BY <1>1, <1>3, <1>4, <1>7, <2>1 DEF GoFirst, Targets
  <2> QED  BY <1>6, <1>8, <2>2, <2>3, <2>4 DEF GInv
<1>10. CASE ~gen[g].alone
  <2>1. overlapped /\ disturbed
    BY <1>1, <1>10 DEF GInv, QuietMeansAlone
  <2>2. overlapped' /\ disturbed'
    BY <1>2, <1>10, <2>1
  <2> QED  BY <1>6, <1>8, <2>2 DEF GInv, QuietMeansAlone, ConstantsWhole, GoFirst
<1> QED  BY <1>9, <1>10

\* A generation, whatever step it takes.
LEMMA GInvGenerate ==
    ASSUME GInv, NEW g \in Generators, Generate(g)
    PROVE  GInv'
BY GInvBegin, GInvOpenTemporary, GInvWriteTemporary, GInvRename, GInvRenameFails, GInvDies
   DEF Generate

-----------------------------------------------------------------------------
(* Generated files, in the pipeline *)

\* The steps of the API, the queue and the consumers leave the files alone.
LEMMA GInvNext ==
    ASSUME GInv, [Next]_vars
    PROVE  GInv'
<1>1. CASE UNCHANGED vars
  BY <1>1, GInvUnchanged DEF GInv, ConstantsTypeOK, vars, constantsVars
<1>2. CASE UNCHANGED constantsVars
  BY <1>2, GInvUnchanged DEF GInv, ConstantsTypeOK, constantsVars
<1>3. CASE ConsumerDies
  BY <1>3, GInvUnchanged DEF GInv, ConstantsTypeOK, ConsumerDies
<1>4. CASE EditRegistry
  BY <1>4, GInvUnchanged DEF EditRegistry
<1>5. CASE \E g \in Generators : Generate(g)
  BY <1>5, GInvGenerate
<1>6. ASSUME Next PROVE \/ UNCHANGED constantsVars \/ ConsumerDies \/ EditRegistry
                        \/ \E g \in Generators : Generate(g)
  BY <1>6 DEF Next, Post, SendMessage, PublishFails, Serves, Consume, StoreRows, DropUnknown,
              Develop, DeployApi, DeployConsumer
<1> QED  BY <1>1, <1>2, <1>3, <1>4, <1>5, <1>6

\* The invariant of the generated files, of every state.
LEMMA FilesInOrder == Spec => []GInv
<1>1. PipelineInit => GInv
  BY GInvInit DEF PipelineInit
<1>2. GInv /\ [Next]_vars => GInv'
  BY GInvNext
<1> QED  BY <1>1, <1>2, PTL DEF Spec

\* Generated files are never half written unless two generations overlapped.
THEOREM FilesStayWhole == Spec => []ConstantsWhole
<1>1. GInv => ConstantsWhole
  BY DEF GInv
<1> QED  BY <1>1, FilesInOrder, PTL

\* The two languages disagree for three reasons only: a generation is under
\* way, died half way or overlapped.
THEOREM DisagreementHasACause ==
    Spec => [](LanguagesAgree \/ disturbed)
<1>1. GInv => LanguagesAgree \/ disturbed
  BY DEF GInv, GoFirst, LanguagesAgree
<1> QED  BY <1>1, FilesInOrder, PTL

\* A generation that runs alone and is not killed ends with its names in both
\* files.
LEMMA HealingStep ==
    ASSUME GInv, NEW h \in Generators, Generate(h), NEW g \in Running, gen[g].alone,
           gen'[g].at = "exited", ~Dies(g)
    PROVE  \A t \in Targets : file'[t] = Constants(gen[g].names)
<1>1. /\ Running = {g} /\ OwnFiles(g) /\ g \in Generators
      /\ gen \in [Generators -> GenStates] /\ gen[g] \in GenStates
      /\ file \in [Targets -> Files] /\ gen[g].at \notin {"waiting", "exited"}
  BY DEF GInv, AloneMeansAlone, ConstantsTypeOK, Running
<1>2. ASSUME Begin(h) PROVE FALSE
  <2>1. h # g
    BY <1>1, <1>2 DEF Begin
  <2>2. gen'[g].at = gen[g].at
    BY <1>1, <1>2, <2>1 DEF Begin, GenStates
  <2> QED  BY <1>1, <2>2
<1>3. ASSUME ~Begin(h) PROVE h = g
  BY <1>1, <1>3 DEF Generate, OpenTemporary, WriteTemporary, Rename, RenameFails, Dies, Running
<1>4. h = g
  BY <1>2, <1>3
<1>5. ~OpenTemporary(h) /\ ~WriteTemporary(h)
  BY <1>1, <1>4 DEF OpenTemporary, WriteTemporary, GenStates
<1>6. ~RenameFails(h)
  BY <1>1, <1>4, ContentShapes DEF RenameFails, OwnFiles
<1>7. Rename(g)
  BY <1>2, <1>4, <1>5, <1>6 DEF Generate
<1>8. gen[g].target = "python"
  BY <1>1, <1>7 DEF Rename, Finished, GenStates
<1>9. file' = [file EXCEPT !["python"] = Constants(gen[g].names)]
      /\ file["go"] = Constants(gen[g].names)
  BY <1>1, <1>7, <1>8, RenameAlone
<1> QED  BY <1>1, <1>9 DEF Targets

\* Running the command again helps, whatever earlier generations left.
THEOREM GenerationsHeal == Spec => GenerationHeals
<1> DEFINE Heals ==
      \A g \in Generators :
          g \in Running /\ gen[g].alone /\ gen'[g].at = "exited" /\ ~Dies(g)
             => \A t \in Targets : file'[t] = Constants(gen[g].names)
<1>1. GInv /\ [Next]_vars => [Heals]_constantsVars
  <2> SUFFICES ASSUME GInv, [Next]_vars PROVE Heals \/ UNCHANGED constantsVars
    OBVIOUS
  <2>1. CASE UNCHANGED vars
    BY <2>1 DEF vars
  <2>2. CASE gen' = gen
    BY <2>2 DEF Running
  <2>3. CASE \E h \in Generators : Generate(h)
    BY <2>3, HealingStep
  <2>4. ASSUME Next PROVE \/ UNCHANGED constantsVars \/ gen' = gen
                          \/ \E h \in Generators : Generate(h)
    BY <2>4 DEF Next, Post, SendMessage, PublishFails, Serves, Consume, StoreRows, DropUnknown,
                Develop, DeployApi, DeployConsumer, ConsumerDies, EditRegistry, fileVars
  <2> QED  BY <2>1, <2>2, <2>3, <2>4
<1> QED  BY <1>1, FilesInOrder, PTL DEF Spec, GenerationHeals

-----------------------------------------------------------------------------
(* Requests, messages and event ids *)

Ids == {NoId} \cup (Requests \X Nat)
ReqStates ==
    [at : {"client", "publish"}, attempt : 0..MaxAttempts, try : 0..MaxTries, id : Ids,
     answer : {"none", "202", "400", "404", "502"}, answeredId : Ids]

PipelineTypeOK ==
    /\ api \subseteq EventNames /\ consumer \subseteq EventNames
    /\ fate \in [Messages -> Queue!Fates]
    /\ idOf \in [Messages -> Ids]
    /\ req \in [Requests -> ReqStates]

\* An attempt has one id, and answers with it.
OneIdPerAttempt ==
    \A r \in Requests :
        /\ req[r].at = "publish" => req[r].id = NewEventId(r, req[r].attempt)
        /\ req[r].at = "publish" => req[r].answer = "none"
        /\ req[r].answer = "202" => req[r].answeredId = NewEventId(r, req[r].attempt)

\* A message carries the id of an attempt that has begun.
IdsOfAttempts ==
    \A m \in Messages : fate[m] # "unsent" =>
        \E a \in 0..req[m[1]].attempt : idOf[m] = NewEventId(m[1], a)

\* What was answered is on the queue, or was.
AnsweredIsSent ==
    \A r \in Requests : req[r].answer = "202" =>
        \E m \in Messages : m[1] = r /\ fate[m] # "unsent" /\ idOf[m] = req[r].answeredId

PInv == PipelineTypeOK /\ OneIdPerAttempt /\ IdsOfAttempts /\ AnsweredIsSent

LEMMA PInvInit == PipelineInit => PInv
<1> SUFFICES ASSUME PipelineInit PROVE PInv
  OBVIOUS
<1>1. Unsent \in ReqStates
  BY BoundsAssumption DEF Unsent, ReqStates, Ids
<1>2. PipelineTypeOK
  BY <1>1 DEF PipelineInit, Init, PipelineTypeOK, Queue!Fates, Ids
<1>3. OneIdPerAttempt /\ IdsOfAttempts /\ AnsweredIsSent
  BY DEF PipelineInit, OneIdPerAttempt, IdsOfAttempts, AnsweredIsSent, Unsent
<1> QED  BY <1>2, <1>3 DEF PInv

\* An answer has the shape of a request that waits for nothing.
LEMMA AnswerShape ==
    ASSUME PInv, NEW r \in Requests, NEW status \in {"none", "202", "502"}
    PROVE  /\ Answer(r, status) \in ReqStates
           /\ Answer(r, status).at = "client" /\ Answer(r, status).answer = status
           /\ Answer(r, status).attempt = req[r].attempt
           /\ status = "202" => Answer(r, status).answeredId = req[r].id
<1>1. req[r] \in ReqStates /\ Unsent \in ReqStates /\ NoId \in Ids
  BY BoundsAssumption DEF PInv, PipelineTypeOK, Unsent, ReqStates, Ids
<1> QED  BY <1>1 DEF Answer, ReqStates, Unsent

\* The queue's steps keep what was sent sent.
LEMMA QueueKeeps ==
    ASSUME PInv, NEW ms \in SUBSET Messages, Queue!Store(ms) \/ Queue!Lose(ms)
    PROVE  /\ fate' \in [Messages -> Queue!Fates]
           /\ \A m \in Messages : fate'[m] # "unsent" <=> fate[m] # "unsent"
BY DEF PInv, PipelineTypeOK, Queue!Store, Queue!Lose, Queue!Become, Queue!Fates

LEMMA QueueDrops ==
    ASSUME PInv, NEW m \in Messages, Queue!Drop(m)
    PROVE  /\ fate' \in [Messages -> Queue!Fates]
           /\ \A x \in Messages : fate'[x] # "unsent" <=> fate[x] # "unsent"
BY DEF PInv, PipelineTypeOK, Queue!Drop, Queue!Become, Queue!Fates

\* Steps that leave requests and ids alone, and what was sent sent.
LEMMA PInvQueue ==
    ASSUME PInv, UNCHANGED <<idOf, req>>, api' \subseteq EventNames, consumer' \subseteq EventNames,
           fate' \in [Messages -> Queue!Fates],
           \A m \in Messages : fate'[m] # "unsent" <=> fate[m] # "unsent"
    PROVE  PInv'
<1>1. PipelineTypeOK' /\ OneIdPerAttempt'
  BY DEF PInv, PipelineTypeOK, OneIdPerAttempt
<1>2. IdsOfAttempts' /\ AnsweredIsSent'
  BY DEF PInv, IdsOfAttempts, AnsweredIsSent
<1> QED  BY <1>1, <1>2 DEF PInv

\* Steps of handlers that put nothing on the queue: a request keeps its
\* attempt or starts the next one, and none is answered 202 that was not.
LEMMA PInvNothingSent ==
    ASSUME PInv, UNCHANGED <<fate, idOf>>,
           api' \subseteq EventNames, consumer' \subseteq EventNames,
           req' \in [Requests -> ReqStates],
           \A r \in Requests :
              /\ req'[r].attempt >= req[r].attempt
              /\ req'[r].at = "publish" =>
                    req'[r].id = NewEventId(r, req'[r].attempt) /\ req'[r].answer = "none"
              /\ req'[r].answer = "202" => req'[r] = req[r]
    PROVE  PInv'
<1>1. PipelineTypeOK' /\ OneIdPerAttempt'
  BY DEF PInv, PipelineTypeOK, OneIdPerAttempt
<1>2. IdsOfAttempts'
  <2> SUFFICES ASSUME NEW m \in Messages, fate[m] # "unsent"
               PROVE  \E a \in 0..req'[m[1]].attempt : idOf[m] = NewEventId(m[1], a)
    BY DEF IdsOfAttempts
  <2>1. PICK a \in 0..req[m[1]].attempt : idOf[m] = NewEventId(m[1], a)
    BY DEF PInv, IdsOfAttempts
  <2>2. m[1] \in Requests
    BY DEF Messages
  <2>3. req[m[1]].attempt \in Nat /\ req'[m[1]].attempt \in Nat
    BY <2>2, BoundsAssumption DEF PInv, PipelineTypeOK, ReqStates
  <2>4. a \in 0..req'[m[1]].attempt
    BY <2>2, <2>3
  <2> QED  BY <2>1, <2>4
<1>3. AnsweredIsSent'
  BY DEF PInv, AnsweredIsSent
<1> QED  BY <1>1, <1>2, <1>3 DEF PInv

LEMMA PInvPost ==
    ASSUME PInv, NEW r \in Requests, Post(r)
    PROVE  PInv'
<1> DEFINE n == req[r].attempt + 1
           posted == [Unsent EXCEPT !.attempt = n]
<1>1. req \in [Requests -> ReqStates] /\ req[r] \in ReqStates /\ n \in 1..MaxAttempts
  BY BoundsAssumption DEF PInv, PipelineTypeOK, ReqStates, Post
<1>2. /\ [posted EXCEPT !.answer = "404"] \in ReqStates
      /\ [posted EXCEPT !.answer = "400"] \in ReqStates
      /\ [posted EXCEPT !.at = "publish", !.id = NewEventId(r, n)] \in ReqStates
  <2>1. NewEventId(r, n) \in Ids /\ NoId \in Ids /\ n \in 0..MaxAttempts /\ 0 \in 0..MaxTries
    BY <1>1, BoundsAssumption DEF Ids, NewEventId
  <2>2. posted \in ReqStates
    BY <2>1, BoundsAssumption DEF Unsent, ReqStates
  <2> HIDE DEF posted, n
  <2> QED  BY <2>1, <2>2 DEF ReqStates
<1>3. req' \in [Requests -> ReqStates]
  BY <1>1, <1>2 DEF Post
<1>4. /\ req'[r].attempt = n /\ req'[r].answer # "202"
      /\ req'[r].at = "publish" => req'[r].id = NewEventId(r, n) /\ req'[r].answer = "none"
      /\ \A q \in Requests \ {r} : req'[q] = req[q]
  BY <1>1 DEF Post, Unsent
<1>5. \A q \in Requests : req[q].attempt \in Nat
  BY BoundsAssumption DEF PInv, PipelineTypeOK, ReqStates
<1>6. \A q \in Requests :
         /\ req'[q].attempt >= req[q].attempt
         /\ req'[q].at = "publish" =>
               req'[q].id = NewEventId(q, req'[q].attempt) /\ req'[q].answer = "none"
         /\ req'[q].answer = "202" => req'[q] = req[q]
  BY <1>4, <1>5 DEF PInv, OneIdPerAttempt
<1> QED  BY <1>3, <1>6, PInvNothingSent DEF PInv, PipelineTypeOK, Post, Serves

\* A try more, nothing sent.
LEMMA PInvTry ==
    ASSUME PInv, NEW r \in Requests, req[r].at = "publish", req[r].try < MaxTries,
           req' = [req EXCEPT ![r].try = @ + 1], UNCHANGED <<fate, idOf>>, Serves(r)
    PROVE  PInv'
<1>1. req \in [Requests -> ReqStates] /\ req[r] \in ReqStates
  BY DEF PInv, PipelineTypeOK
<1>2. /\ req' = [req EXCEPT ![r] = [req[r] EXCEPT !.try = @ + 1]]
      /\ [req[r] EXCEPT !.try = @ + 1] \in ReqStates
  BY <1>1, BoundsAssumption DEF ReqStates
<1>3. /\ req' \in [Requests -> ReqStates]
      /\ \A q \in Requests \ {r} : req'[q] = req[q]
      /\ req'[r].at = req[r].at /\ req'[r].id = req[r].id /\ req'[r].answer = req[r].answer
      /\ req'[r].attempt = req[r].attempt
  BY <1>1, <1>2 DEF ReqStates
<1>4. \A q \in Requests : req[q].attempt \in Nat
  BY BoundsAssumption DEF PInv, PipelineTypeOK, ReqStates
<1>5. \A q \in Requests :
         /\ req'[q].attempt >= req[q].attempt
         /\ req'[q].at = "publish" =>
               req'[q].id = NewEventId(q, req'[q].attempt) /\ req'[q].answer = "none"
         /\ req'[q].answer = "202" => req'[q] = req[q]
  BY <1>3, <1>4 DEF PInv, OneIdPerAttempt
<1> QED  BY <1>3, <1>5, PInvNothingSent DEF PInv, PipelineTypeOK, Serves

\* SQS accepts a message; its body has the id of the attempt.
LEMMA PInvAccepted ==
    ASSUME PInv, NEW r \in Requests, req[r].at = "publish", req[r].try < MaxTries,
           Accepted(r, req[r].id), Serves(r)
    PROVE  PInv'
<1> DEFINE m == <<r, 1 + Cardinality(Sent(r))>>
<1>1. /\ m \in Messages /\ fate[m] = "unsent"
      /\ fate' = [x \in Messages |-> IF x = m THEN "queued" ELSE fate[x]]
      /\ idOf' = [idOf EXCEPT ![m] = req[r].id]
  BY DEF Accepted, Queue!Send, Queue!Become
<1>2. /\ req \in [Requests -> ReqStates] /\ req[r] \in ReqStates
      /\ idOf \in [Messages -> Ids] /\ fate \in [Messages -> Queue!Fates]
  BY DEF PInv, PipelineTypeOK
<1>3. req[r].id = NewEventId(r, req[r].attempt) /\ req[r].answer = "none"
  BY DEF PInv, OneIdPerAttempt
<1>4. PICK new \in ReqStates :
         /\ req' = [req EXCEPT ![r] = new]
         /\ new.attempt = req[r].attempt
         /\ new.at = "publish" => new.id = req[r].id /\ new.answer = "none"
         /\ new.answer = "202" => new.answeredId = req[r].id
  <2>1. ASSUME NEW status \in {"202", "none"}, req' = [req EXCEPT ![r] = Answer(r, status)]
        PROVE  /\ Answer(r, status) \in ReqStates
               /\ Answer(r, status).attempt = req[r].attempt
               /\ Answer(r, status).at # "publish"
               /\ Answer(r, status).answer = "202" => Answer(r, status).answeredId = req[r].id
    BY <2>1, AnswerShape
  <2>2. ASSUME req' = [req EXCEPT ![r].try = @ + 1]
        PROVE  /\ req' = [req EXCEPT ![r] = [req[r] EXCEPT !.try = @ + 1]]
               /\ [req[r] EXCEPT !.try = @ + 1] \in ReqStates
               /\ [req[r] EXCEPT !.try = @ + 1].attempt = req[r].attempt
               /\ [req[r] EXCEPT !.try = @ + 1].id = req[r].id
               /\ [req[r] EXCEPT !.try = @ + 1].answer = "none"
    BY <1>2, <1>3, <2>2, BoundsAssumption DEF ReqStates
  <2> QED  BY <2>1, <2>2 DEF Accepted
<1>5. /\ req' \in [Requests -> ReqStates] /\ req'[r] = new
      /\ \A q \in Requests \ {r} : req'[q] = req[q]
  BY <1>2, <1>4
<1>6. PipelineTypeOK'
  BY <1>1, <1>2, <1>5 DEF PInv, PipelineTypeOK, Serves, Queue!Fates, ReqStates
<1>7. OneIdPerAttempt'
  BY <1>3, <1>4, <1>5 DEF PInv, OneIdPerAttempt
<1>8. \A x \in Messages \ {m} : fate'[x] = fate[x] /\ idOf'[x] = idOf[x]
  BY <1>1, <1>2
<1>9. fate'[m] = "queued" /\ idOf'[m] = req[r].id /\ m[1] = r
  BY <1>1, <1>2
<1>10. \A q \in Requests : req'[q].attempt = req[q].attempt
  BY <1>4, <1>5
<1>11. IdsOfAttempts'
  <2> SUFFICES ASSUME NEW x \in Messages, fate'[x] # "unsent"
               PROVE  \E a \in 0..req'[x[1]].attempt : idOf'[x] = NewEventId(x[1], a)
    BY DEF IdsOfAttempts
  <2>1. req'[x[1]].attempt = req[x[1]].attempt
    BY <1>10 DEF Messages
  <2>2. CASE x = m
    <3>1. req[r].attempt \in 0..req[r].attempt
      BY <1>2, BoundsAssumption DEF ReqStates
    <3> QED  BY <1>3, <1>9, <2>1, <2>2, <3>1
  <2>3. CASE x # m
    BY <1>8, <2>1, <2>3 DEF PInv, IdsOfAttempts
  <2> QED  BY <2>2, <2>3
<1>12. AnsweredIsSent'
  <2> SUFFICES ASSUME NEW q \in Requests, req'[q].answer = "202"
               PROVE  \E x \in Messages :
                         x[1] = q /\ fate'[x] # "unsent" /\ idOf'[x] = req'[q].answeredId
    BY DEF AnsweredIsSent
  <2>1. CASE q = r
    BY <1>1, <1>4, <1>5, <1>9, <2>1
  <2>2. CASE q # r
    <3>1. req'[q] = req[q]
      BY <1>5, <2>2
    <3>2. PICK x \in Messages : x[1] = q /\ fate[x] # "unsent" /\ idOf[x] = req[q].answeredId
      BY <3>1 DEF PInv, AnsweredIsSent
    <3>3. x # m
      BY <1>9, <2>2, <3>2
    <3> QED  BY <1>8, <3>1, <3>2, <3>3
  <2> QED  BY <2>1, <2>2
<1> QED  BY <1>6, <1>7, <1>11, <1>12 DEF PInv

\* A handler that ends without a message of its own: 502, or killed.
LEMMA PInvPublishFails ==
    ASSUME PInv, NEW r \in Requests, PublishFails(r)
    PROVE  PInv'
<1>1. /\ req' = [req EXCEPT ![r] = Answer(r, "502")] /\ UNCHANGED <<fate, idOf>>
      /\ req \in [Requests -> ReqStates]
  BY DEF PublishFails, PInv, PipelineTypeOK
<1>2. /\ req' \in [Requests -> ReqStates] /\ req'[r] = Answer(r, "502")
      /\ \A q \in Requests \ {r} : req'[q] = req[q]
  BY <1>1, AnswerShape
<1>3. \A q \in Requests : req[q].attempt \in Nat
  BY BoundsAssumption DEF PInv, PipelineTypeOK, ReqStates
<1>4. \A q \in Requests :
         /\ req'[q].attempt >= req[q].attempt
         /\ req'[q].at = "publish" =>
               req'[q].id = NewEventId(q, req'[q].attempt) /\ req'[q].answer = "none"
         /\ req'[q].answer = "202" => req'[q] = req[q]
  BY <1>2, <1>3, AnswerShape DEF PInv, OneIdPerAttempt
<1> QED  BY <1>1, <1>2, <1>4, PInvNothingSent DEF PInv, PipelineTypeOK, PublishFails, Serves

LEMMA PInvDeployApi ==
    ASSUME PInv, GInv, DeployApi
    PROVE  PInv'
<1>1. \A r \in Requests :
         req'[r] = IF req[r].at = "publish" THEN Answer(r, "none") ELSE req[r]
  BY DEF DeployApi, HandlersGone
<1>2. \A r \in Requests : req[r] \in ReqStates /\ req[r].attempt \in Nat
  BY BoundsAssumption DEF PInv, PipelineTypeOK, ReqStates
<1>3. req' \in [Requests -> ReqStates]
  BY <1>1, <1>2, AnswerShape DEF DeployApi, HandlersGone
<1>4. \A q \in Requests :
         /\ req'[q].attempt >= req[q].attempt
         /\ req'[q].at = "publish" =>
               req'[q].id = NewEventId(q, req'[q].attempt) /\ req'[q].answer = "none"
         /\ req'[q].answer = "202" => req'[q] = req[q]
  BY <1>1, <1>2, AnswerShape DEF PInv, OneIdPerAttempt
<1>5. api' \subseteq EventNames
  BY DEF DeployApi, GInv, ConstantsTypeOK, Files, Targets
<1> QED  BY <1>3, <1>4, <1>5, PInvNothingSent DEF PInv, PipelineTypeOK, DeployApi

LEMMA PInvNext ==
    ASSUME PInv, GInv, [Next]_vars
    PROVE  PInv'
<1>1. CASE UNCHANGED vars
  BY <1>1, PInvQueue DEF PInv, PipelineTypeOK, vars, demoVars
<1>2. ASSUME NEW r \in Requests, Post(r) PROVE PInv'
  BY <1>2, PInvPost
<1>3. ASSUME NEW r \in Requests, SendMessage(r) PROVE PInv'
  BY <1>3, PInvAccepted, PInvTry DEF SendMessage
<1>4. ASSUME NEW r \in Requests, PublishFails(r) PROVE PInv'
  BY <1>4, PInvPublishFails
<1>5. ASSUME NEW m \in Messages, Consume(m) PROVE PInv'
  <2>1. CASE StoreRows(m)
    BY <2>1, QueueKeeps, PInvQueue DEF StoreRows, Consumes, PInv, PipelineTypeOK
  <2>2. CASE DropUnknown(m)
    BY <2>2, QueueDrops, PInvQueue DEF DropUnknown, Consumes, PInv, PipelineTypeOK
  <2> QED  BY <1>5, <2>1, <2>2 DEF Consume
<1>6. CASE ConsumerDies
  BY <1>6, QueueKeeps, PInvQueue DEF ConsumerDies, Consumes, PInv, PipelineTypeOK
<1>7. CASE Develop
  BY <1>7, PInvQueue DEF Develop, PInv, PipelineTypeOK
<1>8. CASE DeployApi
  BY <1>8, PInvDeployApi
<1>9. CASE DeployConsumer
  <2>1. consumer' \subseteq EventNames
    BY <1>9 DEF DeployConsumer, GInv, ConstantsTypeOK, Files, Targets
  <2> QED  BY <1>9, <2>1, PInvQueue DEF DeployConsumer, PInv, PipelineTypeOK
<1> QED  BY <1>1, <1>2, <1>3, <1>4, <1>5, <1>6, <1>7, <1>8, <1>9 DEF Next

LEMMA RequestsInOrder == Spec => []PInv
<1>1. PipelineInit => PInv
  BY PInvInit
<1>2. PInv /\ GInv /\ [Next]_vars => PInv'
  BY PInvNext
<1> QED  BY <1>1, <1>2, FilesInOrder, PTL DEF Spec

\* The variables of the demo have their types.
THEOREM PipelineTypeCorrect == Spec => []TypeOK
<1>1. PInv /\ GInv => TypeOK
  BY DEF PInv, PipelineTypeOK, GInv, ConstantsTypeOK, TypeOK, ReqStates
<1> QED  BY <1>1, RequestsInOrder, FilesInOrder, PTL

\* The event_id of a 202 answer names every copy of this attempt's message.
THEOREM AnswersNameEvents == Spec => []AnswerNamesEvent
<1>1. PInv => AnswerNamesEvent
  <2> SUFFICES ASSUME PInv, NEW r \in Requests, req[r].answer = "202"
               PROVE  /\ \E m \in Sent(r) : idOf[m] = req[r].answeredId
                      /\ \A m \in Sent(r) :
                            idOf[m] # req[r].answeredId => idOf[m][2] < req[r].attempt
    BY DEF AnswerNamesEvent
  <2>1. req[r].attempt \in Nat /\ req[r].answeredId = NewEventId(r, req[r].attempt)
    BY BoundsAssumption DEF PInv, PipelineTypeOK, ReqStates, OneIdPerAttempt
  <2>2. \E m \in Sent(r) : idOf[m] = req[r].answeredId
    BY DEF PInv, AnsweredIsSent, Sent
  <2>3. ASSUME NEW m \in Sent(r), idOf[m] # req[r].answeredId PROVE idOf[m][2] < req[r].attempt
    <3>1. PICK a \in 0..req[r].attempt : idOf[m] = NewEventId(r, a)
      BY <2>3 DEF PInv, IdsOfAttempts, Sent
    <3>2. a # req[r].attempt /\ idOf[m][2] = a
      BY <2>1, <2>3, <3>1 DEF NewEventId
    <3> QED  BY <2>1, <3>1, <3>2
  <2> QED  BY <2>2, <2>3
<1> QED  BY <1>1, RequestsInOrder, PTL

-----------------------------------------------------------------------------
(* Rollout *)

\* As long as events are only added, no file names one that is gone.
NamesRegistered ==
    /\ consumer \subseteq registry
    /\ \A t \in Targets : file[t].names \subseteq registry /\ tmp[t].names \subseteq registry
    /\ \A g \in Generators : gen[g].names \subseteq registry

\* The next consumer knows at least what the running one knows.
ConsumersGrow ==
    /\ \A g \in Running : gen[g].alone => consumer \subseteq gen[g].names
    /\ ~disturbed => consumer \subseteq file["python"].names
    /\ inStep => consumer = file["python"].names

\* The consumers know what the API has sent and can send.
ConsumersAhead ==
    /\ api \subseteq consumer
    /\ \A r \in Requests : req[r].at = "publish" => EventOf[r] \in api
    /\ \A m \in Messages :
          fate[m] # "unsent" => NameOf(m) \in consumer /\ fate[m] # "dropped"

RInv == careful => NamesRegistered /\ ConsumersGrow /\ ConsumersAhead

LEMMA RInvInit == PipelineInit => RInv
<1> SUFFICES ASSUME PipelineInit PROVE RInv
  OBVIOUS
<1>1. NamesRegistered /\ ConsumersGrow
  BY DEF PipelineInit, Init, NamesRegistered, ConsumersGrow, Targets, Running, Waiting,
         Constants, Absent, Content
<1>2. ConsumersAhead
  BY DEF PipelineInit, ConsumersAhead, Unsent
<1> QED  BY <1>1, <1>2 DEF RInv

\* Steps of the API and the queue that keep to what the consumers know.
LEMMA RInvServed ==
    ASSUME RInv, UNCHANGED <<registry, fileVars, consumer, inStep, careful>>,
           careful => ConsumersAhead'
    PROVE  RInv'
BY DEF RInv, NamesRegistered, ConsumersGrow, fileVars, Running

LEMMA RInvPost ==
    ASSUME PInv, RInv, NEW r \in Requests, Post(r)
    PROVE  RInv'
<1>1. req \in [Requests -> ReqStates]
  BY DEF PInv, PipelineTypeOK
<1>2. /\ req'[r].at = "publish" => EventOf[r] \in api
      /\ \A q \in Requests \ {r} : req'[q] = req[q]
  BY <1>1 DEF Post, Unsent
<1>3. UNCHANGED <<constantsVars, api, consumer, inStep, careful, fate>>
  BY DEF Post, Serves
<1>4. careful => ConsumersAhead'
  BY <1>2, <1>3 DEF RInv, ConsumersAhead
<1> QED  BY <1>3, <1>4, RInvServed DEF constantsVars

LEMMA RInvSendMessage ==
    ASSUME PInv, RInv, NEW r \in Requests, SendMessage(r) \/ PublishFails(r)
    PROVE  RInv'
<1>1. req \in [Requests -> ReqStates]
  BY DEF PInv, PipelineTypeOK
<1>2. req[r].at = "publish" /\ \A q \in Requests \ {r} : req'[q] = req[q]
  BY <1>1 DEF SendMessage, PublishFails, Accepted
<1>3. UNCHANGED <<constantsVars, api, consumer, inStep, careful>>
  BY DEF SendMessage, PublishFails, Serves
<1>4. \A m \in Messages :
         fate'[m] # "unsent" => fate'[m] = fate[m] \/ (m[1] = r /\ fate'[m] = "queued")
  <2>1. CASE fate' = fate
    BY <2>1
  <2>2. CASE Accepted(r, req[r].id)
    <3> DEFINE new == <<r, 1 + Cardinality(Sent(r))>>
    <3>1. fate' = [x \in Messages |-> IF x \in {new} THEN "queued" ELSE fate[x]]
      BY <2>2 DEF Accepted, Queue!Send, Queue!Become
    <3>2. new[1] = r
      OBVIOUS
    <3> QED  BY <3>1, <3>2
  <2> QED  BY <2>1, <2>2 DEF SendMessage, PublishFails
<1>5. careful => ConsumersAhead'
  <2> SUFFICES ASSUME careful PROVE ConsumersAhead'
    OBVIOUS
  <2>1. ConsumersAhead /\ EventOf[r] \in consumer
    BY <1>2 DEF RInv, ConsumersAhead
  <2>2. \A q \in Requests : req'[q].at = "publish" => EventOf[q] \in api
    BY <1>2, <2>1 DEF ConsumersAhead
  <2>3. \A m \in Messages :
           fate'[m] # "unsent" => NameOf(m) \in consumer /\ fate'[m] # "dropped"
    BY <1>4, <2>1 DEF ConsumersAhead, NameOf
  <2> QED  BY <1>3, <2>1, <2>2, <2>3 DEF ConsumersAhead, NameOf
<1> QED  BY <1>3, <1>5, RInvServed DEF constantsVars

\* What the consumers know is not dropped.
LEMMA RInvConsume ==
    ASSUME PInv, RInv, ConsumerDies \/ \E m \in Messages : Consume(m)
    PROVE  RInv'
<1>1. UNCHANGED <<registry, fileVars, api, consumer, idOf, req, inStep, careful>>
  BY DEF ConsumerDies, Consume, StoreRows, DropUnknown, Consumes, constantsVars
<1>2. careful => \A m \in Messages :
         fate'[m] # "unsent" => NameOf(m) \in consumer /\ fate'[m] # "dropped"
  <2> SUFFICES ASSUME careful
               PROVE  \A m \in Messages :
                         fate'[m] # "unsent" => NameOf(m) \in consumer /\ fate'[m] # "dropped"
    OBVIOUS
  <2>1. \A m \in Messages :
           fate[m] # "unsent" => NameOf(m) \in consumer /\ fate[m] # "dropped"
    BY DEF RInv, ConsumersAhead
  <2>2. CASE \E m \in Messages : DropUnknown(m)
    BY <2>1, <2>2 DEF DropUnknown, Queue!Drop
  <2>3. CASE \E ms \in SUBSET Messages : Queue!Store(ms)
    BY <2>1, <2>3 DEF Queue!Store, Queue!Become
  <2>4. CASE \E ms \in SUBSET Messages : Queue!Lose(ms)
    BY <2>1, <2>4 DEF Queue!Lose, Queue!Become
  <2> QED  BY <2>2, <2>3, <2>4 DEF ConsumerDies, Consume, StoreRows
<1>3. careful => ConsumersAhead'
  BY <1>1, <1>2 DEF RInv, ConsumersAhead, NameOf
<1> QED  BY <1>1, <1>3, RInvServed

\* Names come from the registry and move from file to file.
LEMMA RInvNames ==
    ASSUME GInv, RInv, Develop, careful'
    PROVE  NamesRegistered' /\ consumer' = consumer
<1>1. NamesRegistered /\ consumer' = consumer /\ registry \subseteq registry'
  BY DEF Develop, RInv
<1>2. /\ gen \in [Generators -> GenStates]
      /\ file \in [Targets -> Files] /\ tmp \in [Targets -> Files]
  BY DEF GInv, ConstantsTypeOK
<1>3. CASE EditRegistry
  BY <1>1, <1>3 DEF EditRegistry, fileVars, NamesRegistered
<1>4. ASSUME NEW g \in Generators, Generate(g) PROVE NamesRegistered'
  <2> USE <1>1, <1>2
  <2> DEFINE t == gen[g].target
  <2>1. gen[g].names \subseteq registry /\ t \in Targets
    BY DEF NamesRegistered, GenStates
  <2>2. Exited.names = {} /\ Absent.names = {} /\ Empty.names = {} /\ Garbled.names = {}
    BY DEF Exited, Waiting, Absent, Empty, Garbled, Content
  <2>3. \A old : \A new \in WrittenOver(old, gen[g].names) : new.names \subseteq registry
    BY <2>1, <2>2 DEF WrittenOver, Constants, Content
  <2>4. CASE Begin(g)
    <3>1. \A h \in Generators : gen'[h].names = IF h = g THEN registry ELSE gen[h].names
      BY <2>4 DEF Begin, Waiting, GenStates
    <3> QED  BY <2>4, <3>1 DEF Begin, NamesRegistered
  <2>5. CASE OpenTemporary(g)
    <3>1. \A h \in Generators : gen'[h].names = gen[h].names
      BY <2>5 DEF OpenTemporary, GenStates
    <3> QED  BY <2>1, <2>2, <2>5, <3>1 DEF OpenTemporary, NamesRegistered
  <2>6. CASE WriteTemporary(g)
    <3>1. \A h \in Generators : gen'[h].names = gen[h].names
      BY <2>6 DEF WriteTemporary, GenStates
    <3>2. \A x \in Targets : file'[x].names \subseteq registry /\ tmp'[x].names \subseteq registry
      BY <2>1, <2>3, <2>6 DEF WriteTemporary, NamesRegistered
    <3> QED  BY <2>6, <3>1, <3>2 DEF WriteTemporary, NamesRegistered
  <2>7. CASE Rename(g)
    <3>1. \A h \in Generators : gen'[h].names \subseteq gen[h].names
      BY <2>2, <2>7 DEF Rename, GenStates
    <3> QED  BY <2>1, <2>2, <2>7, <3>1 DEF Rename, NamesRegistered
  <2>8. CASE RenameFails(g) \/ Dies(g)
    <3>1. \A h \in Generators : gen'[h].names \subseteq gen[h].names
      BY <2>2, <2>8 DEF RenameFails, Dies, BreaksOff
    <3>2. \A x \in Targets : file'[x].names \subseteq registry /\ tmp'[x].names \subseteq registry
      BY <2>1, <2>2, <2>8 DEF RenameFails, Dies, NamesRegistered
    <3> QED  BY <2>8, <3>1, <3>2 DEF RenameFails, Dies, NamesRegistered
  <2> QED  BY <1>4, <2>4, <2>5, <2>6, <2>7, <2>8 DEF Generate
<1> QED  BY <1>1, <1>3, <1>4 DEF Develop

\* The Python file changes to what an undisturbed generation read from a
\* registry that had all the consumers know.
LEMMA RInvGrow ==
    ASSUME GInv, RInv, Develop, careful'
    PROVE  ConsumersGrow'
<1>1. /\ NamesRegistered /\ ConsumersGrow /\ consumer' = consumer
      /\ inStep' = (inStep /\ file' = file)
  BY DEF Develop, RInv
<1>2. /\ gen \in [Generators -> GenStates]
      /\ file \in [Targets -> Files] /\ tmp \in [Targets -> Files]
  BY DEF GInv, ConstantsTypeOK
<1>3. inStep' => consumer' = file'["python"].names
  BY <1>1 DEF ConsumersGrow
<1>4. CASE EditRegistry
  BY <1>1, <1>3, <1>4 DEF EditRegistry, fileVars, ConsumersGrow, Running
<1>5. ASSUME NEW g \in Generators, Generate(g) PROVE ConsumersGrow'
  <2> USE <1>1, <1>2
  <2> SUFFICES /\ \A h \in Running' : gen'[h].alone => consumer \subseteq gen'[h].names
               /\ ~disturbed' => consumer \subseteq file'["python"].names
    BY <1>3 DEF ConsumersGrow
  <2> DEFINE t == gen[g].target
  <2>1. CASE Begin(g)
    <3>1. gen'[g].names = registry
      BY <2>1 DEF Begin, Waiting
    <3>2. \A h \in Generators \ {g} :
             gen'[h].names = gen[h].names /\ gen'[h].at = gen[h].at
             /\ gen'[h].alone = (gen[h].alone /\ h \notin Running)
      BY <2>1 DEF Begin, GenStates
    <3>3. \A h \in Running' : gen'[h].alone => h = g
      BY <3>2 DEF Running
    <3>4. disturbed' = (disturbed \/ Running # {}) /\ file' = file
      BY <2>1 DEF Begin
    <3> QED  BY <3>1, <3>3, <3>4 DEF NamesRegistered, ConsumersGrow
  <2>2. CASE OpenTemporary(g) \/ WriteTemporary(g)
    <3>1. g \in Running /\ disturbed' = disturbed
      BY <2>2 DEF OpenTemporary, WriteTemporary, Running
    <3>2. \A h \in Generators :
             /\ gen'[h].names = gen[h].names /\ gen'[h].alone = gen[h].alone
             /\ h \in Running' => h \in Running
      BY <2>2 DEF OpenTemporary, WriteTemporary, GenStates, Running
    <3>3. ~disturbed => file' = file
      <4> SUFFICES ASSUME ~disturbed PROVE file' = file
        OBVIOUS
      <4>1. OwnFiles(g)
        BY <3>1 DEF GInv, QuietMeansAlone, AloneMeansAlone
      <4> QED  BY <2>2, <4>1 DEF OwnFiles, OpenTemporary, WriteTemporary
    <3> QED  BY <3>1, <3>2, <3>3 DEF ConsumersGrow, Running
  <2>3. CASE Rename(g)
    <3>1. \A h \in Running' :
             /\ h \in Running /\ gen'[h].alone = gen[h].alone /\ gen'[h].names = gen[h].names
      BY <2>3 DEF Rename, GenStates, Running, Exited, Waiting
    <3>2. ASSUME ~disturbed' PROVE consumer \subseteq file'["python"].names
      <4>1. g \in Running /\ t \in Targets
        BY <2>3 DEF Rename, Running, GenStates
      <4>2. gen[g].alone
        BY <2>3, <3>2, <4>1 DEF Rename, Finished, GInv, QuietMeansAlone
      <4>3. file' = [file EXCEPT ![t] = Constants(gen[g].names)]
        BY <2>3, <4>2, RenameAlone
      <4>4. CASE t = "python"
        BY <4>1, <4>2, <4>3, <4>4 DEF ConsumersGrow, Constants, Content
      <4>5. CASE t = "go"
        <5>1. disturbed' = (disturbed /\ ~(t = "python" /\ gen[g].alone))
          BY <2>3 DEF Rename, Finished
        <5>2. ~disturbed
          BY <3>2, <4>5, <5>1
        <5>3. file'["python"] = file["python"]
          BY <4>3, <4>5 DEF Targets
        <5> QED  BY <5>2, <5>3 DEF ConsumersGrow
      <4> QED  BY <4>1, <4>4, <4>5 DEF Targets
    <3> QED  BY <3>1, <3>2 DEF ConsumersGrow
  <2>4. CASE RenameFails(g) \/ Dies(g)
    <3>1. /\ g \in Running /\ BreaksOff(g)
          /\ \A h \in Running' : h \in Running /\ gen'[h] = gen[h]
      BY <2>4 DEF RenameFails, Dies, BreaksOff, Running, Exited, Waiting
    <3>2. ASSUME ~disturbed' PROVE consumer \subseteq file'["python"].names
      <4>1. ~disturbed
        BY <3>1, <3>2 DEF BreaksOff
      <4>2. OwnFiles(g)
        BY <3>1, <4>1 DEF GInv, QuietMeansAlone, AloneMeansAlone
      <4>3. file' = file
        BY <2>4, <4>2 DEF OwnFiles, RenameFails, Dies
      <4> QED  BY <4>1, <4>3 DEF ConsumersGrow
    <3> QED  BY <3>1, <3>2 DEF ConsumersGrow
  <2> QED  BY <1>5, <2>1, <2>2, <2>3, <2>4 DEF Generate
<1> QED  BY <1>4, <1>5 DEF Develop

LEMMA RInvDevelop ==
    ASSUME GInv, RInv, Develop
    PROVE  RInv'
<1> SUFFICES ASSUME careful' PROVE NamesRegistered' /\ ConsumersGrow' /\ ConsumersAhead'
  BY DEF RInv
<1>1. ConsumersAhead'
  BY DEF Develop, RInv, ConsumersAhead, NameOf
<1> QED  BY <1>1, RInvNames, RInvGrow

\* The API is built from the file the consumers were built from.
LEMMA RInvDeployApi ==
    ASSUME GInv, PInv, RInv, DeployApi
    PROVE  RInv'
<1> SUFFICES ASSUME careful' PROVE NamesRegistered' /\ ConsumersGrow' /\ ConsumersAhead'
  BY DEF RInv
<1>1. /\ careful /\ inStep /\ ~disturbed /\ Running = {}
      /\ UNCHANGED <<registry, fileVars, consumer, fate, inStep>>
      /\ api' = file["go"].names
  BY DEF DeployApi, HalfGenerated, constantsVars
<1>2. file["go"] = file["python"]
  BY <1>1 DEF GInv, GoFirst
<1>3. api' = consumer
  BY <1>1, <1>2 DEF RInv, ConsumersGrow
<1>4. \A r \in Requests : req'[r].at # "publish"
  BY AnswerShape DEF DeployApi, HandlersGone
<1>5. NamesRegistered' /\ ConsumersGrow'
  BY <1>1 DEF RInv, NamesRegistered, ConsumersGrow, fileVars, Running
<1> QED  BY <1>1, <1>3, <1>4, <1>5 DEF RInv, ConsumersAhead, NameOf

LEMMA RInvDeployConsumer ==
    ASSUME GInv, RInv, DeployConsumer
    PROVE  RInv'
<1> SUFFICES ASSUME careful' PROVE NamesRegistered' /\ ConsumersGrow' /\ ConsumersAhead'
  BY DEF RInv
<1>1. /\ careful /\ ~disturbed /\ Running = {}
      /\ UNCHANGED <<registry, fileVars, api, fate, req>>
      /\ consumer' = file["python"].names
  BY DEF DeployConsumer, HalfGenerated, constantsVars
<1>2. consumer \subseteq consumer'
  BY <1>1 DEF RInv, ConsumersGrow
<1>3. NamesRegistered' /\ ConsumersGrow'
  BY <1>1 DEF RInv, NamesRegistered, ConsumersGrow, fileVars, Running, Targets
<1> QED  BY <1>1, <1>2, <1>3 DEF RInv, ConsumersAhead, NameOf

LEMMA RInvNext ==
    ASSUME GInv, PInv, RInv, [Next]_vars
    PROVE  RInv'
<1>1. CASE UNCHANGED vars
  <2>1. UNCHANGED <<registry, fileVars, consumer, inStep, careful, api, fate, req>>
    BY <1>1 DEF vars, constantsVars, demoVars
  <2>2. careful => ConsumersAhead'
    BY <2>1 DEF RInv, ConsumersAhead, NameOf
  <2> QED  BY <2>1, <2>2, RInvServed
<1>2. CASE \E r \in Requests : Post(r) \/ SendMessage(r) \/ PublishFails(r)
  BY <1>2, RInvPost, RInvSendMessage
<1>3. CASE ConsumerDies \/ \E m \in Messages : Consume(m)
  BY <1>3, RInvConsume
<1>4. CASE Develop
  BY <1>4, RInvDevelop
<1>5. CASE DeployApi
  BY <1>5, RInvDeployApi
<1>6. CASE DeployConsumer
  BY <1>6, RInvDeployConsumer
<1> QED  BY <1>1, <1>2, <1>3, <1>4, <1>5, <1>6 DEF Next

\* A careful rollout loses no event.
THEOREM RolloutIsSafe == Spec => []RolloutLosesNothing
<1>1. PipelineInit => RInv
  BY RInvInit
<1>2. RInv /\ GInv /\ PInv /\ [Next]_vars => RInv'
  BY RInvNext
<1>3. RInv => RolloutLosesNothing
  BY DEF RInv, ConsumersAhead, RolloutLosesNothing
<1> QED  BY <1>1, <1>2, <1>3, FilesInOrder, RequestsInOrder, PTL DEF Spec
=============================================================================
