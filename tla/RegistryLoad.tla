---------------------------- MODULE RegistryLoad ----------------------------
(***************************************************************************)
(* Reading a registry: registry.Load discovers the YAML files of a         *)
(* directory, decodes each and merges the fragments in the order of their  *)
(* paths; registry.Validate judges the result (internal/registry).         *)
(*                                                                         *)
(* A fragment is [header, context, events]: the singletons it sets (""     *)
(* when it does not), its context fields and its events with their         *)
(* properties, one version of each event.  A file may also be missing or   *)
(* not decode.                                                             *)
(***************************************************************************)
EXTENDS Lowering, SequencesExt

CONSTANTS
    FileOrder,       \* the YAML files a directory may hold, in the order of their paths
    Directory,       \* the path of the directory itself
    Singletons,      \* openevents, namespace, package.go, ...
    SupportedVersion,
    MalformedNames,  \* field and event names the patterns of validate.go refuse
    Missing,         \* the content of a file that is not there
    Undecodable      \* the content of a file that is no registry YAML

YamlFiles == Range(FileOrder)
ASSUME FileOrderAssumption ==
    /\ FileOrder \in Seq(YamlFiles)
    /\ \A i, j \in DOMAIN FileOrder : FileOrder[i] = FileOrder[j] => i = j

-----------------------------------------------------------------------------
(* Load *)

DiscoverYAMLFiles(files) == {f \in YamlFiles : files[f] # Missing}

NothingMerged ==
    [header |-> [s \in Singletons |-> ""], context |-> EmptyMap, events |-> EmptyMap,
     ok |-> TRUE]

SingletonsAgree(dst, src) ==
    \A s \in Singletons : dst[s] = "" \/ src[s] = "" \/ dst[s] = src[s]

\* A map, and from another one what it has not.
Completed(dst, src) ==
    [x \in DOMAIN dst \cup DOMAIN src |-> IF x \in DOMAIN dst THEN dst[x] ELSE src[x]]

\* A mutant of MergeRegistry: a context field defined again is taken as it is.
MergeRegistryLastWins(dst, src) ==
    [header  |-> [s \in Singletons |-> IF dst.header[s] = "" THEN src.header[s] ELSE dst.header[s]],
     context |-> Completed(src.context, dst.context),
     events  |-> Completed(dst.events, src.events),
     ok      |-> /\ dst.ok
                 /\ SingletonsAgree(dst.header, src.header)
                 /\ DOMAIN dst.events \cap DOMAIN src.events = {}]

\* What is there already stays; a second definition is an error even if it
\* says the same.
MergeRegistry(dst, src) ==
    [header  |-> [s \in Singletons |-> IF dst.header[s] = "" THEN src.header[s] ELSE dst.header[s]],
     context |-> Completed(dst.context, src.context),
     events  |-> Completed(dst.events, src.events),
     ok      |-> /\ dst.ok
                 /\ SingletonsAgree(dst.header, src.header)
                 /\ DOMAIN dst.context \cap DOMAIN src.context = {}
                 /\ DOMAIN dst.events \cap DOMAIN src.events = {}]

\* A file that cannot be read is an error; the others are merged all the same.
MergeFile(dst, content) ==
    IF content \in {Missing, Undecodable} THEN [dst EXCEPT !.ok = FALSE]
                                          ELSE MergeRegistry(dst, content)

\* The files of a directory, one after the other.  A directory without any is
\* an error.
LoadFiles(files, order) ==
    LET found == DiscoverYAMLFiles(files)
        merged[n \in 0..Len(order)] ==
            IF n = 0 THEN [NothingMerged EXCEPT !.ok = found # {}]
            ELSE IF order[n] \in found THEN MergeFile(merged[n - 1], files[order[n]])
            ELSE merged[n - 1]
    IN  merged[Len(order)]

\* A single file is read whether it is there or not.
Load(files, path) ==
    IF path = Directory THEN LoadFiles(files, FileOrder)
                        ELSE MergeFile(NothingMerged, files[path])

-----------------------------------------------------------------------------
(* Validate *)

ValidateEnum(values) == values # <<>> /\ \A i, j \in DOMAIN values : values[i] = values[j] => i = j

\* An object type stands for one that defines properties.
ValidateField(name, type) ==
    /\ name \notin MalformedNames
    /\ type.kind \in ScalarKinds \cup {"enum", "array", "object"}
    /\ type.kind = "array" => type.item \in ScalarKinds \cup {"enum", "array", "object"}
    /\ "enum" \in {type.kind, type.item} => ValidateEnum(type.values)

ValidateFields(fields) == \A n \in DOMAIN fields : ValidateField(n, fields[n])

\* The judgement on what a lock or a schema depends on.  The code also refuses
\* an unknown event status, a bad PII class, package paths that are missing or
\* malformed and blank enum values (validate.go:38-55, 82, 106, 140): here a
\* registry may pass that the code refuses, never the other way round.
Validate(reg) ==
    /\ reg.header["openevents"] = SupportedVersion
    /\ reg.header["namespace"] # ""
    /\ ValidateFields(reg.context)
    /\ \A k \in DOMAIN reg.events :
          /\ k[1] \notin MalformedNames /\ k[2] > 0
          /\ ValidateFields(reg.events[k])

-----------------------------------------------------------------------------
(* loadValidatedRegistry *)

Loads(files, path) == LET merged == Load(files, path) IN merged.ok /\ Validate(merged)

RegistryAt(files, path) ==
    LET merged == Load(files, path)
    IN  [context |-> merged.context, events |-> merged.events]
=============================================================================
