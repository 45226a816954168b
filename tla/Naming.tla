------------------------------- MODULE Naming -------------------------------
(***************************************************************************)
(* The identifiers made of event and field names: those of the protobuf    *)
(* schema (internal/schemair/proto_names.go) and those of the generated    *)
(* constants (internal/constgen/constgen.go).  Two packages, two           *)
(* algorithms; only the first looks for collisions.  A name is a sequence  *)
(* of characters, an identifier too.                                       *)
(*                                                                         *)
(* The loops of the code go from character to character and put together   *)
(* what each leaves: itself in upper or lower case, or nothing.            *)
(***************************************************************************)
EXTENDS Naturals, SequencesExt

CONSTANTS
    Capital,  \* lower-case letter -> its upper-case letter
    Digits

Gap == ""     \* what a separator leaves in camel case

ASSUME LettersAssumption ==
    /\ \A a, b \in DOMAIN Capital : Capital[a] = Capital[b] => a = b
    /\ DOMAIN Capital \cap Range(Capital) = {}
    /\ Digits \cap (DOMAIN Capital \cup Range(Capital)) = {}
    /\ {".", "_", "-", Gap} \cap (DOMAIN Capital \cup Range(Capital) \cup Digits) = {}

IsLower(c) == c \in DOMAIN Capital
IsUpper(c) == c \in Range(Capital)
IsWordChar(c) == IsLower(c) \/ IsUpper(c) \/ c \in Digits

ToUpper(c) == IF IsLower(c) THEN Capital[c] ELSE c
ToLower(c) == IF IsUpper(c) THEN CHOOSE l \in DOMAIN Capital : Capital[l] = c ELSE c

WithoutGaps(chars) ==
    LET kept[i \in 0..Len(chars)] ==
            IF i = 0 THEN <<>>
            ELSE IF chars[i] = Gap THEN kept[i - 1] ELSE Append(kept[i - 1], chars[i])
    IN  kept[Len(chars)]

-----------------------------------------------------------------------------
(* validate.go *)

\* Segments of lower-case letters, digits and "_" that begin with a letter, at
\* least two, with dots between them.
IsEventName(name) ==
    /\ name \in Seq(DOMAIN Capital \cup Digits \cup {"_", "."})
    /\ \E i \in DOMAIN name : name[i] = "."
    /\ name[Len(name)] # "."
    /\ \A i \in DOMAIN name : i = 1 \/ name[i - 1] = "." => IsLower(name[i])

-----------------------------------------------------------------------------
(* proto_names.go *)

\* A word starts after a separator and where the case changes.
StartsWord(raw, i) ==
    /\ IsWordChar(raw[i])
    /\ \/ i = 1
       \/ ~IsWordChar(raw[i - 1])
       \/ /\ IsUpper(raw[i])
          /\ \/ IsLower(raw[i - 1])
             \/ IsUpper(raw[i - 1]) /\ i < Len(raw) /\ IsLower(raw[i + 1])

\* Words are lower case but for their first letter.
PascalCaseChar(raw, i) ==
    IF ~IsWordChar(raw[i]) THEN Gap
    ELSE IF StartsWord(raw, i) THEN ToUpper(raw[i]) ELSE ToLower(raw[i])

PascalCaseOf(raw) == WithoutGaps([i \in DOMAIN raw |-> PascalCaseChar(raw, i)])

EventMessageName(name, version) == PascalCaseOf(name) \o <<"V", version>>

-----------------------------------------------------------------------------
(* constgen.go *)

Separators == {".", "_", "-"}

\* Whatever follows a separator is capitalised, the rest stays as it is.
GoIdentChar(name, i) ==
    IF name[i] \in Separators THEN Gap
    ELSE IF i = 1 \/ name[i - 1] \in Separators THEN ToUpper(name[i]) ELSE name[i]

GoIdent(name, version) ==
    WithoutGaps([i \in DOMAIN name |-> GoIdentChar(name, i)]) \o <<"V", version>>

PyIdent(name, version) ==
    [i \in DOMAIN name |-> IF name[i] \in Separators THEN "_" ELSE ToUpper(name[i])]
        \o <<"_", "V", version>>
=============================================================================
