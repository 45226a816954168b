----------------------------- MODULE MCCommands -----------------------------
(***************************************************************************)
(* An instance of Commands for TLC.  The directory holds two files: "a"    *)
(* with the header, the context and event 13, which is permanent, and "b", *)
(* which may be missing, no YAML, in conflict with "a", or hold the events *)
(* 11 and 12, whose names render alike.                                    *)
(***************************************************************************)
EXTENDS Commands

CONSTANTS MaxHistory, p1, p2

StringType == [kind |-> "string", item |-> "", values |-> <<>>]
IntegerType == [kind |-> "integer", item |-> "", values |-> <<>>]
Strings(names) == [n \in names |-> StringType]

Header == [s \in Singletons |-> IF s = "openevents" THEN "0.1.0" ELSE "acme"]
NoHeader == [s \in Singletons |-> ""]
OtherHeader == [NoHeader EXCEPT !["namespace"] = "other"]

Fragment(header, context, events) == [header |-> header, context |-> context, events |-> events]

MCKeys == {<<11, 1>>, <<12, 1>>, <<13, 1>>}
ThePermanent == {<<13, 1>>}
MCFileOrder == <<"a", "b">>

Lasting(names) == <<13, 1>> :> Strings(names)
Twins == <<11, 1>> :> Strings({1}) @@ <<12, 1>> :> Strings({1})

A(names) == Fragment(Header, Strings({1}), Lasting(names))
Wider(a) == [a EXCEPT !.context = Strings({1, 2})]
B == Fragment(Header, EmptyMap, <<11, 1>> :> Strings({1}))

MCContents ==
    [f \in {"a", "b"} |->
        IF f = "a" THEN {A({1}), A({2}), A({1, 2}), Wider(A({1}))}
        ELSE {Missing, Undecodable, B,
              Fragment(NoHeader, [n \in {1} |-> IntegerType], EmptyMap),
              Fragment(OtherHeader, EmptyMap, EmptyMap),
              Fragment(NoHeader, EmptyMap, Twins)}]

\* No past; a past that leaves one or two retired numbers to event 13 above its
\* active one, and a change to be locked: one more number to retire and a new
\* context field.
Dir(a, b) == [f \in {"a", "b"} |-> IF f = "a" THEN a ELSE b]
MCPasts ==
    {<<Dir(A({1}), Missing)>>,
     <<Dir(A({1, 2}), B), Dir(A({1}), B), Dir(A({1, 2}), B), Dir(Wider(A({1})), B)>>}

MCCapital == [a |-> "A", b |-> "B", c |-> "C"]

\* a.b_c, a_b.c and c.a; field names are one letter each.
MCSpelledEvent ==
    11 :> <<"a", ".", "b", "_", "c">> @@ 12 :> <<"a", "_", "b", ".", "c">> @@ 13 :> <<"c", ".", "a">>
MCPascalCase ==
    [n \in Names \cup {11, 12, 13} |->
        IF n \in Names THEN <<n>> ELSE PascalCaseOf(MCSpelledEvent[n])]
MCValueName == [nv \in Names \X {Unspecified} |-> nv]

\* Two names that give one Go or one Python identifier give one message name,
\* and goIdent is EventMessageName but for its own way of splitting a name:
\* all names of up to five characters that Validate lets through.
Chars == {"a", "b", "1", "_", "."}
ValidNames ==
    {n \in UNION {[1..l -> Chars] : l \in 1..5} : IsEventName(n)}
ASSUME GoIdentIsMessageName ==
    \A n \in ValidNames : GoIdent(n, 1) = EventMessageName(n, 1)
ASSUME PyIdentDecidesMessageName ==
    Cardinality({<<PyIdent(n, 1), EventMessageName(n, 1)>> : n \in ValidNames})
        = Cardinality({PyIdent(n, 1) : n \in ValidNames})

HistoryBounded ==
    \A k \in Keys : Cardinality(History(EntryOf(committed.lock, k))) <= MaxHistory

MCNext == Next /\ HistoryBounded'
MCSpec == Init /\ [][MCNext]_vars

Alike == Permutations(Processes)
=============================================================================
