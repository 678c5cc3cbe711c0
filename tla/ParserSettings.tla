---------------------------- MODULE ParserSettings ---------------------------
(***************************************************************************)
(* What the setup methods of a Parser promise a caller, in the words of    *)
(* docs/public-api-reference.md and of their comments: each call settles   *)
(* one question for good or until it is asked again.                       *)
(***************************************************************************)
EXTENDS Conformance

CONSTANTS
    Limits,         \* the limits that can be set
    Queryables,     \* the registries of properties that can be set
    Signatures      \* the registries of functions that can be added

VARIABLES
    limit,          \* the recursion limit
    queryables,     \* the properties a filter may use, with their types
    open,           \* ... or it may use any
    known,          \* the functions a filter may call, with their signatures
    enabled         \* the slugs of the switched classes that are on

settings == <<limit, queryables, open, known, enabled>>

Init ==
    /\ limit = 128
    /\ queryables = << >> /\ open = TRUE
    /\ known = << >>
    /\ enabled = {}

\* "Sets a recursion limit for defensive parsing."
SetLimit ==
    /\ limit' \in Limits
    /\ UNCHANGED <<queryables, open, known, enabled>>

\* "Rejects unknown properties."  The last registry given is the one.
AllowProperties ==
    /\ queryables' \in Queryables /\ open' = FALSE
    /\ UNCHANGED <<limit, known, enabled>>

\* "Definitions added later override earlier definitions with the same
\* normalized name", and none is taken back.
AllowFunctions ==
    /\ \E f \in Signatures : known' = Override(f, known)
    /\ UNCHANGED <<limit, queryables, open, enabled>>

\* "Records classes and adds standard functions."  The classes of an earlier
\* call are off again, their functions stay.
Conform ==
    /\ \E slugs \in SUBSET Slugs :
          /\ enabled' = slugs \cap Switched
          /\ known' = Override(StandardFunctions(slugs), known)
    /\ UNCHANGED <<limit, queryables, open>>

Next == SetLimit \/ AllowProperties \/ AllowFunctions \/ Conform

Spec == Init /\ [][Next]_settings
=============================================================================
