----------------------------- MODULE ParserConfig ----------------------------
(***************************************************************************)
(* The Parser of internal/parser/parse.go, to which parse.go at the root   *)
(* delegates: the ParseConfig it parses with and the names it advertises,  *)
(* as the chain of setup methods leaves them.                              *)
(*                                                                         *)
(* The lists a caller gives are sequences with repetitions and empty names.*)
(* A function has its name in the normal form and as it was spelled; the   *)
(* lists the parser advertises are sets.                                   *)
(***************************************************************************)
EXTENDS Conformance

CONSTANTS
    Depths,             \* arguments of WithMaxDepth
    PropertyLists,      \* ... of WithAllowedProperties
    FunctionLists,      \* ... of WithAllowedFunctions
    ClassLists          \* ... of WithConformance and WithConformanceClasses

ASSUME DepthsAssumption == Depths \subseteq Int

VARIABLES
    maxDepth,               \* ParseConfig
    properties,
    functions,
    conformance,
    conformanceClasses,     \* Parser
    supportedProperties,
    supportedFunctions

vars == <<maxDepth, properties, functions, conformance,
          conformanceClasses, supportedProperties, supportedFunctions>>

DefaultMaxDepth == 128

-----------------------------------------------------------------------------
(* Registries.                                                             *)

\* The names in a list, and the last entry with a name.
Mentioned(list) == {list[i].name : i \in DOMAIN list} \ {""}

LastNamed(list, name) ==
    CHOOSE i \in DOMAIN list :
        /\ list[i].name = name
        /\ \A j \in DOMAIN list : list[j].name = name => j <= i

\* newPropertyRegistry
PropertyRegistry(list) ==
    [name \in Mentioned(list) |-> list[LastNamed(list, name)].type]

\* newFunctionRegistry
FunctionRegistry(list) ==
    [name \in Mentioned(list) |-> list[LastNamed(list, name)].signature]

\* mergeFunctionDefinitions
Merged(base, extra) == Override(extra, base)

\* Mutation of CapabilitiesFor: one case is missing in the switch over the
\* classes.
CapabilitiesWithoutPlus(classes) ==
    [slug \in Switched |-> slug \in SlugsOf(classes) \ {"basic-spatial-functions-plus"}]

CapabilitiesFor(classes) == [slug \in Switched |-> slug \in SlugsOf(classes)]

-----------------------------------------------------------------------------
(* NewParser                                                               *)

Init ==
    /\ maxDepth = DefaultMaxDepth
    /\ properties = [restricted |-> FALSE, defs |-> << >>]
    /\ functions = << >>
    /\ conformance = CapabilitiesFor({})
    /\ conformanceClasses = {}
    /\ supportedProperties = {}
    /\ supportedFunctions = {}

\* Mutation of DepthSet: the limit is taken as it is given.
DepthAsGiven(n) == n

DepthSet(n) == IF n <= 0 THEN DefaultMaxDepth ELSE n

WithMaxDepth ==
    /\ \E n \in Depths : maxDepth' = DepthSet(n)
    /\ UNCHANGED <<properties, functions, conformance, conformanceClasses,
                   supportedProperties, supportedFunctions>>

WithAllowedProperties ==
    /\ \E defs \in PropertyLists :
          /\ properties' = [restricted |-> TRUE, defs |-> PropertyRegistry(defs)]
          /\ supportedProperties' = Mentioned(defs)
    /\ UNCHANGED <<maxDepth, functions, conformance, conformanceClasses, supportedFunctions>>

\* Mutation of WithAllowedFunctions: the definitions replace the registry.
AllowedFunctionsReplace ==
    /\ \E defs \in FunctionLists :
          /\ functions' = FunctionRegistry(defs)
          /\ supportedFunctions' = DOMAIN functions'
    /\ UNCHANGED <<maxDepth, properties, conformance, conformanceClasses, supportedProperties>>

WithAllowedFunctions ==
    /\ \E defs \in FunctionLists :
          /\ functions' = Merged(functions, FunctionRegistry(defs))
          /\ supportedFunctions' = DOMAIN functions'
    /\ UNCHANGED <<maxDepth, properties, conformance, conformanceClasses, supportedProperties>>

\* Nothing but the advertised names changes.
WithConformanceClasses ==
    /\ \E classes \in ClassLists : conformanceClasses' = classes
    /\ UNCHANGED <<maxDepth, properties, functions, conformance,
                   supportedProperties, supportedFunctions>>

\* Mutation of WithConformance: what was on stays on.
ConformanceAccumulates ==
    /\ \E classes \in ClassLists :
          LET canonical == CanonicalClasses(classes)
          IN  /\ conformanceClasses' = canonical
              /\ conformance' = [s \in Switched |-> conformance[s] \/ CapabilitiesFor(canonical)[s]]
              /\ functions' = Merged(functions, StandardFunctions(SlugsOf(canonical)))
              /\ supportedFunctions' = DOMAIN functions'
    /\ UNCHANGED <<maxDepth, properties, supportedProperties>>

WithConformance ==
    /\ \E classes \in ClassLists :
          LET canonical == CanonicalClasses(classes)
          IN  /\ conformanceClasses' = canonical
              /\ conformance' = CapabilitiesFor(canonical)
              /\ functions' = Merged(functions, StandardFunctions(SlugsOf(canonical)))
              /\ supportedFunctions' = DOMAIN functions'
    /\ UNCHANGED <<maxDepth, properties, supportedProperties>>

Next == \/ WithMaxDepth \/ WithAllowedProperties \/ WithAllowedFunctions
        \/ WithConformanceClasses \/ WithConformance

Spec == Init /\ [][Next]_vars

-----------------------------------------------------------------------------
(* What Parse is given: the configuration of TextParser and JsonParser.    *)

ParseConfig ==
    [maxDepth         |-> maxDepth,
     arithmetic       |-> conformance["arithmetic"],
     advanced         |-> conformance["advanced-comparison-operators"],
     propertyProperty |-> conformance["property-property"],
     temporal         |-> conformance["temporal-functions"],
     arrays           |-> conformance["array-functions"],
     spatial          |-> IF conformance["spatial-functions"] THEN "all"
                          ELSE IF \/ conformance["basic-spatial-functions"]
                                  \/ conformance["basic-spatial-functions-plus"] THEN "basic"
                          ELSE "none",
     restricted       |-> properties.restricted,
     properties       |-> properties.defs,
     functions        |-> functions]

-----------------------------------------------------------------------------
(* Properties.                                                             *)

TypeOK ==
    /\ maxDepth \in Nat \ {0}
    /\ properties.restricted \in BOOLEAN
    /\ conformance \in [Switched -> BOOLEAN]
    /\ "" \notin DOMAIN properties.defs \cup DOMAIN functions

\* Every predicate the parser accepts is one of the functions it advertises,
\* with a signature, in whatever order classes and functions were set: a
\* class is never on without its standard functions.
EnabledPredicatesAreSupported ==
    \A op \in PredicateOps :
        Allows(conformance, op) => op \in DOMAIN functions \cap supportedFunctions

\* The functions a filter may use: those of the registry, but a predicate only
\* while a class that has it is on.
Accepted ==
    (DOMAIN functions \ PredicateOps) \cup {op \in PredicateOps : Allows(conformance, op)}

\* The functions that are advertised all the same.  There can be some: classes
\* are replaced by the next call, and their functions stay in the registry.
Refused == supportedFunctions \ Accepted

\* A call does not begin to advertise what the parser refuses, with two
\* exceptions: the functions of a class that this call switches off, which were
\* accepted up to it, and a function that the application registers under the
\* name of a predicate whose class is off.
NothingNewIsRefused ==
    [][\A name \in Refused' \ Refused :
          \/ name \in Accepted /\ conformance' # conformance
          \/ name \notin DOMAIN functions /\ conformance' = conformance]_vars

\* Each method settles the question it is documented to settle, and no other.
Settings == INSTANCE ParserSettings WITH
    Limits     <- {DepthSet(n) : n \in Depths},
    Queryables <- {PropertyRegistry(l) : l \in PropertyLists},
    Signatures <- {FunctionRegistry(l) : l \in FunctionLists},
    limit      <- maxDepth,
    queryables <- properties.defs,
    open       <- ~properties.restricted,
    known      <- functions,
    enabled    <- {s \in Switched : conformance[s]}

ImplementsSettings == Settings!Spec
=============================================================================
