-------------------------- MODULE ParserConfig_proofs ------------------------
(***************************************************************************)
(* For every list of properties, functions and classes, in any order of    *)
(* the setup methods: a class is never on without its functions, no call   *)
(* begins to advertise what the parser refuses, and every method does what *)
(* is promised of it and nothing else (the refinement of ParserSettings).  *)
(***************************************************************************)
EXTENDS ParserConfig, TLAPS

\* The part of EnabledPredicatesAreSupported that the advertised names do not
\* take part in; with ListIsRegistry it is inductive.
EnabledPredicatesAreKnown ==
    \A op \in PredicateOps : Allows(conformance, op) => op \in DOMAIN functions

\* The list of advertised functions and the registry, which the methods set
\* one after the other.
ListIsRegistry == supportedFunctions = DOMAIN functions

IInv == TypeOK /\ ListIsRegistry /\ EnabledPredicatesAreKnown

-----------------------------------------------------------------------------
(* Registries.                                                             *)

LEMMA RegistriesName ==
    ASSUME NEW list
    PROVE  /\ DOMAIN PropertyRegistry(list) = Mentioned(list)
           /\ DOMAIN FunctionRegistry(list) = Mentioned(list)
           /\ "" \notin Mentioned(list)
BY DEF PropertyRegistry, FunctionRegistry, Mentioned

\* A definition is never lost by adding others.
LEMMA OverrideKnows ==
    ASSUME NEW f, NEW g
    PROVE  DOMAIN Override(f, g) = DOMAIN f \cup DOMAIN g
BY DEF Override

LEMMA StandardFunctionsAreNamed ==
    ASSUME NEW slugs
    PROVE  "" \notin DOMAIN StandardFunctions(slugs)
<1>1. ASSUME NEW slug PROVE "" \notin FunctionsOfClass(slug)
  BY DEF FunctionsOfClass, SpatialOps, TemporalOps, IntervalOnly, ArrayOps
<1> QED BY <1>1 DEF StandardFunctions

\* A predicate the capabilities let in is a standard function of the classes.
LEMMA CapabilitiesHaveFunctions ==
    ASSUME NEW classes, NEW op \in PredicateOps, Allows(CapabilitiesFor(classes), op)
    PROVE  op \in DOMAIN StandardFunctions(SlugsOf(classes))
<1> DEFINE slugs == SlugsOf(classes)
<1>1. \A s \in Switched : CapabilitiesFor(classes)[s] = (s \in slugs)
  BY DEF CapabilitiesFor
<1>2. \E s \in slugs : op \in FunctionsOfClass(s)
  <2>1. CASE op \in TemporalOps /\ "temporal-functions" \in slugs
    BY <2>1 DEF FunctionsOfClass
  <2>2. CASE op \in ArrayOps /\ "array-functions" \in slugs
    BY <2>2 DEF FunctionsOfClass
  <2>3. CASE op \in SpatialOps /\ "spatial-functions" \in slugs
    BY <2>3 DEF FunctionsOfClass
  <2>4. CASE /\ op = "S_INTERSECTS"
             /\ "basic-spatial-functions" \in slugs \/ "basic-spatial-functions-plus" \in slugs
    BY <2>4 DEF FunctionsOfClass, SpatialOps
  <2> QED BY <1>1, <2>1, <2>2, <2>3, <2>4 DEF Allows, Switched
<1> QED BY <1>2 DEF StandardFunctions

\* ... and the other way round: the standard functions of the classes hold no
\* predicate that their capabilities shut out.
LEMMA FunctionsAreEnabled ==
    ASSUME NEW classes, NEW op \in PredicateOps, op \in DOMAIN StandardFunctions(SlugsOf(classes))
    PROVE  Allows(CapabilitiesFor(classes), op)
<1>1. PICK slug \in SlugsOf(classes) : op \in FunctionsOfClass(slug)
  BY DEF StandardFunctions
<1>2. \A s \in Switched : CapabilitiesFor(classes)[s] = (s \in SlugsOf(classes))
  BY DEF CapabilitiesFor
<1>3. op \notin {"CASEI", "ACCENTI"}
  BY DEF PredicateOps, SpatialOps, TemporalOps, IntervalOnly, ArrayOps
<1> QED BY <1>1, <1>2, <1>3 DEF FunctionsOfClass, Allows, Switched

-----------------------------------------------------------------------------
(* The invariants.                                                         *)

LEMMA InitIInv == Init => IInv
<1> SUFFICES ASSUME Init PROVE IInv
  OBVIOUS
<1>1. \A s \in Switched : ~conformance[s]
  BY DEF Init, CapabilitiesFor, SlugsOf
<1>2. EnabledPredicatesAreKnown
  BY <1>1 DEF EnabledPredicatesAreKnown, Allows, Switched
<1>3. TypeOK
  BY DEF Init, TypeOK, DefaultMaxDepth, CapabilitiesFor
<1> QED BY <1>2, <1>3 DEF IInv, Init, ListIsRegistry

\* What a change of the known functions leaves of the invariant, when no
\* function is taken back.
LEMMA MergedIInv ==
    ASSUME IInv, NEW extra, "" \notin DOMAIN extra,
           functions' = Merged(functions, extra),
           UNCHANGED <<maxDepth, properties, supportedProperties>>,
           supportedFunctions' = DOMAIN functions',
           conformance' \in [Switched -> BOOLEAN],
           \A op \in PredicateOps :
               Allows(conformance', op) => op \in DOMAIN extra \cup DOMAIN functions
    PROVE  IInv'
<1>1. DOMAIN functions' = DOMAIN extra \cup DOMAIN functions
  BY OverrideKnows DEF Merged
<1>2. TypeOK'
  BY <1>1 DEF IInv, TypeOK
<1>3. ListIsRegistry'
  BY DEF IInv, ListIsRegistry
<1>4. EnabledPredicatesAreKnown'
  BY <1>1 DEF EnabledPredicatesAreKnown
<1> QED BY <1>2, <1>3, <1>4 DEF IInv

LEMMA NextIInv == IInv /\ [Next]_vars => IInv'
<1> SUFFICES ASSUME IInv, [Next]_vars PROVE IInv'
  OBVIOUS
<1>1. CASE WithMaxDepth
  <2>1. maxDepth' \in Nat \ {0}
    BY <1>1, DepthsAssumption DEF WithMaxDepth, DepthSet, DefaultMaxDepth
  <2> QED BY <1>1, <2>1 DEF WithMaxDepth, IInv, TypeOK, ListIsRegistry, EnabledPredicatesAreKnown
<1>2. CASE WithAllowedProperties
  <2>1. PICK defs \in PropertyLists :
            /\ properties' = [restricted |-> TRUE, defs |-> PropertyRegistry(defs)]
            /\ supportedProperties' = Mentioned(defs)
    BY <1>2 DEF WithAllowedProperties
  <2>2. properties'.restricted = TRUE /\ DOMAIN properties'.defs = Mentioned(defs)
    BY <2>1, RegistriesName
  <2>3. "" \notin Mentioned(defs)
    BY RegistriesName
  <2> QED BY <1>2, <2>1, <2>2, <2>3 DEF WithAllowedProperties, IInv, TypeOK, ListIsRegistry, EnabledPredicatesAreKnown
<1>3. CASE WithAllowedFunctions
  <2>1. PICK defs \in FunctionLists : functions' = Merged(functions, FunctionRegistry(defs))
    BY <1>3 DEF WithAllowedFunctions
  <2>2. "" \notin DOMAIN FunctionRegistry(defs)
    BY RegistriesName
  <2>3. /\ conformance' = conformance
        /\ conformance' \in [Switched -> BOOLEAN]
        /\ UNCHANGED <<maxDepth, properties, supportedProperties>>
        /\ supportedFunctions' = DOMAIN functions'
    BY <1>3 DEF WithAllowedFunctions, IInv, TypeOK
  <2>4. \A op \in PredicateOps : Allows(conformance, op) => op \in DOMAIN functions
    BY DEF IInv, EnabledPredicatesAreKnown
  <2> QED BY <2>1, <2>2, <2>3, <2>4, MergedIInv
<1>4. CASE WithConformanceClasses
  BY <1>4 DEF WithConformanceClasses, IInv, TypeOK, ListIsRegistry, EnabledPredicatesAreKnown
<1>5. CASE WithConformance
  <2>1. PICK classes \in ClassLists :
            /\ conformance' = CapabilitiesFor(CanonicalClasses(classes))
            /\ functions' = Merged(functions, StandardFunctions(SlugsOf(CanonicalClasses(classes))))
    BY <1>5 DEF WithConformance
  <2> DEFINE canonical == CanonicalClasses(classes)
             standard  == StandardFunctions(SlugsOf(canonical))
  <2>2. "" \notin DOMAIN standard
    BY StandardFunctionsAreNamed
  <2>3. /\ UNCHANGED <<maxDepth, properties, supportedProperties>>
        /\ supportedFunctions' = DOMAIN functions'
    BY <1>5 DEF WithConformance
  <2>4. conformance' \in [Switched -> BOOLEAN]
    BY <2>1 DEF CapabilitiesFor
  <2>5. \A op \in PredicateOps : Allows(conformance', op) => op \in DOMAIN standard
    BY <2>1, CapabilitiesHaveFunctions
  <2> HIDE DEF standard, canonical
  <2> QED BY <2>1, <2>2, <2>3, <2>4, <2>5, MergedIInv DEF standard, canonical
<1>6. CASE UNCHANGED vars
  BY <1>6 DEF vars, IInv, TypeOK, ListIsRegistry, EnabledPredicatesAreKnown
<1> QED BY <1>1, <1>2, <1>3, <1>4, <1>5, <1>6 DEF Next

LEMMA AlwaysIInv == Spec => []IInv
<1> QED BY InitIInv, NextIInv, PTL DEF Spec

\* Whatever the setup calls are given: the limit is positive and no name of a
\* registry is empty (WithMaxDepth, newPropertyRegistry, newFunctionRegistry).
THEOREM SettingsStayValid == Spec => []TypeOK
<1>1. IInv => TypeOK
  BY DEF IInv
<1> QED BY AlwaysIInv, <1>1, PTL

\* No setup call leaves a predicate enabled whose function is not advertised
\* with a signature: neither replacing the classes nor adding functions.
THEOREM EnabledAreSupported == Spec => []EnabledPredicatesAreSupported
<1>1. IInv => EnabledPredicatesAreSupported
  BY DEF IInv, EnabledPredicatesAreKnown, EnabledPredicatesAreSupported, ListIsRegistry
<1> QED BY AlwaysIInv, <1>1, PTL

-----------------------------------------------------------------------------
(* What is advertised.                                                     *)

LEMMA NothingNewStep ==
    ASSUME IInv, IInv', [Next]_vars, NEW name \in Refused', name \notin Refused
    PROVE  \/ name \in Accepted /\ conformance' # conformance
           \/ name \notin DOMAIN functions /\ conformance' = conformance
<1>1. /\ name \in PredicateOps /\ ~Allows(conformance', name)
      /\ name \in DOMAIN functions'
  BY DEF IInv, ListIsRegistry, Refused, Accepted
<1>2. name \in DOMAIN functions => Allows(conformance, name)
  BY <1>1 DEF IInv, ListIsRegistry, Refused, Accepted
<1>3. Allows(conformance, name) => name \in Accepted /\ conformance' # conformance
  BY <1>1 DEF Accepted
<1>4. CASE WithAllowedFunctions
  <2>1. conformance' = conformance
    BY <1>4 DEF WithAllowedFunctions
  <2> QED BY <2>1, <1>1, <1>2
<1>5. CASE WithConformance
  <2>1. PICK classes \in ClassLists :
            /\ conformance' = CapabilitiesFor(CanonicalClasses(classes))
            /\ functions' = Merged(functions, StandardFunctions(SlugsOf(CanonicalClasses(classes))))
    BY <1>5 DEF WithConformance
  <2>2. name \notin DOMAIN StandardFunctions(SlugsOf(CanonicalClasses(classes)))
    BY <2>1, <1>1, FunctionsAreEnabled
  <2>3. name \in DOMAIN functions
    BY <2>1, <2>2, <1>1, OverrideKnows DEF Merged
  <2> QED BY <2>3, <1>2, <1>3
<1>6. CASE WithMaxDepth \/ WithAllowedProperties \/ WithConformanceClasses \/ UNCHANGED vars
  <2>1. conformance' = conformance /\ functions' = functions
    BY <1>6 DEF WithMaxDepth, WithAllowedProperties, WithConformanceClasses, vars
  <2> QED BY <2>1, <1>1, <1>2
<1> QED BY <1>4, <1>5, <1>6 DEF Next

\* No setup call begins to advertise a function that the parser refuses, but
\* for the functions of a class it switches off and those the application
\* registers under the name of a predicate that is off: a WithConformance
\* registers no predicate that its capabilities shut out, and a list made anew
\* from the registry brings back none.
THEOREM AdvertisesNothingNewRefused == Spec => NothingNewIsRefused
<1>1. IInv /\ IInv' /\ [Next]_vars =>
        [\A name \in Refused' \ Refused :
            \/ name \in Accepted /\ conformance' # conformance
            \/ name \notin DOMAIN functions /\ conformance' = conformance]_vars
  BY NothingNewStep
<1> QED BY <1>1, AlwaysIInv, PTL DEF Spec, NothingNewIsRefused

-----------------------------------------------------------------------------
(* The refinement.                                                         *)

LEMMA SameOverride ==
    ASSUME NEW f, NEW g
    PROVE  Settings!Override(f, g) = Override(f, g)
BY DEF Override, Settings!Override

LEMMA SameStandardFunctions ==
    ASSUME NEW slugs
    PROVE  Settings!StandardFunctions(slugs) = StandardFunctions(slugs)
BY DEF StandardFunctions, Settings!StandardFunctions, StandardFunction, Settings!StandardFunction,
       FunctionsOfClass, Settings!FunctionsOfClass, Signature, Settings!Signature,
       SpatialOps, Settings!SpatialOps, TemporalOps, Settings!TemporalOps,
       ArrayOps, Settings!ArrayOps, AdvertisedIntervalOnly, Settings!AdvertisedIntervalOnly,
       IntervalOnly, Settings!IntervalOnly

LEMMA InitRefines == Init => Settings!Init
<1> SUFFICES ASSUME Init PROVE Settings!Init
  OBVIOUS
<1>1. {s \in Switched : conformance[s]} = {}
  <2>1. \A s \in Switched : ~conformance[s]
    BY DEF Init, CapabilitiesFor, SlugsOf
  <2> QED BY <2>1
<1>2. properties.defs = << >> /\ ~properties.restricted
  BY DEF Init
<1> QED BY <1>1, <1>2 DEF Init, Settings!Init, DefaultMaxDepth

LEMMA NextRefines == IInv /\ [Next]_vars => [Settings!Next]_(Settings!settings)
<1> SUFFICES ASSUME IInv, [Next]_vars PROVE Settings!Next \/ UNCHANGED Settings!settings
  OBVIOUS
<1>1. CASE WithMaxDepth
  <2>1. Settings!SetLimit
    BY <1>1 DEF WithMaxDepth, Settings!SetLimit
  <2> QED BY <2>1 DEF Settings!Next
<1>2. CASE WithAllowedProperties
  <2>1. PICK defs \in PropertyLists : properties' = [restricted |-> TRUE, defs |-> PropertyRegistry(defs)]
    BY <1>2 DEF WithAllowedProperties
  <2>2. properties'.restricted = TRUE /\ properties'.defs = PropertyRegistry(defs)
    BY <2>1
  <2>3. Settings!AllowProperties
    BY <1>2, <2>2 DEF WithAllowedProperties, Settings!AllowProperties
  <2> QED BY <2>3 DEF Settings!Next
<1>3. CASE WithAllowedFunctions
  <2>1. Settings!AllowFunctions
    BY <1>3, SameOverride DEF WithAllowedFunctions, Merged, Settings!AllowFunctions
  <2> QED BY <2>1 DEF Settings!Next
<1>4. CASE WithConformanceClasses
  BY <1>4 DEF WithConformanceClasses, Settings!settings
<1>5. CASE WithConformance
  <2>1. PICK classes \in ClassLists :
            /\ conformance' = CapabilitiesFor(CanonicalClasses(classes))
            /\ functions' = Merged(functions, StandardFunctions(SlugsOf(CanonicalClasses(classes))))
    BY <1>5 DEF WithConformance
  <2> DEFINE slugs == SlugsOf(CanonicalClasses(classes))
  <2>2. slugs \in SUBSET Slugs
    BY DEF SlugsOf
  <2>3. {s \in Switched : conformance'[s]} = slugs \cap Switched
    BY <2>1 DEF CapabilitiesFor
  <2>4. functions' = Settings!Override(Settings!StandardFunctions(slugs), functions)
    BY <2>1, SameOverride, SameStandardFunctions DEF Merged
  <2>5. Settings!Conform
    BY <1>5, <2>2, <2>3, <2>4 DEF WithConformance, Settings!Conform, Settings!Slugs, Slugs, Settings!Switched, Switched
  <2> QED BY <2>5 DEF Settings!Next
<1>6. CASE UNCHANGED vars
  BY <1>6 DEF vars, Settings!settings
<1> QED BY <1>1, <1>2, <1>3, <1>4, <1>5, <1>6 DEF Next

\* Every chain of setup calls is one of ParserSettings: a call settles the
\* question it is documented to settle, and no other.
THEOREM SettingsImplemented == Spec => ImplementsSettings
<1> QED BY InitRefines, NextRefines, AlwaysIInv, PTL DEF Spec, ImplementsSettings, Settings!Spec
=============================================================================
