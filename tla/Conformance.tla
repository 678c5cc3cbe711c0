----------------------------- MODULE Conformance -----------------------------
(***************************************************************************)
(* The conformance classes of api/conformance.go: how they are named, the  *)
(* standard functions they imply and the capabilities they switch on.      *)
(*                                                                         *)
(* A class is named by its slug, by a /conf/ or /req/ fragment, or by a    *)
(* URI, in any case and with blanks around it; a fragment or a URI may go  *)
(* on after the slug.  A name is a record of these parts.                  *)
(***************************************************************************)
EXTENDS TypeRules

ClassName(form, slug, more, padded) ==
    [form |-> form, slug |-> slug, more |-> more, padded |-> padded]

\* conformanceBySlug
Slugs == {"basic-cql2", "advanced-comparison-operators", "case-insensitive-comparison",
          "accent-insensitive-comparison", "basic-spatial-functions",
          "basic-spatial-functions-plus", "spatial-functions", "temporal-functions",
          "array-functions", "property-property", "functions", "arithmetic",
          "cql2-text", "cql2-json"}

\* The constants such as ConformanceBasicCQL2.
ClassURI(slug) == ClassName("conf uri", slug, FALSE, FALSE)

\* canonicalConformanceClass: a fragment is looked up by its first segment, a
\* slug or a URI as a whole; what is not found stays as it is, trimmed.
Canonical(c) ==
    IF c.slug \in Slugs /\ (c.more => c.form \in {"conf fragment", "req fragment"})
    THEN ClassURI(c.slug)
    ELSE [c EXCEPT !.padded = FALSE]

Blank(c) == c.form = "slug" /\ c.slug = "" /\ ~c.more

\* CanonicalConformanceClasses, as a set: its order is the caller's.
CanonicalClasses(names) == {Canonical(c) : c \in {n \in names : ~Blank(n)}}

SlugsOf(classes) == {s \in Slugs : ClassURI(s) \in classes}

-----------------------------------------------------------------------------
(* StandardFunctionsForConformance                                         *)

Signature(args, returns) == [args |-> args, variadic |-> {}, returns |-> returns]

\* api.isIntervalOnlyTemporalPredicate, which lets instants into T_CONTAINS
\* and T_DURING.
AdvertisedIntervalOnly == IntervalOnly \ {"T_CONTAINS", "T_DURING"}

StandardFunction(name) ==
    LET both(types) == Signature(<<types, types>>, {"boolean"})
    IN  IF name \in {"CASEI", "ACCENTI"} THEN Signature(<<{"string"}>>, {"string"})
        ELSE IF name \in SpatialOps THEN both({"geometry"})
        ELSE IF name \in ArrayOps THEN both({"array"})
        ELSE IF name \in AdvertisedIntervalOnly THEN both({"interval"})
        ELSE both({"datetime", "interval"})

FunctionsOfClass(slug) ==
    {name \in {"CASEI", "ACCENTI"} \cup SpatialOps \cup TemporalOps \cup ArrayOps :
        \/ slug = "case-insensitive-comparison" /\ name = "CASEI"
        \/ slug = "accent-insensitive-comparison" /\ name = "ACCENTI"
        \/ /\ slug \in {"basic-spatial-functions", "basic-spatial-functions-plus"}
           /\ name = "S_INTERSECTS"
        \/ slug = "spatial-functions" /\ name \in SpatialOps
        \/ slug = "temporal-functions" /\ name \in TemporalOps
        \/ slug = "array-functions" /\ name \in ArrayOps}

StandardFunctions(slugs) ==
    [name \in UNION {FunctionsOfClass(s) : s \in slugs} |-> StandardFunction(name)]

\* A registry in which the definitions of f come later than those of g.
Override(f, g) ==
    [name \in DOMAIN f \cup DOMAIN g |-> IF name \in DOMAIN f THEN f[name] ELSE g[name]]

-----------------------------------------------------------------------------
(* conformanceCapabilitiesForClasses                                       *)

Switched == {"advanced-comparison-operators", "basic-spatial-functions",
             "basic-spatial-functions-plus", "spatial-functions", "temporal-functions",
             "array-functions", "property-property", "arithmetic"}

PredicateOps == SpatialOps \cup TemporalOps \cup ArrayOps

\* allowsSpatialPredicate and its two fellows.
Allows(capabilities, op) ==
    \/ op \in TemporalOps /\ capabilities["temporal-functions"]
    \/ op \in ArrayOps /\ capabilities["array-functions"]
    \/ op \in SpatialOps /\ capabilities["spatial-functions"]
    \/ /\ op = "S_INTERSECTS"
       /\ \/ capabilities["basic-spatial-functions"]
          \/ capabilities["basic-spatial-functions-plus"]
=============================================================================
