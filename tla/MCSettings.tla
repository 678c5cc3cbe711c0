------------------------------ MODULE MCSettings -----------------------------
(***************************************************************************)
(* The registries and parse configurations TLC checks both parsers under.  *)
(***************************************************************************)
EXTENDS Integers

MCInstants == [d1 |-> [kind |-> "date", at |-> 1], d2 |-> [kind |-> "date", at |-> 2],
               t1 |-> [kind |-> "timestamp", at |-> 1]]

MCNumbers ==
    [n0 |-> 0, n1 |-> 1, n2 |-> 2, n90 |-> 90, n91 |-> 91, n180 |-> 180, n181 |-> 181,
     m1 |-> -1, m2 |-> -2, m90 |-> -90, m91 |-> -91, m180 |-> -180, m181 |-> -181]

Def(args, returns) == [args |-> args, variadic |-> {}, returns |-> returns]

MCFunctions ==
    [f       |-> [args |-> <<{}>>, variadic |-> {1}, returns |-> {"any"}],
     v       |-> [args |-> <<{}, {}>>, variadic |-> {1}, returns |-> {"any"}],   \* not a valid one
     n       |-> Def(<<{"number"}>>, {"integer"}),
     m       |-> Def(<<{"any"}>>, {"string", "number"}),
     b       |-> Def(<<{"boolean", "array"}>>, {"boolean"}),
     CASEI   |-> Def(<<{"string"}>>, {"string"}),
     POINT   |-> Def(<<{"number"}>>, {"geometry"}),
     T_AFTER |-> Def(<<{"datetime", "interval"}, {"datetime", "interval"}>>, {"boolean"})]

MCProperties == [a |-> "number", s |-> "string", d |-> "date", i |-> "interval",
                 l |-> "array", date |-> "timestamp", g |-> "point", x |-> "any"]

Everything ==
    [maxDepth |-> 128, arithmetic |-> TRUE, advanced |-> TRUE, propertyProperty |-> TRUE,
     temporal |-> TRUE, arrays |-> TRUE, spatial |-> "all", restricted |-> FALSE,
     properties |-> << >>, functions |-> MCFunctions]

Nothing ==
    [maxDepth |-> 128, arithmetic |-> FALSE, advanced |-> FALSE, propertyProperty |-> FALSE,
     temporal |-> FALSE, arrays |-> FALSE, spatial |-> "none", restricted |-> TRUE,
     properties |-> MCProperties, functions |-> MCFunctions]

Typed == [Everything EXCEPT !.restricted = TRUE, !.properties = MCProperties]

AllOn    == {Everything}
TypedOn  == {Typed}
Switches == {Typed, Nothing} \cup {[Typed EXCEPT ![f] = FALSE] :
                f \in {"arithmetic", "advanced", "propertyProperty", "temporal", "arrays"}}
              \cup {[Typed EXCEPT !.spatial = "basic"]}

\* Every input of every family under every configuration.
Given(families, configs) == UNION {[input : f, cfg : configs] : f \in families}
=============================================================================
