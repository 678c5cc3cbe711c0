---------------------------- MODULE MCParserConfig ---------------------------
(***************************************************************************)
(* Arguments of the setup methods for TLC.                                 *)
(***************************************************************************)
EXTENDS ParserConfig

MCInstants == << >>

MCDepths == {-1, 0, 8}

Prop(name, type) == [name |-> name, type |-> type]

MCPropertyLists == {<< >>, <<Prop("", "any")>>, <<Prop("a", "number"), Prop("a", "string")>>,
                    <<Prop("b", "any"), Prop("a", "number")>>}

Fn(normal, spelling, signature) ==
    [name |-> normal, spelling |-> spelling, signature |-> signature]

Any == Signature(<<{}>>, {"any"})

MCFunctionLists ==
    {<< >>, <<Fn("", "", Any)>>,
     <<Fn("f", "f", Any), Fn("f", "F", Signature(<< >>, {"number"}))>>,
     <<Fn("T_AFTER", "t_after", Any), Fn("CASEI", "CaseI", Signature(<<{"number"}>>, {"number"}))>>}

Slug(slug) == ClassName("slug", slug, FALSE, FALSE)

MCClassLists ==
    {{}, {Slug("")}, {Slug("unknown"), Slug("arithmetic")},
     {ClassName("conf fragment", "temporal-functions", TRUE, TRUE), Slug("basic-spatial-functions")},
     {ClassName("req uri", "temporal-functions", TRUE, FALSE), ClassName("slug", "array-functions", FALSE, TRUE)},
     {ClassURI("spatial-functions"), ClassName("req uri", "property-property", FALSE, FALSE)},
     {ClassName("req fragment", "case-insensitive-comparison", FALSE, FALSE),
      Slug("advanced-comparison-operators"), Slug("basic-spatial-functions-plus")},
     {ClassName("req fragment", "unknown", TRUE, TRUE), Slug("accent-insensitive-comparison")}}
=============================================================================
