# TLA+ specifications of gocql2

gocql2 is a Go library that reads CQL2 filters (Text or JSON), checks them
against a registry of properties and functions, represents them as one syntax
tree, and renders the tree as CQL2 Text, CQL2 JSON or SQL. The code has no
goroutines, timers or storage: what is hard is backtracking, nesting,
precedence, three-valued logic, two languages that have to mean the same, and
keeping every gate of the conformance switches closed on every path. The
specifications here model that control directly, as machines whose steps are
the straight-line code between two calls.

Contents: [inventory](#inventory), [modules](#modules),
[code and model](#code-and-model), [runs](#runs), [fairness](#fairness),
[proofs](#proofs), [what is only model-checked](#only-model-checked),
[what is not modelled](#not-modelled), [divergences](#divergences),
[what the code does that one might not expect](#behaviour-worth-knowing),
[plan](#plan).

## Inventory

| Component | Source | State | Operations | Hard behaviour | What makes it correct | Modelled in |
|---|---|---|---|---|---|---|
| Parser configuration | `parse.go`, `internal/parser/parse.go`, `conformance.go`, `property.go`, `function.go`, `api/conformance.go` | limit, property and function registries, capabilities, advertised names | `WithMaxDepth`, `WithAllowedProperties`, `WithAllowedFunctions`, `WithConformanceClasses`, `WithConformance`, in any order and repeatedly | capabilities are replaced, the function registry only grows, advertised lists are kept beside both | a class that is on has its functions; no call begins to advertise what is refused, but for two ways that are named; each method settles one question | `Conformance`, `ParserConfig`, `ParserSettings` |
| Text lexer | `internal/parser/text_lexer.go` | position, tokens so far | `lexText`: one token at a time; whether a sign belongs to a number is decided by the previous token | `1-1` against `1 -1`, quoted names, escapes, where a number ends | no character is lost; numbers are longest; what the serializer writes lexes to the tokens it meant | `Lexing`, `TextLexer`, `Rewriting` |
| Text parser | `internal/parser/text_parser.go`, `spatial.go` | tokens, `pos`, the Go call stack with its depth arguments | some thirty mutually recursive procedures | alternatives tried and given up, precedence climbing, depth passed by hand, `NOT` read before what it negates | the tree is the grammar's; nothing derivable is refused; recursion bounded; terminates | `TextParser`, `TextGeometry`, `TextGrammar`, `TextTrees` |
| JSON parser | `internal/parser/json_parser.go`, `spatial.go` | decoded value, path, depth, the Go call stack | operator dispatch onto the same trees | several shapes for one key, alternatives that may not be given up, names in three spellings, procedures without a depth check | the tree is what the document means; nothing with a meaning is refused; same gates and types as text | `JsonValues`, `JsonNames`, `JsonParser`, `JsonTrees`, `JsonMeaning` |
| Semantic validation | `property.go`, `function.go`, `temporal.go`, `array.go` | none (registries are read) | validators called as nodes are built | many pairwise rules over sets of types | operands in an accepted tree can be values of one sort | `TypeRules`, `Trees` |
| Geometry and spatial | `internal/parser/spatial.go` | shared with both parsers | WKT and GeoJSON literals, `S_*` predicates, bounding boxes | nested collections, ring closure, heights, the corners of boxes | every accepted literal is well formed at every level | `Geometry`, `TextGeometry`, `JsonParser` |
| Numbers | `internal/parser/number.go` | none | `canonicalNumber` | exponent folding, bounds | the same value, one text for each value | `NumberTexts` |
| Serializer | `internal/serializer/serializer.go`, `serialize.go` | none | `ToText`, `ToJSON` | where parentheses are needed; names that look like operators or keywords; quoting; what only one language can say | parsing the output gives the same tree back, with exceptions that are named | `Serializer`, `RoundTrip`, `RoundTripMeaning` |
| SQL compiler | `sql/sql.go` | `args`, dialect, resolver, default mapping | `ToSQL`, one renderer per node, dialect hooks | placeholders written apart from the values, NULL, ends of intervals, fail-closed hooks | the SQL selects what the filter describes; placeholders and values correspond | `SqlCompiler`, `SqlSupport`, `SqlMeaning` |
| Syntax tree, errors | `api/` | none | constructors, `JSONPath`, error values | none | part of the trees above | nodes in `TypeRules` |
| Acceptance tests | `internal/ats` | fixtures | an evaluator of trees over rows | none | test code | not modelled |

How they interact: the setup methods fill the fields of a `Parser`; a parse
takes them as a value (`ParseConfig`). `ParseText` runs the lexer to the end,
then the text parser over its tokens; `ParseJSON` decodes first and walks the
result. Both call the validators as each node is completed, and an error of a
validator is an error of the procedure, so a caller that tries an alternative
catches it like any other. The serializer and the SQL compiler take a finished
tree, which may also have been built by the application; the compiler calls
back into the dialect and the property resolver of the application.

## Modules

| Module | Role | Extends |
|---|---|---|
| `TypeRules` | syntax-tree nodes and the type rules of `property.go`, `function.go`, `temporal.go` and `array.go`, as operators | |
| `JsonValues`, `JsonNames` | JSON values; the names of operations in JSON and in the tree | `TypeRules` (names) |
| `Geometry` | geometry literals, their validation, and GeoJSON data | `TypeRules`, `JsonValues` |
| `Trees` | what an accepted tree promises, whichever parser built it | `Geometry` |
| `Lexing`, `NumberTexts` | how characters make tokens; canonical numbers | (`Lexing`, `SequencesExt`) |
| `TextLexer` | `lexText`, one action for each kind of token | `NumberTexts` |
| `Rewriting` | lexing, writing the tokens as `ToText` does, lexing again | `TextLexer` |
| `TextGeometry` | the data of a text literal, over a span of tokens | `Geometry` |
| `TextParser` | the text parser as a pushdown machine; its control invariants | `TextGeometry` |
| `TextGrammar` | the grammar as a definition (recursive over spans of tokens), and the two properties that compare the parser with it | `TextParser` |
| `TextTrees` | the promises of `Trees`, of the text parser, with the invariants they follow from | `TextParser`, `Trees` |
| `JsonParser` | the JSON parser as a pushdown machine; its control invariants | `Geometry`, `JsonNames` |
| `JsonTrees` | the promises of `Trees`, of the JSON parser, with the invariants they follow from | `JsonParser`, `Trees` |
| `JsonMeaning` | which trees a document denotes, from the inside out, and the properties that compare the parser with it | `JsonTrees` |
| `Conformance` | classes, their names, functions and capabilities | `TypeRules` |
| `ParserConfig` | the setup methods as actions | `Conformance` |
| `ParserSettings` | abstract specification of the setup methods, which `ParserConfig` implements | `Conformance` |
| `Serializer` | `ToText` and `ToJSON` as operators on trees | `Geometry`, `JsonNames`, `Trees`, `Lexing` |
| `RoundTrip` | composition: a parser, the serializer, a parser (`INSTANCE` of both parsers over shared variables) | `Serializer` |
| `RoundTripMeaning` | what a round trip keeps | `RoundTrip` |
| `SqlCompiler` | `ToSQL` as a pushdown machine over any tree; placeholders and bind values | `TypeRules` |
| `SqlSupport` | which nodes a filter needs SQL for, and which a dialect and mapping have SQL for | `SqlCompiler` |
| `SqlMeaning` | meaning of filters and of SQL fragments over a table, and the properties that compare them | `SqlSupport` |
| `MCTextParser`, `MCJsonParser`, `MCParserConfig`, `MCRoundTrip`, `MCLexer`, `MCSqlCompiler` | inputs for TLC; `MCSettings` has the registries the parsers are checked under | |
| `TextParser_proofs`, `TextTrees_proofs`, `JsonTrees_proofs`, `ParserConfig_proofs`, `SqlCompiler_proofs`, `SqlMeaning_proofs`, `Rewriting_proofs` | theorems about the module they are named for and those it extends | that module |
| `Trees_proofs` | lemmas about the operators of `Trees`, for both parsers | `Trees` |

The abstract specifications are `TextGrammar` and `JsonMeaning` for the
parsers, the evaluators of `SqlMeaning` for the compiler and `ParserSettings`
for the configuration. The parsers and the compiler compute one result and
stop, so "implements" is a relation between the input and the final state,
stated as an invariant over final states; the configuration is a system that
goes on, and `ImplementsSettings` is a refinement step by step.

`RECURSIVE` operators, which the prover cannot reason about, live in modules no
theorem is about: `TextGrammar`, `JsonMeaning`, `Serializer` and
`RoundTripMeaning`. Elsewhere recursion is a function on naturals or sequences,
or a walk over the levels of a tree up to a bound that is a constant:
`TreeLevels`, `DocumentLevels`, `FilterLevels`.

Some definitions are marked "Mutation of ...": each is the definition it names
with a plausible bug. They are in no behaviour; replacing the original by its
mutation makes the property named in `PROJECT.json` fail, which shows that the
property depends on that code.

## Code and model

### Text parser

The state is the token sequence and configuration of the call (`tokens`, `cfg`),
the parser's only mutable field (`pos`), and the Go call stack made explicit:

- `mode = "call"`: procedure `proc` is about to run with arguments `depth` and
  `minPrec`;
- `mode = "return"`: the called procedure returned `node`;
- `mode = "fail"`: it returned an error;
- `stack`: the callers waiting for it. A frame holds the point to continue at
  (`pc`), the caller's depth, the operator and operands read so far, and the
  value `pos` had when the call was made (`save`).

An action is the code between two calls, whole: tests of the token, the
conformance switches and the registries, validators, and `advance`s. `Calling`
guards the first stretch of a procedure, `Returning` a continuation, `Failing`
the handling of an error. An error unwinds (`Propagate`) to a frame in
`CatchFrames`: the parenthesised expression, the two attempts at a function
argument, and the attempt at an array element; these reset `pos`. Procedures
that check their depth (`DepthChecked`) fail in `MaximumDepthExceeded`.
`parseNot` and `parsePattern` do not check, in the code and in the model.
Calls in tail position leave no frame.

Tokens are kinds with texts; nodes are records of a kind, an operator or
name, the set of types an expression may have, operands and a span of token
positions, so two trees of one shape read from different tokens differ.
`time.Parse` is the constant `Instants`, from texts to instants, and
`strconv.ParseFloat` the constant `Numbers`; numbers that `canonicalNumber`
refuses are a set. Error messages, line numbers and `Hint`s are left out.

The data between the parentheses of a geometry literal is read by code that
calls back into nothing, so `TextGeometry` has it as operators on a span of
tokens; only a collection, whose members are literals again, takes steps of
the machine.

### JSON parser

The same kind of machine over a decoded value instead of tokens: `val` and
`path` are the arguments of the call in place of `pos`. A procedure that reads
operands is a frame with the list of calls it will make (`Enter`, `Collect`)
and a last stretch (`...Complete`). A procedure that tries alternatives is a
frame with `pc = "Try"`: an error sends it on to the next one
(`AlternativeFailed`) unless the keys of the object have committed it
(`Committed`, which is `hasJSONTemporalInstanceKey` and its like). What
`encoding/json` does before (syntax, duplicate keys, trailing input) is not
part of the model; what it does to `null` in the place of a slice is.

### Parser configuration

The variables are the fields of `Parser` and `ParseConfig`, the actions the five
setup methods. A registry is a function from names, so that the order in a
list matters as it does in the code (the last definition of a name wins). A
name of a conformance class is a record of its form (slug, fragment or URI),
its slug, whether it continues after the slug and whether it is padded;
`canonicalConformanceClass` is defined on these. `ParseConfig` at the end of the
module is the record both parsers have as `cfg`.

### Lexer and numbers

`TextLexer` has `chars`, `at` and `tokens`, and one action for each function of
`text_lexer.go` that makes a token. Texts are sequences of characters; letters
are a sample (with `e`, which may begin an exponent, and those of one keyword),
digits are `0` and `1`. The scanning loops are `RunEnd`, the first position past
a run of characters. `NumberTexts` translates `canonicalNumber` on such texts;
`MaxExponent` is the bound of `parseSmallInt`.

`Rewriting` composes the lexer with the writing of tokens in the serializer: a
text is lexed, its tokens are written with numbers in canonical form, strings
quoted and names in double quotes where they were, and the text is lexed again.
A text with a number whose exponent is too large is refused by the parser, and is
not written.

### Serializer and round trip

`ToText` is an operator from trees to sequences of tokens and `ToJSON` one from
trees to JSON values. That text is tokens here, while the code joins strings,
is justified by run `lexer`: tokens written with a space between any two that
are not beside a parenthesis or comma lex to the same tokens, except for strings
with a backslash before a quote or at the end. Those are represented by
`Spelling`, the characters of the strings in which they matter, and `ReadsBack`
says whether the lexer gets the string back. Negative coordinates in text are
the case in which the code puts two tokens for one number, and `Following` has
them.

`RoundTrip` runs one of the parsers on an input, writes the accepted tree in
either language, and runs the parser of that language on the result with the
same configuration. The two parsers are instances over shared variables, as one
goroutine runs one of them at a time; `lang` says which, and the variables of
the other one stand still.

### SQL compiler

`mode = "render"` is a call of `renderExpression` (or of one end of an
interval) for `node`; `stack` holds the nodes whose operands are being
rendered, with the requests still to do and the fragments done; `args` is
`compiler.args`. `Requests` is what a renderer renders and in which order;
`Template` how it puts the pieces together; `Accepts` which hook takes which
node. A fragment keeps the tree its text spells out, not the text: quoting,
casts and the GeoJSON of a geometry are abstracted, as the properties do not
look at them. A resolver is a table: a name has a column (`"column"`), is known
without an expression (`"none"`), or is not known, and then the default mapping
decides. The `holes` of a fragment are its placeholders in the order of its
text, for the properties about bind values; the text itself has no order.

`SqlMeaning` has both sides of the comparison. `Eval` is the database: a
fragment, the bind values and a row give one of SQL's three truth values, or
the value of a scalar. `Meaning` is what the tree says of a row: a scalar, an
interval, a condition with two truth values, or nothing. A value is its place in
the order of its type, and `{}` is NULL. A row decides a filter unless something
in it means nothing: the operands of a temporal relation with missing or
misordered ends, open ends, division and powers, `LIKE`, functions, arrays and
spatial predicates, which the library leaves to the database as they are, a
property used as a condition, and the literal NULL.

The compiler takes any tree, so its inputs are sets of trees rather than
results of `TextParser`: trees can also be built by an application.

## Runs

Every run is exhaustive over its inputs; there is no random sampling and no
symmetry. Constructs that do not meet are separate input sets of one run.

| Run | Question | Inputs and bounds | Distinct states |
|---|---|---|---|
| `text_language` | accepted exactly the sentences of the grammar, with its tree (`AcceptedIsTheDerivation`, `RejectedIsUnderivable`); only enabled constructs, only registered names, no operands that can never meet, only sound geometries (`FailClosed`, `OperandsCanMeet`, `GeometriesAreSound`) | *connectives*: every sequence of up to 5 tokens over `TRUE AND OR NOT ( )`, and parenthesised ones of up to 6; *arithmetic*: every sequence of up to 4 tokens over `x + * ^ = ( )` before `= 1`, all chains of three operators from `+ - * ^` with a sign or group at either end, groups of two operands beside an operator; *predicates*: four operands followed by up to 3 tokens over twelve, by patterns, bounds of `BETWEEN` and lists of up to 4 tokens; *calls*: argument lists of up to 5 tokens over five and up to 3 over eight, pairs of arguments; *time*: 9 x 9 ends of `INTERVAL`, 12 x 12 operands of `T_AFTER` (any operands) and `T_MEETS` (intervals only), alone, compared and as arguments; *space*: every kind of literal with good and bad coordinates, rings, boxes and members, in every place a literal may stand; *types*: operands of every type around every operator, under every setting of one switch | 966,600 |
| `text_depth` | the invariants of the proofs (`Inv`, `TreeInv`, `RoomLeft`), `SavesOrdered`, `RecursionBounded`, `TreeWithinDepth`, `Terminates` | nineteen shapes of nesting (each way the parser recurses), 0 to 4 levels, MaxDepth 1 to 40, with and without arithmetic; every setting of one switch at the default limit | 276,306 |
| `json_language` | accepted exactly the documents with a meaning, with the tree it gives (`AcceptedIsMeant`, `RejectedIsMeaningless`); the three properties of trees | logic two levels deep over every predicate, `not` of `not`; operands of every type around every operator under every setting of one switch; objects with any three of the nine keys that decide what an object is; 17 x 17 interval ends; GeoJSON values of every type, good and bad | 521,369 |
| `json_depth` | the invariants of the proofs (`Inv`, `TreeInv`, `RoomLeft`), `RecursionBounded`, `TreeWithinDepth`, `RejectedIsMeaningless` as far as the limit allows, `Terminates` | nineteen shapes of nesting, 0 to 4 levels, MaxDepth 1 to 24 | 46,136 |
| `parser_config` | a class is never on without its functions (`EnabledPredicatesAreSupported`), what a call may begin to advertise although it is refused (`NothingNewIsRefused`), the refinement `ImplementsSettings`, types | every chain of the five methods over three limits, four lists of properties (repetitions, empty names), four of functions (two spellings of a name, a standard name overridden), eight of classes (each form of a name) | 43,456 |
| `round_trip` | which filters come back as they were (`RoundTripsExactly`), how the others may differ (`OnlyNamedChanges`), the same output when written again (`CanonicalOutputIsStable`) | JSON filters with every construct in every place it may stand, strings with quotes and backslashes, functions and properties named like keywords and operators, geometries of every type; text for what only text can say; two registries; fourteen shapes of nesting in JSON and four in text under MaxDepth 1 to 32; either language written | 517,806 |
| `lexer` | `NumbersAreLongest`, `NumbersKeepTheirValue`, `RewrittenTextLexesAlike`, types | every text of up to 4 characters over sixteen; number texts of up to 6 characters over `0 1 . e -` and signed ones; strings of up to 6 characters over quote, backslash and a letter; `-1` after every text of up to 3 characters over ten | 489,107 |
| `sql` | the SQL selects exactly the rows the filter describes (`SelectsTheFilter`), the fifteen relations on missing ends too (`RelatesTheIntervals`), placeholders and values (`EveryPlaceholderBound`, `ArgsInPlaceholderOrder`), SQL exactly when everything needed is supported (`CompiledIffSupported`) | ten predicates over two columns, each NULL, 0 or 1, with `NOT`, `AND` and `OR` two levels deep and `NOT` three; eight operands on either side of a relation over rows with ends NULL or 0 to 3; every kind of node with operands that are mapped, unmapped, broken, open or unknown to the dialect; both dialects | 151,390 |
| `not_chain` | expected violation: `RecursionWithinMaxDepth` | chains of up to 12 `NOT`, patterns of up to 6 `CASEI`, MaxDepth 1 to 8 | |
| `json_unchecked_depth` | expected violation: `RecursionWithinMaxDepth` | up to 8 nested `+` or `casei`, MaxDepth 1 to 8 | |
| `json_null` | expected violation: `NullOnlyInIsNull` | null wherever a value may be | |
| `round_trip_strings` | expected violation: `SafeRoundTrip` | a comparison with a string, six spellings | |

Why the bounds are enough:

- A decision of the text parser looks at the current and the next token, the
  frame it returns to, and one attempt it gave up. Five tokens hold a
  parenthesised conjunction under a `NOT`; the templates put something after
  it. Three operators are the least with which a wrong minimum precedence shows
  (two cannot tell whether a loop continues after a right operand that stopped
  early).
- The JSON parser decides by the keys of one object, the procedure it is in
  and, for an alternative, the error of the one before. Three keys at once
  contain each pair of deciding keys beside an `op`.
- The limits of the depth runs go from 1 past the depth that the deepest of
  their inputs needs, so each check fails at each level for some limit.
- The setup methods have a finite state space, all of which is reached: a
  registry is a union of the given definitions, and capabilities depend on the
  last call.
- In the round trip, each construct stands beside, above and below each class of
  construct whose text could run into its own: an operator, a parenthesis, a
  keyword, a list. Deeper nesting repeats these neighbourhoods; what it adds is
  the recursion limit, and the shapes under small limits contain both the
  largest limit that is too small and the first that is enough.
- The lexer looks at most two characters ahead and one token back; six
  characters hold a sign, a point, an exponent and its sign with a digit beside
  each.
- In `sql`, four points put two intervals in every relation of Allen's algebra,
  touching included, and two columns give every NULL pattern; three values per
  column make every predicate true, false and unknown for some row.
- A property of trees looks at `TreeLevels` levels: 12, and 16 where the inputs
  nest. `DocumentLevels` is 10 and 24. Both are more than any input has.
  `FilterLevels` is 6, the levels of the deepest filter of `sql`. The theorems
  hold for every value of the three.

TLC evaluates the assumptions on the constants, which the theorems rest on, for
the constants of every run.

Deadlock is checked in every run: a machine that stops elsewhere than in its
final states would be reported, which is how a token or value that no action
takes is found.

## Fairness

`FairSpec` of `TextParser` and of `JsonParser` is `Spec` with `WF_vars(Step)`: a
parse is one synchronous call and the goroutine executing it runs until it
returns. No single action has a fairness of its own and none needs one, since
the machine is deterministic once its input is chosen. `Terminates` is then a
statement about the retries: an argument is read up to three times (text) or a
node up to four times (JSON), at every level of nesting. The other runs check
safety: the compiler, the serializer and the lexer never try anything again, and
nobody is obliged to call a setup method.

## Proofs

All are checked by TLAPS without an unproved leaf. Each holds for every value of
the constants that satisfies the assumptions named below.

| Theorem | Module | Statement |
|---|---|---|
| `Invariance` | `TextParser_proofs` | `Spec => []Inv` |
| `SavesStayOrdered` | `TextParser_proofs` | `Spec => []SavesOrdered` |
| `RecursionStaysBounded` | `TextParser_proofs` | `Spec => []RecursionBounded` |
| `OperandsStaySound` | `TextTrees_proofs` | `Spec => []TreeInv` |
| `ParserIsFailClosed` | `TextTrees_proofs` | `Spec => []FailClosed` |
| `AcceptedOperandsMeet` | `TextTrees_proofs` | `Spec => []OperandsCanMeet` |
| `AcceptedGeometriesAreSound` | `TextTrees_proofs` | `Spec => []GeometriesAreSound` |
| `RoomIsLeft` | `TextTrees_proofs` | `Spec => []RoomLeft` |
| `AcceptedTreesNestWithinDepth` | `TextTrees_proofs` | `Spec => []TreeWithinDepth` |
| `Invariance` | `JsonTrees_proofs` | `Spec => []Inv` |
| `RecursionStaysBounded` | `JsonTrees_proofs` | `Spec => []RecursionBounded` |
| `OperandsStaySound` | `JsonTrees_proofs` | `Spec => []TreeInv` |
| `ParserIsFailClosed` | `JsonTrees_proofs` | `Spec => []FailClosed` |
| `AcceptedOperandsMeet` | `JsonTrees_proofs` | `Spec => []OperandsCanMeet` |
| `AcceptedGeometriesAreSound` | `JsonTrees_proofs` | `Spec => []GeometriesAreSound` |
| `RoomIsLeft` | `JsonTrees_proofs` | `Spec => []RoomLeft` |
| `AcceptedTreesNestWithinDepth` | `JsonTrees_proofs` | `Spec => []TreeWithinDepth` |
| `SettingsStayValid` | `ParserConfig_proofs` | `Spec => []TypeOK` |
| `EnabledAreSupported` | `ParserConfig_proofs` | `Spec => []EnabledPredicatesAreSupported` |
| `AdvertisesNothingNewRefused` | `ParserConfig_proofs` | `Spec => NothingNewIsRefused` |
| `SettingsImplemented` | `ParserConfig_proofs` | `Spec => ImplementsSettings` |
| `PlaceholdersBound` | `SqlCompiler_proofs` | `Spec => []EveryPlaceholderBound` |
| `ArgsStayInOrder` | `SqlCompiler_proofs` | `Spec => []ArgsInPlaceholderOrder` |
| `FailsClosed` | `SqlCompiler_proofs` | `Spec => []CompiledIffSupported` |
| `SelectsExactly` | `SqlMeaning_proofs` | `Spec => []SelectsTheFilter` |
| `RelatesSafely` | `SqlMeaning_proofs` | `Spec => []RelatesTheIntervals` |
| `LexerTypes` | `Rewriting_proofs` | `Spec => []TypeOK` |
| `NumbersStayLongest` | `Rewriting_proofs` | `Spec => []NumbersAreLongest` |
| `NumbersStayEqual` | `Rewriting_proofs` | `Spec => []NumbersKeepTheirValue` |
| `WritingReadsBack` | `Rewriting_proofs` | `Spec => []RewrittenTextLexesAlike` |

A result about a function that is recursive over naturals is proved by
induction on a set of naturals (`SetInduction`): the statement is put into the
set, and the set is shown to hold 0 and every successor.

### Text parser: control

The theorems hold for every set of inputs satisfying `InputsAssumption` (tokens
with string fields, ending in the only EOF, which is what the lexer returns) and
every set of configurations satisfying `ConfigsAssumption` (MaxDepth at least
1; `parser.WithMaxDepth` replaces anything less by the default, which
`ParserConfig!TypeOK` states). `RecursionBounded` is not inductive: that the
stack is no higher than the depth of the call, and that the depth exceeds
MaxDepth by no more than the calls between two depth checks, has to be known for
each frame, as any frame can be the one that continues. `Inv` therefore bounds
the depth of a frame by `MaxDepth + FrameSlack(pc) + save` and of a call by
`MaxDepth + CallSlack(proc) + pos`. The slack is the number of calls since the
last check; the position is there because `parseNot` and `parsePattern` have no
check, and pay for each level with a token. Frames are ordered by depth and by
`save`, which gives `SavesOrdered`, and that is what keeps a backtracking step
inside the invariant: it lowers `pos`, so the bound of every frame below must
already hold at the lower position. The proof has a lemma for each way a step
can change the control (enter a call, push a frame, return, fail) and a step per
action that names the one it is.

### JSON parser: control

There is no position to pay with, so the measure is the path of the value being
read: `RecursionBounded` says that depth exceeds the length of the path by at
most one and that the stack is at most twice as high. For the induction, `Inv`
bounds not only the call being made but also every call a frame still holds
(`CallOK` over the pending calls), with `Ahead`, the number of levels a
procedure may add before it goes on to a longer path: an alternative is tried at
the path of its node, and an argument one element further.

### What an accepted tree promises

`FailClosed`, `OperandsCanMeet` and `GeometriesAreSound` speak of the tree when
the parser is done. Its parts were built long before, in other procedures, kept
in frames while alternatives were tried and given up. `TreeInv` says of every
operand in every pending frame what the three say of the result
(`OperandsSound`), and of every frame what the code ahead of its call has
already checked and the code behind it relies on: that a switch is on, that an
operand is numeric, how many there are (`Opened`, `OperandCount`). One thing is
not local. The right side of `LIKE` is read by `parsePattern`, which calls
`parseScalar`, which may return anything; that a string or a cast comes back
follows from the token the chain of calls began at (`PatternsRead`). In the JSON
parser the promise is made between frames: a frame returns what the procedure it
stands for promises its caller, be it a number, a text or a pattern
(`PromisesKept`). `Trees_proofs` has what both need of the operators of `Trees`:
a tree is sound when its node is and its operands are. In JSON,
`DocumentsAssumption` says that an input is a JSON value, and the proof carries
that `val` is a part of it.

`TreeWithinDepth` cannot be read off the depth of the calls, since some
procedures do not check it. `RoomLeft` says where an operand is read how deep it
may nest: what is left of MaxDepth there, and one level more or less by the kind
of the frame that waits. In the JSON parser the levels are counted by the frames
whose operands are ranked below the node they build (`Counted`). The theorems
hold for trees of any number of levels `TreeLevels`.

### Configuration

`EnabledPredicatesAreSupported` needs to know that a predicate whose class is on
is in the registry now, not only that its name is advertised; `IInv` adds this,
and it is kept because registries only grow while capabilities are replaced.

`NothingNewIsRefused` is an action property. What a parser advertises is not
always what it accepts: `WithConformance("temporal-functions")` and then
`WithConformance("arithmetic")` leave `t_after` in the list and refuse
`T_AFTER(...)`. The property says that there are two ways to get there, the one
just shown, in which the call that switches a class off leaves its functions
behind, and `WithAllowedFunctions` with a predicate's name while its class is
off. Any other call must leave alone what is refused and not add to it. The
proof needs the list to be the registry's names (`ListIsRegistry`, part of
`IInv`) and, of the two tables of classes, that the capabilities of a set of
classes let in every predicate among its standard functions
(`FunctionsAreEnabled`), as `EnabledPredicatesAreSupported` needs the converse
(`CapabilitiesHaveFunctions`).

The refinement maps the settings to the fields (`InitRefines`, `NextRefines`);
`WithConformanceClasses` stutters, since it changes only an advertised list.
`ParserSettings` has the vocabulary of `Conformance` in common with `ParserConfig`
(which functions a class has, what overrides what): the refinement is about which
setting each call replaces, adds to or leaves alone, and not about those tables.

### SQL: placeholders and refusals

The theorems hold for all sets of trees whose intervals and temporal predicates
have two operands (`FiltersAssumption`; the Go types have two fields) and all
targets of `TargetsAssumption`. The latter says that a dialect with temporal
predicates numbers its placeholders: PostGIS writes an end of an operand
more than once, which `?` could not express, and the generic dialect declines
the hook.

`EveryPlaceholderBound` alone does not say which fragments a template will be
given; `SqlInv` adds that a frame has as many pieces, done, running and to do, as
its node requests. With that, each template is shown to use each of its pieces
(`TemplateUsed`, `TemporalUsed`), so nothing a renderer bound is dropped when the
pieces are put together. For the order, `OrderInv` says of a dialect
with `?` that the placeholders of all fragments done, from the bottom of the stack
to its top, are 1 to the number of values.

`CompiledIffSupported` compares the compiler, which stops at the first node it
cannot render, with the set of everything the filter needs. `SupportInv` says
that each request on the stack is one that the filter needs, that each fragment
done is backed by support for everything below it, and that a failure has a node
that shows it. `LevelsAssumption` says that filters are finite: no deeper than
`FilterLevels`.

### SQL: meaning

`SelectsTheFilter` is about the finished SQL and the final list of bind values,
while a fragment is written when only some of the values exist. `MeaningInv`
says of every fragment on the stack that it means what its node means, for
every row and whatever values are added later. A step then needs one lemma per
renderer, `TemplateMeans` and its parts: if the pieces mean their nodes, what the
renderer makes of them means the node. `ServingMeans` is for a request that a
node below answers: an end of an interval is the instant at that end. The fifteen relations
are proved from the order of the ends (`OrderedRelates`, `ProperRelates`);
`RelatesTheIntervals` is proved from `MeaningWidens`: what a condition is on a row with an
end missing, it is, or unknown, so a relation that does not hold cannot become
true when an end disappears.

`TreesAssumption` bounds the depth of the trees, `RowsAssumption` makes a column
NULL or one value, and `NumbersAssumption` keeps the texts of instants and numbers
apart (a bind value has its type with it).

### Lexer

The theorems hold for texts of any length (`TextsAssumption`), whatever characters
are in them besides those that have a meaning in the model (the samples of
letters and digits of `Lexing`), and for every `MaxExponent`. `LexInv` says that each token is
well-formed for the token before it, which decides about signs, and that the
characters it was read from are still where it says. A number stops at the
character after it whatever follows (`NumberAt`, `NumberMoves`), which gives
`NumbersAreLongest` against the pattern of `number.go`.

For `RewrittenTextLexesAlike` the written text is cut into the pieces of the
tokens (`LaidOut`). `Alike` says that after k tokens the lexer stands at the end of piece
k and the tokens agree so far; or that some string had a backslash before a quote
or its end, and the lexer has failed or made a token that differs. A quoted
string is read by a loop backwards from the end of the text: `ReadsWhole` shows
that one without such a backslash ends where it was written to end,
`ReadsBroken` that one with it does not.

`NumbersKeepTheirValue` compares the sets of non-zero digits of the number and
of its canonical form with their places. The proof first finds where the
parts of a number are (`NumberParts`), then shows that digits that differ by
zeros at either end have the same value when their places are shifted
(`ShiftedOnes`), and then treats the three positions of the point in a canonical
form: before, in and after the digits (`PlacedDigits`, `TrimmedDigits`,
`CanonicalIs`).

## Only model-checked

- `Terminates`, of both parsers: liveness under fairness is outside the prover.
- `AcceptedIsTheDerivation`, `RejectedIsUnderivable`, `AcceptedIsMeant` and
  `RejectedIsMeaningless`: the grammar and the meaning of a document are written
  with `RECURSIVE` operators, as they branch over spans of tokens and over
  alternatives, and the prover can neither expand those nor do induction over
  them.
- `RoundTripsExactly`, `OnlyNamedChanges` and `CanonicalOutputIsStable`: the
  serializer writes trees with recursive operators, for the same reason.

## Not modelled

- Errors: that an operation fails is modelled, what it reports is not; with them
  lines, columns, `Hint`s and `JSONPath` (`api/errors.go`).
- Decoding JSON and encoding it (`encoding/json`), `time.Parse`,
  `strconv.ParseFloat` and `FormatFloat`: constants or operators on values.
- Trees no parser builds: the serializer's errors for nil nodes, literals of
  the wrong Go type and unknown operators. The SQL compiler is modelled for any
  tree.
- Concurrent use: the documentation asks to finish the chain of setup methods
  first, and a parse shares no state after that.
- What a database does with the types of columns: an interval-typed property
  is a single column that the compiler renders as both ends; `sql` takes
  instants and intervals of two columns. `RawSQL` mappings are text the
  application vouches for.
- `internal/ats` is test code.

## Divergences

1. `docs/usage.md:139` says "`WithMaxDepth` limits recursive parse depth for
   defensive parsing." `parseNot` (`text_parser.go:78`) and `parsePattern`
   (`text_parser.go:289`) call themselves with `depth+1` and never compare it
   with the limit, so `NOT NOT ... NOT TRUE` recurses once per `NOT` whatever
   the limit is; the parse fails only when a procedure that checks is reached
   at the end of the chain. Run `not_chain` shows it. `RecursionBounded` is the
   bound that does hold, and `TreeWithinDepth` shows that no tree that nests
   deeper than the limit is ever returned, a chain of operators read in a loop
   counted once and the coordinates of a geometry not at all.
2. The same sentence, of the JSON parser: `parseJSONCharacterExpression`,
   `parseJSONNumericExpression`, `parseJSONCharacterFunction` and
   `parseJSONArithmeticExpression` (`json_parser.go:627-800`) do not compare
   their depth. Run `json_unchecked_depth`; `RecursionBounded` bounds the
   recursion by the document, and `TreeWithinDepth` the nesting of the tree,
   operators and casts aside, by the limit and two: the deepest expression that
   is checked has rank MaxDepth + 1, and the numbers of a `between` lie below it
   unchecked.
3. `json_parser.go:579` says "NULL is only allowed in isNull predicates", but
   `null` as the list of `in` (`json_parser.go:859`) or as an array literal
   (`:875`) decodes into an empty slice and is accepted. Run `json_null`.
4. `docs/usage.md:62` says "Output is canonicalized for safe round-tripping."
   A string with a backslash at its end, or before a quote, is accepted from
   JSON (the latter from text too) and written so that the quote after the
   backslash is read as an escaped one, the closing quote included: `quoteString` (`serializer.go:707`) doubles quotes only, while
   `stringToken` (`text_lexer.go:136`) takes `\'` for a quote. Run
   `round_trip_strings`; `RewrittenTextLexesAlike` says that these are the only
   strings for which it happens.
5. `docs/usage.md:62-64` goes on: "It is structurally equivalent to the original
   input". The text `NOT (x BETWEEN 1 AND 2)` is a `NOT` over a `BETWEEN`. Written
   as JSON and parsed (`negateJSONPredicateExpression`, `json_parser.go:258`) it
   comes back as `x NOT BETWEEN 1 AND 2`, and so do a `NOT` over `LIKE` and over
   `IN`. The two trees do not select the same rows: where `x` is NULL,
   `NOT (COALESCE(..., FALSE))` (`sql.go:401-411`) is true and `NOT BETWEEN`,
   `NOT LIKE` and `NOT IN` (`sql.go:442-499`) are not. Over `IS NULL` they do.
   `RoundTripsExactly` has it as an exception (`FoldableNot`), and
   `OnlyNamedChanges` says what comes back (`Flagged`); run `round_trip` checks
   both, with filters in which it happens.
   The other exceptions of `RoundTripsExactly` below fall short of the same
   sentence.

## Behaviour worth knowing

The other exceptions that `RoundTripsExactly`, `OnlyNamedChanges` and
`NothingNewIsRefused` name, and what else was found while the definitions were
written.

- A predicate can be advertised and refused: `WithConformance` replaces the
  capabilities of an earlier call and keeps its functions (`conformance.go:16-19`),
  and `SupportedFunctions` lists the functions. See
  [configuration](#configuration). The comment of `Parser` (`parse.go:8`) says
  that it "exposes the capabilities it was configured with", which can be read
  either way after a second call.
- Array elements that open with a parenthesis (`Opens`) are read as nested
  arrays: the element `x + 1` of an array is written `(x + 1)` and does
  not come back as arithmetic.
- A function may be registered under the name of an operator; in JSON its call
  is that operator (`OperatorCall`).
- A GeoJSON object's `bbox` beside its coordinates has no text and is dropped.
- Empty multi-geometries and polygons, empty `IN` lists and function arguments
  that are arrays of one element can be said in JSON only; a collection of one
  member in text only.
- A chain of `+` of any length is read in a loop and counts as one level, but its
  canonical text has a pair of parentheses per operator: it can exceed MaxDepth
  when it is read as text again. `RoundTripsExactly` holds for text if MaxDepth
  is more than five times the levels of the tree (`WithinLimit`; five is the
  least factor, for the default limit it means trees of up to 25 levels). JSON
  was read again within every limit the first reading kept to: it takes fewer
  calls per level than text, and arithmetic does not compare its depth there.
- The type of a member of a text collection is taken from the token's text
  alone (`spatial.go:108`): `GEOMETRYCOLLECTION('POINT'(1 2), ...)` is accepted.
- After a keyword used as a property name a sign belongs to the number that
  follows: `date -1` is a name and a number, `x -1` a difference.
- The signatures advertised for `T_CONTAINS` and `T_DURING` admit instants,
  which both parsers refuse (`api/conformance.go:180`, `temporal.go:64`).

## Plan

Done, in this order: the text parser with its type rules, the SQL compiler, the
JSON parser, the configuration and its refinement, geometry in both languages,
the serializer with the round trip, the lexer and numbers; then the theorems,
from the control of the parsers to what accepted trees promise, the meaning of
SQL and the rewriting of text.

What would extend it:

1. A composition of the parsers with `SqlCompiler`: every accepted tree is one
   the compiler takes unless the resolver or dialect refuses it.
2. The grammar and the meaning of documents as functions on spans and levels
   instead of recursive operators, so that one direction of the comparison with
   the parsers (what is accepted is derivable) could be stated as an invariant of
   pending frames and proved.
3. The interval-typed column and `RawSQL` (see [not modelled](#not-modelled)),
   should the library say what they promise.
