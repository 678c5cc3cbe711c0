------------------------------ MODULE JsonValues -----------------------------
(***************************************************************************)
(* JSON values as the parser reads and the serializer writes them.  The    *)
(* members of an object are a function of their keys (encoding/json keeps  *)
(* the last of two equal ones and no order).                               *)
(***************************************************************************)
EXTENDS Sequences

JsonValue(t, text, items, fields) ==
    [t |-> t, text |-> text, items |-> items, fields |-> fields]

JsonObject(fields) == JsonValue("object", "", << >>, fields)
JsonArray(items)   == JsonValue("array", "", items, << >>)
JsonString(text)   == JsonValue("string", text, << >>, << >>)
JsonNum(text)      == JsonValue("number", text, << >>, << >>)
JsonBool(text)     == JsonValue("bool", text, << >>, << >>)
JsonNull           == JsonValue("null", "", << >>, << >>)

Has(v, key) == v.t = "object" /\ key \in DOMAIN v.fields

\* parseJSONOpObject: {"op": ..., "args": [...]}.
JsonCall(op, args) == JsonObject([op |-> JsonString(op), args |-> JsonArray(args)])

IsCall(v) ==
    /\ Has(v, "op") /\ v.fields["op"].t = "string" /\ v.fields["op"].text # ""
    /\ Has(v, "args") /\ v.fields["args"].t = "array"

OpName(v) == v.fields["op"].text
Args(v)   == v.fields["args"].items
=============================================================================
