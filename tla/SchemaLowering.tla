--------------------------- MODULE SchemaLowering ---------------------------
(***************************************************************************)
(* An MCP tool's input schema as it is rewritten for Ollama, and the       *)
(* model's arguments as they are coerced towards it (core/mcp/schema.cpp). *)
(* A schema node is a function on the keywords it has; [bool |-> b] stands *)
(* for a boolean schema.  A value has a type t and a content v; a string   *)
(* has, as its content, the value it spells, or a word.                    *)
(***************************************************************************)
EXTENDS Naturals, Sequences, FiniteSets, TLC, SequencesExt

CONSTANTS Schemas,      \* input schemas of the tool
          Arguments,    \* arguments the model may send
          MaxDepth, MaxRefDepth

VARIABLES tool,     \* its inputSchema
          lowered,  \* CatalogTool::parameters, once it is in the catalog
          problem,  \* why it is withheld
          call      \* <<arguments of the model, arguments sent>>, or <<>>

vars == <<tool, lowered, problem, call>>

Empty == [k \in {} |-> {}]
Nothing == [nothing |-> TRUE]
Has(node, key) == key \in DOMAIN node
Get(node, key, else) == IF Has(node, key) THEN node[key] ELSE else
With(node, key, value) == (key :> value) @@ node
Without(node, key) == [k \in DOMAIN node \ {key} |-> node[k]]

\* merge_into(): properties and required unite, anything else is the first's.
MergeProperties(out, part) == Get(part, "properties", Empty) @@ Get(out, "properties", Empty)
MergeInto(out, part) ==
    LET first == out @@ part IN
    [k \in DOMAIN first |->
        CASE k = "properties" -> MergeProperties(out, part)
          [] k = "required" -> Get(out, k, {}) \cup Get(part, k, {})
          [] OTHER -> first[k]]

TypeOnly(node) == Has(node, "type") /\ DOMAIN node \subseteq {"type", "description"}
JustNull(node) == node = [type |-> {"null"}]

\* The alternatives of anyOf and oneOf, without null: one refines the node, types
\* only are a union, others stay alternatives.
Alternatives(out, options) ==
    LET real == SelectSeq(options, LAMBDA o : o # Nothing /\ ~JustNull(o))
        any == SelectSeq(real, LAMBDA o : o # Empty) IN
    CASE Len(real) = 0 -> out
      [] Len(real) = 1 -> MergeInto(out, real[1])
      [] Len(real) > 1 /\ ~Has(out, "type") /\ (\A i \in DOMAIN real : TypeOnly(real[i])) ->
            With(out, "type", UNION {real[i].type : i \in DOMAIN real})
      [] OTHER -> IF any = <<>> THEN out ELSE With(out, "anyOf", any)

\* A nullable type is an optional one.
Types(node) ==
    IF Cardinality(node.type) > 1 THEN node.type \ {"null"} ELSE node.type

\* Fault: a boolean sub-schema is kept as it is.
KeepBooleans(node) == node
\* A boolean schema: true is anything, false nothing.
Boolean(node) == IF node.bool THEN Empty ELSE Nothing

Resolves(root, ref) == ref \in DOMAIN Get(root, "defs", Empty)

\* Lowerer::lower(), keyword by keyword: a $ref first.
RECURSIVE Lower(_, _, _, _)
Reference(root, node, depth, refs) ==
    IF ~Has(node, "ref") THEN Empty
    ELSE IF Resolves(root, node.ref) /\ refs < MaxRefDepth
         THEN Lower(root, root.defs[node.ref], depth + 1, refs + 1)
         ELSE [description |-> "schema at"]
Items(node) ==
    IF Has(node, "items") THEN <<node.items>>
    ELSE IF Has(node, "prefixItems") THEN SubSeq(node.prefixItems, 1, 1) ELSE <<>>
Keep(out, key, value, when) == IF when THEN With(out, key, value) ELSE out

\* What the node says itself goes over what it refers to; a property that is
\* nothing goes, and what is required must be a property.
Own(out, node, item, props) ==
    LET kept == [p \in {q \in DOMAIN props : props[q] # Nothing} |-> props[p]]
        typed == Keep(out, "type", Types(node), Has(node, "type"))
        listed == Keep(typed, "enum", node.enum, Has(node, "enum"))
    IN Keep(Keep(listed, "items", item, item # Nothing),
            "properties", MergeProperties(out, [properties |-> kept]), Has(node, "properties"))
Required(out, node) ==
    LET need == (Get(out, "required", {}) \cup Get(node, "required", {}))
                    \cap DOMAIN Get(out, "properties", Empty)
    IN IF need = {} THEN Without(out, "required") ELSE With(out, "required", need)
Finished(out, node) ==
    Keep(Keep(out, "type", {"object"},
              Has(out, "properties") /\ ~Has(out, "type") /\ ~Has(out, "anyOf")),
         "description", "text", Has(node, "description"))

Lower(root, node, depth, refs) ==
    IF depth > MaxDepth THEN [description |-> "omitted"]
    ELSE IF Has(node, "bool") THEN Boolean(node)
    ELSE
    LET low(n) == Lower(root, n, depth + 1, refs)
        all == <<Reference(root, node, depth, refs)>>
                  \o [i \in DOMAIN Get(node, "allOf", <<>>) |-> low(node.allOf[i])]
        options == [i \in DOMAIN Get(node, "anyOf", <<>>) |-> low(node.anyOf[i])]
        item == IF Items(node) = <<>> THEN Nothing ELSE low(Items(node)[1])
        props == [p \in DOMAIN Get(node, "properties", Empty) |-> low(node.properties[p])]
    IN IF \E i \in DOMAIN all : all[i] = Nothing THEN Nothing
       ELSE Finished(Required(Own(Alternatives(FoldLeft(MergeInto, Empty, all), options),
                                  node, item, props), node), node)

\* Fault: what one alternative requires.
RequiredByOne(p, options) ==
    \E i \in DOMAIN options : p \in Get(options[i], "required", {})
RequiredByAll(p, options) ==
    \A i \in DOMAIN options : p \in Get(options[i], "required", {})

\* A root of alternatives has no one property list: theirs, requiring what each
\* requires.
Union(body) ==
    LET props == FoldLeft(LAMBDA o, n : MergeProperties([properties |-> Get(n, "properties", Empty)],
                                                        [properties |-> o]),
                          Empty, body.anyOf)
        required == {p \in DOMAIN props : RequiredByAll(p, body.anyOf)}
    IN Keep(With(body, "properties", props), "required", required, required # {})

\* lower_schema(): always an object with properties.
LowerSchema(schema) ==
    LET body == Lower(schema, schema, 0, 0)
        node == IF body = Nothing THEN Empty ELSE body
        full == IF ~Has(node, "properties") /\ Has(node, "anyOf") THEN Union(node) ELSE node
    IN Keep([type |-> {"object"}, properties |-> Get(full, "properties", Empty)],
            "required", Get(full, "required", {}), Get(full, "required", {}) # {})

\* property_problem(): what Ollama's structures cannot hold.  Types, names and
\* enums have their shape here; a boolean sub-schema has not.
RECURSIVE Problem(_)
Problem(node) ==
    \/ Has(node, "bool")
    \/ \E p \in DOMAIN Get(node, "properties", Empty) : Problem(node.properties[p])
    \/ \E i \in DOMAIN Get(node, "anyOf", <<>>) : Problem(node.anyOf[i])

----------------------------------------------------------------------------
Wants(schema, type) == type \in Get(schema, "type", {})
OnlyString(schema) == Wants(schema, "string")
    /\ ~Wants(schema, "number") /\ ~Wants(schema, "integer") /\ ~Wants(schema, "boolean")

\* Fault: a string is read whatever the schema wants.
ReadAnyway(text, schema) == text.t \in {"number", "boolean", "object", "array"}
\* A string is read as what it spells when the schema wants that and no string.
Read(text, schema) ==
    \/ text.t = "number" /\ (Wants(schema, "number") \/ Wants(schema, "integer"))
    \/ text.t \in {"boolean", "object", "array"} /\ Wants(schema, text.t)

\* fix_value()
RECURSIVE FixValue(_, _)
FixValue(value, schema) ==
    CASE value.t = "string" ->
            IF Has(schema, "type") /\ ~Wants(schema, "string") /\ Read(value.v, schema)
            THEN FixValue(value.v, schema) ELSE value
      [] value.t \in {"number", "boolean"} ->
            IF OnlyString(schema) THEN [t |-> "string", v |-> value] ELSE value
      [] value.t = "object" ->
            [value EXCEPT !.v = [p \in DOMAIN value.v |->
                IF p \in DOMAIN Get(schema, "properties", Empty)
                THEN FixValue(value.v[p], schema.properties[p]) ELSE value.v[p]]]
      [] value.t = "array" ->
            [value EXCEPT !.v = [i \in DOMAIN value.v |->
                IF Has(schema, "items") THEN FixValue(value.v[i], schema.items)
                ELSE value.v[i]]]
      [] OTHER -> value

\* arguments_object(): nothing, null, or the object a second time in a string.
ArgumentsObject(raw) ==
    IF raw.t = "null" THEN [t |-> "object", v |-> Empty]
    ELSE IF raw.t = "string" /\ raw.v.t = "object" THEN raw.v ELSE raw

----------------------------------------------------------------------------
Init == tool \in Schemas /\ lowered = Empty /\ problem = FALSE /\ call = <<>>

\* make_catalog_tool(): a tool Ollama could not hold is withheld.
List ==
    /\ lowered = Empty
    /\ lowered' = LowerSchema(tool)
    /\ problem' = Problem(lowered')
    /\ UNCHANGED <<tool, call>>

\* call_tool() sends the arguments as fix_arguments() leaves them.
Call(raw) ==
    /\ lowered # Empty /\ ~problem
    /\ ArgumentsObject(raw).t = "object"
    /\ call' = <<ArgumentsObject(raw), FixValue(ArgumentsObject(raw), lowered)>>
    /\ UNCHANGED <<tool, lowered, problem>>

Next == List \/ \E raw \in Arguments : Call(raw)
Spec == Init /\ [][Next]_vars

----------------------------------------------------------------------------
\* What a schema asks of a value, read from the schema the server has.
RECURSIVE Valid(_, _, _)
Valid(root, value, node) ==
    IF Has(node, "bool") THEN node.bool
    ELSE LET ok(n) == Valid(root, value, n) IN
    /\ Has(node, "ref") => ok(root.defs[node.ref])
    /\ Has(node, "type") => \/ value.t \in node.type
                           \/ (value.t = "number" /\ "integer" \in node.type)
    /\ \A i \in DOMAIN Get(node, "allOf", <<>>) : ok(node.allOf[i])
    /\ Has(node, "anyOf") => \E i \in DOMAIN node.anyOf : ok(node.anyOf[i])
    /\ value.t = "object" =>
         /\ Get(node, "required", {}) \subseteq DOMAIN value.v
         /\ \A p \in DOMAIN value.v \cap DOMAIN Get(node, "properties", Empty) :
              Valid(root, value.v[p], node.properties[p])
    /\ value.t = "array" =>
         \A i \in DOMAIN value.v :
            IF i <= Len(Get(node, "prefixItems", <<>>))
            THEN Valid(root, value.v[i], node.prefixItems[i])
            ELSE Has(node, "items") => Valid(root, value.v[i], node.items)

\* A lowered schema is one that Ollama's structures hold: no tool is withheld
\* for its shape, and none makes a whole chat request fail.
FitsOllama == ~problem /\ ~Problem(lowered)

TypeTaken(schema, type) == Wants(schema, type) \/ (type = "number" /\ Wants(schema, "integer"))

RECURSIVE Towards(_, _, _)
Towards(from, to, schema) ==
    \/ from = to
    \/ IF from.t = to.t /\ to.t = "object"
       THEN \A p \in DOMAIN to.v :
              IF p \in DOMAIN Get(schema, "properties", Empty)
              THEN Towards(from.v[p], to.v[p], schema.properties[p]) ELSE from.v[p] = to.v[p]
       ELSE IF from.t = to.t /\ to.t = "array"
       THEN \A i \in DOMAIN to.v : Towards(from.v[i], to.v[i], schema.items)
       ELSE ~Wants(schema, from.t) /\ TypeTaken(schema, to.t)

\* A value is changed only from a type the schema does not take into one it takes,
\* however deep it is and however often it was encoded.
CoercedTowards == call # <<>> => Towards(call[1], call[2], lowered)

\* Arguments the server takes as they are: the lowering keeps every property it
\* describes and requires none that the server does not.
NothingMoreIsAsked ==
    lowered # Empty /\ call # <<>> /\ Valid(tool, call[1], tool)
      => Get(lowered, "required", {}) \subseteq DOMAIN call[1].v

=============================================================================
