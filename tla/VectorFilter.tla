---------------------------- MODULE VectorFilter ----------------------------
(***************************************************************************)
(* Metadata, schemas and filters of a vector store                         *)
(* (core/vdb/vector_store.cpp): values are dynamically typed in memory and *)
(* JSON in the file, so a document comes back from a reopening with other  *)
(* types than it was stored with.  A value is its type and its content as  *)
(* a sequence of numbers: a scalar has one, numbers are counted in halves, *)
(* strings are their rank, and a null has none.                            *)
(***************************************************************************)
EXTENDS Naturals, Sequences

CONSTANTS Fields,     \* [field names -> declared types]: the schema
          Values,     \* values a document may hold
          Filters     \* filters asked for, as the JSON they are written in

VARIABLES doc,        \* a document's metadata: a function on some of Fields
          filter,     \* the filter in use, as parsed; {} when it was refused
          reopened    \* the file was closed and opened again

vars == <<doc, filter, reopened>>

\* numeric_of(): ints and doubles are one kind of number.
Numeric(a) == a.t \in {"int", "double"}

\* Fault: values are compared as the variants they are.
SameVariant(a, b) == a.t = b.t /\ a.t # "null" /\ a.v = b.v

\* values_equal(): across the two number types, and never for a null.
ValuesEqual(a, b) == /\ a.t # "null" /\ (a.t = b.t \/ (Numeric(a) /\ Numeric(b)))
                     /\ a.v = b.v

\* compare_values() knows numbers and strings.
Comparable(a, b) == \/ Numeric(a) /\ Numeric(b)
                    \/ a.t = "string" /\ b.t = "string"

Items(a) == {[t |-> "string", v |-> <<a.v[i]>>] : i \in 1 .. Len(a.v)}
ArrayContains(a, b) == a.t = "array" /\ b.t = "string" /\ b \in Items(a)
InList(a, list) ==
    \E x \in (IF a.t = "array" THEN Items(a) ELSE {a}), y \in list : ValuesEqual(x, y)

Holds(op, a, list) ==
    LET b == CHOOSE y \in list : TRUE
    IN CASE op = "$in" -> InList(a, list)
         [] op = "$nin" -> ~InList(a, list)
         [] op = "$eq" -> ValuesEqual(a, b)
         [] op = "$ne" -> ~ValuesEqual(a, b)
         [] op = "$contains" -> ArrayContains(a, b)
         [] op = "$lt" -> Comparable(a, b) /\ a.v[1] < b.v[1]
         [] op = "$lte" -> Comparable(a, b) /\ a.v[1] <= b.v[1]
         [] op = "$gt" -> Comparable(a, b) /\ a.v[1] > b.v[1]
         [] op = "$gte" -> Comparable(a, b) /\ a.v[1] >= b.v[1]

\* evaluate(): groups of conditions; a condition on a field the document does
\* not have fails, whatever it asks.
RECURSIVE Evaluate(_, _)
Evaluate(node, meta) ==
    CASE node.op = "and" -> \A n \in node.children : Evaluate(n, meta)
      [] node.op = "or" -> \E n \in node.children : Evaluate(n, meta)
      [] OTHER -> /\ node.field \in DOMAIN meta
                  /\ Holds(node.op, meta[node.field], node.values)

----------------------------------------------------------------------------
\* The JSON of a filter is a set of entries: a field with its conditions (a
\* bare value is an $eq), or a group with its branches.  Parsing gives a set:
\* the node, or nothing for a filter that is refused.
Ops == {"$eq", "$ne", "$lt", "$lte", "$gt", "$gte", "$in", "$nin", "$contains"}
Supported(list) == \A a \in list : a.t # "object"

ParseField(entry) ==
    IF \A c \in entry.conds : c.op \in Ops /\ Supported(c.list)
    THEN {[op |-> c.op, field |-> entry.key, values |-> c.list] : c \in entry.conds}
    ELSE {[op |-> "refused"]}

RECURSIVE ParseConditions(_)
ParseConditions(json) ==
    LET nodes == UNION {IF e.key \in {"$and", "$or"}
                        THEN {[op |-> IF e.key = "$and" THEN "and" ELSE "or",
                               children |-> {ParseConditions(b) : b \in e.branches}]}
                        ELSE IF e.key = "$unknown" THEN {[op |-> "refused"]}
                        ELSE ParseField(e) : e \in json}
        sound(n) == n.op # "refused" /\ (n.op = "or" \/ n.op = "and" =>
                                           \A m \in n.children : m.op # "refused")
    IN  IF \A n \in nodes : sound(n) THEN [op |-> "and", children |-> nodes]
        ELSE [op |-> "refused"]

Parse(json) == LET n == ParseConditions(json) IN IF n.op = "refused" THEN {} ELSE {n}

----------------------------------------------------------------------------
\* Fault: a whole number is not a float.
FitsExactly(type, a) == a.t \in {"null", type}

\* value_fits(): a null fits everywhere, and an int where a double is declared.
ValueFits(type, a) == \/ a.t \in {"null", type}
                      \/ type = "double" /\ a.t = "int"

Validate(meta) == \A f \in DOMAIN meta : f \in DOMAIN Fields /\ ValueFits(Fields[f], meta[f])

\* What JSON gives back for a value it was given: a double without a fraction
\* may have been written as an integer.
ReadBack(a) ==
    {a} \cup IF a.t = "double" /\ a.v[1] % 2 = 0 THEN {[a EXCEPT !.t = "int"]} ELSE {}

Init ==
    /\ \E fs \in SUBSET DOMAIN Fields : doc \in [fs -> Values]
    /\ Validate(doc)
    /\ \E json \in Filters : filter = Parse(json)
    /\ reopened = FALSE

Reopen ==
    /\ ~reopened /\ reopened' = TRUE
    /\ \E back \in [DOMAIN doc -> UNION {ReadBack(doc[f]) : f \in DOMAIN doc}] :
        /\ \A f \in DOMAIN doc : back[f] \in ReadBack(doc[f])
        /\ doc' = back
    /\ UNCHANGED filter

Rest == reopened /\ UNCHANGED vars
Next == Reopen \/ Rest
Spec == Init /\ [][Next]_vars

----------------------------------------------------------------------------
Selected(meta) == \E n \in filter : Evaluate(n, meta)

\* A filter selects the same documents after a reopening as before it, though
\* JSON changed the types of their metadata (vector_store.cpp:291-402, 48-119).
SelectionSurvives == Selected(doc') = Selected(doc)

\* Metadata the schema let in is let in again when an update merges with what
\* the file gave back (vector_store.cpp:177-229, 981-986).
StillValid == Validate(doc)
=============================================================================
