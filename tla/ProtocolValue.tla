---------------------------- MODULE ProtocolValue ----------------------------
(***************************************************************************)
(* The typed values of conformance observations (conformance/internal/     *)
(* protocol/value.go), the comparison of two of them (compare.go) and the  *)
(* change of one place inside one (deviation.go).                          *)
(*                                                                         *)
(* A value has the storage of the Go struct: a tag and a set for every     *)
(* pointer or slice, empty for nil and otherwise with one element.  Names  *)
(* of object fields are numbers in the order of their strings, 0 for the   *)
(* empty one.  A function that may fail returns a set with its result, or  *)
(* the empty set.                                                          *)
(***************************************************************************)
EXTENDS Naturals, Sequences, SequencesExt

CONSTANT CanonicalTexts    \* pairs <<type, text>> the pattern of the type accepts

Null == [type |-> "null", bool |-> {}, text |-> {}, base64 |-> FALSE,
         nested |-> {}, items |-> {}, fields |-> {}]
Boolean(b) == [Null EXCEPT !.type = "bool", !.bool = {b}]
Scalar(type, text) == [Null EXCEPT !.type = type, !.text = {text}]
Bytes(text) == [Null EXCEPT !.type = "bytes", !.text = {text}, !.base64 = TRUE]
PrimaryKey(v) == [Null EXCEPT !.type = "pk", !.nested = {v}]
List(vs) == [Null EXCEPT !.type = "list", !.items = {vs}]

\* Object: the fields of a map, sorted by name.
Object(f) ==
    [Null EXCEPT !.type = "object",
        !.fields = {[i \in DOMAIN names |-> [name |-> names[i], value |-> f[names[i]]]] :
                        names \in {SetToSortSeq(DOMAIN f, <)}}]

The(S) == CHOOSE x \in S : TRUE

TextTypes == {"int", "string", "decimal", "datetime", "uuid"}
NonNullScalars == TextTypes \union {"bool", "bytes"}

\* validateUnused: nothing is stored that the type has no use for.
Stores(v, used) ==
    /\ \A s \in {"bool", "text", "nested", "items", "fields"} : (v[s] # {}) <=> s \in used
    /\ v.base64 <=> v.type = "bytes"

RECURSIVE ValidValue(_)
ValidValue(v) ==
    \/ v.type = "null" /\ Stores(v, {})
    \/ v.type = "bool" /\ Stores(v, {"bool"})
    \/ v.type \in TextTypes \union {"bytes"} /\ Stores(v, {"text"}) /\ <<v.type, The(v.text)>> \in CanonicalTexts
    \/ /\ v.type = "pk" /\ Stores(v, {"nested"})
       /\ The(v.nested).type \in NonNullScalars /\ ValidValue(The(v.nested))
    \/ /\ v.type = "list" /\ Stores(v, {"items"})
       /\ \A i \in DOMAIN The(v.items) : ValidValue(The(v.items)[i])
    \/ /\ v.type = "object" /\ Stores(v, {"fields"})
       /\ \A i \in DOMAIN The(v.fields) :
             /\ The(v.fields)[i].name # 0
             /\ i > 1 => The(v.fields)[i - 1].name < The(v.fields)[i].name
             /\ ValidValue(The(v.fields)[i].value)

\* MarshalJSON and UnmarshalJSON: the wire form keeps the storage of the type and refuses the rest.
CloneValue(v) == {w \in {v} : ValidValue(w)}

\* The positions both sequences have.
Shared(s, t) == DOMAIN s \intersect DOMAIN t

\* Faulty variant: the items two lists have in common decide.
LengthIgnored(s, t) == <<>>

LengthDifference(s, t) == IF Len(s) # Len(t) THEN <<"length">> ELSE <<>>

\* compareValue: what differs, in the order of the values; only the kind of a difference is kept.
RECURSIVE CompareValue(_, _)
CompareValue(e, a) ==
    LET items == <<The(e.items), The(a.items)>>
        fields == <<The(e.fields), The(a.fields)>>
        field(i) == IF fields[1][i].name # fields[2][i].name THEN <<"name">>
                    ELSE CompareValue(fields[1][i].value, fields[2][i].value)
    IN  CASE e.type # a.type -> <<"type">>
          [] e.type = a.type /\ e.type = "pk" -> CompareValue(The(e.nested), The(a.nested))
          [] e.type = a.type /\ e.type = "list" ->
                LengthDifference(items[1], items[2])
                \o FlattenSeq([i \in Shared(items[1], items[2]) |-> CompareValue(items[1][i], items[2][i])])
          [] e.type = a.type /\ e.type = "object" ->
                LengthDifference(fields[1], fields[2]) \o FlattenSeq([i \in Shared(fields[1], fields[2]) |-> field(i)])
          [] OTHER -> IF e.bool # a.bool \/ e.text # a.text THEN <<"value">> ELSE <<>>

----------------------------------------------------------------------------
\* A deviation path is a sequence of steps, to a field of an object or to an
\* item of a list (counted from 0): "steps[1].status" is
\* <<Field(4), Item(1), Field(5)>> for the numbers of the two names.
Field(name) == [to |-> "field", at |-> name]
Item(index) == [to |-> "item", at |-> index]

\* The values one step away from v, by their positions in v.
Step(v, step) ==
    IF step.to = "field" /\ v.type = "object"
    THEN {i \in DOMAIN The(v.fields) : The(v.fields)[i].name = step.at}
    ELSE IF step.to = "item" /\ v.type = "list" THEN {step.at + 1} \intersect DOMAIN The(v.items)
    ELSE {}

At(v, step, i) == IF step.to = "field" THEN The(v.fields)[i].value ELSE The(v.items)[i]

With(v, step, i, w) ==
    IF step.to = "field" THEN [v EXCEPT !.fields = {[The(@) EXCEPT ![i].value = w]}]
    ELSE [v EXCEPT !.items = {[The(@) EXCEPT ![i] = w]}]

Inserted(v, i, w) == [v EXCEPT !.items = {InsertAt(The(@), i, w)}]

\* locateDeviationValue and the assignment: v with the change made at the end of
\* the path; nothing if a step leads nowhere or the reference is not found there.
RECURSIVE ChangedAt(_, _, _)
ChangedAt(v, path, change) ==
    IF path = <<>> THEN {change.product : found \in {v} \intersect {change.reference}}
    ELSE LET step == Head(path)
         IN  IF Tail(path) = <<>> /\ change.operation = "insert_before"
             THEN {Inserted(v, i, change.product) : i \in {j \in Step(v, step) : At(v, step, j) = change.reference}}
             ELSE UNION {{With(v, step, i, w) : w \in ChangedAt(At(v, step, i), Tail(path), change)} : i \in Step(v, step)}

=============================================================================
