------------------------------ MODULE QueryPlan ------------------------------
(***************************************************************************)
(* How a QuerySet's plan is built, shared and compiled: orm.Filter,        *)
(* OrderBy and Limit over query.Plan, with the Go slices the plans keep    *)
(* their conditions and orderings in; typed and dynamic predicates; and    *)
(* the SQLite compiler, with the statement executed on a table.            *)
(*                                                                         *)
(* A slice is a length and the address of an array in the heap, whose      *)
(* cells beyond the length append may use: that is how two plans could     *)
(* come to share cells.  The pointer to a limit is never written through   *)
(* and is a set of at most one number; the columns of a plan never change  *)
(* and are the model's metadata.  Text is a sequence of characters.        *)
(***************************************************************************)
EXTENDS Integers, Sequences, FiniteSets, SequencesExt

CONSTANTS
    Metadata,        \* the fields of the model: [name, column, kind, nullable]
    Models,          \* the rows of its table: functions from names of fields to values
    Code,            \* the code of a character
    Folded,          \* the lower-case form of a character
    Vocabularies,    \* arguments of Filter and OrderBy, and a bound on the QuerySets, of a behaviour
    Limits,          \* arguments of Limit
    MaxSpare         \* bound: cells the runtime adds when it allocates an array

\* Filter and OrderBy take sequences.
ASSUME QueryPlanAssumption ==
    /\ \A v \in Vocabularies : \A xs \in v.filters \union v.orders : xs \in Seq(ToSet(xs))
    /\ MaxSpare \in Nat

The(set) == CHOOSE x \in set : TRUE

----------------------------------------------------------------------------
\* query.Value, FieldRef, Condition and Ordering

Null == [kind |-> "null", integer |-> 0, text |-> <<>>, boolean |-> FALSE]
Integer(n) == [Null EXCEPT !.kind = "integer", !.integer = n]
String(t) == [Null EXCEPT !.kind = "string", !.text = t]
Boolean(b) == [Null EXCEPT !.kind = "boolean", !.boolean = b]

KindOf(fieldKind) == CASE fieldKind = "auto" -> "integer" [] fieldKind = "char" -> "string" [] OTHER -> "boolean"
FieldReference(f) == [name |-> f.name, column |-> f.column, kind |-> KindOf(f.kind), nullable |-> f.nullable]
Columns == [i \in DOMAIN Metadata |-> FieldReference(Metadata[i])]

Condition(field, lookup, value) == [field |-> field, lookup |-> lookup, value |-> value]
Ordering(field, direction) == [field |-> field, direction |-> direction]

\* A predicate is a set with its condition; an empty one carries an error.
\* The typed fields: constructor and metadata must agree, or every predicate fails.
TypedField(type, f) ==
    {FieldReference(f) : ok \in {TRUE} \intersect
        {CASE type = "IntegerField" -> f.kind = "auto" /\ ~f.nullable
           [] type = "StringField" -> f.kind = "char" /\ ~f.nullable
           [] type = "NullableStringField" -> f.kind = "char" /\ f.nullable
           [] type = "BooleanField" -> f.kind = "boolean" /\ ~f.nullable}}

TypedPredicate(type, f, lookup, value) == {Condition(r, lookup, value) : r \in TypedField(type, f)}
TypedOrdering(type, f, direction) == {Ordering(r, direction) : r \in TypedField(type, f)}

\* ParseDynamic of one input, whose key is already split; raw is a value of any Go type,
\* policy the set of fields and lookups that the caller's LookupPolicy allows.
SupportedLookup(f, lookup) == lookup \in {"exact", "isnull"} \/ (lookup = "icontains" /\ f.kind = "char")
DynamicValue(f, lookup, raw) ==
    {v \in {raw} : v.kind = IF lookup = "isnull" THEN "boolean" ELSE KindOf(f.kind)}
ParseDynamic(name, lookup, raw, policy) ==
    UNION {{Condition(FieldReference(f), lookup, v) : v \in DynamicValue(f, lookup, raw)} :
              f \in {g \in ToSet(Metadata) : g.name = name /\ SupportedLookup(g, lookup) /\ <<g, lookup>> \in policy}}

\* The methods of the typed fields make the conditions that their types allow.
Offers(type, lookup, value) ==
    \/ lookup = "isnull" /\ value.kind = "boolean"
    \/ lookup = "exact" /\ value.kind = (CASE type = "IntegerField" -> "integer"
                                           [] type = "BooleanField" -> "boolean"
                                           [] OTHER -> "string")
    \/ lookup = "icontains" /\ type \in {"StringField", "NullableStringField"} /\ value.kind = "string"

IsValue(v) ==
    \/ v = Null
    \/ v = Integer(v.integer) /\ v.integer \in Int
    \/ v = String(v.text) /\ v.text \in Seq(ToSet(v.text))
    \/ v = Boolean(v.boolean) /\ v.boolean \in BOOLEAN

Types == {"IntegerField", "StringField", "NullableStringField", "BooleanField"}
Lookups == {"exact", "icontains", "isnull"}

IsPredicate(p) ==
    \/ p = {}
    \/ LET c == The(p)
       IN  /\ IsValue(c.value)
           /\ \E f \in ToSet(Metadata) :
                 \/ p = ParseDynamic(f.name, c.lookup, c.value, ToSet(Metadata) \X Lookups)
                 \/ \E type \in Types : /\ Offers(type, c.lookup, c.value)
                                       /\ p = TypedPredicate(type, f, c.lookup, c.value)
IsOrdering(p) ==
    \/ p = {}
    \/ \E f \in ToSet(Metadata), type \in Types, direction \in {"asc", "desc"} : p = TypedOrdering(type, f, direction)

\* A model has columns, no two of one name; the migrations and Save keep its rows of their
\* kinds; predicates and orderings come from the fields that were generated for the model.
ASSUME TableAssumption ==
    /\ Metadata \in Seq(ToSet(Metadata)) /\ Metadata # <<>>
    /\ \A f, g \in ToSet(Metadata) : f.name = g.name \/ f.column = g.column => f = g
    /\ IsFiniteSet(DOMAIN Models)
    /\ \A x \in DOMAIN Models, f \in ToSet(Metadata) :
          LET v == Models[x][f.name]
          IN  IsValue(v) /\ (v.kind = KindOf(f.kind) \/ (f.nullable /\ v = Null))
    /\ Limits \subseteq Int
    /\ \A v \in Vocabularies :
          /\ \A xs \in v.filters : \A p \in ToSet(xs) : IsPredicate(p)
          /\ \A xs \in v.orders : \A p \in ToSet(xs) : IsOrdering(p)

----------------------------------------------------------------------------
\* Compile

Escaped(t, c) == FoldLeft(LAMBDA out, x : out \o (IF x = c THEN <<"\\", x>> ELSE <<x>>), <<>>, t)

\* Faulty variant: the escape character is escaped last.
EscapeLikeLate(t) == Escaped(Escaped(Escaped(t, "%"), "_"), "\\")

EscapeLike(t) == Escaped(Escaped(Escaped(t, "\\"), "%"), "_")

\* The test on the column and its argument, or nothing for an error.
CompileCondition(c) ==
    IF c.lookup = "exact"
    THEN {[test |-> "equal", argument |-> {c.value}] : ok \in {TRUE} \intersect {c.value.kind = c.field.kind}}
    ELSE IF c.lookup = "icontains"
    THEN {[test |-> "like", argument |-> {String(<<"%">> \o EscapeLike(c.value.text) \o <<"%">>)}] :
             ok \in {TRUE} \intersect {c.field.kind = "string" /\ c.value.kind = "string"}}
    ELSE IF c.lookup = "isnull"
    THEN {[test |-> IF c.value.boolean THEN "null" ELSE "not null", argument |-> {}] :
             ok \in {TRUE} \intersect {c.value.kind = "boolean"}}
    ELSE {}

ContainsField(field) == field \in ToSet(Columns)

\* The statement without its text: tests, sort keys, whether it ends in LIMIT ?, and the arguments.
Compile(conditions, orderings, limit) ==
    LET tests == [i \in DOMAIN conditions |-> CompileCondition(conditions[i])]
        test(i) == The(tests[i])
    IN  {[where |-> [i \in DOMAIN conditions |-> [column |-> conditions[i].field.column, test |-> test(i).test]],
          order |-> [i \in DOMAIN orderings |->
                        [column |-> orderings[i].field.column, direction |-> orderings[i].direction]],
          limited |-> limit # {},
          arguments |-> FoldLeft(LAMBDA out, c : out \o SetToSeq(The(CompileCondition(c)).argument), <<>>, conditions)
                        \o SetToSeq({Integer(n) : n \in limit})] :
           ok \in {TRUE} \intersect
              {/\ Columns # <<>>
               /\ \A i \in DOMAIN conditions : ContainsField(conditions[i].field) /\ tests[i] # {}
               /\ \A i \in DOMAIN orderings :
                     ContainsField(orderings[i].field) /\ orderings[i].direction \in {"asc", "desc"}}}

----------------------------------------------------------------------------
\* SQLite: storage, tests, LIKE with an escape character, sorting, arguments by position

Stored(v) == IF v.kind = "boolean" THEN Integer(IF v.boolean THEN 1 ELSE 0) ELSE v

FieldOf(column) == CHOOSE f \in ToSet(Metadata) : f.column = column
Cell(row, column) == Stored(row[FieldOf(column).name])

\* LIKE reads its pattern from left to right; at holds how many characters of the
\* text the pattern may have matched so far.  SQLite refuses a pattern above its
\* length limit and stops at a NUL: such texts are left out.
LikeStep(t, state, c) ==
    LET plain == ~state.escaped
    IN  IF plain /\ c = "\\" THEN [state EXCEPT !.escaped = TRUE]
        ELSE IF plain /\ c = "%" THEN [state EXCEPT !.at = {n \in 0..Len(t) : \E m \in state.at : m <= n}]
        ELSE [escaped |-> FALSE,
              at |-> {n \in 1..Len(t) : n - 1 \in state.at /\ ((plain /\ c = "_") \/ Folded[t[n]] = Folded[c])}]

Like(pattern, t) ==
    LET end == FoldLeft(LAMBDA state, c : LikeStep(t, state, c), [escaped |-> FALSE, at |-> {0}], pattern)
    IN  ~end.escaped /\ Len(t) \in end.at

HasParameter(test) == test \in {"equal", "like"}
Passes(row, q, i) ==
    LET cell == Cell(row, q.where[i].column)
        argument == Stored(q.arguments[Cardinality({h \in 1..i : HasParameter(q.where[h].test)})])
    IN  CASE q.where[i].test = "null" -> cell.kind = "null"
          [] q.where[i].test = "not null" -> cell.kind # "null"
          [] q.where[i].test = "equal" -> cell = argument /\ cell.kind # "null"
          [] q.where[i].test = "like" -> cell.kind = "string" /\ Like(argument.text, cell.text)

\* NULL before everything, text by the codes of its characters.
Less(v, w) ==
    IF v.kind = "null" \/ w.kind = "null" THEN v.kind = "null" /\ w.kind # "null"
    ELSE IF v.kind = "integer" THEN v.integer < w.integer
    ELSE \E n \in 0..Len(v.text) :
            /\ n < Len(w.text) /\ SubSeq(v.text, 1, n) = SubSeq(w.text, 1, n)
            /\ n < Len(v.text) => Code[v.text[n + 1]] < Code[w.text[n + 1]]

\* vs goes before ws, compared by the directions of the keys.
Sorts(vs, ws, keys) ==
    \E i \in DOMAIN keys :
        /\ SubSeq(vs, 1, i - 1) = SubSeq(ws, 1, i - 1)
        /\ IF keys[i].direction = "asc" THEN Less(vs[i], ws[i]) ELSE Less(ws[i], vs[i])

\* Every answer the database may give; rows with equal keys come in any order.
Execute(q) ==
    LET rows == {x \in DOMAIN Models : \A i \in DOMAIN q.where : Passes(Models[x], q, i)}
        values(x) == [k \in DOMAIN q.order |-> Cell(Models[x], q.order[k].column)]
        before(x, y) == Sorts(values(x), values(y), q.order)
        sorted == {s \in SetToSeqs(rows) : \A i, j \in DOMAIN s : i < j => ~before(s[j], s[i])}
        limit == Last(q.arguments).integer
    IN  IF q.limited THEN {SubSeq(s, 1, IF Len(s) < limit THEN Len(s) ELSE limit) : s \in sorted} ELSE sorted

----------------------------------------------------------------------------
\* Slices

VARIABLES
    heap,           \* the arrays, by address
    querysets,      \* [conditions, orderings, limit, failed, meant]
    vocabulary,     \* [filters, orders, querysets]: what this behaviour uses
    held,           \* addresses of arrays that callers hold
    answer          \* the last evaluation: [of, rows], rows empty for an error

vars == <<heap, querysets, vocabulary, held, answer>>

NilSlice == [array |-> 0, len |-> 0]

\* A cell is a sequence of one element, or empty if it was never written.
Elements(h, s) == [i \in 1..s.len |-> h[s.array][i][1]]

\* append: in place if the array has room, or in a new array with spare cells.
Appended(h, s, xs, spare) ==
    LET n == s.len + Len(xs)
        old == IF s.array = 0 THEN <<>> ELSE h[s.array]
        filled == [i \in 1..n |-> IF i <= s.len THEN old[i] ELSE <<xs[i - s.len]>>]
    IN  IF xs = <<>> THEN [heap |-> h, slice |-> s]
        ELSE IF n <= Len(old)
        THEN [heap |-> [h EXCEPT ![s.array] = filled \o SubSeq(old, n + 1, Len(old))], slice |-> [s EXCEPT !.len = n]]
        ELSE [heap |-> Append(h, filled \o [i \in 1..spare |-> <<>>]), slice |-> [array |-> Len(h) + 1, len |-> n]]

\* append([]T(nil), s...)
Copied(h, s, spare) == Appended(h, NilSlice, Elements(h, s), spare)

\* Faulty variant: the struct is copied, its slices are not.
CloneStruct(h, p, spare) == [heap |-> h, plan |-> p]

Clone(h, p, spare) ==
    LET conditions == Copied(h, p.conditions, spare)
        orderings == Copied(conditions.heap, p.orderings, spare)
    IN  [heap |-> orderings.heap,
         plan |-> [p EXCEPT !.conditions = conditions.slice, !.orderings = orderings.slice]]

WithConditions(h, p, cs, spare) ==
    LET clone == Clone(h, p, spare)
        new == Appended(clone.heap, clone.plan.conditions, cs, spare)
    IN  [heap |-> new.heap, plan |-> [clone.plan EXCEPT !.conditions = new.slice]]

WithOrderings(h, p, os, spare) ==
    LET clone == Clone(h, p, spare)
        new == Appended(clone.heap, NilSlice, os, spare)
    IN  [heap |-> new.heap, plan |-> [clone.plan EXCEPT !.orderings = new.slice]]

WithLimit(h, p, n, spare) ==
    LET clone == Clone(h, p, spare) IN [clone EXCEPT !.plan.limit = {n}]

----------------------------------------------------------------------------
\* QuerySets: a plan, whether the configuration failed, and for the properties
\* what the calls that made it mean.

Using == [plan |-> [conditions |-> NilSlice, orderings |-> NilSlice, limit |-> {}],
          failed |-> FALSE,
          meant |-> [conditions |-> <<>>, orderings |-> <<>>, limit |-> {}, failed |-> FALSE]]
NoAnswer == [of |-> 0, rows |-> {}]

Init ==
    /\ heap = <<>> /\ querysets = <<Using>> /\ held = {} /\ answer = NoAnswer
    /\ vocabulary \in Vocabularies

Derive(new, qs) ==
    /\ heap' = new.heap
    /\ querysets' = Append(querysets, [qs EXCEPT !.plan = new.plan])
    /\ answer' = NoAnswer
    /\ UNCHANGED <<vocabulary, held>>

Unchanged(qs) == [heap |-> heap, plan |-> qs.plan]
Failing(xs) == \E i \in DOMAIN xs : xs[i] = {}
Values(xs) == [i \in DOMAIN xs |-> The(xs[i])]

Filter ==
    \E q \in DOMAIN querysets, predicates \in vocabulary.filters, spare \in 0..MaxSpare :
        LET qs == querysets[q]
            meant == IF Failing(predicates) THEN [qs.meant EXCEPT !.failed = TRUE]
                     ELSE [qs.meant EXCEPT !.conditions = @ \o Values(predicates)]
        IN  /\ Len(querysets) < vocabulary.querysets
            /\ IF qs.failed THEN Derive(Unchanged(qs), [qs EXCEPT !.meant = meant])
               ELSE IF Failing(predicates) THEN Derive(Unchanged(qs), [qs EXCEPT !.failed = TRUE, !.meant = meant])
               ELSE Derive(WithConditions(heap, qs.plan, Values(predicates), spare), [qs EXCEPT !.meant = meant])

OrderBy ==
    \E q \in DOMAIN querysets, orderings \in vocabulary.orders, spare \in 0..MaxSpare :
        LET qs == querysets[q]
            meant == IF Failing(orderings) THEN [qs.meant EXCEPT !.failed = TRUE]
                     ELSE [qs.meant EXCEPT !.orderings = Values(orderings)]
        IN  /\ Len(querysets) < vocabulary.querysets
            /\ IF qs.failed THEN Derive(Unchanged(qs), [qs EXCEPT !.meant = meant])
               ELSE IF Failing(orderings) THEN Derive(Unchanged(qs), [qs EXCEPT !.failed = TRUE, !.meant = meant])
               ELSE Derive(WithOrderings(heap, qs.plan, Values(orderings), spare), [qs EXCEPT !.meant = meant])

\* Limit of a failed QuerySet, or a negative one, returns an error and no QuerySet to go on with.
Limit ==
    \E q \in DOMAIN querysets, n \in Limits, spare \in 0..MaxSpare :
        LET qs == querysets[q]
        IN  /\ Len(querysets) < vocabulary.querysets
            /\ ~qs.failed /\ n >= 0
            /\ Derive(WithLimit(heap, qs.plan, n, spare), [qs EXCEPT !.meant.limit = {n}])

\* Fresh copies the struct; the two QuerySets share the plan's slices.
Fresh ==
    \E q \in DOMAIN querysets :
        /\ Len(querysets) < vocabulary.querysets
        /\ Derive(Unchanged(querysets[q]), querysets[q])

\* Conditions() of a plan: the caller gets a copy.
Conditions ==
    \E q \in DOMAIN querysets, spare \in 0..MaxSpare :
        LET copy == Copied(heap, querysets[q].plan.conditions, spare)
        IN  /\ held = {} /\ copy.slice.array # 0
            /\ heap' = copy.heap /\ held' = {copy.slice.array}
            /\ answer' = NoAnswer
            /\ UNCHANGED <<querysets, vocabulary>>

\* A caller writes into a slice it holds.
CallerWrites ==
    \E a \in held, predicates \in vocabulary.filters :
        /\ predicates # <<>> /\ ~Failing(predicates)
        /\ heap[a][1] # <<Values(predicates)[1]>>
        /\ heap' = [heap EXCEPT ![a][1] = <<Values(predicates)[1]>>]
        /\ answer' = NoAnswer
        /\ UNCHANGED <<querysets, vocabulary, held>>

\* A terminal that reads the rows: validateTerminal, Compile, the statement.
Evaluate ==
    \E q \in DOMAIN querysets :
        LET p == querysets[q].plan
            compiled == Compile(Elements(heap, p.conditions), Elements(heap, p.orderings), p.limit)
        IN  /\ answer = NoAnswer
            /\ IF querysets[q].failed \/ compiled = {} THEN answer' = [of |-> q, rows |-> {}]
               ELSE \E rows \in Execute(The(compiled)) : answer' = [of |-> q, rows |-> {rows}]
            /\ UNCHANGED <<heap, querysets, vocabulary, held>>

Next == Filter \/ OrderBy \/ Limit \/ Fresh \/ Conditions \/ CallerWrites \/ Evaluate

Spec == Init /\ [][Next]_vars

----------------------------------------------------------------------------
\* Properties

\* A QuerySet is what the calls that made it say, whatever was derived from it or
\* from its relatives since and whatever callers do with the slices they were
\* given ("a derived QuerySet cannot mutate its source", query/plan.go).
PlansIndependent ==
    \A q \in DOMAIN querysets :
        LET qs == querysets[q]
        IN  /\ qs.failed = qs.meant.failed
            /\ ~qs.failed => /\ Elements(heap, qs.plan.conditions) = qs.meant.conditions
                             /\ Elements(heap, qs.plan.orderings) = qs.meant.orderings
                             /\ qs.plan.limit = qs.meant.limit

FoldText(t) == [i \in DOMAIN t |-> Folded[t[i]]]
Satisfies(model, c) ==
    LET v == model[c.field.name]
    IN  CASE c.lookup = "exact" -> v = c.value
          [] c.lookup = "isnull" -> (v.kind = "null") = c.value.boolean
          [] c.lookup = "icontains" ->
                /\ v.kind = "string"
                /\ \E i \in 0..Len(v.text) : IsPrefix(FoldText(c.value.text), FoldText(SubSeq(v.text, i + 1, Len(v.text))))

\* Evaluation answers the question that was asked: predicates and orderings made
\* by the ORM are never refused by the compiler, and the rows are those that
\* satisfy every lookup, literally where a text holds LIKE's own characters, in
\* the order asked for, up to the limit and with nothing skipped; a QuerySet
\* with a wrong predicate anywhere in its past has no rows but an error; for texts
\* that SQLite's LIKE takes whole (Compile, compileCondition, escapeLike, Filter).
RowsMeant ==
    answer.of # 0 =>
        LET m == querysets[answer.of].meant
            wanted == {x \in DOMAIN Models : \A i \in DOMAIN m.conditions : Satisfies(Models[x], m.conditions[i])}
            values(x) == [k \in DOMAIN m.orderings |-> Stored(Models[x][m.orderings[k].field.name])]
            before(x, y) == Sorts(values(x), values(y), m.orderings)
        IN  /\ (answer.rows = {}) <=> m.failed
            /\ \A rows \in answer.rows :
                  /\ IsInjective(rows) /\ ToSet(rows) \subseteq wanted
                  /\ \A i, j \in DOMAIN rows : i < j => ~before(rows[j], rows[i])
                  /\ \A x \in wanted \ ToSet(rows) :
                        /\ m.limit = {Len(rows)}
                        /\ \A i \in DOMAIN rows : ~before(x, rows[i])

=============================================================================
