----------------------------- MODULE SchemaState -----------------------------
(***************************************************************************)
(* The schema intermediate representation and the project states built     *)
(* from it: ir.Normalize (schema/ir), field declarations (schema), and     *)
(* ProjectState with CreateModel and AddField (migrations/state.go and     *)
(* operation.go).  These are pure functions.  One that may fail returns a  *)
(* set: empty for an error, otherwise the single result.  Which of several *)
(* defects of a schema an error names is left out.                         *)
(*                                                                         *)
(* Names are strings, "" when not set.  A table name is the sequence of    *)
(* the parts between its underscores, <<app, name>> for the default, or    *)
(* << >> when not set.  Fields and models are in sequence, as in the code. *)
(***************************************************************************)
EXTENDS Naturals, Sequences, SequencesExt

CONSTANTS
    Identifiers,     \* names that match the pattern of database identifiers
    GoIdentifiers    \* exported Go identifiers

FormatVersion == 2

Distinct(f) == \A i, j \in DOMAIN f : f[i] = f[j] => i = j

\* A loop that appends what it keeps of s to a new slice.
Keep(s, S) == FoldLeft(LAMBDA kept, x : IF x \in S THEN Append(kept, x) ELSE kept, <<>>, s)

----------------------------------------------------------------------------
\* Declarations (schema/schema.go)

\* Default[T]: a scalar of one of three types; a string is its length in runes.
DefaultString(length) == [kind |-> "string", length |-> length, validUTF8 |-> TRUE, otherPayload |-> FALSE]
DefaultBoolean == [kind |-> "boolean", length |-> 0, validUTF8 |-> TRUE, otherPayload |-> FALSE]

\* newField with its options, as Build hands it to Normalize: only AutoField is a primary key.
DeclaredField(name, goName, kind, maxLength, column, nullable, default) ==
    [name |-> name, goName |-> goName, column |-> column, kind |-> kind,
     primaryKey |-> kind = "auto", nullable |-> nullable, maxLength |-> maxLength, default |-> default]

----------------------------------------------------------------------------
\* Normalization (schema/ir/normalize.go)

\* The primary key of a model that declares no AutoField.
ImplicitID == DeclaredField("id", "ID", "auto", 0, "id", FALSE, {})

ValidScalarDefault(d) ==
    /\ d.kind \in {"string", "boolean", "integer"}
    /\ d.kind = "string" => d.validUTF8
    /\ ~d.otherPayload

ValidField(f) ==
    /\ \A d \in f.default : ValidScalarDefault(d)
    /\ \/ /\ f.kind = "auto"
          /\ f.primaryKey /\ ~f.nullable /\ f.maxLength = 0 /\ f.default = {}
       \/ /\ f.kind = "char"
          /\ ~f.primaryKey /\ f.maxLength > 0
          /\ \A d \in f.default : d.kind = "string" /\ d.length <= f.maxLength
       \/ /\ f.kind = "boolean"
          /\ ~f.primaryKey /\ ~f.nullable /\ f.maxLength = 0
          /\ \A d \in f.default : d.kind = "boolean"

WithColumn(f) == [f EXCEPT !.column = IF @ = "" THEN f.name ELSE @]

WithPrimaryKey(fields) ==
    IF \E i \in DOMAIN fields : fields[i].kind = "auto" THEN fields ELSE <<ImplicitID>> \o fields

ValidFields(fields) ==
    /\ \A i \in DOMAIN fields :
          /\ {fields[i].name, fields[i].column} \subseteq Identifiers
          /\ fields[i].goName \in GoIdentifiers
          /\ ValidField(fields[i])
    /\ Distinct([i \in DOMAIN fields |-> fields[i].name])
    /\ Distinct([i \in DOMAIN fields |-> fields[i].goName])
    /\ Distinct([i \in DOMAIN fields |-> fields[i].column])
    /\ \E i \in DOMAIN fields : \A j \in DOMAIN fields : fields[j].primaryKey <=> j = i

NormalizeModel(app, m) ==
    LET keyed == WithPrimaryKey(m.fields)
    IN  [m EXCEPT !.dbTable = IF @ = <<>> THEN <<app, m.name>> ELSE @,
                  !.fields = [i \in DOMAIN keyed |-> WithColumn(keyed[i])]]

\* The joined parts match the pattern of database identifiers.
ValidTable(table) == \A i \in DOMAIN table : table[i] \in Identifiers

ValidModels(models) ==
    /\ models # <<>>
    /\ \A i \in DOMAIN models :
          /\ models[i].name \in Identifiers /\ models[i].goName \in GoIdentifiers
          /\ ValidTable(models[i].dbTable)
          /\ ValidFields(models[i].fields)
    /\ Distinct([i \in DOMAIN models |-> models[i].name])
    /\ Distinct([i \in DOMAIN models |-> models[i].goName])
    /\ Distinct([i \in DOMAIN models |-> models[i].dbTable])

Normalize(schema) ==
    LET normalized == [schema EXCEPT
            !.version = IF @ = 0 THEN FormatVersion ELSE @,
            !.models = [i \in DOMAIN schema.models |-> NormalizeModel(schema.app, schema.models[i])]]
    IN  {s \in {normalized} :
            s.version = FormatVersion /\ s.app \in Identifiers /\ ValidModels(s.models)}

----------------------------------------------------------------------------
\* Project states (migrations/state.go): a function from app labels to schemas

EmptyProjectState == [a \in {} |-> <<>>]

ModelsOf(state, app) == IF app \in DOMAIN state THEN state[app].models ELSE <<>>

\* validate: every schema is its own normal form, under its own label.
ValidState(state) ==
    \A app \in DOMAIN state : state[app].app = app /\ Normalize(state[app]) = {state[app]}

WithSchema(state, schema) ==
    [app \in DOMAIN state \union {schema.app} |-> IF app = schema.app THEN schema ELSE state[app]]

WithoutApp(state, app) == [a \in DOMAIN state \ {app} |-> state[a]]

\* The state with other models for one app, normalized once more.
WithModels(state, app, models) ==
    {WithSchema(state, s) : s \in Normalize([version |-> FormatVersion, app |-> app, models |-> models])}

NormalizedSingleModel(app, model) ==
    {s.models[1] : s \in Normalize([version |-> FormatVersion, app |-> app, models |-> <<model>>])}

----------------------------------------------------------------------------
\* Operations (migrations/operation.go)

CreateModel(app, model) == [kind |-> "CreateModel", app |-> app, model |-> model]
AddField(app, modelName, field) ==
    [kind |-> "AddField", app |-> app, modelName |-> modelName, field |-> field]

CreateModelForward(op, state) ==
    UNION {WithModels(state, op.app, Append(ModelsOf(state, op.app), m)) :
              m \in {n \in NormalizedSingleModel(op.app, op.model) :
                        \A i \in DOMAIN ModelsOf(state, op.app) : ModelsOf(state, op.app)[i].name # n.name}}

\* The model must still be exactly what CreateModel made; the app goes with its last model.
CreateModelBackward(op, state) ==
    UNION {LET models == Keep(ModelsOf(state, op.app), {m \in Range(ModelsOf(state, op.app)) : m.name # want.name})
           IN  IF models = <<>> THEN {WithoutApp(state, op.app)} ELSE WithModels(state, op.app, models) :
              want \in {n \in NormalizedSingleModel(op.app, op.model) : Contains(ModelsOf(state, op.app), n)}}

\* The index of the model an AddField names, if there is one.
ModelIndex(op, models) == {i \in DOMAIN models : models[i].name = op.modelName}

AddFieldForward(op, state) ==
    LET models == ModelsOf(state, op.app)
        clash(f) == f.name = op.field.name \/ (op.field.column # "" /\ f.column = op.field.column)
    IN  UNION {WithModels(state, op.app, [models EXCEPT ![i].fields = Append(@, op.field)]) :
                  i \in {j \in ModelIndex(op, models) :
                            \A k \in DOMAIN models[j].fields : ~clash(models[j].fields[k])}}

\* Faulty variant: the field is compared as it was declared, its column perhaps not set.
AddFieldBackwardRaw(op, state) ==
    LET models == ModelsOf(state, op.app)
    IN  UNION {WithModels(state, op.app,
                   [models EXCEPT ![i].fields = Keep(@, {f \in Range(@) : f.name # op.field.name})]) :
                  i \in {j \in ModelIndex(op, models) : Contains(models[j].fields, op.field)}}

\* The field found under the name must be the one AddField added.
AddFieldBackward(op, state) ==
    LET models == ModelsOf(state, op.app)
    IN  UNION {WithModels(state, op.app,
                   [models EXCEPT ![i].fields = Keep(@, {f \in Range(@) : f.name # op.field.name})]) :
                  i \in {j \in ModelIndex(op, models) : Contains(models[j].fields, WithColumn(op.field))}}

StateForward(op, state) ==
    IF op.kind = "CreateModel" THEN CreateModelForward(op, state) ELSE AddFieldForward(op, state)

StateBackward(op, state) ==
    IF op.kind = "CreateModel" THEN CreateModelBackward(op, state) ELSE AddFieldBackward(op, state)

Perform(app, direction, states, op) ==
    UNION {IF op.kind = "nil" THEN {}
           ELSE IF op.app # app THEN {}
           ELSE IF direction = "forward" THEN StateForward(op, s) ELSE StateBackward(op, s) : s \in states}

\* preflight (migrations/executor.go): the operations of a migration in turn, the last one first backward.
Preflight(state, app, operations, direction) ==
    FoldLeft(LAMBDA states, op : Perform(app, direction, states, op),
             {s \in {state} : ValidState(s)},
             IF direction = "forward" THEN operations ELSE Reverse(operations))

=============================================================================
