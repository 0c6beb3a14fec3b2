---------------------------- MODULE MCConformance ----------------------------
(* Manifests of three contracts: one on queries, whose payload is a result *)
(* of any type or an error, and two on migrations, which the policy may    *)
(* let deviate as it does for MIG-018 and MIG-024.  Every file has a       *)
(* correct form and forms that are wrong in one or two places.             *)
EXTENDS Conformance

MCTexts == {<<"int", "1">>, <<"string", "1">>, <<"string", "nested">>, <<"string", "flat">>,
            <<"string", "commit">>, <<"string", "rollback">>, <<"string", "later">>, <<"bytes", "1">>}

\* Names of object fields, in the order of their texts.
Columns == 1
Model == 2
Steps == 3

One == Scalar("int", "1")
Text(t) == Scalar("string", t)
StepMetrics(models) == Object(Steps :> List([i \in DOMAIN models |-> Object(Model :> Text(models[i]))]))
ColumnState(columns) == Object(Columns :> List([i \in DOMAIN columns |-> Text(columns[i])]))

Observed(id, phase) ==
    [id |-> id, status |-> "observed", phase |-> phase, result |-> {}, error |-> {}, db_state |-> {},
     metrics |-> {}, wellFormed |-> TRUE]
NotImplemented(id, phase) == [Observed(id, phase) EXCEPT !.status = "not_implemented"]
Malformed == [Observed(1, "evaluation") EXCEPT !.wellFormed = FALSE]

WithResult(v) == [Observed(1, "evaluation") EXCEPT !.result = {v}]
WithError(code, message, counts) ==
    [Observed(1, "evaluation") EXCEPT !.error =
        {[category |-> "lookup", code |-> code, message |-> message, messageIsContract |-> counts]}]
Second(models) == [Observed(2, "commit") EXCEPT !.metrics = {StepMetrics(models)}]
Third(phase, columns, models) ==
    [Observed(3, phase) EXCEPT !.db_state = {ColumnState(columns)}, !.metrics = {StepMetrics(models)}]

MCPolicy ==
    [decision |-> "DEV-0001",
     contracts |->
       << [id |-> 2, changes |-> << [dimension |-> "metrics", path |-> <<Field(Steps), Item(0), Field(Model)>>,
                                     operation |-> "replace"] >>],
          [id |-> 3, changes |-> << [dimension |-> "phase", path |-> <<>>, operation |-> "replace"],
                                    [dimension |-> "db_state", path |-> <<Field(Columns), Item(1)>>,
                                     operation |-> "insert_before"],
                                    [dimension |-> "metrics", path |-> <<Field(Steps), Item(1), Field(Model)>>,
                                     operation |-> "replace"] >>] >>]

----------------------------------------------------------------------------
MCProfiles == [id : {"django"}, lock : {"a", "b"}, wellFormed : {TRUE}]
              \union {[id |-> "other", lock |-> "a", wellFormed |-> TRUE], [id |-> "django", lock |-> "a", wellFormed |-> FALSE]}

Decision(reference, derived) == [reference |-> reference, derived |-> derived]
Approved == <<Decision("DEV-0001", FALSE)>>
Contract(id, phase, status, comparison, decisions) ==
    [id |-> id, phase |-> phase, status |-> status, comparison |-> comparison, decisions |-> decisions, wellFormed |-> TRUE]

Firsts == {Contract(1, "evaluation", status, {d}, <<>>) :
                status \in {"passing", "red", "draft"}, d \in {"result", "error"}}
          \union {Contract(1, "evaluation", "deviation", {"error"}, Approved),
                  Contract(1, "evaluation", "passing", {"error"}, Approved),
                  Contract(1, "evaluation", "passing", {}, <<>>)}
Seconds == {Contract(2, "commit", "passing", {"metrics"}, <<>>), Contract(2, "commit", "deviation", {"metrics"}, Approved)}
Thirds == {Contract(3, "rollback", "passing", {"db_state", "metrics"}, <<>>),
           Contract(3, "commit", "deviation", {"db_state", "metrics"}, Approved)}
          \union {Contract(3, "rollback", "deviation", {"db_state", "metrics"}, d) :
                     d \in {<<>>, Approved, Approved \o Approved, <<Decision("DEV-0002", FALSE)>>,
                            <<Decision("DEV-0001", TRUE)>>}}

Manifest(contracts) == [profileId |-> "django", contracts |-> contracts, wellFormed |-> TRUE]
Deviating == <<Contract(1, "evaluation", "passing", {"error"}, <<>>), Contract(2, "commit", "deviation", {"metrics"}, Approved),
               Contract(3, "rollback", "deviation", {"db_state", "metrics"}, Approved)>>
AllPassing == <<Contract(1, "evaluation", "passing", {"result"}, <<>>), Contract(2, "commit", "passing", {"metrics"}, <<>>),
                Contract(3, "rollback", "passing", {"db_state", "metrics"}, <<>>)>>
MCManifests ==
    UNION {{Manifest([base EXCEPT ![1] = c]) : c \in Firsts} \union {Manifest([base EXCEPT ![2] = c]) : c \in Seconds}
           \union {Manifest([base EXCEPT ![3] = c]) : c \in Thirds} : base \in {Deviating, AllPassing}}
    \union {Manifest(<<Deviating[1], Deviating[3], Deviating[2]>>), Manifest(<<Deviating[1], Deviating[3]>>),
            Manifest(Deviating \o AllPassing), Manifest(<<Deviating[1]>>), Manifest(<<Deviating[1], Deviating[1]>>),
            [Manifest(Deviating) EXCEPT !.wellFormed = FALSE], [Manifest(Deviating) EXCEPT !.profileId = "other"]}

----------------------------------------------------------------------------
Results == {Null, Boolean(TRUE), Boolean(FALSE), One, Text("1"), Bytes("1"), PrimaryKey(One), PrimaryKey(Text("1")),
            List(<<>>), List(<<One>>), List(<<One, One>>), List(<<One, Null>>),
            Object(Model :> One), Object(Steps :> One), Object(Model :> One @@ Steps :> Null)}
BadResults == {PrimaryKey(Null), PrimaryKey(List(<<>>)), Scalar("int", "later"), [One EXCEPT !.bool = {TRUE}],
               [List(<<One>>) EXCEPT !.items = {}], [Bytes("1") EXCEPT !.base64 = FALSE],
               [Object(Model :> One) EXCEPT !.fields = {The(@) \o The(@)}],
               [Object(Model :> One) EXCEPT !.fields = {<<[name |-> 0, value |-> One]>>}],
               List(<<Scalar("int", "later")>>), [Null EXCEPT !.type = "other"]}
Errors == {WithError("unknown", "text", TRUE), WithError("unknown", "other", TRUE), WithError("unknown", "text", FALSE),
           WithError("unknown", "other", FALSE), WithError("unsupported", "text", TRUE), WithError("unknown", "", TRUE)}
FirstObservations ==
    {WithResult(v) : v \in Results \union BadResults} \union Errors
    \union {NotImplemented(1, "evaluation"), Malformed, Observed(1, "evaluation"),
            [WithResult(One) EXCEPT !.phase = "commit"], [WithResult(One) EXCEPT !.error = WithError("unknown", "", FALSE).error],
            [NotImplemented(1, "evaluation") EXCEPT !.result = {One}]}
SecondObservations == {Second(<<"nested">>), Second(<<"flat">>), Second(<<>>), NotImplemented(2, "commit"),
                       [Second(<<"nested">>) EXCEPT !.metrics = {List(<<>>)}]}
ThirdObservations == {Third(phase, columns, models) : phase \in {"commit", "rollback"},
                         columns \in {<<"1", "later">>, <<"1", "flat", "later">>}, models \in {<<"nested", "nested">>, <<"nested", "flat">>}}
                     \union {Third("rollback", <<"1">>, <<"nested", "nested">>), Third("rollback", <<"1", "later">>, <<"nested">>)}

MCScenarioResults(c) ==
    CASE c.id = 1 -> FirstObservations \ {WithResult(v) : v \in BadResults \ {PrimaryKey(Null)}}
      [] c.id = 2 -> SecondObservations
      [] c.id = 3 -> ThirdObservations

Suite(contracts) == [profile |-> [id |-> "django", lock |-> "a"], contracts |-> contracts, wellFormed |-> TRUE]
Correct == <<WithError("unknown", "text", TRUE), Second(<<"nested">>), Third("rollback", <<"1", "later">>, <<"nested", "nested">>)>>
MCSuites ==
    {Suite([Correct EXCEPT ![1] = o]) : o \in FirstObservations}
    \union {Suite([Correct EXCEPT ![2] = o]) : o \in SecondObservations}
    \union {Suite([Correct EXCEPT ![3] = o]) : o \in ThirdObservations}
    \union {Suite(<<Correct[1], Correct[3], Correct[2]>>), Suite(<<Correct[1], Correct[2]>>), Suite(<<Correct[1], Correct[3]>>),
            Suite(<<>>), Suite(<<Correct[1], Correct[1]>>),
            [Suite(Correct) EXCEPT !.wellFormed = FALSE], [Suite(Correct) EXCEPT !.profile.lock = "b"]}

----------------------------------------------------------------------------
Change(selector, was, now) ==
    [dimension |-> selector.dimension, path |-> selector.path, operation |-> selector.operation,
     reference |-> was, product |-> now]
Flattened == Change(MCPolicy.contracts[1].changes[1], Text("nested"), Text("flat"))
Committed == Change(MCPolicy.contracts[2].changes[1], Text("rollback"), Text("commit"))
ColumnKept == Change(MCPolicy.contracts[2].changes[2], Text("later"), Text("flat"))
StepFlattened == Change(MCPolicy.contracts[2].changes[3], Text("nested"), Text("flat"))

Deviation(second, third) ==
    [profileId |-> "django", decision |-> "DEV-0001", wellFormed |-> TRUE,
     contracts |-> <<[id |-> 2, changes |-> second], [id |-> 3, changes |-> third]>>]
Reviewed == Deviation(<<Flattened>>, <<Committed, ColumnKept, StepFlattened>>)
MCExpectations ==
    {Deviation(<<a>>, <<b, c, d>>) :
        a \in {Flattened, [Flattened EXCEPT !.reference = Text("later")]},
        b \in {Committed, [Committed EXCEPT !.product = Text("later")], [Committed EXCEPT !.reference = Text("commit"), !.product = Text("rollback")]},
        c \in {ColumnKept, [ColumnKept EXCEPT !.operation = "replace"], [ColumnKept EXCEPT !.path = <<Field(Columns), Item(0)>>, !.reference = Text("1")]},
        d \in {StepFlattened, [StepFlattened EXCEPT !.product = Text("nested")], [StepFlattened EXCEPT !.product = One],
               Change([dimension |-> "metrics", path |-> <<Field(Steps)>>, operation |-> "replace"],
                      List(<<Object(Model :> Text("nested")), Object(Model :> Text("nested"))>>), List(<<>>)),
               Change([dimension |-> "db_state", path |-> <<Field(Columns), Item(0)>>, operation |-> "replace"], Text("1"), Text("flat"))}}
    \union {[Reviewed EXCEPT !.decision = "DEV-0002"], [Reviewed EXCEPT !.profileId = "other"], [Reviewed EXCEPT !.wellFormed = FALSE],
            [Reviewed EXCEPT !.contracts = <<@[2], @[1]>>], [Reviewed EXCEPT !.contracts = <<@[1]>>],
            Deviation(<<Flattened>>, <<Committed, ColumnKept, ColumnKept>>), Deviation(<<Flattened>>, <<>>)}

=============================================================================
