----------------------------- MODULE MCQueryPlan -----------------------------
(* A model with a key, a title, a nullable body and a flag, and rows whose *)
(* texts hold the characters LIKE treats specially.  A behaviour either    *)
(* derives two QuerySets with any two predicates, or four with few.        *)
EXTENDS QueryPlan, FiniteSets

Characters == {"a", "A", "b", "%", "_", "\\"}
MCCode == "%" :> 37 @@ "A" :> 65 @@ "\\" :> 92 @@ "_" :> 95 @@ "a" :> 97 @@ "b" :> 98
MCFolded == [c \in Characters |-> IF c = "A" THEN "a" ELSE c]

Key == [name |-> "id", column |-> "id", kind |-> "auto", nullable |-> FALSE]
Title == [name |-> "title", column |-> "headline", kind |-> "char", nullable |-> FALSE]
Body == [name |-> "body", column |-> "body", kind |-> "char", nullable |-> TRUE]
Flag == [name |-> "flag", column |-> "flag", kind |-> "boolean", nullable |-> FALSE]
MCMetadata == <<Key, Title, Body, Flag>>

Row(id, title, body, flag) ==
    [f \in {"id", "title", "body", "flag"} |->
        CASE f = "id" -> Integer(id) [] f = "title" -> String(title) [] f = "body" -> body [] f = "flag" -> Boolean(flag)]
MCModels == << Row(1, <<"A", "b">>, Null, TRUE), Row(2, <<"%", "b">>, String(<<"a">>), FALSE),
               Row(3, <<"\\", "_">>, String(<<"\\">>), TRUE) >>

Texts == {<<>>, <<"a">>, <<"%">>, <<"_">>, <<"\\">>, <<"A", "b">>, <<"%", "b">>, <<"\\", "_">>, <<"\\", "%">>}
Raw == {Null, Integer(1), Integer(2), String(<<"a">>), Boolean(TRUE), Boolean(FALSE)}
Anything == ToSet(MCMetadata) \X {"exact", "isnull", "icontains"}
NoTitle == (ToSet(MCMetadata) \ {Title}) \X {"exact"}

TypedPredicates ==
    {TypedPredicate("StringField", Title, lookup, String(t)) : lookup \in {"exact", "icontains"}, t \in Texts}
    \union {TypedPredicate("NullableStringField", Body, lookup, String(t)) : lookup \in {"exact", "icontains"}, t \in {<<"a">>, <<"\\">>}}
    \union {TypedPredicate("NullableStringField", Body, "isnull", Boolean(b)) : b \in BOOLEAN}
    \union {TypedPredicate("BooleanField", Flag, lookup, Boolean(b)) : lookup \in {"exact", "isnull"}, b \in BOOLEAN}
    \union {TypedPredicate("IntegerField", Key, "exact", Integer(2)), TypedPredicate("IntegerField", Key, "isnull", Boolean(FALSE)),
            TypedPredicate("StringField", Body, "exact", String(<<"a">>)), TypedPredicate("BooleanField", Title, "exact", Boolean(TRUE))}
DynamicPredicates ==
    {ParseDynamic(name, lookup, raw, Anything) :
        name \in {"id", "body", "flag", "other"}, lookup \in {"exact", "isnull", "icontains", "other"}, raw \in Raw}
    \union {ParseDynamic(name, "exact", String(<<"a">>), NoTitle) : name \in {"title", "body"}}
Predicates == TypedPredicates \union DynamicPredicates

Orders == {<<TypedOrdering("BooleanField", Flag, "desc"), TypedOrdering("StringField", Title, "asc")>>,
           <<TypedOrdering("NullableStringField", Body, "asc")>>, <<TypedOrdering("StringField", Key, "asc")>>}

TitleHas(t) == TypedPredicate("StringField", Title, "icontains", String(t))
Few == {<<TitleHas(<<"%">>)>>, <<TypedPredicate("IntegerField", Key, "exact", Integer(1))>>, <<{}>>}

Seconds == {TitleHas(<<"a">>), TypedPredicate("NullableStringField", Body, "isnull", Boolean(TRUE))}

MCVocabularies ==
    {[filters |-> {<<p, q>>}, orders |-> Orders, querysets |-> 3]  : p \in Predicates, q \in Seconds}
    \union {[filters |-> Few, orders |-> {<<TypedOrdering("IntegerField", Key, "desc")>>}, querysets |-> 4]}

=============================================================================
