------------------------ MODULE MCStateReconstructor -------------------------
(* Three kinds of input: every graph of four migrations with at most two   *)
(* dependencies each, cyclic or not; every graph of three migrations for   *)
(* several sets of operations, some of them impossible; and every pair of  *)
(* definitions as a careless caller may pass them.                         *)
EXTENDS StateReconstructor

MCIdentifiers == {"blog", "shop", "article", "comment", "item", "id", "key", "title", "body", "flag", "text"}
MCGoIdentifiers == {"Article", "Comment", "Item", "ID", "Key", "Title", "Body", "Flag"}

MCTexts == MCIdentifiers \union MCGoIdentifiers \union {"", "auto", "char", "boolean", "string", "nil"}

MCAppOf == <<"blog", "blog", "blog", "shop", "zoo">>
MCUnknownKey == 5

MaxDependencies == 2      \* bound: dependencies of one migration

Model(name, goName, table, fields) == [name |-> name, goName |-> goName, dbTable |-> table, fields |-> fields]
Title == DeclaredField("title", "Title", "char", 2, "", FALSE, {DefaultString(2)})
Body == DeclaredField("body", "Body", "char", 2, "text", TRUE, {})
Flag == DeclaredField("flag", "Flag", "boolean", 0, "", FALSE, {DefaultBoolean})
Article == Model("article", "Article", <<>>, <<Title>>)
Comment == Model("comment", "Comment", <<"shop", "item">>, <<DeclaredField("key", "Key", "auto", 0, "", FALSE, {}), Title>>)
Item == Model("item", "Item", <<>>, <<>>)
AddBody == AddField("blog", "article", Body)
AddFlag == AddField("blog", "article", Flag)

\* Operations of migrations 1 to 4.
Plain == << <<CreateModel("blog", Article)>>, <<AddBody>>, <<AddFlag>>, <<CreateModel("shop", Item)>> >>

OtherOperations == {
    << <<AddFlag>>, <<AddBody>>, <<CreateModel("blog", Article)>> >>,
    << <<CreateModel("blog", Article), AddBody>>, <<CreateModel("blog", Comment)>>,
       <<AddField("blog", "comment", Flag), AddFlag>> >>,
    << <<CreateModel("blog", Comment)>>, <<CreateModel("blog", Article)>>,
       <<AddField("blog", "comment", [Flag EXCEPT !.column = "title"])>> >>,
    << <<CreateModel("blog", Article)>>, <<AddBody>>, <<AddField("blog", "article", [Flag EXCEPT !.column = "text"])>> >>,
    << <<CreateModel("blog", Article)>>, <<CreateModel("blog", [Comment EXCEPT !.goName = "Article"])>>, <<>> >>,
    << <<CreateModel("blog", [Article EXCEPT !.dbTable = <<"blog", "Article">>])>>, <<CreateModel("blog", Comment)>>, <<>> >>,
    << <<CreateModel("blog", Article)>>, <<AddFlag, [kind |-> "nil", app |-> "blog"]>>, <<>> >>,
    << <<CreateModel("blog", Article)>>, <<AddFlag>>, <<CreateModel("shop", Item)>> >>}

AtMost(S, n) == {T \in SUBSET S : Cardinality(T) <= n}

Definition(k, ps, operations) == [key |-> k, dependencies |-> SetToSortSeq(ps, >), operations |-> operations]

GraphInputs(n, operations) ==
    {[i \in 1..n |-> Definition(i, g[i], operations[i])] : g \in [1..n -> AtMost(1..n, MaxDependencies)]}

RawDefinitions == [key : 0..3, dependencies : SeqOf(0..3, MaxDependencies), operations : {<<>>}]

MCInputs == GraphInputs(4, Plain)
            \union UNION {GraphInputs(3, o) : o \in OtherOperations}
            \union [1..2 -> RawDefinitions]

MCRequests ==
    {[kind |-> k, targets |-> <<>>, applied |-> {}] : k \in {"empty", "latest", "zero"}}
    \union [kind : {"before", "after"}, targets : {<<k>> : k \in 0..5} \union (1..4) \X (1..4), applied : {{}}]
    \union [kind : {"applied"}, targets : {<<>>}, applied : SUBSET (1..5) \union {{0, 1}}]

=============================================================================
