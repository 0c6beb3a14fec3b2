----------------------------- MODULE Conformance -----------------------------
(***************************************************************************)
(* The conformance gate: validation of profiles, manifests, observation    *)
(* suites and deviation expectations (conformance/internal/protocol), and  *)
(* the three programs built on it, contractcheck, observationcmp and       *)
(* godjcheck, from their arguments to their exit code.  A file is read in  *)
(* the step that loads it, so it may be any file; GoDj itself is known     *)
(* here by the observations its scenarios return.                          *)
(*                                                                         *)
(* "wellFormed" stands for the checks of single fields against patterns,   *)
(* non-blank texts and known words, and for strict JSON decoding.  Only    *)
(* the entries of kind "decision" are kept of a contract's provenance, and *)
(* the comparison dimensions of a contract are a set: their order only     *)
(* orders the report.  Optional payloads are sets, as in ProtocolValue.    *)
(***************************************************************************)
EXTENDS ProtocolValue

CONSTANTS
    Profiles, Manifests, Suites, Expectations,     \* what the files may hold
    ScenarioResults(_),                            \* what GoDj may observe for a contract
    Policy,                                        \* migrationExecutionDeviationPolicy
    MinContracts, MaxContracts                     \* entries of a manifest, 8 and 12 in the code

Programs == {"contractcheck", "observationcmp", "godjcheck"}
Phases == {"environment", "metadata", "construction", "evaluation", "commit", "rollback"}
Dimensions == {"result", "error", "db_state", "metrics"}
ValueDimensions == Dimensions \ {"error"}

DistinctIds(s) == \A i, j \in DOMAIN s : s[i].id = s[j].id => i = j

----------------------------------------------------------------------------
\* The Validate methods

ValidProfile(p) == p.wellFormed

ValidManifest(m) ==
    /\ m.wellFormed
    /\ Len(m.contracts) \in MinContracts..MaxContracts
    /\ \A i \in DOMAIN m.contracts : m.contracts[i].wellFormed /\ m.contracts[i].comparison # {}
    /\ DistinctIds(m.contracts)

ValidObservation(o) ==
    /\ o.wellFormed
    /\ o.status = "not_implemented" => \A d \in Dimensions : o[d] = {}
    /\ o.status = "observed" =>
          /\ \E d \in Dimensions : o[d] # {}
          /\ o.result = {} \/ o.error = {}
          /\ \A d \in ValueDimensions : \A v \in o[d] : ValidValue(v)
          /\ \A e \in o.error : e.messageIsContract => e.message # ""
          /\ \A v \in o.metrics : v.type = "object"

ValidSuite(s) ==
    /\ s.wellFormed
    /\ s.contracts # <<>>
    /\ \A i \in DOMAIN s.contracts : ValidObservation(s.contracts[i])
    /\ DistinctIds(s.contracts)

\* An empty path is the path of a phase; an index follows the name of a list.
ValidSelector(c) ==
    \/ c.dimension = "phase" /\ c.path = <<>> /\ c.operation = "replace"
    \/ /\ c.dimension \in ValueDimensions
       /\ c.path # <<>>
       /\ \A i \in DOMAIN c.path : c.path[i].to = "item" => i > 1 /\ c.path[i - 1].to = "field"
       /\ \/ c.operation = "replace"
          \/ c.operation = "insert_before" /\ Last(c.path).to = "item"

ValidSelectors(changes) ==
    /\ changes # <<>>
    /\ \A i \in DOMAIN changes : ValidSelector(changes[i])
    /\ \A i, j \in DOMAIN changes :
          changes[i].dimension = changes[j].dimension /\ changes[i].path = changes[j].path => i = j

ValidChange(c) ==
    /\ ValidValue(c.reference) /\ ValidValue(c.product)
    /\ c.reference # c.product
    /\ c.dimension = "phase" =>
          \A v \in {c.reference, c.product} : v.type = "string" /\ v.text \subseteq Phases

ValidDeviations(contracts) ==
    /\ Len(contracts) \in 1..MaxContracts
    /\ DistinctIds(contracts)
    /\ \A i \in DOMAIN contracts : ValidSelectors(contracts[i].changes)

ValidExpectation(e) ==
    /\ e.wellFormed
    /\ ValidDeviations(e.contracts)
    /\ \A i \in DOMAIN e.contracts :
          \A j \in DOMAIN e.contracts[i].changes : ValidChange(e.contracts[i].changes[j])

Payloads(o) == {d \in Dimensions : o[d] # {}}

ValidateSuiteAgainst(p, m, s) ==
    /\ ValidProfile(p) /\ ValidManifest(m) /\ ValidSuite(s)
    /\ m.profileId = p.id
    /\ s.profile = [id |-> p.id, lock |-> p.lock]
    /\ Len(s.contracts) = Len(m.contracts)
    /\ \A i \in DOMAIN m.contracts :
          LET c == m.contracts[i]
              o == s.contracts[i]
          IN  /\ c.status # "draft"
              /\ o.id = c.id /\ o.phase = c.phase
              /\ o.status = "not_implemented" \/ Payloads(o) = c.comparison

----------------------------------------------------------------------------
\* Compare: the differences in the order of the manifest, with what they are about

\* Faulty variant: every message is compared.
CompareErrorTexts(e, a) ==
    IF e = {} \/ a = {} THEN IF e = a THEN <<>> ELSE <<"presence">>
    ELSE SelectSeq(<<"category", "code", "message">>, LAMBDA f : The(e)[f] # The(a)[f])

CompareErrors(e, a) ==
    IF e = {} \/ a = {} THEN IF e = a THEN <<>> ELSE <<"presence">>
    ELSE SelectSeq(<<"category", "code", "message">>,
                   LAMBDA f : The(e)[f] # The(a)[f] /\ (f = "message" => The(e).messageIsContract))

CompareValues(e, a) ==
    IF e = {} \/ a = {} THEN IF e = a THEN <<>> ELSE <<"presence">>
    ELSE CompareValue(The(e), The(a))

CompareObservations(c, want, got) ==
    LET of(d) == IF d \notin c.comparison THEN <<>>
                 ELSE IF d = "error" THEN CompareErrors(want.error, got.error)
                 ELSE CompareValues(want[d], got[d])
    IN  IF got.status = "not_implemented" THEN <<"status">>
        ELSE (IF got.phase # want.phase THEN <<"phase">> ELSE <<>>)
             \o of("result") \o of("error") \o of("db_state") \o of("metrics")

Comparable(p, m, expected, actual) ==
    /\ ValidateSuiteAgainst(p, m, expected)
    /\ ValidateSuiteAgainst(p, m, actual)
    /\ \A i \in DOMAIN m.contracts : expected.contracts[i].status = "observed"

Differences(m, expected, actual) ==
    FlattenSeq([i \in DOMAIN m.contracts |->
        LET found == CompareObservations(m.contracts[i], expected.contracts[i], actual.contracts[i])
        IN  [j \in DOMAIN found |-> [id |-> m.contracts[i].id, kind |-> found[j]]]])

----------------------------------------------------------------------------
\* PrepareDeviationExpectation

Selector(c) == [dimension |-> c.dimension, path |-> c.path, operation |-> c.operation]
Outline(contracts) ==
    [i \in DOMAIN contracts |->
        [id |-> contracts[i].id,
         changes |-> [j \in DOMAIN contracts[i].changes |-> Selector(contracts[i].changes[j])]]]

\* Faulty variant: the expectation brings its own selectors.
SelfAuthorized(p, e) ==
    /\ ValidExpectation(e)
    /\ e.profileId = p.id
    /\ e.decision = Policy.decision
    /\ [i \in DOMAIN e.contracts |-> e.contracts[i].id]
          = [i \in DOMAIN Policy.contracts |-> Policy.contracts[i].id]

\* The expectation changes what the policy of the program allows, in its order.
AuthorizedByPolicy(p, e) ==
    /\ ValidExpectation(e)
    /\ e.profileId = p.id
    /\ ValidDeviations(Policy.contracts)
    /\ e.decision = Policy.decision
    /\ Outline(e.contracts) = Policy.contracts

\* The position of a contract in the policy, 0 if it is not registered.
PolicyOrder(id) == SelectInSeq(Policy.contracts, LAMBDA c : c.id = id)

\* The statuses, decisions and order of the manifest fit the policy.
StatusesApproved(m) ==
    LET deviations == SelectSeq(m.contracts, LAMBDA c : c.status = "deviation")
        order == [i \in DOMAIN deviations |-> PolicyOrder(deviations[i].id)]
    IN  /\ \A i \in DOMAIN m.contracts :
              LET c == m.contracts[i]
              IN  \/ c.status = "passing" /\ PolicyOrder(c.id) = 0 /\ c.decisions = <<>>
                  \/ /\ c.status = "deviation" /\ PolicyOrder(c.id) # 0
                     /\ c.decisions = <<[reference |-> Policy.decision, derived |-> FALSE]>>
        /\ \A i \in DOMAIN order : i > 1 => order[i - 1] < order[i]
        /\ order # <<>> /\ Last(order) = Len(Policy.contracts)

\* applyDeviationChange to the contract and the observation at position i.
ApplyDeviationChange(r, i, c) ==
    LET o == r.suite.contracts[i]
    IN  IF c.dimension = "phase"
        THEN {[r EXCEPT !.suite.contracts[i].phase = The(c.product.text),
                        !.manifest.contracts[i].phase = The(c.product.text)] :
                 found \in {o.phase} \intersect {r.manifest.contracts[i].phase} \intersect c.reference.text}
        ELSE {[r EXCEPT !.suite.contracts[i][c.dimension] = {w}] :
                 w \in UNION {ChangedAt(v, c.path, c) : v \in o[c.dimension]}}

\* Faulty variant: a contract the manifest lacks is skipped.
ApplyDeviationsFound(m, s, e) ==
    LET change(rs, i, c) == UNION {ApplyDeviationChange(r, i, c) : r \in rs}
        at(d) == SelectInSeq(m.contracts, LAMBDA c : c.id = d.id)
        contract(rs, d) == IF at(d) = 0 THEN rs
                           ELSE FoldLeft(LAMBDA q, c : change(q, at(d), c), rs, d.changes)
    IN  FoldLeft(contract, {[manifest |-> m, suite |-> s]}, e.contracts)

\* The changes one after the other, each to what the ones before it left.
ApplyDeviations(m, s, e) ==
    LET change(rs, i, c) == UNION {ApplyDeviationChange(r, i, c) : r \in rs}
        at(d) == SelectInSeq(m.contracts, LAMBDA c : c.id = d.id)
        contract(rs, d) == IF at(d) = 0 THEN {}
                           ELSE FoldLeft(LAMBDA q, c : change(q, at(d), c), rs, d.changes)
    IN  FoldLeft(contract, {[manifest |-> m, suite |-> s]}, e.contracts)

PrepareDeviationExpectation(p, m, s, e) ==
    {r \in IF Comparable(p, m, s, s) /\ AuthorizedByPolicy(p, e) /\ StatusesApproved(m)
           THEN ApplyDeviations(m, s, e) ELSE {} :
        ValidateSuiteAgainst(p, r.manifest, r.suite)}

----------------------------------------------------------------------------
\* The programs

VARIABLES
    pc, program, options,
    profile, manifest, oracle,     \* the files as loaded
    expectation,                   \* the deviation expectation as loaded
    product,                       \* comparisonManifest and comparisonExpected
    actual,                        \* the observations of GoDj so far, or the actual suite
    differences,
    canceled,
    exit

vars == <<pc, program, options, profile, manifest, oracle, expectation, product, actual,
          differences, canceled, exit>>

\* Optional arguments; "malformed" for missing or surplus ones, or a nil context.
OptionsOf(p) ==
    SUBSET ({"malformed"} \union (IF p = "contractcheck" THEN {"suite"}
                                  ELSE IF p = "godjcheck" THEN {"deviation", "output"} ELSE {}))

NoManifest == [profileId |-> "", contracts |-> <<>>, wellFormed |-> FALSE]
NoSuite == [profile |-> [id |-> "", lock |-> ""], contracts |-> <<>>, wellFormed |-> FALSE]

Init ==
    /\ pc = "arguments" /\ program \in Programs /\ options \in OptionsOf(program)
    /\ profile = [id |-> "", lock |-> "", wellFormed |-> FALSE]
    /\ manifest = NoManifest /\ oracle = NoSuite
    /\ expectation = {}
    /\ product = [manifest |-> NoManifest, suite |-> NoSuite]
    /\ actual = NoSuite
    /\ differences = <<>> /\ canceled = FALSE /\ exit = {}

Goto(l) == pc' = l /\ UNCHANGED exit
Exit(code) == pc' = "done" /\ exit' = {code}

\* reportFailure and fail
Fail == Exit(IF program = "contractcheck" THEN 1 ELSE 2)

ParseArguments ==
    /\ pc = "arguments"
    /\ IF "malformed" \in options THEN Exit(2) ELSE Goto("profile")
    /\ UNCHANGED <<program, options, profile, manifest, oracle, expectation, product, actual, differences, canceled>>

LoadProfile ==
    /\ pc = "profile"
    /\ \E p \in Profiles :
          IF ValidProfile(p) THEN profile' = p /\ Goto("manifest") ELSE UNCHANGED profile /\ Fail
    /\ UNCHANGED <<program, options, manifest, oracle, expectation, product, actual, differences, canceled>>

LoadManifest ==
    /\ pc = "manifest"
    /\ \E m \in Manifests :
          IF ~ValidManifest(m) THEN UNCHANGED manifest /\ Fail
          ELSE /\ manifest' = m
               /\ IF program # "contractcheck" THEN Goto("oracle")
                  ELSE IF m.profileId # profile.id THEN Fail
                  ELSE IF "suite" \in options THEN Goto("oracle") ELSE Exit(0)
    /\ UNCHANGED <<program, options, profile, oracle, expectation, product, actual, differences, canceled>>

HasDeviation(m) == \E i \in DOMAIN m.contracts : m.contracts[i].status = "deviation"

\* The suite of contractcheck, the expected suite of the other programs.
LoadOracle ==
    /\ pc = "oracle"
    /\ \E s \in Suites :
          IF ~ValidSuite(s) THEN UNCHANGED <<oracle, product>> /\ Fail
          ELSE /\ oracle' = s
               /\ product' = [manifest |-> manifest, suite |-> s]
               /\ \/ /\ program = "contractcheck"
                     /\ IF ValidateSuiteAgainst(profile, manifest, s) THEN Exit(0) ELSE Fail
                  \/ program = "observationcmp" /\ Goto("actual")
                  \/ /\ program = "godjcheck"
                     /\ IF ~Comparable(profile, manifest, s, s) THEN Fail
                        ELSE IF "deviation" \in options THEN Goto("deviation")
                        ELSE IF HasDeviation(manifest) THEN Fail ELSE Goto("generate")
    /\ UNCHANGED <<program, options, profile, manifest, expectation, actual, differences, canceled>>

\* observationcmp reads the actual suite.
LoadActual ==
    /\ pc = "actual"
    /\ \E s \in Suites :
          IF ValidSuite(s) THEN actual' = s /\ Goto("compare") ELSE UNCHANGED actual /\ Fail
    /\ UNCHANGED <<program, options, profile, manifest, oracle, expectation, product, differences, canceled>>

LoadDeviation ==
    /\ pc = "deviation"
    /\ \E e \in Expectations :
          LET prepared == PrepareDeviationExpectation(profile, manifest, oracle, e)
          IN  IF ~ValidExpectation(e) \/ prepared = {} THEN UNCHANGED <<expectation, product>> /\ Fail
              ELSE expectation' = {e} /\ product' = The(prepared) /\ Goto("generate")
    /\ UNCHANGED <<program, options, profile, manifest, oracle, actual, differences, canceled>>

GenerateAccepts ==
    /\ ValidProfile(profile) /\ ValidManifest(product.manifest)
    /\ product.manifest.profileId = profile.id

\* One turn of Generate's loop: the context, then the scenario.
RunScenario ==
    LET at == Len(actual.contracts) + 1
    IN  /\ pc = "generate" /\ at \in DOMAIN product.manifest.contracts
        /\ \/ (canceled \/ ~GenerateAccepts) /\ UNCHANGED actual /\ Fail
           \/ ~canceled /\ UNCHANGED actual /\ Fail      \* the scenario returns an error
           \/ /\ ~canceled /\ GenerateAccepts
              /\ \E o \in ScenarioResults(product.manifest.contracts[at]) :
                    actual' = [wellFormed |-> TRUE,
                               profile |-> [id |-> profile.id, lock |-> profile.lock],
                               contracts |-> Append(actual.contracts, o)]
              /\ Goto("generate")
        /\ UNCHANGED <<program, options, profile, manifest, oracle, expectation, product, differences, canceled>>

\* The end of Generate.
ValidateActual ==
    /\ pc = "generate" /\ Len(actual.contracts) = Len(product.manifest.contracts)
    /\ IF ~ValidateSuiteAgainst(profile, product.manifest, actual) THEN Fail
       ELSE IF "output" \in options THEN Goto("output") ELSE Goto("compare")
    /\ UNCHANGED <<program, options, profile, manifest, oracle, expectation, product, actual, differences, canceled>>

\* MarshalCanonical and writeAtomic, whose steps are those of GeneratedFile.
WriteOutput ==
    /\ pc = "output"
    /\ \/ ValidSuite(actual) /\ ~canceled /\ Goto("compare")
       \/ Fail
    /\ UNCHANGED <<program, options, profile, manifest, oracle, expectation, product, actual, differences, canceled>>

CompareSuites ==
    /\ pc = "compare"
    /\ IF ~Comparable(profile, product.manifest, product.suite, actual)
       THEN Fail /\ UNCHANGED differences
       ELSE LET found == Differences(product.manifest, product.suite, actual)
            IN  differences' = found /\ Exit(IF found = <<>> THEN 0 ELSE 1)
    /\ UNCHANGED <<program, options, profile, manifest, oracle, expectation, product, actual, canceled>>

\* The caller cancels the context of godjcheck's run.
Cancel ==
    /\ program = "godjcheck" /\ pc \in {"generate", "output"} /\ ~canceled
    /\ canceled' = TRUE
    /\ UNCHANGED <<pc, program, options, profile, manifest, oracle, expectation, product, actual, differences, exit>>

Next ==
    \/ ParseArguments \/ LoadProfile \/ LoadManifest \/ LoadOracle \/ LoadActual \/ LoadDeviation
    \/ RunScenario \/ ValidateActual \/ WriteOutput \/ CompareSuites \/ Cancel

Spec == Init /\ [][Next]_vars

----------------------------------------------------------------------------
\* Properties

\* What the protocol calls the same observation: equal payloads, and of an error
\* the category and the code, and the message if the expectation says it counts.
Agree(want, got) ==
    /\ got.status = "observed" /\ got.phase = want.phase
    /\ \A d \in ValueDimensions : got[d] = want[d]
    /\ (got.error = {}) <=> (want.error = {})
    /\ \A e \in want.error, a \in got.error :
          /\ e.category = a.category /\ e.code = a.code
          /\ e.messageIsContract => e.message = a.message

Disagreeing ==
    {manifest.contracts[i].id : i \in {j \in DOMAIN manifest.contracts :
        ~Agree(product.suite.contracts[j], actual.contracts[j])}}

\* The exit code is the truth about the observations: a comparison ends with 0
\* exactly when every contract of the manifest was observed as expected, a
\* contract GoDj does not implement never passes, and otherwise the report names
\* exactly the contracts that disagree (Compare, run of godjcheck and
\* observationcmp).
GateExact ==
    program # "contractcheck" /\ exit \in {{0}, {1}} =>
        /\ (exit = {0}) <=> (Disagreeing = {})
        /\ {differences[i].id : i \in DOMAIN differences} = Disagreeing

\* The list that an insert_before went to, with the insertion taken back.
Retracted(v, c) ==
    LET list == FoldLeft(LAMBDA w, s : At(w, s, The(Step(w, s))), v, Front(c.path))
        back == [operation |-> "replace", reference |-> list,
                 product |-> [list EXCEPT !.items = {RemoveAt(The(@), Last(c.path).at + 1)}]]
    IN  ChangedAt(v, Front(c.path), back)

Undo(os, c) ==
    LET back == [operation |-> "replace", reference |-> c.product, product |-> c.reference]
        value(v) == IF c.operation = "replace" THEN ChangedAt(v, c.path, back) ELSE Retracted(v, c)
    IN  IF c.dimension = "phase" THEN {[o EXCEPT !.phase = The(c.reference.text)] : o \in os}
        ELSE UNION {{[o EXCEPT ![c.dimension] = {w}] : w \in UNION {value(v) : v \in o[c.dimension]}} : o \in os}

\* The smallest places where two values differ: a list whose length changed is one.
RECURSIVE DifferingPlaces(_, _)
DifferingPlaces(v, w) ==
    LET into(s, t, step(_)) == UNION {{<<step(i)>> \o p : p \in DifferingPlaces(s[i], t[i])} : i \in DOMAIN s}
        values(fields) == [i \in DOMAIN fields |-> fields[i].value]
        names(u) == [i \in DOMAIN The(u.fields) |-> The(u.fields)[i].name]
    IN  IF v = w THEN {}
        ELSE IF v.type = "list" /\ w.type = "list" /\ Len(The(v.items)) = Len(The(w.items))
        THEN into(The(v.items), The(w.items), LAMBDA i : Item(i - 1))
        ELSE IF v.type = "object" /\ w.type = "object" /\ names(v) = names(w)
        THEN into(values(The(v.fields)), values(The(w.fields)), LAMBDA i : Field(names(v)[i]))
        ELSE {<<>>}

\* A selector of the policy covers a place of a dimension.
Covers(s, d, place) ==
    /\ s.dimension = d
    /\ IF s.operation = "replace" THEN IsPrefix(s.path, place) ELSE Front(s.path) = place

\* A deviation expectation cannot move the gate further than the policy in the
\* code allows: the deviations of the manifest are the registered ones, all of
\* them; the other contracts keep Django's observation; a deviation really
\* differs, only where a selector of the policy points, and taking the recorded
\* changes back, last first, gives Django's observation again; of the manifest
\* only phases move with them (PrepareDeviationExpectation).
DeviationScoped ==
    pc \in {"generate", "output", "compare"} /\ "deviation" \in options =>
        /\ {c.id : c \in ToSet(Policy.contracts)}
              = {c.id : c \in {x \in ToSet(manifest.contracts) : x.status = "deviation"}}
        /\ \A i \in DOMAIN manifest.contracts :
              LET c == manifest.contracts[i]
                  was == oracle.contracts[i]
                  now == product.suite.contracts[i]
                  recorded == UNION {{d \in ToSet(e.contracts) : d.id = c.id} : e \in expectation}
                  selected == UNION {ToSet(d.changes) : d \in {x \in ToSet(Policy.contracts) : x.id = c.id}}
              IN  /\ product.manifest.contracts[i] = [c EXCEPT !.phase = now.phase]
                  /\ c.status # "deviation" => now = was
                  /\ c.status = "deviation" =>
                        /\ now # was
                        /\ now.phase # was.phase => \E s \in selected : s.dimension = "phase"
                        /\ \A f \in DOMAIN now \ (ValueDimensions \union {"phase"}) : now[f] = was[f]
                        /\ \A d \in ValueDimensions : \A v \in was[d], w \in now[d] :
                              \A place \in DifferingPlaces(v, w) : \E s \in selected : Covers(s, d, place)
                        /\ \E x \in recorded : FoldRight(LAMBDA y, os : Undo(os, y), x.changes, {now}) = {was}

=============================================================================
