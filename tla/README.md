# A TLA+ model of subschema

`subschema` decides `lhs <: rhs` for JSON Schemas: whether every JSON instance
that validates against `lhs` validates against `rhs`.  It answers
`proved_true`, `proved_false` with a witness instance, `unsupported`, or
`resource_exhausted`.  Everything else in the library (equivalence, meet, join,
emptiness) asks that question.  This directory models the prover as TLA+
modules, checks them with TLC on small instances, and proves with TLAPS what
matters most for every instance.  Paths below are relative to
`src/src/subschema/`.

The one property that makes the library correct is *soundness*: a
`proved_true` has no counterexample and a `proved_false` has one.  A wrong
`unsupported` is a lost answer, a wrong `proved_true` is a lie.  The hard part
is not a single rule but their combination: recursion over cyclic schemas, a
cache that outlives the question it was filled for, a work limit that can cut
any step short, three-valued sub-results folded in loops of both polarities,
and a preparation phase that rewrites the very document the proof is about.

## 1. Inventory

| component | state it keeps | operations | talks to |
|---|---|---|---|
| public API, CLI (`api.py`, `cli.py`) | none | check arguments, build a `ProofContext`, ask, convert the result | preparation, driver, projection |
| reference preparation (`compiler/resources.py`, `compiler/proof_pipeline.py`) | a `ResourceGraph`: URI to resource, anchors, locations | rewrite `$ref` siblings, collect resources, resolve, scan for cycles, inline | dialects |
| schema compiler (`compiler/ir.py`, `semantics.py`, `normalization.py`, ...) | the immutable `LogicalSchemaIR` | schema to nodes, terms and facts | the domains, the graph |
| schema terms (`ir/terms.py`) | immutable | `all_of`, `any_of`, `one_of`, `not` with simplification | everywhere |
| proof context (`prover/context.py`, `contracts.py`) | `subproof_cache`, `active_subproof_keys`, `ProofWorkMeter`, inhabitant cache, solver adapter | `subproof_ir`, `subproof_terms`, `spend` | driver, and called back by every rule |
| proof driver (`prover/driver.py`, `engine.py`) | none (the Python stack) | decomposes composite terms, loops over children | context, leaf solver, disjointness |
| leaf solver (`prover/sat.py`) | none | trivial cases, witness construction, the ordered rules | context, rules, witnesses |
| rules (`prover/rules/*`, `applicators.py`, `formulas.py`, `difference_*.py`) | none | one schema keyword family each | context (questions), validator, Z3 |
| disjointness (`prover/disjointness.py`) | none | `terms_are_disjoint`, emptiness | context, confirmation, itself |
| number, string, array, object, type domains (`compiler/domains/*`, `ir/constraints.py`, `prover/scalars.py`, `regex.py`) | immutable facts | intersect, union, inclusion, emptiness, candidates | Z3, greenery |
| witnesses and confirmation (`prover/witnesses.py`, `finite.py`, `confirmation.py`) | none | build a value, evaluate it three-valuedly | validator |
| evaluation traces (`prover/evaluation_traces.py`, `compiler/evaluation.py`) | a frontier of evaluated names and items | `unevaluated*` keywords | applicator rules |
| projection (`prover/projection.py`) | none | meet and join decisions | context, disjointness, finite values |
| instance validator (`validator/*`) | a compiled plan | is a value valid | the jsonschema and jsonschema-rs libraries |

Components call each other synchronously in one Python thread; there is no
persistence, no network and no message.  The only shared mutable state is the
proof context, and the concurrency-like hazards come from *re-entrancy*: a rule
calls the context while the context is in the middle of an outer question.
What is hard:

* **cycles**: a question met again inside its own proof must be given up;
* **caching**: a result reached under a cut-short recursion is kept for good;
* **limits**: the meter may refuse any spend, at any depth, and the refusal has
  to travel out through every loop;
* **exceptions** from leaves, with keys in progress on the stack;
* **three-valued folds**: "no child decided" is not "every child decided";
* **rewriting before resolving**: the resource graph describes the rewritten
  document, pointers were written for the original one;
* **boundaries**: open and closed ends, fractional multiples, the first item
  that is optional.

What makes each component correct is stated as the properties of its module in
section 3; the hazards are listed, each at its line, in `PROJECT.json`.

## 2. Modules

| module | models | kind |
|---|---|---|
| `CommonLemmas` | least numbers, divisibility and `Gcd`, recursive functions, folds of sequences, stacks, merged intervals and shapes: what several proofs use | proofs |
| `ProofTerms` | terms, their meaning, questions, results and when a result is `Sound` | definitions |
| `SubtypeOracle` | what a context promises: answers are right and final | abstract specification |
| `SubproofEngine` | `ProofContext`, driver, leaf solver, term disjointness | state machine, implements `SubtypeOracle` |
| `SubproofEngineProofs` | types and soundness of the engine; keys in progress, work meter and refinement | proofs |
| `ReferenceGraph` | preparation of references and the resource graph | state machine |
| `Disjointness` | structural disjointness of schemas | state machine |
| `DisjointnessProofs` | types and soundness of disjointness | proofs |
| `NumericConstraints` | numeric atoms and the numeric decisions | pure operators and a state machine over them |
| `NumericConstraintsProofs` | numeric atoms, keywords to constraints, covering, the numeric decision | proofs |
| `ApplicatorRules` | the nine rules for anyOf, oneOf, allOf, not and if/then/else | state machine |
| `ApplicatorRulesProofs` | soundness and decisions of the nine rules | proofs |
| `RuleOrder` | the loop over rules of the leaf solver, its guards, and the evaluation of terms that confirms a counterexample | state machine |
| `RuleOrderProofs` | types, soundness and reasons of both | proofs |
| `CountIntervals` | sets of counts as merged intervals: lengths of arrays, sizes of objects | definitions |
| `ArrayShapes` | what the compiler derives of an array schema | definitions |
| `ArrayDifference` | the rule about types and the array rules, in the order of the solver | state machine |
| `ArrayDifferenceProofs` | intervals and shapes, matches of contains, types, soundness of the rules | proofs |
| `ObjectShapes` | what the compiler derives of an object schema | definitions |
| `ObjectDifference` | the six object rules, in the order of the solver | state machine |
| `ObjectDifferenceProofs` | types, the facts derived of object schemas, soundness of the object rules | proofs |
| `EvaluationTraces` | which names and items a schema evaluates: frontiers, expressions, traces | definitions |
| `UnevaluatedDifference` | the rules for unevaluatedProperties and unevaluatedItems | state machine |
| `MC*` | the instances TLC checks | instances |

**SubproofEngine.**  The Python call stack is the variable `stack`, one frame
per activation of `subproof_ir`, `subproof_terms` or `terms_are_disjoint`; a
call about to be made is `call`, a result being returned is `reply`.  Frames
hold the stage of the function (`mode`), the position of its loop (`i`) and the
inconclusive result it keeps (`kept`).  `AnswerFromCache`, `RefuseCycle`,
`RefuseExhausted` and `EnterSubproof` are the four ways into `subproof_terms`,
in the order of its early returns; `Return` is its end, `Unwind` its `finally`.
The loops of the driver are two action pairs, one for each polarity.  A rule is
an oracle: it returns any *sound* result or gives up, may spend work and may ask
the context one question of its own, which is what makes the recursion cyclic.
So the module does not say whether a rule is right, it says that right rules
stay right together.

**ReferenceGraph.**  A document is a function from paths to schema objects with
`$id`, anchors and a reference.  The phases are those of the code: rewrite
siblings, `Collect`, scan for recursion, inline.  References are resolved with
the base URI of the place they are found at; what a reference *should* mean is
defined separately from the original document, and the two are compared.

**Disjointness.**  `_irs_are_disjoint` tries its attempts in a fixed order; each
asks a sequence of questions and folds the answers its own way.  A frame is one
activation with its stage, position and kept result.  Arithmetic attempts
(intervals, lengths, languages) answer soundly or give up; the structural ones
(references, unions, item positions, closed objects, required properties,
complements, finite values) are modelled as they are.  The questions of a stage
are listed when it begins; where the loop of the code goes on without asking
(`continue`), the list has `NoCall` and the machine takes `Skip`.  The validator
may be unable to judge any value.  The assumptions of the module say what the
facts about a node promise of its values: `ShapeAssumption` for types, listed and
excluded values, targets and branches, `ArrayAssumption` for lengths and items,
`ObjectAssumption` for required and closed names and their values.

**NumericConstraints.**  Fractions are whole multiples of `1/Unit`.  The
operators follow `NumericAtomFact` and `NumericConstraint` one to one; the
machine follows the numeric rule: compile both sides, take the atoms of the
left in turn, look for a witness, ask the solver.

**ApplicatorRules.**  One behaviour is one call of a rule: `problem` holds the
two sides, the branches, the siblings (the *base*) and what the rule finds out
about them, `stage` says where the code is, `i` is the position of its loop.
Subschemas are sets of values.  Every question is answered by an oracle that
answers rightly, gives up, runs out of work or refutes with a certificate only;
`Choice` is the table of the `*_proof_choice` functions, `EndBranches` the two
flows (base first, branches first) that fold siblings and branches together.
A right `not` has its six attempts, a right `oneOf` its coverage, overlap and
disjointness phases, a right `anyOf` its array item and tuple attempts.  An
unresolvable reference of a branch is a branch nobody can decide.

**RuleOrder.**  `prove_formula_difference_empty`: `Try` takes the next rule,
`ClassGuard` and `TermGuard` stand behind it, `Keep` and `GiveUp` are what
becomes of a rule that gives up, by its priority and by the dispositions of what
the formula does not support.  A counterexample against composite terms is
evaluated again on both sides: the recursion of `_confirm_term_valid` is the
variable `frames`, one frame a composite with the child it waits for, whether
enough of its children are confirmed and whether one could not be judged;
`Evaluate`, `NextChild`, `Fold` and `Total` are its loops, `Reject` and
`Confirm` what the guard makes of the two verdicts.  What a rule says of two
documents is right, what it says of composite terms may be any value.

**Arrays and objects.**  A schema is a record of keywords, an item or value
schema is the set of the items or values it accepts.  The `*Shapes` modules are
the derived facts (`LengthShape`, `CountShape`, `Presence`, `KeyTerm`,
`ClosedShape`, fragments by keywords) next to the meaning of the keywords; the
`*Difference` modules are the rules that read them.  A behaviour is one question:
`facts` is what the compiler derived of both sides, `phase` the rule that is
next, `todo` the obligations about items or values
that an ordered plan has left.  Questions about items and values go to another
proof, which the query says the limits of: schemas that cannot be decided
(`hard`), that use up the work (`draining`), that are refuted without a value
(`certified`), the work that is left, the longest array built or the most names
looked at.  The values of the array module are arrays and one value of each type
in `OtherTypes`, because a shape of lengths keeps of the types that are not array
only whether there are any (`others`).  So the module has the rule about types,
which the solver tries before the array rules (`ProveType`), and the facts it
reads (`TypeShape`, None for a schema with a keyword of no vocabulary, `unknown`).

**EvaluationTraces and UnevaluatedDifference.**  A node is a schema of keywords
for objects and arrays with references and branches; `Frontier` is what the
compiler lists of its own keywords, `Expression` what the prover makes of the
whole when it knows the left values, `Trace` adds the conditioned paths where
no branch can be told.  `Evaluated` is the meaning, from JSON Schema.  The
machine resolves the trace (`ResolveTrace`), makes a plan of it
(`PlanConditioned`, `PlanObjects`, `PlanArrays`) and asks what the plan leaves,
name by name in any order or item by item.  Proofs about branches are given by
the branch (`proof`): answered, unsupported or out of work.

## 3. Runs

| run | config | module | properties | distinct states | instance and bounds |
|---|---|---|---|---|---|
| `engine` | `Engine.cfg` | `MCSubproofEngine` | `TypeOK`, `AnswersAreSound`, `InProgressIsTheStack`, `WorkIsPaidFor`, `ImplementsOracle`, `EveryQuestionEnds` | 65,575 | 2 values, the terms of `MCSubproofEngine`, 2 questions per context, limit 3 |
| `references` | `References.cfg` | `MCReferenceGraph` | `TypeOK`, `ReferencesMeanTheirTargets`, `ScanFindsCycles`, `NothingKnownIsLeft`, `PreparationEnds` | 105,139 | documents with two levels of `$defs` |
| `references_external` (violation) | `ReferencesExternal.cfg` | `MCReferenceGraph` | `ReferencesMeanTheirTargets` | - | one external resource |
| `disjointness` | `Disjointness.cfg` | `MCDisjointness` | `TypeOK`, `AnswersAreSound`, `EveryQuestionEnds` | 10,744 | 16 schemas and their complements, stack limit 6 |
| `numbers` | `Numbers.cfg` | `MCNumericConstraints` | `ConstraintsMeanTheirKeywords`, `NumberProofsAreSound`, `IntegerIntervalsAreDecided` | 37,167 | every pair of small keyword sets |
| `rules` | `Rules.cfg` | `MCApplicatorRules` | `ResultsAreSound`, `ExactRulesDecide` | 436,123 | 33,604 problems, up to 2 branches (3 for oneOf), 2 values |
| `rules_certified` (violation) | `RulesCertified.cfg` | `MCApplicatorRules` | `ResultsAreSound` | - | the four rules, with certificates |
| `arrays` | `Arrays.cfg` | `MCArrayDifference` | `ShapesBoundTheirSchemas`, `MatchBoundsHold`, `InclusionsAreSound`, `CertificatesAreSound`, `LengthsAreDecided` | 61,792 | four items, two other types, arrays up to length 3, bounds up to 2 |
| `objects` | `Objects.cfg` | `MCObjectDifference` | `TypeOK`, `FactsBoundTheirSchemas`, `InclusionsAreSound`, `CertificatesAreSound`, `PresenceIsDecided` | 38,369 | two names and three fresh ones, three values |
| `objects_counted` (violation) | `ObjectsCounted.cfg` | `MCObjectDifference` | `InclusionsAreSound` | - | nine pairs over restricted names |
| `solver` | `Solver.cfg` | `MCRuleOrder` | `TypeOK`, `AnswersAreSound`, `VerdictsAreRight`, `DoubtHasAReason`, `ReasonsAreNotLost` | 53,398 | three rules, three values, terms nested up to one level beyond the limit 2 |
| `evaluation` | `Evaluation.cfg` | `MCUnevaluatedDifference` | `ClaimedPlacesAreEvaluated`, `InclusionsAreSound`, `PlainQuestionsAreDecided` | 63,472 | three names, three values, arrays up to length 3, two branches |

What each run shows:

* `engine`: Recursion over terms with a self-referring reference, complements, conjunctions and constants, without a work limit and with one of 3 units, exceptions included, stays sound, keeps its bookkeeping and ends.
* `references`: 4,608 queries (embedded resources, anchors, reference siblings, an external resource that refers back, cycles, dead and foreign targets, two dialect families) are prepared as JSON Schema says.
* `references_external`: A reference relative to the external resource it is in is resolved in the root document.
* `disjointness`: Every pair of 16 schemas and their complements (values, complements, references, unions, arrays, objects), with a validator that may be unable to tell: disjointness is never claimed wrongly, and recursive schemas end too.
* `numbers`: Eight thousand pairs of numeric schemas (both drafts' exclusive bounds, fractional multiples, conjunctions, unions): the atoms mean their keywords, no proof is wrong on any quarter number, and integer intervals are decided without the solver.
* `rules`: The nine applicator rules on every list of up to two branches (three for oneOf) with every base and other side over two values, under contexts that decide, give up, run out of work or only certify: results are right and exact rules decide.
* `rules_certified`: A branch refuted by a certificate refutes the whole applicator: oneOf, allOf on the left and anyOf, oneOf on the right answer False for pairs that hold.
* `arrays`: Fourteen thousand pairs of schemas (types, keywords the compiler does not know, lengths, closed and open tails, uniqueItems, contains with its counts, unions and complements of lengths), for arrays and two other types, some with item schemas that cannot be answered, little work or a short horizon: types, shapes and match counts are bounds, proofs are right, lengths are decided.
* `objects`: Eight thousand questions over pairs of object schemas (counts, required and dependent names, properties, patterns, propertyNames, closed objects, branches), some with little work, few names or value schemas without an answer: the derived facts bound their schemas, proofs and certificates are right, presence is decided.
* `objects_counted`: A right side that restricts names and asks for a number of properties, but restricts no value, is answered True by the key and value rule, which looks at upper bounds alone.
* `solver`: Three rules that may prove, refute with any value, certify, give up or run out, and a boundary rule, on composite terms nested up to and beyond the depth limit, with a value one node cannot be judged for: answers and verdicts are right, verdicts are missing only for a reason, the strongest reason is reported.
* `evaluation`: Left objects and arrays against right sides whose properties, items and contains are spread over references, allOf, anyOf, oneOf, if and not, with branches that cannot be told apart, value schemas that cannot be decided and work that runs out: what a trace claims is evaluated is, proofs of inclusion are right, questions without branches are decided.

Fairness is only assumed of the machine's own steps (`WF_vars(Work)`, or of
`Next` where there is no caller): they are the steps of one Python thread, which
runs on while it has something to do.  Callers are not fair.

Why the bounds are enough: the engine's universe has two values, one of them
`null` (Python's `None`, also the mark of "no witness"), a recursive reference,
a complement and both composite kinds, and each of the six questions opens a
different path; two questions to one context are what it takes to read a cached
result back, and the limit 3 is passed in the middle of every recursion.  The
reference documents have two levels of `$defs`, which is what it takes for an
embedded resource to contain a reference and be its target.  Arrays of length
two are the shortest that tell a required from an optional position.  The numbers
reach a full period of every pair of multiples beyond the bounds of the schemas.
A rule looks at each value separately, except where it counts branches: two
values tell a witness that is confirmed from one that is rejected, and three
branches a oneOf covered twice from one that overlaps a third.  The leaf
solver's terms are nested one level deeper than its limit, and a reason can be
lost only by a later rule with another priority, which takes three rules.
Array schemas name at most two positions and bound lengths by two, so that all
items from the third on are alike; two other types are what it takes for a
complement of one to leave the other out; object schemas mention two names, and the
fresh ones stand for all others, two more than any bound on the number of
properties needs.  For unevaluated names and items, one place tells branches
apart, a second is evaluated by some, a third by none.

### Disagreements between the code and its documentation

Three runs expect a violation; each checks one statement of the README against
inputs the passing runs leave out.

* `references_external`: a relative reference inside an external resource is
  resolved against the root document.
* `rules_certified`: one branch refuted by a certificate refutes a whole anyOf,
  oneOf or allOf.
* `objects_counted`: minProperties on the right is not looked at by the key and
  value rule when names are restricted and no value is.

Other inputs the passing runs leave out, because the modelled code answers
them otherwise than JSON Schema does; each is a hazard at its line in
`PROJECT.json`, and the operator that leaves it out is named.

* References (`MCReferenceGraph`): a `const` that has a `$ref` member, which the
  walk replaces by a schema; pointers into the wrapper that replaces a reference
  with siblings; a draft-07 `$id` beside `$ref`; `$id` inside tuple items; two
  resources under one URI.
* Numbers: integers that are multiples of a fraction with a numerator above one
  (`Fits`, `QueriesAssumption`), which are called empty when a few candidates
  miss them (`ir/constraints.py:129`).
* Applicators (`TrustedProblems`): tagged oneOfs with siblings, or with values
  that are no objects: such a oneOf is proved from the matching branch alone.
* Arrays: right sides with items and contains or uniqueItems
  (`ItemsStandAlone`): once the item obligations hold the rule proves the whole
  (`rules/arrays.py:442`), though contains was passed over as unsupported before;
  left sides with uniqueItems or contains beside items that have a certificate,
  which calls an index reachable by the lengths alone (`Filled`).
* Types that are not array (`TypesTold`).  The shape of lengths merges them into
  one: `{type: string}` gets an exact shape that accepts what is no array
  (`compiler/domains/arrays.py:999`), and its complement (`:167`) accepts nothing but
  arrays, though `{not: {type: string}}` accepts numbers and null.  The rule about
  types comes first and hides this wherever it can speak.  With a keyword of no
  vocabulary a schema has no type shape (`compiler/domains/types.py:324`), while the
  lengths pass over that keyword (`arrays.py:960`); then the rule about lengths
  (`difference_arrays.py:1181`) proves `{not: {type: string}, x: 1}` to be within
  `{type: array}`, against src/README.md:84, "`subschema` proves sound results when
  it can."  TLC finds `InclusionsAreSound` violated when that pair is added to the
  questions of `arrays`.  The shapes of `ObjectShapes` merge the types that are not
  object in the same way (`compiler/domains/objects.py:243`, `:504`); its properties
  speak of objects only.
* Objects: a count on the right that the key, value and closed rules do not look
  at (`CountForgotten`); values the presence rule does not look at
  (`ValuesForgotten`); a dependent schema whose trigger can never be present
  (`TriggerForgotten`); more names than are looked at (`Small`); counts beside
  values that cannot be built (`Partial`).  The proof of the inclusions needed
  more than the run leaves out (`RulesSeeAll`, section 4), and each part of what
  it needed turned out to be a wrong answer of its own, in schemas the run does
  not name:
  - the key rule tries to leave out all missing names at once, remembers that it
    could not (`difference_objects.py:2020`) and forgets it when it proves
    (`:2072`): `{type: object, minProperties: 1, patternProperties: {^[ab]$: {}},
    additionalProperties: false}` is answered to be within
    `{type: object, required: [a, b]}`;
  - the presence rule looks at too few names that no schema mentions (`:1765`)
    when its upper count is not the one that decides (`:1791`):
    `{type: object, maxProperties: 3}` is answered to be within `{type: object,
    anyOf: [maxProperties: 2, required: [a], required: [b]]}`;
  - the closed rule with finitely many names on the left never looks at the
    counts of the right (`:1305`), and an unsatisfiable count has no upper bound
    (`:3168`), so that it is not looked at either;
  - the key rule gives up a name outside the right side's names when propertyNames
    of the left forbids the one name it tries (`:2497`), and proves.

  The first two were confirmed with TLC on the model, the others by reading.
* Unevaluated: `contains` on the right that some left array does not satisfy
  (`ContainsForgotten`); a `then` that allows more values of the place its
  condition is about than the condition does (`ConditionForgotten`); a place
  whose schema is false beside a schema for what is unevaluated
  (`ForbiddenPlaces`); `additionalItems` without a list of items, which says nothing
  and is taken to evaluate every place (`compiler/evaluation.py:179`,
  `ExtraWithoutList`: TLC finds `ClaimedPlacesAreEvaluated` violated when it is
  asked); branches that not all left values satisfy, which the
  applicator rules before this one refute (`LeftToThisRule`).

## 4. Proofs

`SubproofEngineProofs` proves for every set of terms and values, every set of
rules and questions, and every limit:

* `TypeCorrect`: `Spec => []TypeOK`;
* `Soundness`: `Spec => []AnswersAreSound`, every result the context returns,
  remembers or passes on is right.

The argument.  `AnswersAreSound` is not inductive: between a child's answer and
the parent's return nothing in it says what the loop has learnt.  The inductive
invariant is `IInv == TypeOK /\ Linked /\ CacheSound`.  `CacheSound` says that
results in the cache and the result being returned are sound.  `Linked` says
what a frame knows: that it waits for exactly the question of the frame above
it, and, by the mode of its loop, that every child already passed is proved (the
every-loops) or that the kept result is inconclusive.  From the children's
soundness and the meaning of the composite kinds (`AcceptsAssumption`) the
returned result is sound for the parent.  A cycle returns `unsupported`, which
is sound for every question, so nothing has to be known of the outer question.
Each action has one step, and under it one per conjunct it can disturb.

Assumed: the term universe is closed and its meaning follows the kinds
(`TermAssumption`, `AcceptsAssumption`), a reference accepts what its target
accepts (`TargetAssumption`), and single rules are sound, which is built into
the actions.  `TargetAssumption` is what the `references` run checks of the
preparation; soundness of single rules is what `Disjointness`,
`NumericConstraints`, `ApplicatorRules`, `ArrayDifference`, `ObjectDifference`
and `UnevaluatedDifference` check of theirs.

Its second part builds on `IInv` and proves, again for every instance:

* `KeysMirrorTheStack`: `Spec => []InProgressIsTheStack`;
* `MeterCoversTheWork`: `Spec => []WorkIsPaidFor`;
* `EngineImplementsOracle`: `Spec => ImplementsOracle`, the refinement of
  `SubtypeOracle` with `answers <- cache`.

Whatever handler takes a step, it does one of four things to the stack, the cache
and the keys (`StepCases`): the activations stay as they are, a subproof or a
disjointness question is entered, or the innermost activation ends (`Ends`, with
a result or unwound by an exception).  `InProgressIsTheStack` is inductive beside
`IInv`: a key is entered only when no activation has it, so ending one removes
the key of no other.  `WorkIsPaidFor` needs it: an ended question moves from
the keys to the cache, where it was not, so that the sum of both grows only when
a question is entered and paid for (`StepCounts`); `WorkInv` adds that both sets
are finite.  The refinement needs both `IInv`, for the result to be right, and
the disjointness of keys and cache, for it to be new.

`DisjointnessProofs` proves, for every set of values and schemas that the
assumptions of `Disjointness` describe, however they refer to each other, every
validator and every stack limit:

* `TypeCorrect`: `Spec => []TypeOK`;
* `AnswersSound`: `Spec => []AnswersAreSound`.

A question waits on the stack while its parts are asked, so the invariant is about
the frames: `Inv == Stack /\ Control /\ AnswersAreSound`, where `Stack` says of
every frame (`Known`) that its goal is a pair of nodes once the stages are about
nodes, that every question it has left helps (`Asked`: the answer "no common
value" to a part gives the same answer to the goal, and a reference has the same
common values as its goal), and that every common value of a union is met by a
branch it has left, as long as nothing inconclusive is kept (`BranchesLeft`).
`Waits` links a frame to the question asked of it.  So a union whose list is used
up without anything kept has no common value, and every other stage may stop at
the first part without one.  One lemma per stage shows that the questions it lists
help, from the assumption about the facts it reads; one lemma per action shows that
`Inv` is kept.

`ApplicatorRulesProofs` proves `RulesAreSound`: for every set of values and every
set of problems with `TrustedProblems`, `Spec => []ResultsAreSound`, a result of
an applicator rule is right for the two whole schemas.  `TrustedProblems` says no
more than that the rules of `OneBranchRules` get no certificates for a single
branch (`rules_certified` shows that this cannot be dropped) and that a tagged
oneOf has no siblings and only objects on its left.  The result alone is not
inductive.  The invariant `Inv` says per stage (`StageKnown`) what the rule has
learnt: a loop that recorded no branch has *passed* every branch before its
index, with the meaning passing has for its rule (`Passed`); the covering
branches accept the whole left side (`CoveringKnown`); the parts, or the other
branches of a oneOf, before the index are included, or disjoint; the base is
known for what it decided (`BaseKnown`); and a result of the branches that waits
for the base holds under the base (`Justified`).  Four lemmas (`Returning`,
`Going`, `Ending`, `NextBranching`) say when each way a step ends keeps `Inv`,
and one lemma per action shows that its answers give what they ask for.

`RulesDecide`, `Spec => []ExactRulesDecide`, is the other half: the five deciding
rules answer every exact problem whose questions are all decided (`able`, which
leaves no branch unknown and no certificate without a value,
`ProblemAssumption`).  Its invariant `Decided` says which stages such a rule can be
in (`ExactStage`), that it has recorded no doubt, and that the siblings are proved
in every stage that follows theirs (`BaseSettled`).

`RuleOrderProofs` proves, for every list of rules, every set of terms and values,
every validator that may be unable to judge and every depth limit:

* `VerdictsRight`: `Spec => []VerdictsAreRight`, the three-valued evaluation of a
  term never says valid or invalid of a value that is not;
* `AnswersSound`: `Spec => []AnswersAreSound`, what the solver answers about
  composite terms is right;
* `TypeCorrect`: `Spec => []TypeOK`;
* `DoubtsReasoned`: `Spec => []DoubtHasAReason`, a verdict is missing only where a
  node could not be judged or the term is too deep;
* `ReasonsStay`: `Spec => ReasonsAreNotLost`, no step forgets a stronger reason.

The first two are not inductive: while a child is evaluated, nothing in them says what its
parents have learnt.  `Inv == Question /\ Stack /\ VerdictsAreRight /\
AnswersAreSound`: every frame knows what its evaluated children imply (`Sure`,
`Doubtless`), the frame above it is the child it waits for and the lowest is the
term of the side (`Linked`), and on the right side the value is already
confirmed to be on the left (`Question`).  Assumed beyond `ProofTerms`: the
meaning of oneOf (`OneOfAssumption`), and, built into `Outcomes`, that what
rules say of two documents and their certificates are right.  `TypeCorrect` and
`ReasonsStay` need `Control`: while a counterexample is evaluated, the rule it came
from is the current one.  For `DoubtsReasoned` depth is counted down: `Within[n]`
are the terms of at most `n` levels, a recursive function, and a term is too deep
at depth `d` when it is not in `Within[MaxDepth + 1 - d]`.  `DoubtsHaveReasons` says
it of every frame that has a doubt: the frame at depth `d` is as deep as its child
at `d + 1` is, and a term that is refused at the limit is a child of one that is
there.  That `Within` is the function its definition describes is proved in
`CommonLemmas` (`RecursiveFunction`), which stands in for induction: a set of numbers
has a least one (`LeastNatural`).

Nothing is assumed in the proofs beyond these, and TLC evaluates each assumption
on every instance.

`NumericConstraintsProofs` proves the numeric rule right.  TLC compares given
schemas on a grid of numbers; the proofs hold for every unit, every set of numbers
compared, every query, bound and multiple.  About the algebra of atoms:

* `LcmFractionIsExact`: the multiples of `LcmFraction` are the common multiples;
* `IntersectionOfAtomsIsExact`: `IntersectAtoms` has exactly the numbers of both;
* `InclusionOfAtomsIsSound`: what `AtomWithin` accepts of an atom not found empty
  is inclusion;
* `EmptinessIsSound`: an atom that `IsEmptyAtom` calls empty has no number, for the
  atoms with `RegularAtom`;
* `CoveredIsSound`: the atoms that the scan over integer intervals covers lie in
  the union of the right side;

and about the machine:

* `KeywordsKept`: `Spec => []ConstraintsMeanTheirKeywords`, the compiled
  constraint of a schema has exactly the numbers its keywords accept;
* `NumberProofsSound`: `Spec => []NumberProofsAreSound`, a result is right, if
  `DisjointFit`;
* `IntegerIntervalsDecided`: `Spec => []IntegerIntervalsAreDecided`, inclusion of
  unions of integer intervals never reaches the solver.

Rounding the bounds of an integer atom keeps its numbers
(`RoundingKeepsTheNumbers`), so bounds can be compared before or after.  What
fractions have in common is what divides numerator and denominator: a common
divisor is a sum of multiples of both (Bezout, by a least element), so `Gcd`
divides and is divided as it should be.  An atom of `RegularAtom` has either no
multiple, or one whose step is a whole number or divides every whole number, so
the first multiple inside a bound is among the candidates.  The folds over
branches, atoms and intervals are taken apart in `CommonLemmas`: a property that
every step of a fold keeps holds of its end.  The scan keeps `Reached`, that every
integer of the atom up to the frontier is in an interval seen so far; it does not
need the intervals to be sorted, which only makes the scan find more.

`NumberProofsAreSound` speaks of results, so `Deciding` adds what the stages before
know: both sides are compiled (`Compiled`), a number of the left side that the
right lacks lies in an atom that is still to be covered (`LeftOut`), and a result
that is there is right (`Verdict`).

Two hypotheses leave out what the code gets wrong, an integer that is a multiple
of a fraction such as 3/2 and is taken for empty.  `QueriesAssumption` says that
no side of a query asks for such integers; TLC evaluates it.  `DisjointFit` says the
same of both sides together, when they are asked to be disjoint: integers against
multiples of 3/2 do not meet it, and such queries of the run `numbers` are covered
by TLC alone.  Neither is needed where emptiness is not decided by candidates.

`IntegerIntervalsAreDecided` is the other direction: nothing is missed.  Schemas
without `multipleOf` that ask for integers compile to integer intervals
(`CompilesToIntegers`).  Sorting puts the right side's in order (`SortedInOrder`),
and in order the scan stops only at a whole number that no interval holds
(`ScanFindsGap`, with the invariant `Left`), so an atom not found covered has a
number outside (`NotCoveredLeavesOut`).  Next to that number the gap has a border,
an end of an interval or a unit beside one, which is among the candidates
(`GapHasBorder`, `GapHasWitness`), and one of the candidates found comes before the
others (`OneComesFirst`).  The invariant `Decided` says that the witness stage is
entered only when some atom has a witness.

`ArrayDifferenceProofs` proves, for every set of items, every work limit and
horizon, every set of other types and every question about two array schemas:

* `ShapesBound`: `Spec => []ShapesBoundTheirSchemas`, the lengths derived of a
  schema leave out no array it accepts and hold no other where they say that they
  are exact; of other types, they say that there are some wherever the schema
  accepts one and negates nothing (a negation leaves out too many, section 3); the
  types derived leave out none, and hold no other if the schema says nothing else;
* `MatchBounds`: `Spec => []MatchBoundsHold`, the bounds on the matches of
  `contains` hold of every left array;
* `InclusionsSound`: `Spec => []InclusionsAreSound`, what the rules prove is
  included, values of other types too, if `ItemsStandAlone` and `TypesTold`;
* `LengthsDecided`: `Spec => []LengthsAreDecided`, arrays that differ only in their
  lengths are decided, if `LengthsCanBeTold`.

TLC compares values with arrays up to `ArraysUpTo`; the proofs argue over
`Arrays`, arrays of every length, so the properties hold for every bound.
`Apart` says of a sequence of intervals that it is ordered, none is empty and none
touches the next.  Merging makes every finite set of intervals so and keeps its
counts (`MergedFacts`: each interval is added behind, or joined with, the last).
Over such sequences an interval is covered only if its counts are
(`CoveredByFacts`), and the gaps hold the counts that the intervals do not
(`GapsFacts`, which needs that an interval without an upper bound is the last).
`Bounds` says that a shape admits a set of values, and only those if it is exact;
meeting, joining and complementing keep it, so do their folds over the branches,
and `LocalLengthsBound` gives it for the keywords of one schema.  Matches are
bounded by counting the slots that cannot, or must, match.  For the inclusions,
`Verdict` says that a proof is right and, while items are compared, that the
obligations left are enough, for arrays.  `OthersInv` says that once the rule about
types has passed on a question, the right side accepts every other type that the
left accepts (`OthersSound`: the left type shape has all of them, a type that the
right one lacks would have been a counterexample, and a type that it has the right
side accepts); later rules need not look at other types.  `ItemsSound` shows why they are at first: the right
tail is compared with every left slot under it and with the left tail at one
index, which stands for all beyond.

`ItemsStandAlone` leaves out right sides with items beside `contains` or
`uniqueItems`: the last line of the rule about items proves them although it never
looks at those keywords (section 3).  `TypesTold` leaves out questions whose types
the rule about types cannot tell, unless the left side is of type array: sides with
a keyword of no vocabulary, and right sides that negate more of another type than
the type.  The questions of the run `arrays` meet both, which TLC evaluates.

`LengthsDecided` shows that the rule about lengths concludes (`DecidedInv`: such a
question never comes to another rule).  A schema that has lengths without looking
at its items has the same lengths when they are looked at, because a fold of
conjunctions or disjunctions has a shape only if every part has one
(`PlainAreTheLengths`); they are exact only if its own keywords are, so the right
side asks for no distinct items.  Then either every length of the left is one of the
right's and the rule proves, or it tries a length that is not: an array of that
length is built (`ArraysAreBuilt`, `DistinctItems`) and both shapes, being exact,
confirm it (`LengthRefutes`).  `LengthsCanBeTold` leaves out provers that cannot
build any item for the schema `true`, and right sides with `uniqueItems` whose type is not
array: TLC shows that `{minItems: 3, maxItems: 2}`, which has no array, against
such a schema is left undecided.  The questions of the run meet it.  Lengths above
`LengthBound` are not tried, and a question that has no other stays in its first
phase.  Assumed: `None` is neither an item nor an array (`NoneIsNoArrayAssumption`) and
the work left is a number.  `CertificatesAreSound` stays with TLC.

`ObjectDifferenceProofs` proves, for every set of names and values, every work limit
and horizon and every question about two object schemas:

* `FactsBound`: `Spec => []FactsBoundTheirSchemas`, the counts, the names present,
  the values, the keys and the closed shapes derived of a schema leave out
  nothing it accepts, and exact ones hold no more;
* `TypesHold`: `Spec => []TypeOK`;
* `InclusionsSound`: `Spec => [](RulesSeeAll => InclusionsAreSound)`, what the six
  object rules prove is included, where they look at all there is.

TLC compares schemas on two names and three fresh ones; the proofs argue over
every finite object.  Facts are folded from the schemas of allOf, anyOf and oneOf
a branch at a time, with the lemmas about intervals and shapes that the proofs
about arrays use (`CommonLemmas`).  Each rule then has two lemmas.  One says what
is enough for a value to be accepted by the right side: its keywords counted,
present, valued, named and closed (the converse of the facts, true only of
fragments).  The other takes a result of the rule: it proves nothing, or an
inclusion, or leaves obligations in `todo` whose inclusion suffices.  The
invariant `SoundInv` carries the last over the steps that compare the values one
by one: `Pending` says that if the obligations left are settled, then what is
claimed holds.  The rules about counts, values and names are sound for all
schemas.  The other three are where `RulesSeeAll` says so, which is about the code and
not about the model: `PresenceSeesAll`, that as many fresh names are looked at as
the bounds reach, `KeysSeeAll`, that no required name is missing on the left and
the counts and the pattern's names are looked at by another rule when no value
is, `ClosedSeesAll`, that the counts of the left reach no further than those of
the right.  Elsewhere these rules prove what is not so (section 3).  About five in
six of the states of the run `objects` meet `RulesSeeAll`; there and in the others
`InclusionsAreSound` is checked by TLC, for the schemas of the run.

Assumed: queries are of schemas (`QueriesAssumption`) and the fresh names are
mentioned by neither side, which is what `_fresh_names` makes sure of; `None` is
neither a name nor a value (`NoneIsNoValue`) nor a term.

Only model-checked:

* liveness (`EveryQuestionEnds`, `PreparationEnds`), which needs fairness and
  `ENABLED`;
* `PresenceIsDecided`, which says that a rule misses nothing: that the search for a
  witness finds one;
* `CertificatesAreSound` of arrays and objects.  A certificate of the object rules is right
  only because the compiler has already decided left sides without instances
  (`compiler/finite_values.py:322`), a stage before these rules that the module
  leaves out: asked about `{required: [a], properties: {a: false, b: integer}}` and
  `{properties: {b: string}}` the rules alone certify a counterexample although the
  left side has no object.  So it does not hold of every question the constants
  allow, only of those that come this far, and the run has no others;
* the invariants of references, which rest on reachability over documents;
* `UnevaluatedDifference`, whose traces are RECURSIVE operators
  (`EvaluationTraces`), which the proof system cannot take.

## 5. Not modelled

The automata of `regex.py` and the Z3 encoding (external libraries; their
verdicts are sound or absent), the printing of results, diagnostics, the
inhabitant cache.  `PROJECT.json` says for each component what is left.

Steps that the modules pass over, none of which a property depends on:

* `SubproofEngine!AnswerTarget` ends the leaf solver with an unsupported reply about
  a reference's target; the code goes on to the next rule (`prover/sat.py:319`).
* `NumericConstraints!PlanDifference` has no `nonnumeric_coverage_complete`
  (`prover/scalars.py:318`, `:331`): its schemas are about numbers alone.
* `ApplicatorRules!BranchQuestion` asks for the product of base and child at once;
  for a child that is a reference the code first asks for its bare target and takes
  any answer but unsupported (`prover/rules/applicators.py:709`): a proof of it proves
  the product, and a value against it must be confirmed for the whole question.
* `ObjectDifference!Product` has no check for required names that contradict each
  other in the first place (`prover/difference_objects.py:1430`), which the fragment
  of the module does not reach.
* `RuleOrder!NoRuleLeft` reports the reason kept; a capability boundary of the whole
  formula is reported before it (`prover/sat.py:331`), and rules of the expensive
  class are guarded once more (`:606`).
* The paths of `UnevaluatedDifference` are a set, so identical branches are paid for
  once.

## 6. Plan

Done, in this order: the engine and its proofs; references; disjointness;
numbers; the applicator rules and their proof; arrays; objects; the rule loop
with the confirmation of terms and their proofs; unevaluated keywords.  Next,
most important first:

1. The composition of the applicator rules with the engine's oracle; the
   other scalar rules of `prover/rules/scalars.py`.
2. The normalizations of the compiler (`compiler/normalization.py`,
   `tagged_unions.py`), each an equivalence of schemas.
3. `DynamicScope`: `$dynamicRef` and `$recursiveRef` (`compiler/resources.py`),
   an extension of `ReferenceGraph`.
4. `Projection`: meet and join as an abstract lattice specification that the
   decision order of `projection.py` implements, composed with the engine.
5. `ValidatorPlan`: the order of the two validators and embedded dialects.

Theorems worth proving: that the object rules with the missing looks of section 3
added satisfy `InclusionsAreSound` without `RulesSeeAll`; the types of
`ReferenceGraph`; that the object rules decide presence, which
needs the witnesses they build.
