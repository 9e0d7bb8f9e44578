-------------------------- MODULE EvaluationTraces --------------------------
(***************************************************************************)
(* Which properties or items of a value a schema evaluates, for the        *)
(* keywords unevaluatedProperties and unevaluatedItems: what the compiler  *)
(* lists of a schema's own keywords, what the prover makes of its          *)
(* references and branches when it knows the values in question, and the   *)
(* conditioned paths it falls back on when it cannot tell the branch.      *)
(*                                                                         *)
(* Sources: compiler/evaluation.py, ir/evaluation.py,                      *)
(* prover/evaluation_traces.py, and the fragments of                       *)
(* compiler/domains/objects.py and compiler/domains/arrays.py.             *)
(***************************************************************************)
EXTENDS ObjectShapes

CONSTANT Longest    \* bound: the places of an array are 1 .. Longest

ASSUME LongestAssumption == Longest \in Nat

(***************************************************************************)
(* A value is [kind, at]: "object", "array" or "other", and a function     *)
(* from its names or places to values.  A schema is a record of keywords:  *)
(*   dialect    "2020-12" or "2019-09",                                    *)
(*   types      a subset of {"object", "array", "other"},                  *)
(*   required, props, patterns, additional    as in ObjectShapes,          *)
(*   depends    names with a dependent schema (true, for that matter),     *)
(*   min, max   minItems and maxItems, or None,                            *)
(*   prefix     prefixItems; the items list of 2019-09,                    *)
(*   tail, extra, contains    items, additionalItems and contains, or None,*)
(*   ref        "none", "unresolved" (also: back to a schema that is being *)
(*              looked at), or "target", which is then <<schema>>,         *)
(*   allOf, anyOf, oneOf    schemas,                                       *)
(*   cond, then, else, negated    <<schema>> or <<>>,                      *)
(*   proof      what becomes of questions about it: "answered",            *)
(*              "unsupported" or "exhausted".                              *)
(***************************************************************************)
AllTypes == {"object", "array", "other"}
Impossible(n) == n.types = {}

-----------------------------------------------------------------------------
(* The meaning of the keywords (JSON Schema; validator/core.py).           *)
ItemApplies(n, k) ==
    \/ k <= Len(n.prefix)
    \/ n.tail # None
    \/ n.extra # None /\ n.prefix # <<>>

ItemSchema(n, k) ==
    IF k <= Len(n.prefix) THEN n.prefix[k] ELSE IF n.tail # None THEN n.tail ELSE n.extra

ContainsEvaluates(n) == n.dialect = "2020-12" /\ n.contains # None

HoldsHere(n, v) ==
    /\ v.kind \in n.types
    /\ v.kind = "object" =>
         /\ n.required \subseteq DOMAIN v.at
         /\ \A name \in DOMAIN v.at : \A i \in SchemasFor(n, name) : v.at[name] \in i
    /\ v.kind = "array" =>
         /\ n.min # None => Cardinality(DOMAIN v.at) >= n.min
         /\ n.max # None => Cardinality(DOMAIN v.at) <= n.max
         /\ \A k \in DOMAIN v.at : ItemApplies(n, k) => v.at[k] \in ItemSchema(n, k)
         /\ n.contains # None => \E k \in DOMAIN v.at : v.at[k] \in n.contains

RECURSIVE NodeHolds(_, _)
NodeHolds(n, v) ==
    LET Holding(branches) == {k \in DOMAIN branches : NodeHolds(branches[k], v)} IN
    /\ HoldsHere(n, v)
    /\ Holding(n.target \o n.allOf) = DOMAIN (n.target \o n.allOf)
    /\ n.anyOf # <<>> => Holding(n.anyOf) # {}
    /\ n.oneOf # <<>> => Cardinality(Holding(n.oneOf)) = 1
    /\ Holding(n.negated) = {}
    /\ n.cond # <<>> =>
         LET branch == IF Holding(n.cond) # {} THEN n.then ELSE n.else IN
           Holding(branch) = DOMAIN branch

EvaluatedHere(n, v) ==
    IF v.kind = "object" THEN {name \in DOMAIN v.at : SchemasFor(n, name) # {}}
    ELSE {k \in DOMAIN v.at : \/ ItemApplies(n, k)
                              \/ ContainsEvaluates(n) /\ v.at[k] \in n.contains}

(* A schema that rejects the value evaluates nothing of it.                *)
RECURSIVE Evaluated(_, _)
Evaluated(n, v) ==
    LET taken == IF n.cond = <<>> THEN <<>>
                 ELSE IF NodeHolds(n.cond[1], v) THEN n.cond \o n.then ELSE n.else
        parts == n.target \o n.allOf \o n.anyOf \o n.oneOf \o taken
    IN  IF ~NodeHolds(n, v) THEN {}
        ELSE EvaluatedHere(n, v) \cup UNION {Evaluated(parts[k], v) : k \in DOMAIN parts}

-----------------------------------------------------------------------------
(* The sources a schema's own keywords list (evaluation_frontier_for_      *)
(* schema).  A source without places is one whose places depend on the     *)
(* value.                                                                  *)
Source(kind, places, term) == [kind |-> kind, places |-> places, term |-> term, marks |-> FALSE]

From(k) == {j \in 1 .. Longest : j >= k}

PropertySources(n) ==
    {Source("properties", {name}, n.props[name]) : name \in DOMAIN n.props}
    \cup {Source("patternProperties", p, n.patterns[p]) : p \in DOMAIN n.patterns}
    \cup (IF n.additional = None THEN {} ELSE {Source("additionalProperties", {}, n.additional)})
    \cup {Source("dependentSchemas", {}, TrueValue) : trigger \in n.depends}

ItemSources(n) ==
    {Source("prefixItems", {k}, n.prefix[k]) : k \in DOMAIN n.prefix}
    \cup (IF n.tail = None THEN {} ELSE {Source("items", From(Len(n.prefix) + 1), n.tail)})
    \cup (IF n.extra = None THEN {}
          ELSE {Source("additionalItems", From(Len(n.prefix) + 1), n.extra)})
    \cup (IF n.contains = None THEN {}
          ELSE {[Source("contains", {}, n.contains) EXCEPT !.marks = n.dialect = "2020-12"]})

Frontier(n) == PropertySources(n) \cup ItemSources(n)

-----------------------------------------------------------------------------
(* Expressions: the sources known to be evaluated, or why that is unknown. *)
Expressed(status, sources) == [status |-> status, sources |-> sources]
Sources(sources) == Expressed("known", sources)
Nothing == Sources({})
Deferred == Expressed("unsupported", {})
OutOfWork == Expressed("exhausted", {})

Known(e) == e.status = "known"

Merge(e, f) ==
    IF ~Known(e) THEN e ELSE IF ~Known(f) THEN f ELSE Sources(e.sources \cup f.sources)

(* None is an expression that does not apply.                              *)
Effective(e) == e # None /\ (~Known(e) \/ e.sources # {})

(* What other parts of the prover answer about the left values; the answer *)
(* is right when there is one.                                             *)
Inclusion(lefts, n) ==
    IF n.proof # "answered" THEN n.proof
    ELSE IF \A v \in lefts : NodeHolds(n, v) THEN "true" ELSE "false"

Separation(lefts, n) ==
    IF n.proof # "answered" THEN n.proof
    ELSE IF \A v \in lefts : ~NodeHolds(n, v) THEN "true" ELSE "false"

(* The answers for each branch; no left values are known where the         *)
(* branches are not to be told apart.                                      *)
Included(lefts, branches) ==
    [k \in DOMAIN branches |->
        IF lefts = None THEN "unsupported" ELSE Inclusion(lefts, branches[k])]

Separated(lefts, branches) ==
    [k \in DOMAIN branches |->
        IF lefts = None THEN "unsupported" ELSE Separation(lefts, branches[k])]

First(indexes) == CHOOSE k \in indexes : \A j \in indexes : k <= j

(* _selected_branch_uniqueness_proof: the first other branch that is not   *)
(* known to be disjoint from the left decides.                             *)
Uniqueness(separated, k) ==
    LET open == {j \in DOMAIN separated \ {k} : separated[j] # "true"} IN
      IF open = {} THEN "true" ELSE separated[First(open)]

(* Whether a branch is the one the left values take.                       *)
Selection(keyword, included, separated, k) ==
    IF included[k] # "true" \/ keyword = "anyOf" THEN included[k] ELSE Uniqueness(separated, k)

(* An unknown branch that is taken, or work that ran out, ends the loop.   *)
CollectionExpression(keyword, included, separated, expressions) ==
    LET Selected(k) == Selection(keyword, included, separated, k)
        stops == {k \in DOMAIN expressions :
                     \/ Selected(k) = "exhausted"
                     \/ Selected(k) = "true" /\ ~Known(expressions[k])}
        sources == UNION {expressions[k].sources :
                            k \in {j \in DOMAIN expressions : Selected(j) = "true"}}
    IN  IF stops # {}
        THEN IF Selected(First(stops)) = "exhausted" THEN OutOfWork ELSE expressions[First(stops)]
        ELSE IF sources # {} THEN Sources(sources)
        ELSE IF \E k \in DOMAIN expressions : Effective(expressions[k]) THEN Deferred
        ELSE None

(* The effects of the branch that is taken; that it is refuted does not    *)
(* matter here.  A branch or condition is given as what is known of it.    *)
SelectedConditional(included, expressions) ==
    IF expressions = <<>> THEN Nothing
    ELSE IF ~Effective(expressions[1]) THEN expressions[1]
    ELSE IF included[1] = "exhausted" THEN OutOfWork
    ELSE IF included[1] = "unsupported" THEN Deferred
    ELSE expressions[1]

(* Mutant: a condition that is not proved is taken to fail.                *)
ElseUnlessProved(included, separated, then, else) ==
    IF included = <<>> THEN None
    ELSE IF included[1] = "exhausted" THEN OutOfWork
    ELSE IF included[1] = "true" THEN then
    ELSE else

ConditionalExpression(included, separated, then, else) ==
    IF included = <<>> THEN None
    ELSE IF included[1] = "exhausted" THEN OutOfWork
    ELSE IF included[1] = "true" THEN then
    ELSE IF separated[1] = "exhausted" THEN OutOfWork
    ELSE IF separated[1] = "true" THEN else
    ELSE Deferred

(* What is negated evaluates nothing, but is not told from what is not     *)
(* supported.                                                              *)
NotExpression(expressions) ==
    IF \A k \in DOMAIN expressions : ~Effective(expressions[k]) THEN None
    ELSE IF Known(expressions[1]) THEN Deferred ELSE expressions[1]

(* A child of allOf with effects must be known to hold.                    *)
ConjunctExpression(included, e) ==
    IF ~Effective(e) \/ included = "true" THEN e
    ELSE IF included = "exhausted" THEN OutOfWork
    ELSE Deferred

(* The first keyword with branches that have effects comes to the schema's *)
(* own sources and to those of allOf.                                      *)
WithBranches(conjoined, any, one, conditional, negated) ==
    IF any # None THEN Merge(conjoined, any)
    ELSE IF one # None THEN Merge(conjoined, one)
    ELSE IF conditional # None THEN Merge(conjoined, conditional)
    ELSE IF negated # None THEN Merge(conjoined, negated)
    ELSE conjoined

MergeAll(e, expressions) == FoldLeft(Merge, e, expressions)

(* _evaluation_expression_for_node.  What a reference evaluates comes      *)
(* instead of what the branches beside it do.                              *)
RECURSIVE Expression(_, _)
Expression(n, lefts) ==
    LET Each(branches) == [k \in DOMAIN branches |-> Expression(branches[k], lefts)]
        Collected(keyword, branches) ==
            CollectionExpression(keyword, Included(lefts, branches), Separated(lefts, branches),
                                 Each(branches))
        Taken(branch) == SelectedConditional(Included(lefts, branch), Each(branch))
        effects == \E branch \in {n.then, n.else} :
                      branch # <<>> /\ Effective(Expression(branch[1], lefts))
    IN  IF n.ref = "unresolved" THEN Deferred
        ELSE IF n.ref = "target" THEN MergeAll(Sources(Frontier(n)), Each(n.target))
        ELSE WithBranches(
               MergeAll(Sources(Frontier(n)),
                        [k \in DOMAIN n.allOf |->
                           LET e == Expression(n.allOf[k], lefts) IN
                             IF lefts = None THEN e
                             ELSE ConjunctExpression(Inclusion(lefts, n.allOf[k]), e)]),
               Collected("anyOf", n.anyOf),
               Collected("oneOf", n.oneOf),
               IF ~effects THEN None
               ELSE ConditionalExpression(Included(lefts, n.cond), Separated(lefts, n.cond),
                                          Taken(n.then), Taken(n.else)),
               NotExpression(Each(n.negated)))

-----------------------------------------------------------------------------
(* Traces: the sources of each path a value may take, and its condition: a *)
(* schema that the value satisfies (or does not), or <<>> for all values.  *)
Path(sources, node, holds) == [sources |-> sources, node |-> node, holds |-> holds]
Conditioned(path) == path.node # <<>>
Takes(path, v) == Conditioned(path) => (NodeHolds(path.node[1], v) <=> path.holds)

Traced(status, paths) == [status |-> status, paths |-> paths]

(* What does not depend on the branch (_unconditional_expression_prefix).  *)
Unconditional(n) ==
    IF n.ref = "unresolved" THEN Deferred
    ELSE MergeAll(Sources(Frontier(n)),
                  [k \in DOMAIN (n.target \o n.allOf) |-> Expression((n.target \o n.allOf)[k], None)])

(* A path for each branch with effects: the others have none.              *)
CollectionPaths(branches, expressions) ==
    IF \E k \in DOMAIN branches : ~Known(expressions[k]) THEN {}
    ELSE {Path(expressions[k].sources, <<branches[k]>>, TRUE) :
            k \in {j \in DOMAIN branches : Effective(expressions[j])}}

ConditionalPath(condition, holds, expressions) ==
    {Path(e.sources, condition, holds) : e \in {f \in ToSet(expressions) : Known(f) /\ Effective(f)}}

ConditionedPaths(n, any, one, then, else) ==
    IF any # {} THEN any ELSE IF one # {} THEN one
    ELSE IF n.cond = <<>> THEN {}
    ELSE ConditionalPath(n.cond, TRUE, then) \cup ConditionalPath(n.cond, FALSE, else)

(* evaluation_trace_for_node: e is what is known of all left values, base  *)
(* what holds on every path, paths what comes to it on each.               *)
TraceOf(e, base, paths) ==
    IF e.status = "unsupported" /\ Known(base) /\ paths # {}
    THEN Traced("known", {Path(base.sources \cup p.sources, p.node, p.holds) : p \in paths})
    ELSE IF Known(e) /\ Effective(e) THEN Traced("known", {Path(e.sources, <<>>, TRUE)})
    ELSE Traced(e.status, {})

Trace(n, lefts) ==
    LET Each(branches) == [k \in DOMAIN branches |-> Expression(branches[k], None)] IN
      TraceOf(Expression(n, lefts), Unconditional(n),
              ConditionedPaths(n, CollectionPaths(n.anyOf, Each(n.anyOf)),
                               CollectionPaths(n.oneOf, Each(n.oneOf)), Each(n.then), Each(n.else)))

-----------------------------------------------------------------------------
(* Fragments in which proofs of inclusion are trusted.                     *)
NodeKeywords(n) ==
    LET uses == [type |-> n.types # AllTypes, required |-> n.required # {},
                 properties |-> DOMAIN n.props # {}, patternProperties |-> DOMAIN n.patterns # {},
                 additionalProperties |-> n.additional # None,
                 dependentSchemas |-> n.depends # {}, minItems |-> n.min # None,
                 maxItems |-> n.max # None,
                 prefixItems |-> n.prefix # <<>> /\ n.dialect = "2020-12",
                 itemsList |-> n.prefix # <<>> /\ n.dialect # "2020-12",
                 items |-> n.tail # None, additionalItems |-> n.extra # None,
                 contains |-> n.contains # None, ref |-> n.ref # "none",
                 allOf |-> n.allOf # <<>>, anyOf |-> n.anyOf # <<>>, oneOf |-> n.oneOf # <<>>,
                 if |-> n.cond # <<>>, not |-> n.negated # <<>>]
    IN  {keyword \in DOMAIN uses : uses[keyword]}

BranchKeywords == {"allOf", "anyOf", "if", "oneOf", "type"}

ObjectFragmentAt(n, root) ==
    /\ NodeKeywords(n) \subseteq
         BranchKeywords \cup {"additionalProperties", "patternProperties", "properties"}
         \cup (IF root THEN {} ELSE {"required"})
    /\ n.additional \in {None, FalseValue}
    /\ "object" \in n.types

ArrayFragmentAt(n, root) ==
    /\ NodeKeywords(n) \subseteq
         BranchKeywords \cup {"contains", "items", "prefixItems"}
         \cup (IF root THEN {} ELSE {"maxItems", "minItems"})
    /\ "array" \in n.types

(* A reference alone is in the fragment, wherever it leads.                *)
RECURSIVE Fragment(_, _, _)
Fragment(domain, n, root) ==
    LET All(branches) == \A k \in DOMAIN branches : Fragment(domain, branches[k], FALSE)
        possible(branches) == SelectSeq(branches, LAMBDA b : ~Impossible(b))
    IN  \/ NodeKeywords(n) = {"ref"}
        \/ /\ IF domain = "object" THEN ObjectFragmentAt(n, root) ELSE ArrayFragmentAt(n, root)
           /\ All(n.allOf \o possible(n.anyOf) \o possible(n.oneOf) \o n.cond \o n.then \o n.else)
=============================================================================
