------------------------- MODULE MCApplicatorRules -------------------------
(***************************************************************************)
(* Every pair of subschemas over a few values, under every rule.           *)
(***************************************************************************)
EXTENDS ApplicatorRules

Subsets == SUBSET Value

Problem(rule, b, other, condition, children) ==
    [rule |-> rule, base |-> b, other |-> other, condition |-> condition,
     children |-> children, standalone |-> TRUE, unknown |-> {}, tag |-> 0,
     negation |-> FALSE, doubled |-> FALSE, strings |-> FALSE, items |-> FALSE,
     parts |-> <<>>, able |-> TRUE, certified |-> FALSE]

(* Lists of branches, the longest bounded by MaxBranches.                  *)
CONSTANT MaxBranches
ChildLists == UNION {[1 .. n -> Subsets] : n \in 1 .. MaxBranches}
Bases == Subsets \cup {NoBase}

ListProblems(rules, lists) ==
    {Problem(rule, b, o, {}, c) : rule \in rules, b \in Bases, o \in Subsets, c \in lists}

ConditionalProblems ==
    {Problem(rule, b, o, c, <<t, e>>) :
        rule \in Conditionals, b \in Bases, o \in Subsets, c \in Subsets,
        t \in Subsets \cup {Absent}, e \in Subsets \cup {Absent}}

(* The right not with each of the facts its attempts need.                 *)
NotProblems ==
    LET with(p, n, d, s) == [p EXCEPT !.negation = n, !.doubled = d, !.strings = s]
    IN  {with(Problem("right-not", b, o, {}, <<c>>), n, d, s) :
            b \in Bases, o \in Subsets, c \in Subsets, n, d, s \in BOOLEAN}

TupleProblems ==
    {[p EXCEPT !.items = it, !.parts = [k \in 1 .. 2 |-> IF k = 1 THEN l ELSE p.other \ l]] :
        p \in ListProblems({"right-anyof"}, [1 .. 2 -> Subsets]), it \in BOOLEAN,
        l \in {{v} : v \in Value}}

(* A oneOf whose first branch has the tag of every object on the left.     *)
TaggedProblems(bases) ==
    {[p EXCEPT !.tag = 1] :
        p \in {q \in ListProblems({"right-oneof"}, [1 .. 2 -> Subsets]) :
                  q.base \in bases /\ q.other \cap Objects \cap q.children[2] = {}}}

(* With unevaluated siblings, and with a reference nobody can follow.      *)
SiblingProblems ==
    LET problems == ListProblems({"right-allof"}, [1 .. 2 -> Subsets])
                        \cup {p \in ConditionalProblems : p.rule = "right-if"}
                        \cup TaggedProblems({NoBase})
    IN  {[p EXCEPT !.standalone = FALSE, !.unknown = u] : p \in problems, u \in {{}, {1}}}

AllProblems ==
    UNION {ListProblems(Rules \ (Conditionals \cup {"right-not"}), ChildLists),
           {p \in ListProblems({"left-oneof", "right-oneof"}, [1 .. 3 -> Subsets]) :
               p.base = NoBase},
           ConditionalProblems, NotProblems, TaggedProblems({NoBase}), SiblingProblems,
           {p \in TupleProblems : p.parts[1] \subseteq p.other}}

(* How well the questions of a problem are answered; a certificate for a   *)
(* single branch is kept from the rules that return it as their own.       *)
OneBranchRefutes == {"left-oneof", "left-allof", "right-anyof", "right-oneof"}
Able == <<TRUE, FALSE>>
Unable == <<FALSE, FALSE>>
Certifying == <<FALSE, TRUE>>

Fits(p, answers) ==
    /\ answers = Able => p.unknown = {}
    /\ answers = Certifying => p.rule \notin OneBranchRefutes

MCProblems ==
    {[p EXCEPT !.able = a[1], !.certified = a[2]] :
        <<p, a>> \in {<<p, a>> \in AllProblems \X {Able, Unable, Certifying} : Fits(p, a)}}

(* The four rules with certificates for single branches.                   *)
CertifiedProblems ==
    {[p EXCEPT !.able = FALSE, !.certified = TRUE] :
        p \in ListProblems(OneBranchRefutes, [1 .. 2 -> Subsets])}
=============================================================================
