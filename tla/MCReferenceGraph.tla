-------------------------- MODULE MCReferenceGraph --------------------------
(***************************************************************************)
(* Queries for ReferenceGraph, each a document of five or six schema       *)
(* objects                                                                 *)
(*   {"$ref": ..., "$defs": {"a": A, "b": {"$defs": {"a": BA}}},           *)
(*    "properties": {"p": P}}                                              *)
(* whose $id, $anchor and $ref are chosen independently, alone or with an  *)
(* external resource.                                                      *)
(***************************************************************************)
EXTENDS ReferenceGraph

CONSTANTS none

Plain == [id |-> none, idFragment |-> none, anchor |-> none,
          ref |-> [uri |-> none, anchor |-> none, pointer |-> <<>>],
          extra |-> FALSE, foreign |-> FALSE]

SameDoc(path) == [uri |-> none, anchor |-> none, pointer |-> path]
Named(name) == [uri |-> none, anchor |-> name, pointer |-> <<>>]
At(u, path) == [uri |-> u, anchor |-> none, pointer |-> path]
RefTo(r) == [Plain EXCEPT !.ref = r]

PathA == <<"defs/a">>
PathB == <<"defs/b">>
PathBA == <<"defs/b", "defs/a">>
PathP == <<"properties/p">>

Leaves == {Plain, RefTo(SameDoc(PathB)), RefTo(Named("n")),
           RefTo([uri |-> "U", anchor |-> "n", pointer |-> <<>>])}
OwnLeaves == {Plain, RefTo(SameDoc(PathA)), RefTo(At("R", PathA)), RefTo(At("E", PathA))}
Props == {RefTo(SameDoc(PathBA)), RefTo(At("U", PathA)), RefTo(Named("n")), RefTo(At("E", <<>>))}
Roots == {Plain, [RefTo(SameDoc(PathA)) EXCEPT !.extra = TRUE], [Plain EXCEPT !.id = "R"]}

EmbeddedBs(modern) ==
    {Plain, [Plain EXCEPT !.id = "U", !.foreign = TRUE]}
    \cup (IF modern THEN {[Plain EXCEPT !.id = "U", !.anchor = "n"], [Plain EXCEPT !.anchor = "n"]}
          ELSE {[Plain EXCEPT !.id = "U"], [Plain EXCEPT !.idFragment = "n"]})

Document(r, a, b, ba, p) ==
    (<<>> :> r) @@ (PathA :> a) @@ (PathB :> b) @@ (PathBA :> ba) @@ (PathP :> p)

(* An external resource refers by absolute URIs, back to the document or    *)
(* to itself, the second time beside a reference.                          *)
External(first, second) == (<<>> :> first) @@ (PathP :> second)
Externals ==
    {[u \in {} |-> External(Plain, Plain)],
     "E" :> External(Plain, RefTo(At("U", PathA))),
     "E" :> External([RefTo(At("U", <<>>)) EXCEPT !.extra = TRUE], RefTo(At("E", <<>>)))}

MCInputs ==
    UNION {{[root |-> Document(r, a, b, ba, p), resources |-> e, modern |-> modern] :
              r \in Roots, a \in Leaves, b \in EmbeddedBs(modern), ba \in OwnLeaves,
              p \in Props, e \in Externals} : modern \in BOOLEAN}

(* A resource given without $id, whose reference is relative to itself.    *)
ExternalInputs ==
    {[root |-> (<<>> :> RefTo(At("E", <<>>))) @@ (PathA :> Plain),
      resources |-> "E" :> ((<<>> :> RefTo(SameDoc(PathA))) @@ (PathA :> Plain)),
      modern |-> TRUE]}

MCDefSteps == {"defs/a", "defs/b"}
MCDataSteps == {"const"}
MCTupleSteps == {"items/0"}
=============================================================================
