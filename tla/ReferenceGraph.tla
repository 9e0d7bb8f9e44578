--------------------------- MODULE ReferenceGraph ---------------------------
(***************************************************************************)
(* How a schema's static references are prepared for a proof: siblings of  *)
(* $ref are moved out of its way, the resource graph of the document is    *)
(* collected, the document is scanned for reference cycles and, when it    *)
(* has none, every reference is replaced by what it names.                 *)
(*                                                                         *)
(* Source: compiler/resources.py (inline_static_refs_for_proof,            *)
(* ResourceGraph), called by compiler/proof_pipeline.py for each side of a *)
(* query with the resources the caller gave explicitly.                    *)
(*                                                                         *)
(* A document is a tree: a function from paths to nodes.  A step of a path *)
(* leads from one schema object to another ("$defs/a", "properties/p").    *)
(* A node records its keywords that matter here; what it asserts beside    *)
(* them is left out, for a reference stands for its target whatever the    *)
(* target asserts.  URIs are absolute: the relative file part of a URI     *)
(* reference is joined to its base by urllib, and stays outside.           *)
(***************************************************************************)
EXTENDS Integers, Sequences, FiniteSets, SequencesExt

CONSTANTS
    Inputs,         \* the queries to prepare: [root, resources, modern]
    NoName,         \* no URI, anchor or fragment
    DefSteps,       \* steps into $defs: metadata beside a $ref
    DataSteps,      \* steps into data (const, enum, examples), not a schema
    TupleSteps,     \* steps into the schemas of an items array
    FirstOfAll,     \* the step "allOf/0"
    SecondOfAll     \* the step "allOf/1"

(***************************************************************************)
(* A node's keywords: id is the absolute $id, idFragment a $id such as     *)
(* "#foo"; ref is the URI reference of $ref, or NoRef; extra says that it  *)
(* has a keyword beside $ref that is not metadata; foreign that its        *)
(* $schema declares another dialect than the query's.  orig is its place   *)
(* in the document as written.                                             *)
(***************************************************************************)
NoRef == [uri |-> NoName, anchor |-> NoName, pointer |-> <<>>]
IsRef(n) == n.ref # NoRef
NoTarget == [doc |-> NoName, path |-> <<>>]

Drop(p, k) == SubSeq(p, k + 1, Len(p))
InData(p) == \E k \in DOMAIN p : p[k] \in DataSteps
ChildPaths(tree, p) == {q \in DOMAIN tree : Len(q) = Len(p) + 1 /\ IsPrefix(p, q)}

-----------------------------------------------------------------------------
(***************************************************************************)
(* _rewrite_ref_siblings: where siblings of $ref apply, {"$ref", siblings} *)
(* becomes {metadata, "allOf": [{"$ref"}, {siblings}]}.                    *)
(***************************************************************************)
Splits(tree, p) == IsRef(tree[p]) /\ tree[p].extra /\ ~InData(p)

(* Where the node at p moves: below the second conjunct of each ancestor   *)
(* that is split, unless it is one of that ancestor's definitions.         *)
Moved(tree, p) ==
    LET move[k \in 0 .. Len(p)] ==
          IF k = 0 THEN <<>>
          ELSE move[k - 1] \o (IF /\ Splits(tree, SubSeq(p, 1, k - 1))
                                  /\ p[k] \notin DefSteps
                               THEN <<SecondOfAll, p[k]>>
                               ELSE <<p[k]>>)
    IN  move[Len(p)]

(* Each path of the rewritten tree with the path it comes from and the     *)
(* part of the node that it holds.                                         *)
Parts(tree) ==
    {<<Moved(tree, p), p, "whole">> : p \in {q \in DOMAIN tree : ~Splits(tree, q)}}
    \cup UNION {{<<Moved(tree, p), p, "metadata">>,
                 <<Moved(tree, p) \o <<FirstOfAll>>, p, "reference">>,
                 <<Moved(tree, p) \o <<SecondOfAll>>, p, "siblings">>} :
                p \in {q \in DOMAIN tree : Splits(tree, q)}}

PartOf(n, part) ==
    CASE part = "whole"     -> n
      [] part = "metadata"  -> [n EXCEPT !.ref = NoRef, !.extra = FALSE]
      [] part = "reference" -> [n EXCEPT !.extra = FALSE, !.id = NoName,
                                         !.idFragment = NoName, !.anchor = NoName]
      [] OTHER              -> [n EXCEPT !.ref = NoRef, !.extra = FALSE, !.id = NoName,
                                         !.idFragment = NoName, !.anchor = NoName]

Rewritten(tree) ==
    [q \in {m[1] : m \in Parts(tree)} |->
        LET m == CHOOSE m \in Parts(tree) : m[1] = q IN PartOf(tree[m[2]], m[3])]

-----------------------------------------------------------------------------
VARIABLES
    input,      \* the query, as written
    phase,      \* "rewrite", "collect", "scan", "inline", then "done"
    root,       \* the document being prepared
    pending,    \* the recursive calls still to make, next one first
    resources,  \* ResourceGraph.resources
    locations,  \* ResourceGraph.locations
    recursive,  \* what _has_recursive_static_ref found
    followed,   \* references replaced: [site, target]
    left        \* references left in place

vars == <<input, phase, root, pending, resources, locations, recursive, followed, left>>

(***************************************************************************)
(* The documents at hand: the root, named NoName, and the external ones.   *)
(***************************************************************************)
Tree(doc) == IF doc = NoName THEN root ELSE input.resources[doc]
Node(place) == Tree(place.doc)[place.path]
Place(doc, path) == [doc |-> doc, path |-> path]
Children(place) == {Place(place.doc, q) : q \in ChildPaths(Tree(place.doc), place.path)}

(* A resource is registered under its URI, fragment included.              *)
Uri(u, fragment) == [uri |-> u, fragment |-> fragment]
NoUri == Uri(NoName, NoName)

(* urljoin of a base and a reference: a reference without a URI of its own *)
(* is relative to its base.                                                *)
JoinedUri(base, u) == IF u = NoName THEN base.uri ELSE u

(* The arguments of the recursive calls: _collect_resource gets the URI and *)
(* the pointer of the enclosing resource; the two walks get the pointer at *)
(* which they take the schema to be, and the targets they are inside of.   *)
Collecting(place, uri, pointer) == [place |-> place, uri |-> uri, pointer |-> pointer]
Walking(place, pointer, seen) == [place |-> place, pointer |-> pointer, seen |-> seen]

(* A query as it reaches inline_static_refs_for_proof.                     *)
Init ==
    /\ input \in Inputs
    /\ phase = "rewrite"
    /\ root = input.root
    /\ pending = <<>>
    /\ resources = [u \in {} |-> NoTarget]
    /\ locations = [p \in {} |-> NoUri]
    /\ recursive = FALSE
    /\ followed = {}
    /\ left = {}

(* build asks for the root first, then for each external resource.         *)
RewriteSiblings ==
    /\ phase = "rewrite"
    /\ root' = IF input.modern THEN Rewritten(root) ELSE root
    /\ LET external == SetToSeq(DOMAIN input.resources)
       IN  pending' = <<Collecting(Place(NoName, <<>>), NoUri, <<>>)>>
                      \o [k \in DOMAIN external |->
                            Collecting(Place(external[k], <<>>), Uri(external[k], NoName), <<>>)]
    /\ phase' = "collect"
    /\ UNCHANGED <<input, resources, locations, recursive, followed, left>>

-----------------------------------------------------------------------------
(* ResourceGraph._collect_resource on one schema object.                   *)

OwnId(n) == n.id # NoName \/ n.idFragment # NoName

(* The resource the object belongs to: one it starts, or the enclosing one. *)
ResourceUri(c, n) ==
    IF n.id # NoName THEN Uri(n.id, NoName)
    ELSE IF n.idFragment # NoName THEN Uri(c.uri.uri, n.idFragment)
    ELSE c.uri

(* Mutant: an anchor is kept under its pointer in the document.            *)
NotRelativeTo(prefix, p) == p

RelativeTo(prefix, p) == IF IsPrefix(prefix, p) THEN Drop(p, Len(prefix)) ELSE p

WithAnchor(table, uri, name, p) ==
    IF name = NoName \/ uri \notin DOMAIN table THEN table
    ELSE [table EXCEPT ![uri].anchors =
             [a \in DOMAIN @ \cup {name} |->
                 IF a = name THEN RelativeTo(table[uri].place.path, p) ELSE @[a]]]

Registered(table, uri, place) ==
    IF uri \in DOMAIN table THEN table
    ELSE [u \in DOMAIN table \cup {uri} |->
             IF u = uri THEN [place |-> place, anchors |-> [a \in {} |-> <<>>]]
             ELSE table[u]]

Collect ==
    /\ phase = "collect" /\ pending # <<>>
    /\ LET c == Head(pending)
           n == Node(c.place)
           p == c.place.path
           uri == ResourceUri(c, n)
           start == IF OwnId(n) THEN c.place ELSE Place(c.place.doc, c.pointer)
           named == WithAnchor(resources, c.uri, n.idFragment, p)
           table == Registered(named, uri, start)
           below == SetToSeq({q \in Children(c.place) :
                                 Last(q.path) \notin DataSteps \cup TupleSteps})
       IN  /\ resources' = IF input.modern THEN WithAnchor(table, uri, n.anchor, p) ELSE table
           /\ locations' = IF c.place.doc = NoName THEN (p :> uri) @@ locations ELSE locations
           /\ pending' = [k \in DOMAIN below |->
                            Collecting(below[k], uri, table[uri].place.path)]
                         \o Tail(pending)
    /\ UNCHANGED <<input, phase, root, recursive, followed, left>>

FromTheRoot == <<Walking(Place(NoName, <<>>), <<>>, {})>>

StartScan ==
    /\ phase = "collect" /\ pending = <<>>
    /\ phase' = "scan"
    /\ pending' = FromTheRoot
    /\ UNCHANGED <<input, root, resources, locations, recursive, followed, left>>

-----------------------------------------------------------------------------
(* Resolution.                                                             *)

RootUri == locations[<<>>]

(* Mutant: every reference is relative to the document.                    *)
LocationOfRoot(p) == RootUri

(* location_for_pointer: the recorded location, or else the resource whose *)
(* pointer is the longest prefix (the root document's were collected       *)
(* first).                                                                 *)
LocationUri(p) ==
    IF p \in DOMAIN locations THEN locations[p]
    ELSE LET around == {u \in DOMAIN resources : IsPrefix(resources[u].place.path, p)}
             longer(u, w) == Len(resources[u].place.path) > Len(resources[w].place.path)
             best == {u \in around : \A w \in around : ~longer(w, u)}
             rooted == {u \in best : resources[u].place.doc = NoName}
         IN  IF \A u \in around : ~longer(u, RootUri) THEN RootUri
             ELSE IF rooted # {} THEN CHOOSE u \in rooted : TRUE
             ELSE CHOOSE u \in best : TRUE

Unresolved == [place |-> NoTarget, key |-> <<NoUri, <<>>>>]

(* Mutant: a pointer is not checked to lead to anything.                   *)
ResolveUnchecked(ref, base) ==
    LET uri == Uri(JoinedUri(IF base = NoUri THEN RootUri ELSE base, ref.uri), NoName)
    IN  IF uri \in DOMAIN resources /\ ref.anchor = NoName
        THEN [place |-> Place(resources[uri].place.doc,
                              resources[uri].place.path \o ref.pointer),
              key |-> <<uri, ref.pointer>>]
        ELSE Unresolved

(* resolve_ref_info: the place named, and the key under which the walks    *)
(* remember it.                                                            *)
Resolve(ref, base) ==
    LET uri == Uri(JoinedUri(IF base = NoUri THEN RootUri ELSE base, ref.uri), NoName)
        known == /\ uri \in DOMAIN resources
                 /\ ref.anchor # NoName => ref.anchor \in DOMAIN resources[uri].anchors
        pointer == IF ref.anchor # NoName THEN resources[uri].anchors[ref.anchor]
                   ELSE ref.pointer
        place == Place(resources[uri].place.doc, resources[uri].place.path \o pointer)
    IN  IF known /\ place.path \in DOMAIN Tree(place.doc)
        THEN [place |-> place, key |-> <<uri, pointer>>]
        ELSE Unresolved

-----------------------------------------------------------------------------
(* The two walks.  A reference is read at the pointer the walk has reached, *)
(* which is a pointer of the root document: location_for_pointer knows no  *)
(* other.                                                                  *)

Here == Head(pending)
Reference == Resolve(Node(Here.place).ref, LocationUri(Here.pointer))

BelowHere(steps) ==
    LET below == SetToSeq({q \in Children(Here.place) : Last(q.path) \notin steps})
    IN  [k \in DOMAIN below |->
            Walking(below[k], Append(Here.pointer, Last(below[k].path)), Here.seen)]

(* Mutant: the walk forgets which targets it is inside of.                 *)
AtTargetAfresh == Walking(Reference.place, Reference.place.path, {Reference.key})

AtTarget == Walking(Reference.place, Reference.place.path, Here.seen \cup {Reference.key})

Scanning == phase = "scan" /\ pending # <<>>

(* Mutant: the walks of two siblings share the targets they have seen.     *)
ScanSharingSeen ==
    /\ Scanning /\ IsRef(Node(Here.place))
    /\ IF Reference.place # NoTarget /\ Reference.key \in Here.seen
       THEN recursive' = TRUE /\ phase' = "done" /\ pending' = <<>>
       ELSE /\ pending' = (IF Reference.place = NoTarget THEN <<>> ELSE <<AtTarget>>)
                          \o [k \in DOMAIN Tail(pending) |->
                                [Tail(pending)[k] EXCEPT !.seen = @ \cup {Reference.key}]]
            /\ UNCHANGED <<phase, recursive>>
    /\ UNCHANGED <<input, root, resources, locations, followed, left>>

ScanReference ==
    /\ Scanning /\ IsRef(Node(Here.place))
    /\ IF Reference.place # NoTarget /\ Reference.key \in Here.seen
       THEN /\ recursive' = TRUE
            /\ phase' = "done"
            /\ pending' = <<>>
       ELSE /\ pending' = (IF Reference.place = NoTarget THEN <<>> ELSE <<AtTarget>>)
                          \o Tail(pending)
            /\ UNCHANGED <<phase, recursive>>
    /\ UNCHANGED <<input, root, resources, locations, followed, left>>

ScanChildren ==
    /\ Scanning /\ ~IsRef(Node(Here.place))
    /\ pending' = BelowHere({}) \o Tail(pending)
    /\ UNCHANGED <<input, phase, root, resources, locations, recursive, followed, left>>

StartInline ==
    /\ phase = "scan" /\ pending = <<>>
    /\ phase' = "inline"
    /\ pending' = FromTheRoot
    /\ UNCHANGED <<input, root, resources, locations, recursive, followed, left>>

Inlining == phase = "inline" /\ pending # <<>>

(* A reference that cannot be resolved, or that leads into another         *)
(* dialect, stays, and so does what is beside it.                          *)
Stays == \/ Reference.place = NoTarget
         \/ Node(Reference.place).foreign
         \/ Reference.key \in Here.seen

LeaveReference ==
    /\ Inlining /\ IsRef(Node(Here.place)) /\ Stays
    /\ left' = left \cup {Here.place}
    /\ pending' = BelowHere({}) \o Tail(pending)
    /\ UNCHANGED <<input, phase, root, resources, locations, recursive, followed>>

(* Otherwise the target takes its place; siblings that apply (of an        *)
(* external resource: the root's were moved before) are walked too.        *)
FollowReference ==
    /\ Inlining /\ IsRef(Node(Here.place)) /\ ~Stays
    /\ followed' = followed \cup {[site |-> Here.place, target |-> Reference.place]}
    /\ pending' = <<AtTarget>>
                  \o (IF input.modern /\ Node(Here.place).extra
                      THEN BelowHere(DefSteps) ELSE <<>>)
                  \o Tail(pending)
    /\ UNCHANGED <<input, phase, root, resources, locations, recursive, left>>

InlineChildren ==
    /\ Inlining /\ ~IsRef(Node(Here.place))
    /\ pending' = BelowHere({}) \o Tail(pending)
    /\ UNCHANGED <<input, phase, root, resources, locations, recursive, followed, left>>

Finish ==
    /\ phase = "inline" /\ pending = <<>>
    /\ phase' = "done"
    /\ UNCHANGED <<input, root, pending, resources, locations, recursive, followed, left>>

Next == \/ RewriteSiblings \/ Collect \/ StartScan \/ ScanReference \/ ScanChildren
        \/ StartInline \/ LeaveReference \/ FollowReference \/ InlineChildren \/ Finish

(* One Python call: it takes every step it can.                            *)
Spec == Init /\ [][Next]_vars /\ WF_vars(Next)

-----------------------------------------------------------------------------
(***************************************************************************)
(* What the references of the query mean, as JSON Schema says: the base    *)
(* URI of a schema object is the $id of the nearest object around it that  *)
(* has one, or else the URI its document was given under.                  *)
(***************************************************************************)
Written(doc) == IF doc = NoName THEN input.root ELSE input.resources[doc]
Documents == {NoName} \cup DOMAIN input.resources
Places == UNION {{Place(doc, p) : p \in DOMAIN Written(doc)} : doc \in Documents}
NodeAt(place) == Written(place.doc)[place.path]
SchemaPlaces == {s \in Places : ~InData(s.path)}

(* Before 2019-09 the siblings of $ref are ignored, $id among them.        *)
IdAt(place) ==
    IF ~input.modern /\ IsRef(NodeAt(place)) THEN NoName ELSE NodeAt(place).id

BaseUri(place) ==
    LET lengths == {k \in 0 .. Len(place.path) :
                      IdAt(Place(place.doc, SubSeq(place.path, 1, k))) # NoName}
    IN  IF lengths = {} THEN place.doc
        ELSE IdAt(Place(place.doc, SubSeq(place.path, 1, Max(lengths))))

ResourceRoots(u) ==
    {s \in SchemaPlaces : BaseUri(s) = u /\ (s.path = <<>> \/ IdAt(s) # NoName)}

Anchored(s, name) ==
    IF input.modern THEN NodeAt(s).anchor = name ELSE NodeAt(s).idFragment = name

Meanings(site) ==
    LET ref == NodeAt(site).ref
        u == IF ref.uri = NoName THEN BaseUri(site) ELSE ref.uri
    IN  IF ref.anchor # NoName
        THEN {s \in SchemaPlaces : BaseUri(s) = u /\ Anchored(s, ref.anchor)}
        ELSE {s \in SchemaPlaces : \E r \in ResourceRoots(u) :
                                       s.doc = r.doc /\ s.path = r.path \o ref.pointer}

(* The place of the query as written that a place being walked stands for. *)
Origin(place) ==
    IF place.doc # NoName \/ ~input.modern THEN place
    ELSE Place(NoName, (CHOOSE m \in Parts(input.root) : m[1] = place.path)[2])

Whole(place) ==
    place.doc = NoName /\ input.modern =>
        (CHOOSE m \in Parts(input.root) : m[1] = place.path)[3] \in {"whole", "metadata"}

-----------------------------------------------------------------------------
(* Properties.                                                             *)

(* The walks stay inside the documents, and what they record is there.     *)
TypeOK ==
    /\ phase \in {"rewrite", "collect", "scan", "inline", "done"}
    /\ recursive \in BOOLEAN
    /\ \A k \in DOMAIN pending :
         pending[k].place.path \in DOMAIN Tree(pending[k].place.doc)
    /\ \A u \in DOMAIN resources :
         resources[u].place.path \in DOMAIN Tree(resources[u].place.doc)
    /\ DOMAIN locations \subseteq DOMAIN root
    /\ \A f \in followed : f.target.path \in DOMAIN Tree(f.target.doc)

(* Every reference that is replaced is a reference of the schema, not of   *)
(* its data, and what replaces it is the whole of what it names.           *)
ReferencesMeanTheirTargets ==
    phase = "done" =>
        \A f \in followed :
            /\ ~InData(Origin(f.site).path)
            /\ Whole(f.target)
            /\ Origin(f.target) \in Meanings(Origin(f.site))

(* The schema objects met one step after s when references are followed:   *)
(* those below it, or what it names and, where they apply, those below its *)
(* siblings.                                                               *)
Following(s) ==
    LET n == NodeAt(s)
        below == {q \in Places : q.doc = s.doc /\ Len(q.path) = Len(s.path) + 1
                                 /\ IsPrefix(s.path, q.path)}
    IN  IF IsRef(n) THEN Meanings(s) \cup (IF input.modern /\ n.extra THEN below ELSE {})
        ELSE below

Beyond(starts) ==
    LET reach[k \in 0 .. Cardinality(Places)] ==
          IF k = 0 THEN starts
          ELSE LET before == reach[k - 1]
               IN  before \cup UNION {Following(s) : s \in before}
    IN  reach[Cardinality(Places)]

(* The document is left alone exactly when replacing its references would  *)
(* never end.  The siblings of an external reference are not scanned:      *)
(* where there are some, only the first half holds.                        *)
ScanFindsCycles ==
    LET cyclic == \E s \in Beyond({Place(NoName, <<>>)}) : s \in Beyond(Following(s))
        unscanned == \E s \in Places : s.doc # NoName /\ IsRef(NodeAt(s)) /\ NodeAt(s).extra
    IN  phase = "done" => /\ recursive => cyclic
                          /\ cyclic => recursive \/ unscanned

(* A reference is left in place only when the query does not say what it   *)
(* names, says it in another dialect, or the reference is part of what it  *)
(* names.                                                                  *)
NothingKnownIsLeft ==
    phase = "done" =>
        \A s \in left : \A t \in Meanings(Origin(s)) :
            \/ NodeAt(t).foreign
            \/ Origin(s) \in Beyond({t})
            \/ Origin(s).doc = t.doc /\ IsPrefix(t.path, Origin(s).path)

(* Preparation ends, whatever the references lead to.                      *)
PreparationEnds == <>(phase = "done")
=============================================================================
