------------------------------- MODULE Deltas --------------------------------
(***************************************************************************)
(* What a subscription projects from a knowledge base, and the net change  *)
(* it reports between two such projections (au-engine/src/serve.rs).       *)
(*                                                                         *)
(* A knowledge base is what each path holds; a path is a number, so that   *)
(* paths have an order to sort by.  Meaning[c] is all that the projections *)
(* read in a file of content c.  Paths and names in a frame stand for what *)
(* a client reads under them at the frame's version: a delta therefore     *)
(* carries the entries it names (put) and the names it drops (gone).       *)
(***************************************************************************)
EXTENDS Integers, Sequences, FiniteSets

CONSTANTS
    Files,     \* paths of the workspace
    Contents,  \* distinct contents of a file
    Meaning    \* what the projections read in a content

Gone     == "gone"      \* no such file
NoHash   == "noHash"    \* the hash of a file the build does not read
Surfaces == {0, 1, 2}   \* body, docstring and frontmatter, in wire order

\* An instance has links and claims, a type definition parents and fields; a
\* link is [to, surface, slot], slot telling whether it fills a typed slot.
FileMeaning ==
    [kind : {"instance", "typedef", "asset", "config"},
     links : Seq([to : Files, surface : Surfaces, slot : BOOLEAN]),
     supers : SUBSET Files, fields : Seq(Files), claims : SUBSET Files]

ASSUME DeltasAssumption ==
    /\ Files \subseteq Nat /\ IsFiniteSet(Files)
    /\ Gone \notin Contents /\ NoHash \notin Contents
    /\ Meaning \in [Contents -> FileMeaning]

KnowledgeBases == [Files -> Contents \cup {Gone}]

Catalog(base) == {f \in Files : base[f] # Gone}
Of(base, f)   == Meaning[base[f]]
TypeDefFiles(base) == {f \in Catalog(base) : Of(base, f).kind = "typedef"}

-----------------------------------------------------------------------------
(* Projections.                                                            *)

\* Every path and its content hash; an asset has none.
FilesSnapshot(base) ==
    [f \in Catalog(base) |-> IF Of(base, f).kind = "asset" THEN NoHash ELSE base[f]]

\* A type's introspection holds what it inherits, so it changes with any of
\* the types it descends from.
Introspection(base) ==
    LET types == TypeDefFiles(base)
        above[n \in 0..Cardinality(Files)] ==
            IF n = 0 THEN [f \in types |-> {f}]
            ELSE [f \in types |->
                    above[n - 1][f] \cup
                    UNION {above[n - 1][p] : p \in Of(base, f).supers \cap types}]
    IN  [f \in types |->
            {<<a, base[a]>> : a \in above[Cardinality(Files)][f]}]

TypesSnapshot(base) == Introspection(base)

\* The diagnostics of each file that has any: here its dangling links.
DiagnosticsSnapshot(base) ==
    LET broken(f) == {i \in DOMAIN Of(base, f).links :
                        Of(base, f).links[i].to \notin Catalog(base)}
    IN  [f \in {g \in Catalog(base) : broken(g) # {}} |-> broken(f)]

\* is_graph_node_kind: the workspace's own configuration is no node.
GraphNodes(base) == {f \in Catalog(base) : Of(base, f).kind # "config"}

\* coarse_edge_kind: contributing 0, field 1, navigational 2, in wire order.
EdgeKind(link) ==
    IF link.surface = 2 THEN 1
    ELSE IF link.surface = 0 /\ link.slot THEN 0 ELSE 2

EdgeOf(f, link) == <<f, link.to, EdgeKind(link), link.surface>>

\* Lexicographic order of two edges.
Precedes(a, c) ==
    \E i \in 1..4 : a[i] < c[i] /\ \A j \in 1..(i - 1) : a[j] = c[j]

\* The references whose two ends are both nodes: <<source, position>>.
Resolved(base) ==
    {r \in {<<f, i>> : f \in GraphNodes(base),
                       i \in UNION {DOMAIN Meaning[c].links : c \in Contents}} :
        /\ r[2] \in DOMAIN Of(base, r[1]).links
        /\ Of(base, r[1]).links[r[2]].to \in GraphNodes(base)}

LinkOf(base, r) == Of(base, r[1]).links[r[2]]

\* Sorted by edge; equal edges stay as many as they are.
SortedEdges(base) ==
    LET refs == Resolved(base)
        edge(r) == EdgeOf(r[1], LinkOf(base, r))
        below(r) == {q \in refs : \/ Precedes(edge(q), edge(r))
                                  \/ edge(q) = edge(r) /\ q[2] < r[2]}
    IN  [n \in 1..Cardinality(refs) |->
            edge(CHOOSE r \in refs : Cardinality(below(r)) = n - 1)]

\* link_graph_view, over the whole workspace.
LinkGraphView(base) ==
    LET into(f) == {r \in Resolved(base) : LinkOf(base, r).to = f}
    IN  [nodes |-> [f \in GraphNodes(base) |->
                        [kind |-> Of(base, f).kind,
                         structural |-> Cardinality({r \in into(f) :
                                                        LinkOf(base, r).slot}),
                         total |-> Cardinality(into(f))]],
         edges |-> SortedEdges(base)]

\* Instances that claim a type.
Claimers(base) == {f \in Catalog(base) :
    /\ Of(base, f).kind = "instance"
    /\ Of(base, f).claims \cap TypeDefFiles(base) # {}}

\* type_graph_edges with every edge class: an edge and how often it is drawn.
TypeGraphEdges(base) ==
    LET types == TypeDefFiles(base)
        uses(f, g) == {i \in DOMAIN Of(base, f).fields : Of(base, f).fields[i] = g}
        subtype == {<<f, g, "subtype">> : f \in types, g \in types}
        field   == {<<f, g, "field-type">> : f \in types, g \in types}
        claim   == {<<f, g, "instance-of">> : f \in Claimers(base), g \in types}
        count(e) == CASE e[3] = "subtype" ->
                            IF e[2] \in Of(base, e[1]).supers THEN 1 ELSE 0
                      [] e[3] = "field-type" -> Cardinality(uses(e[1], e[2]))
                      [] e[3] = "instance-of" ->
                            IF e[2] \in Of(base, e[1]).claims THEN 1 ELSE 0
    IN  [e \in {x \in subtype \cup field \cup claim : count(x) > 0} |-> count(e)]

TypeGraphView(base) ==
    [nodes |-> [f \in TypeDefFiles(base) \cup Claimers(base) |-> Of(base, f).kind],
     edges |-> TypeGraphEdges(base)]

-----------------------------------------------------------------------------
(* Deltas: from the projection last reported to the current one.           *)

Restricted(m, keys) == [k \in keys |-> m[k]]

Changed(old, new) == {k \in DOMAIN old \cap DOMAIN new : old[k] # new[k]}

\* Mutant of FilesDelta: a path that is new is added, one that is there stays.
FilesDeltaByPath(old, new) ==
    [put |-> Restricted(new, DOMAIN new \ DOMAIN old),
     gone |-> DOMAIN old \ DOMAIN new]

FilesDelta(old, new) ==
    [put |-> Restricted(new, (DOMAIN new \ DOMAIN old) \cup Changed(old, new)),
     gone |-> DOMAIN old \ DOMAIN new]

\* run_files compares the paths alone.
PathsDelta(old, new) ==
    [put |-> Restricted(new, DOMAIN new \ DOMAIN old),
     gone |-> DOMAIN old \ DOMAIN new]

TypesDelta(old, new) ==
    [put |-> Restricted(new, (DOMAIN new \ DOMAIN old) \cup Changed(old, new)),
     gone |-> DOMAIN old \ DOMAIN new]

\* changed_files: changed, added or cleared, all under one list of names; a
\* client reads each again and finds the cleared ones empty.
ChangedFiles(old, new) ==
    {f \in DOMAIN new : f \notin DOMAIN old \/ old[f] # new[f]}
      \cup (DOMAIN old \ DOMAIN new)

DiagnosticsDelta(old, new) ==
    LET names == ChangedFiles(old, new)
    IN  [put |-> Restricted(new, names \cap DOMAIN new),
         gone |-> names \ DOMAIN new]

\* Mutant of EdgeMultisetDiff: how often an edge occurs is lost.
EdgeSetDiff(old, new) ==
    LET in(s, e) == \E i \in DOMAIN s : s[i] = e
    IN  [added   |-> SelectSeq(new, LAMBDA e : ~in(old, e)),
         removed |-> SelectSeq(old, LAMBDA e : ~in(new, e))]

\* edge_multiset_diff: a merge walk over two sorted lists.
EdgeMultisetDiff(old, new) ==
    LET walk[p \in (1..(Len(old) + 1)) \X (1..(Len(new) + 1))] ==
          LET i == p[1]
              j == p[2]
          IN  IF i > Len(old)
              THEN [added |-> SubSeq(new, j, Len(new)), removed |-> <<>>]
              ELSE IF j > Len(new)
              THEN [added |-> <<>>, removed |-> SubSeq(old, i, Len(old))]
              ELSE IF Precedes(old[i], new[j])
              THEN [walk[<<i + 1, j>>] EXCEPT !.removed = <<old[i]>> \o @]
              ELSE IF Precedes(new[j], old[i])
              THEN [walk[<<i, j + 1>>] EXCEPT !.added = <<new[j]>> \o @]
              ELSE walk[<<i + 1, j + 1>>]
    IN  walk[<<1, 1>>]

LinkGraphDelta(old, new) ==
    [put  |-> Restricted(new.nodes, (DOMAIN new.nodes \ DOMAIN old.nodes)
                                      \cup Changed(old.nodes, new.nodes)),
     gone |-> DOMAIN old.nodes \ DOMAIN new.nodes,
     edges |-> EdgeMultisetDiff(old.edges, new.edges)]

\* An edge whose count changed is added again under its key.
TypeGraphDelta(old, new) ==
    [put  |-> Restricted(new.nodes, (DOMAIN new.nodes \ DOMAIN old.nodes)
                                      \cup Changed(old.nodes, new.nodes)),
     gone |-> DOMAIN old.nodes \ DOMAIN new.nodes,
     edges |-> [added |-> Restricted(new.edges,
                             (DOMAIN new.edges \ DOMAIN old.edges)
                               \cup Changed(old.edges, new.edges)),
                removed |-> DOMAIN old.edges \ DOMAIN new.edges]]

MapDeltaEmpty(d) == d.put = <<>> /\ d.gone = {}

-----------------------------------------------------------------------------
(* What a client makes of a delta.                                         *)

ApplyMap(held, put, gone) ==
    [k \in (DOMAIN held \ gone) \cup DOMAIN put |->
        IF k \in DOMAIN put THEN put[k] ELSE held[k]]

\* How often each edge occurs in a list.
Tally(edges) ==
    [e \in {edges[i] : i \in DOMAIN edges} |->
        Cardinality({i \in DOMAIN edges : edges[i] = e})]

Times(tally, e) == IF e \in DOMAIN tally THEN tally[e] ELSE 0

\* Add the edges a frame adds and take away those it removes.
ApplyTally(held, added, removed) ==
    LET count(e) == (Times(held, e) + Times(Tally(added), e))
                      - Times(Tally(removed), e)
        known == DOMAIN held \cup DOMAIN Tally(added) \cup DOMAIN Tally(removed)
    IN  [e \in {x \in known : count(x) # 0} |-> count(e)]
=============================================================================
