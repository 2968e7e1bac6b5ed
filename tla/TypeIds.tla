------------------------------ MODULE TypeIds -------------------------------
(* The identity of a type definition: its name and a hash of everything it *)
(* refers to in its repository (canonical.rs, closure_id.rs).  References  *)
(* may be circular, so the definitions are condensed into components, each *)
(* hashed after the components it refers to.  A hash is taken to be the    *)
(* value it is a fingerprint of.                                           *)
EXTENDS Naturals, SequencesExt

CONSTANTS Bare,     \* the qualifier of a reference without `::repo`
          Scalars   \* shapes that name no type

\* A graph is a repository's definitions by name.  A definition has parents
\* (a sequence), fields by name, sealed leaves, required metas and a location;
\* references to types are names with a qualifier.
ShapesOf(d)   == {d.fields[f].shape : f \in DOMAIN d.fields}
BareNames(rs) == {r.name : r \in {s \in rs : s.repo = Bare}} \ Scalars

\* canonical_form: parents in no order; the location is left out.
Canonical(d) == [parents |-> Range(d.parents), fields |-> d.fields,
                 sealed |-> d.sealed, required |-> d.required]

\* Mutant of Neighbors: only parents, as an earlier walk had it.
NeighborsByParent(d) == BareNames(Range(d.parents))

\* referenced_neighbors: what a definition refers to in its own repository.
Neighbors(d) == BareNames(Range(d.parents) \cup ShapesOf(d) \cup d.required)

\* Names that resolve to no definition are sinks.
Adjacency(graph) ==
    LET targets == UNION {Neighbors(graph[n]) : n \in DOMAIN graph} IN
    [n \in DOMAIN graph \cup targets |->
        IF n \in DOMAIN graph THEN Neighbors(graph[n]) ELSE {}]

\* tarjan_sccs: strongconnect, one call per vertex not met before.
Lower(st, v, k) == [st EXCEPT !.low[v] = IF k < @ THEN k ELSE @]

RECURSIVE Connect(_, _, _)
Connect(adj, st, v) ==
    LET n    == Cardinality(DOMAIN st.index)
        open == [index |-> (v :> n) @@ st.index, low |-> (v :> n) @@ st.low,
                 stack |-> Append(st.stack, v), sccs |-> st.sccs]
        Visit(s, w) ==
            IF w \notin DOMAIN s.index
            THEN LET t == Connect(adj, s, w) IN Lower(t, v, t.low[w])
            ELSE IF w \in Range(s.stack) THEN Lower(s, v, s.index[w]) ELSE s
        end  == FoldLeft(Visit, open, SetToSeq(adj[v]))
        at   == SelectInSeq(end.stack, LAMBDA w : w = v)
    IN  IF end.low[v] < end.index[v] THEN end
        ELSE [end EXCEPT !.stack = SubSeq(@, 1, at - 1),
                         !.sccs = Append(@, Range(SubSeq(end.stack, at, Len(end.stack))))]

Components(adj) ==
    LET none == [index |-> <<>>, low |-> <<>>, stack |-> <<>>, sccs |-> <<>>]
        Visit(st, v) == IF v \in DOMAIN st.index THEN st ELSE Connect(adj, st, v)
    IN  FoldLeft(Visit, none, SetToSeq(DOMAIN adj)).sccs

\* What the component hash is made of: its members with their own content, and
\* the hashes it refers to outside.
Entry(graph, n) ==
    [name |-> n, def |-> IF n \in DOMAIN graph THEN {Canonical(graph[n])} ELSE {}]
HashComponent(graph, adj, ids, scc) ==
    [local |-> {Entry(graph, n) : n \in scc},
     external |-> {ids[n] : n \in (UNION {adj[m] : m \in scc} \ scc) \cap DOMAIN ids}]

\* compute_closure_ids
ClosureIds(graph) ==
    LET adj == Adjacency(graph)
        Hash(ids, scc) ==
            [n \in scc |-> HashComponent(graph, adj, ids, scc)] @@ ids
    IN  Restrict(FoldLeft(Hash, <<>>, Components(adj)), DOMAIN graph)

-----------------------------------------------------------------------------
(* Walks over references by name.                                          *)

RECURSIVE Reached(_, _)
Reached(adj, from) ==
    LET next == from \cup UNION {adj[n] : n \in from \cap DOMAIN adj}
    IN  IF next = from THEN from ELSE Reached(adj, next)

\* closure_of: a type and its ancestors in its own repository.
ClosureOf(graph, n) ==
    Reached([m \in DOMAIN graph |-> BareNames(Range(graph[m].parents))], {n})

\* The closure an identity stands for, flattened: every definition that can be
\* reached by a parent, a field or a required meta, each with its content.
Signature(graph, n) ==
    LET refs(d) == Range(d.parents) \cup d.required
                   \cup {d.fields[f].shape : f \in DOMAIN d.fields}
        adj == [m \in DOMAIN graph |-> BareNames(refs(graph[m]))]
    IN  {Entry(graph, m) : m \in Reached(adj, {n})}
=============================================================================
