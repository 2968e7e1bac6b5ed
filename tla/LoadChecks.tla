----------------------------- MODULE LoadChecks -----------------------------
(* The load checks that keep a repository with circular parents from       *)
(* validating its instances: the one over a repository's own definitions   *)
(* (check_cycles) and the one over the fold (cross_repo_type_chain_cycles).*)
(* Each walks in depth from every type once, and reports a circle only     *)
(* where a reference leads back into the path it is on.                    *)
EXTENDS TypeFold

CONSTANT MaxDepth     \* MAX_TYPE_CHAIN_DEPTH

\* dfs and cycle_dfs: above gives each vertex the sequence of its parents.
RECURSIVE Walk(_, _, _, _)
Walk(above, st, v, path) ==
    LET back  == SelectInSeq(path, LAMBDA w : w = v)
        Up(s, w) == Walk(above, s, w, Append(path, v))
        end   == FoldLeft(Up, st, above[v])
    IN  IF back # 0 THEN [st EXCEPT !.circles = @ \cup {SubSeq(path, back, Len(path))}]
        ELSE IF v \in st.explored THEN st
        ELSE IF Len(path) >= MaxDepth THEN [st EXCEPT !.deep = @ \cup {Append(path, v)}]
        ELSE [end EXCEPT !.explored = @ \cup {v}]

\* The starts are in the order of the names or of the identities, hashes
\* included: any may be the first.
WalkAll(above, starts, first) ==
    LET Visit(st, v) == Walk(above, st, v, <<>>)
    IN  FoldLeft(Visit, [explored |-> {}, circles |-> {}, deep |-> {}],
                 <<first>> \o SetToSeq(starts \ {first}))

-----------------------------------------------------------------------------
\* Mutant of Local: a peer's type is taken for the own one of its name.
LocalByName(refs) == [i \in DOMAIN refs |-> refs[i].name]

\* The parents the own walk follows.
Local(refs) ==
    LET bare == SelectSeq(refs, LAMBDA r : r.repo = Bare)
    IN  [i \in DOMAIN bare |-> bare[i].name]

\* check_cycles: a parent that is not defined has none, and is not reported.
OwnWalk(first) ==
    LET graph == ws[Own]
        up    == [n \in DOMAIN graph |-> Local(graph[n].parents)]
        none  == [n \in UNION {Range(up[m]) : m \in DOMAIN up} |-> <<>>]
    IN  WalkAll(up @@ none, DOMAIN graph, first)
OwnErrors(first) ==
    LET walk == OwnWalk(first)
    IN  walk.circles \cup {c \in walk.deep : Last(c) \in DOMAIN ws[Own]}

\* emit_cycle, emit_depth_exceeded: not the own graph's, and with an own member
\* to point at.
Anchored(chain) ==
    /\ \E i \in Range(chain) : nodes[i].origin # Bare
    /\ \E i \in Range(chain) : nodes[i].origin = Bare
FoldWalk(first) ==
    WalkAll([i \in DOMAIN nodes |-> nodes[i].parents], DOMAIN nodes, first)
FoldErrors(first) ==
    LET walk == FoldWalk(first)
    IN  {c \in walk.circles \cup walk.deep : Anchored(c)}

-----------------------------------------------------------------------------
\* A repository that owns a type on a circle of parents, its own or through
\* peers, reports it and aborts, whatever type the walks start with; it aborts
\* for no other reason but depth, and every circle reported is one.  A circle
\* of imported types only, with which the walk of the fold may cut the own
\* ones short, is left out.
Leads(c, Up(_)) ==
    \A k \in DOMAIN c : c[IF k = Len(c) THEN 1 ELSE k + 1] \in Up(c[k])
Bases(n) == IF n \in DOMAIN ws[Own] THEN BareNames(Range(ws[Own][n].parents)) ELSE {}
OnCircle(up, v) == v \in Reached(up, up[v])
Imported == [i \in {j \in DOMAIN nodes : nodes[j].origin # Bare} |->
                {j \in Ancestry[i] : nodes[j].origin # Bare}]
Circular == \E j \in DOMAIN nodes : nodes[j].origin = Bare /\ OnCircle(Ancestry, j)
CirclesReported ==
    Complete =>
        /\ \A n \in DOMAIN ws[Own] :
               LET own == OwnWalk(n) IN
               /\ \A c \in own.circles : Leads(c, Bases)
               /\ OwnErrors(n) # {} => Circular \/ own.deep # {}
        /\ \A i \in DOMAIN nodes :
               LET fold == FoldWalk(i) IN
               /\ \A c \in fold.circles : Leads(c, LAMBDA j : Ancestry[j])
               /\ FoldErrors(i) # {} => Circular \/ fold.deep # {}
        /\ Circular => \/ \A n \in DOMAIN ws[Own] : OwnErrors(n) # {}
                       \/ \A i \in DOMAIN nodes : FoldErrors(i) # {}
                       \/ \E j \in DOMAIN Imported : OnCircle(Imported, j)
=============================================================================
