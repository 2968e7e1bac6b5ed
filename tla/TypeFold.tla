------------------------------ MODULE TypeFold ------------------------------
(* One repository's vocabulary across repositories: its own definitions    *)
(* and those of the peers it imports, folded into one graph whose nodes    *)
(* are identities (resolution.rs, resolution_build.rs), and the shape and  *)
(* location an instance must have, over that graph or over the own one     *)
(* (closure.rs, location_check.rs).                                        *)
EXTENDS TypeIds

CONSTANTS Own,     \* the repository whose instances are validated
          Peers,   \* the others, in lexicographic order
          Cases    \* workspaces, with the claims that seed the fold

VARIABLES ws,      \* the graph of each mounted repository
          ids,     \* the closure ids of each graph, memoized when it is built
          seeds,   \* the `::repo` claims of the instances of Own
          extra,   \* the seeds of a fold extended for one use
          folded,  \* whether Own has a resolution graph
          nodes, forms, work   \* the graph and the worklist that builds it

vars == <<ws, ids, seeds, extra, folded, nodes, forms, work>>

Nowhere == "nowhere"

\* The repository a reference made in repo leads to.
Home(repo, ref) == IF ref.repo = Bare THEN repo ELSE ref.repo
Target(repo, ref) == [name |-> ref.name, repo |-> Home(repo, ref)]

\* graph_of and id_in: a reference to a repository that is not mounted, or to
\* a name it does not define, leads nowhere.
Found(t) == t.repo \in DOMAIN ids /\ t.name \in DOMAIN ids[t.repo]
IdIn(t)  == [name |-> t.name, hash |-> ids[t.repo][t.name]]
DefOf(t) == ws[t.repo][t.name]

Parents(t)  == [i \in DOMAIN DefOf(t).parents |-> Target(t.repo, DefOf(t).parents[i])]
Sealed(t)   == {[name |-> s, repo |-> t.repo] : s \in DefOf(t).sealed}
Required(t) == {Target(t.repo, r) : r \in DefOf(t).required}
IdsOf(ts)   == {IdIn(t) : t \in {u \in ts : Found(u)}}

\* The authored form of a repository, as seen from Own.
Origin(repo) == IF repo = Own THEN Bare ELSE repo

\* Mutant of QualifiedTo: own names are qualified too.
QualifiedToAny(repo, d) ==
    [f \in DOMAIN d.fields |->
        LET s == d.fields[f].shape IN
        IF s.repo = Bare /\ s.name \notin Scalars
        THEN [d.fields[f] EXCEPT !.shape.repo = repo] ELSE d.fields[f]]

\* qualified_to: a peer's bare names are the peer's own types.
QualifiedTo(repo, d) ==
    [f \in DOMAIN d.fields |->
        LET s == d.fields[f].shape IN
        IF repo # Own /\ s.repo = Bare /\ s.name \notin Scalars
        THEN [d.fields[f] EXCEPT !.shape.repo = repo] ELSE d.fields[f]]

Node(t) == [origin |-> Origin(t.repo), fields |-> QualifiedTo(t.repo, DefOf(t)),
            parents |-> [i \in DOMAIN SelectSeq(Parents(t), Found) |->
                           IdIn(SelectSeq(Parents(t), Found)[i])],
            sealed |-> IdsOf(Sealed(t)),
            required |-> IdsOf(Required(t)), location |-> DefOf(t).location]

-----------------------------------------------------------------------------
(* drain_worklist: the last target pushed is taken first.                  *)

\* The forms t is written as; an own type may also be qualified by its own
\* repository.
FormsOf(t) == {[name |-> t.name, repo |-> r] :
                  r \in {Origin(t.repo)} \cup (IF t.repo = Own THEN {Own} ELSE {})}

\* Mutant of Register: the guard against folding twice comes first.
RegisterNew(t) ==
    forms' = IF IdIn(t) \in DOMAIN nodes THEN forms
             ELSE forms @@ [a \in FormsOf(t) |-> IdIn(t)]

Register(t) == forms' = forms @@ [a \in FormsOf(t) |-> IdIn(t)]

Top == work[Len(work)]

LeadsNowhere ==
    /\ work # <<>> /\ ~Found(Top)
    /\ work' = Front(work)
    /\ UNCHANGED <<ws, ids, seeds, extra, folded, nodes, forms>>

\* Known by another form or reached again: registered, not folded twice.
FoldedBefore ==
    /\ work # <<>> /\ Found(Top) /\ IdIn(Top) \in DOMAIN nodes
    /\ Register(Top)
    /\ work' = Front(work)
    /\ UNCHANGED <<ws, ids, seeds, extra, folded, nodes>>

FoldNode ==
    /\ work # <<>> /\ Found(Top) /\ IdIn(Top) \notin DOMAIN nodes
    /\ Register(Top)
    /\ nodes' = (IdIn(Top) :> Node(Top)) @@ nodes
    /\ work' = Front(work) \o SelectSeq(Parents(Top), Found)
               \o SelectSeq(SetToSeq(Sealed(Top)), Found)
               \o SelectSeq(SetToSeq(Required(Top)), Found)
    /\ UNCHANGED <<ws, ids, seeds, extra, folded>>

-----------------------------------------------------------------------------
\* build_resolution_graphs_from: a repository is folded if it imports by an
\* instance claim or by a parent.
Imports(w, claims) ==
    \/ claims # <<>>
    \/ \E n \in DOMAIN w[Own] : \E p \in Range(w[Own][n].parents) : p.repo # Bare

\* fold: the own definitions, then the seeds.
OwnTargets(w) ==
    LET names == SetToSeq(DOMAIN w[Own])
    IN  [i \in DOMAIN names |-> [name |-> names[i], repo |-> Own]]

Init ==
    \E c \in Cases :
        /\ ws = c.ws /\ seeds = c.seeds /\ extra = <<>>
        /\ ids = [r \in DOMAIN c.ws |-> ClosureIds(c.ws[r])]
        /\ folded = Imports(c.ws, c.seeds)
        /\ nodes = <<>> /\ forms = <<>>
        /\ work = IF Imports(c.ws, c.seeds) THEN OwnTargets(c.ws) \o c.seeds ELSE <<>>

\* A use names a peer's type that no file imports: the fold is extended, or
\* made if there is none (extend_resolution_graph, fold_repo_with_seeds).
Extend ==
    /\ work = <<>> /\ extra = <<>>
    /\ \E p \in Range(Peers) \cap DOMAIN ws : \E n \in DOMAIN ws[p] :
           extra' = <<[name |-> n, repo |-> p]>>
    /\ work' = IF folded THEN extra' ELSE OwnTargets(ws) \o extra'
    /\ folded' = TRUE
    /\ UNCHANGED <<ws, ids, seeds, nodes, forms>>

Next == LeadsNowhere \/ FoldedBefore \/ FoldNode \/ Extend
Spec == Init /\ [][Next]_vars

-----------------------------------------------------------------------------
(* What an instance that makes a set of claims must look like: for each    *)
(* field, who declares it and how.                                         *)

\* effective_shape: over the own graph; qualified claims contribute nothing.
OwnClosure(claims) ==
    UNION {ClosureOf(ws[Own], n) : n \in BareNames(claims)} \cap DOMAIN ws[Own]
Declared(f, n) == [as |-> [name |-> n, repo |-> Bare], decl |-> ws[Own][n].fields[f]]
EffectiveShape(claims) ==
    LET types  == OwnClosure(claims)
        fields == UNION {DOMAIN ws[Own][n].fields : n \in types}
    IN  [f \in fields |->
            {Declared(f, n) : n \in {m \in types : f \in DOMAIN ws[Own][m].fields}}]

\* folded_closure_ids: over the resolution graph.
Ancestry == [i \in DOMAIN nodes |-> Range(nodes[i].parents)]
FoldedClosure(claims) ==
    Reached(Ancestry,
            {forms[c] : c \in claims \cap DOMAIN forms})

\* shapes_token_equal: optional or not makes no difference.
TokenEqual(entries) == \A e, g \in entries : e.decl.shape = g.decl.shape

\* Of several identities of one name that agree, the first in lexicographic
\* order of their forms represents the others.
Rank(repo) == IF repo = Bare THEN 0 ELSE SelectInSeq(Peers, LAMBDA p : p = repo)
Representative(entries) ==
    {CHOOSE e \in entries : \A g \in entries : Rank(e.as.repo) <= Rank(g.as.repo)}


Entries(f, types) ==
    {[as |-> [name |-> i.name, repo |-> nodes[i].origin], decl |-> nodes[i].fields[f]] :
        i \in {j \in types : f \in DOMAIN nodes[j].fields}}
ByName(entries) == {{e \in entries : e.as.name = g.as.name} : g \in entries}

\* Identities of one name that disagree are all kept.
Kept(entries) == IF TokenEqual(entries) THEN Representative(entries) ELSE entries

\* effective_shape_resolved
EffectiveShapeResolved(claims) ==
    LET types  == FoldedClosure(claims)
        fields == UNION {DOMAIN nodes[i].fields : i \in types}
    IN  [f \in fields |-> UNION {Kept(es) : es \in ByName(Entries(f, types))}]

\* effective_locations: a declaration closer to the claim overrides.
OwnLocations(claims) ==
    LET located == {n \in OwnClosure(claims) : ws[Own][n].location # Nowhere}
    IN  {ws[Own][n].location :
            n \in {m \in located : \A k \in located \ {m} : m \notin ClosureOf(ws[Own], k)}}
FoldedLocations(claims) ==
    LET located   == {i \in FoldedClosure(claims) : nodes[i].location # Nowhere}
        Above(i)  == Reached(Ancestry, {i})
    IN  {nodes[i].location :
            i \in {j \in located : \A k \in located \ {j} : j \notin Above(k)}}

\* check_redundant_claims: the claims that another implies, over the own graph
\* and over the resolution graph.
Redundant(claims) ==
    {c \in claims : \E d \in claims \ {c} :
        c.name \in ClosureOf(ws[Own], d.name) \cap DOMAIN ws[Own]}
RedundantResolved(claims) ==
    {c \in claims \cap DOMAIN forms : \E d \in claims \cap DOMAIN forms :
        forms[d] # forms[c] /\ forms[c] \in FoldedClosure({d})}

-----------------------------------------------------------------------------
(* Properties.                                                             *)

\* The identity of a type is that of its flattened closure, across all
\* repositories and through circular references: two types have one hash
\* exactly when the definitions they lead to have the same names and content.
\* So a divergence anywhere below a type is seen.
Defined == {[name |-> n, repo |-> r] : r \in DOMAIN ws, n \in UNION {DOMAIN ws[r] : r \in DOMAIN ws}}
IdsMatchSignatures ==
    nodes = <<>> =>
        \A t, u \in {d \in Defined : Found(d)} :
            ids[t.repo][t.name] = ids[u.repo][u.name]
            <=> Signature(ws[t.repo], t.name) = Signature(ws[u.repo], u.name)

\* The fold, made at once or extended later, holds exactly the identities that
\* can be reached from the own types and the seeds by parents, sealed leaves
\* and required metas, across repositories that refer to each other in a
\* circle; and every claim that seeds it resolves.
Complete == folded /\ work = <<>>
Asked    == {t \in Range(OwnTargets(ws) \o seeds \o extra) : Found(t)}
Edges    == [t \in {d \in Defined : Found(d)} |->
                {u \in Range(Parents(t)) \cup Sealed(t) \cup Required(t) : Found(u)}]
FoldIsClosure ==
    Complete =>
        /\ DOMAIN nodes = IdsOf(Reached(Edges, Asked))
        /\ \A i \in DOMAIN nodes :
               Ancestry[i] \cup nodes[i].sealed \cup nodes[i].required
               \subseteq DOMAIN nodes
        /\ \A t \in Asked : \A a \in FormsOf(t) :
               a \in DOMAIN forms /\ forms[a] = IdIn(t)

\* For an instance that claims own types, whose ancestors are all own, the
\* paths over the resolution graph and over the own graph agree.  On where it
\* may be placed:
Claims == {{[name |-> m, repo |-> Bare], [name |-> n, repo |-> Bare]} :
              m, n \in DOMAIN ws[Own]}
AllOwn(claims) ==
    \A n \in OwnClosure(claims) : \A p \in Range(ws[Own][n].parents) : p.repo = Bare
OwnPlacesAgree ==
    Complete => \A claims \in {cs \in Claims : AllOwn(cs)} :
                    OwnLocations(claims) = FoldedLocations(claims)

\* And on which of its claims are redundant, on the fields it is asked for, who
\* declares each, and how: importing a peer changes nothing for it.
OwnClaimsAgree ==
    /\ OwnPlacesAgree
    /\ Complete => \A claims \in {cs \in Claims : AllOwn(cs)} :
                       /\ Redundant(claims) = RedundantResolved(claims)
                       /\ EffectiveShape(claims) = EffectiveShapeResolved(claims)

\* Whatever own and peer types an instance mixes, each shape that one of them
\* gives a field is among the field's origins, so a bare use of a field they
\* disagree on collides: no identity hides another of its name.
DivergenceKept ==
    Complete =>
        \A c, d \in DOMAIN forms :
            LET types == FoldedClosure({c, d})
                shape == EffectiveShapeResolved({c, d})
            IN  \A f \in DOMAIN shape :
                    {e.decl.shape : e \in shape[f]}
                    = {e.decl.shape : e \in Entries(f, types)}
=============================================================================
