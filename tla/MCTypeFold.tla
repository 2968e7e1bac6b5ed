----------------------------- MODULE MCTypeFold -----------------------------
(* Small workspaces for TypeFold: an own repository and two peers.         *)
EXTENDS LoadChecks

\* Whether an imported peer may hold a copy of an own type.
CONSTANT Twins

R(n)     == [name |-> n, repo |-> Bare]
P(n, r)  == [name |-> n, repo |-> r]
PeerOrder == <<"p", "q">>

Of(s)    == "x" :> [shape |-> s, optional |-> FALSE]
Def      == [parents |-> <<>>, fields |-> <<>>, sealed |-> {}, required |-> {},
             location |-> Nowhere]
Ext(ps)  == [Def EXCEPT !.parents = ps]
Has(fs)  == [Def EXCEPT !.fields = fs]
At(d, l) == [d EXCEPT !.location = l]

OwnA == {Has(Of(R("int"))), Ext(<<R("b")>>), At(Ext(<<R("b"), P("b", "p")>>), "here"),
         Has(Of(R("b"))), At(Has(Of(P("b", "p"))), "here"),
         [Def EXCEPT !.required = {R("b"), P("b", "q")}],
         [Ext(<<P("b", "q")>>) EXCEPT !.sealed = {"b"}]}
OwnB == {At(Has(Of(R("int"))), "there"), Has("x" :> [shape |-> R("int"), optional |-> TRUE]),
         Has(Of(R("a"))), At(Ext(<<R("a")>>), "there")}
PeerA == {Has(Of(R("int"))), Ext(<<R("b")>>), Has(Of(R("b"))),
          [Ext(<<R("b"), P("b", "own")>>) EXCEPT !.sealed = {"b"}]}
PeerB == {Has(Of(R("int"))), Has(Of(R("a"))), Has(Of(R("str"))), Ext(<<P("b", "q")>>),
          Has(Of(R("c"))), At(Ext(<<R("c")>>), "there")}
PeerC == {Has(Of(R("a"))), At(Has(Of(R("b"))), "here")}
ThirdB == {Has(Of(R("str"))), Ext(<<P("a", "p")>>)}

Seeds == {<<>>, <<P("a", "p")>>, <<P("b", "q"), P("b", "p")>>,
          <<P("a", "own"), P("a", "gone")>>}

Graphs  == {"a" :> a : a \in OwnA} \cup {("a" :> a) @@ ("b" :> b) : a \in OwnA, b \in OwnB}
PGraphs == {("a" :> a) @@ ("b" :> b) : a \in PeerA, b \in PeerB}
           \cup {("a" :> a) @@ ("b" :> b) @@ ("c" :> c) :
                    a \in PeerA, b \in PeerB, c \in PeerC}
Worlds  == {("own" :> g) @@ ("p" :> p) : g \in Graphs, p \in PGraphs}
           \cup {("own" :> g) @@ ("p" :> p) @@ ("q" :> ("b" :> b)) :
                    g \in Graphs, p \in PGraphs, b \in ThirdB}

\* An own type and a peer's of one name and one identity.
Twin(w) ==
    \E r \in DOMAIN w \ {Own} : \E n \in DOMAIN w[r] \cap DOMAIN w[Own] :
        ClosureIds(w[r])[n] = ClosureIds(w[Own])[n]

MCCases ==
    IF Twins THEN {[ws |-> w, seeds |-> s] : w \in Worlds, s \in Seeds \ {<<>>}}
    ELSE {[ws |-> w, seeds |-> s] : w \in {v \in Worlds : ~Twin(v)}, s \in Seeds}
=============================================================================
