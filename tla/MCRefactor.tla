----------------------------- MODULE MCRefactor -----------------------------
(* A repository m with a host of records, a file to fold in, a note that    *)
(* refers to them in every spelling and a type, and a peer p that refers to *)
(* them across repositories.                                                *)
EXTENDS Refactor, TLC

P(repo, dir, stem, ext) == [repo |-> repo, dir |-> dir, stem |-> stem, ext |-> ext]
h == P("m", "n", "h", "md")
f == P("m", "", "f", "md")
g == P("m", "n", "g", "md")
t == P("m", "", "t", "type")
q == P("p", "", "q", "md")

Rec(in, slot, me, id) == [in |-> in, slot |-> slot, holds |-> [me |-> me, id |-> id]]
L(name, repo, id, ref) ==
    [name |-> name, repo |-> repo, id |-> id, ref |-> ref, head |-> FALSE, pin |-> FALSE]
Ln(in, slot, name, repo, id, ref) == [in |-> in, slot |-> slot, holds |-> L(name, repo, id, ref)]
Claim(in, repo) == [in |-> in, slot |-> "claim", holds |-> [type |-> "t", repo |-> repo]]

Keyed(name, places) == [key \in {<<name, i>> : i \in DOMAIN places} |-> places[key[2]]]
Here == NoRepo

Host == [me |-> "H", body |-> TRUE, places |-> Keyed("h",
    << Rec("H", "amp", "R", "r"),
       Rec("R", "amp", "X", "x"),
       Ln("X", "star", Local, Here, "r", TRUE),
       Ln("R", "star", Local, Here, "s", TRUE),
       Rec("H", "bare", "S", "s"),
       Ln("H", "prose", Local, Here, "r", FALSE),
       Ln("H", "amp", Stem(f), Here, NoId, FALSE),
       Claim("H", Here) >>)]
Folded(body) == [me |-> "F", body |-> body, places |-> Keyed("f",
    << Rec("F", "amp", "Y", "x"),
       Ln("F", "star", Local, Here, "x", TRUE),
       Ln("Y", "star", Stem(f), Here, NoId, FALSE),
       Claim("F", Here) >>)]
Note == Keyed("g",
    << Ln("G", "prose", Full(h), Here, NoId, FALSE),
       Ln("G", "star", Base(h), Here, "x", TRUE),
       Ln("G", "star", DirStem(h), Here, "r", TRUE),
       Ln("G", "star", Base(f), Here, "x", TRUE),
       Ln("G", "prose", Stem(t), Here, NoId, FALSE) >>)
\* References that make a verb refuse, or whose value it moves.
Extra == { << Ln("G", "star", Stem(h), Here, "x", FALSE), Ln("G", "file", Stem(f), Here, NoId, FALSE) >>,
           << Ln("G", "star", Stem(f), Here, "x", FALSE) >>,
           << [Ln("G", "prose", Stem(f), Here, NoId, FALSE) EXCEPT !.holds.head = TRUE] >> }
With(x) == [key \in {<<"g", 5 + i>> : i \in DOMAIN x} |-> x[key[2] - 5]] @@ Note
Peer == [me |-> "Q", body |-> TRUE, places |-> Keyed("q",
    << Ln("Q", "star", Stem(h), "m", "r", TRUE),
       Ln("Q", "star", Stem(f), "m", NoId, FALSE),
       Ln("Q", "prose", Stem(t), "m", NoId, FALSE),
       Claim("Q", "m") >>)]

Files(host, note, body) ==
    (h :> host) @@ (f :> Folded(body)) @@ (q :> Peer)
    @@ (g :> [me |-> "G", body |-> TRUE, places |-> note])
    @@ (t :> [me |-> "T", body |-> FALSE, places |-> <<>>])
Both == {"m", "p"}
Roles == {[editable |-> {"m"}, tracked |-> Both], [editable |-> Both, tracked |-> {"m"}]}
Free == [editable |-> Both, tracked |-> Both]
\* A host that refers to a record of the file rather than to the file, and to its
\* own record r by one reference that is not pinned yet.
Pointing == [Host EXCEPT !.places[<<"h", 7>>].holds.id = "x", !.places[<<"h", 7>>].holds.ref = TRUE,
                         !.places[<<"h", 3>>].holds.pin = TRUE]
MCWorkspaces ==
    {[files |-> Files(Host, Note, FALSE), roles |-> Free],
     [files |-> Files(Pointing, Note, FALSE), roles |-> Free]}
    \cup {[files |-> Files(Host, With(x), FALSE), roles |-> Free] : x \in Extra}
    \cup {[files |-> Files(Host, Note, TRUE), roles |-> r] : r \in Roles}

\* New names, names others bear, and files that are there already.
NewFile(stem) == P("m", "n", stem, "md")
k == NewFile("k")
MCRequests ==
    {[verb |-> "rename", path |-> h, to |-> to] : to \in {k, P("m", "", "h", "md"), g}}
    \cup {[verb |-> "rename", path |-> f, to |-> to] : to \in {k, NewFile("t"), P("p", "", "k", "md")}}
    \cup {[verb |-> "promote", path |-> h, key |-> <<"h", 1>>, to |-> to] :
              to \in {k, NewFile("f"), P("m", "", "h", "md"), f}}
    \cup {[verb |-> "promote", path |-> h, key |-> <<"h", i>>, to |-> k] : i \in {2, 5}}
    \cup {[verb |-> "inline", path |-> p[1], to |-> h, key |-> <<"h", p[2]>>] :
              p \in {<<f, 7>>, <<k, 1>>, <<k, 2>>, <<k, 7>>}}
    \cup {[verb |-> "rename_block_id", path |-> p, id |-> "x", new |-> "z"] : p \in {h, f}}
    \cup {[verb |-> "rename_block_id", path |-> h, id |-> "r", new |-> n] : n \in {"x", "z"}}
    \cup {[verb |-> "rename_type", path |-> t, new |-> n] : n \in {"u", "h", "t"}}

MCPenned == {<<"e", "H">>, <<"e", "G">>, <<"q", 1>>, <<"h", 6>>}
MCJotted == L(Stem(h), Here, NoId, FALSE)

ASSUME Tidy
=============================================================================
