--------------------------- MODULE MCIncremental ---------------------------
(***************************************************************************)
(* A target t.md and what shadows it (T.md, t.png), a source s.md in the   *)
(* same repo, one in a peer repo, and a type definition that documents T.  *)
(***************************************************************************)
EXTENDS Incremental

\* "none", or the one kind of content added that the splice does not follow.
CONSTANT Widened

MCPaths == {"t", "T", "png", "s", "q", "y"}
At(repo, dir, name, stem) == [repo |-> repo, dir |-> dir, name |-> name, stem |-> stem]
MCFile == [t   |-> At("own", "d", "t.md", "t"),
           T   |-> At("own", "e", "T.md", "T"),
           png |-> At("own", "e", "t.png", "t"),
           s   |-> At("own", "e", "s.md", "s"),
           q   |-> At("peer", "e", "q.md", "q"),
           y   |-> At("own", "e", "A.type.yaml", "A.type")]
MCLower == [n \in {"t.md", "t", "t.png", "s.md", "s", "q.md", "q", "A.type.yaml",
                   "A.type", "T.md", "T"} |->
              CASE n = "T.md" -> "t.md" [] n = "T" -> "t" [] OTHER -> n]
MCDotted == {"t.md", "T.md", "t.png", "s.md"}
              \cup IF Widened = "dotted" THEN {"t"} ELSE {}
MCTwins == IF Widened = "twins" THEN {"A"} ELSE {}
MCUnreadable == Widened = "unreadable"
MCAlias == [y |-> "A"]
MCAncestors == [A |-> {"A"}, B |-> {"A", "B"}]
MCRepos == {"own", "peer"}

Link(repo, dir, name, slot, frag) ==
  [repo |-> repo, dir |-> dir, name |-> name, slot |-> slot, frag |-> frag]
Claim(type, repo) == [name |-> type, repo |-> repo]
Parse(kind, claims, block, links) ==
  [kind |-> kind, claims |-> claims, block |-> block, links |-> links]

OwnA == {Claim("A", "own")}
Slotted == Link("own", "none", "t", TRUE, "none")
Prose == Link("own", "none", "t", FALSE, "none")
Pull == Link("own", "d", "t", TRUE, "referent")
Into(repo, slot) == Link(repo, "none", "t.md", slot, "none")
Bare(kind) == Parse(kind, {}, "plain", {})

\* prose:   [[t^id]] outside a slot     slotted: [[t^id]] in a typed slot
\* anchor:  [[t#head]] in a typed slot   broken:  links of a claim that broke
\* pulled:  t itself breaks              dotted:  [[d/t]] with a stem like v1.2
\* twins:   an import in sync with an own type
\* unreadable: a new file that cannot be read
Wider ==
  CASE Widened = "prose" ->
         {Parse("instance", OwnA, "plain", {Link("own", "none", "t", FALSE, "block")})}
    [] Widened = "slotted" ->
         {Parse("instance", OwnA, "plain", {Link("own", "none", "t", TRUE, "block")})}
    [] Widened = "anchor" ->
         {Parse("instance", OwnA, "plain", {Link("own", "none", "t", TRUE, "anchor")})}
    [] Widened = "broken" -> {Parse("broken", {}, "plain", {Prose})}
    [] Widened = "dotted" -> {Parse("instance", OwnA, "plain", {Pull})}
    [] OTHER -> {}

MCContents ==
  [t   |-> {Parse("instance", OwnA, "typed", {}),
            Parse("instance", {Claim("B", "own")}, "typed", {}),
            Parse("instance", OwnA, "plain", {}),
            Bare("note"), Bare("unread")}
            \cup IF Widened = "pulled" THEN {Bare("broken")} ELSE {},
   T   |-> {Bare("note")},
   png |-> {Bare("asset")},
   s   |-> {Parse("instance", OwnA, "plain", {Slotted}),
            Parse("instance", {Claim("A", "peer")}, "plain", {Prose, Pull}),
            Parse("note", {}, "plain", {Prose}), Bare("broken"), Bare("large")}
           \cup Wider,
   q   |-> {Parse("instance", OwnA, "plain", {Into("own", TRUE)}),
            Parse("note", {}, "plain", {Into("own", FALSE)})},
   y   |-> {Parse("typedef", {}, "plain", {Link("own", "none", "T.md", FALSE, "none")})}]
=============================================================================
