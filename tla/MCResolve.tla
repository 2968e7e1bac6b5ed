------------------------------ MODULE MCResolve -------------------------------
(* A small world of packages for Resolve. *)
EXTENDS Resolve

CONSTANTS me, other, ws, a1, a2, b1, x1

Src(remote, ref) == <<remote, ref>>
Dep(n, remote, ref, path) ==
    [name |-> n, remote |-> remote, ref |-> ref, path |-> path]

MCSources == {Src("ra", "main"), Src("ra", "v2"), Src("rb", "main"),
              Src("rx", "main")}
MCShas == {a1, a2, b1, x1}
MCTips == [s \in MCSources |->
    CASE s = Src("ra", "main") -> {a1, a2}
      [] s = Src("ra", "v2")   -> {a2}
      [] s = Src("rb", "main") -> {b1}
      [] OTHER                 -> {x1}]

A  == Dep("a", "ra", "main", None)
A2 == Dep("a", "ra", "v2", None)
AX == Dep("a", "rx", "main", None)
XE == Dep("x", "rx", "main", "escape")
B  == Bare("b")
M  == Bare("m")

\* a and b depend on each other as long as ra's main is at a1.
MCPeers == [c \in MCShas |->
    CASE c = a1 -> {B} [] c = b1 -> {A, M} [] OTHER -> {}]
MCRegistry == [n \in {"b"} |->
    [remote |-> "rb", ref |-> "main", path |-> None]]
MCDeclarations == [m \in {"e", "m"} |->
    IF m = "e" THEN {{}, {A}, {B, XE}, {A, M}} ELSE {{}, {A2}, {AX}, {B}}]
MCDiscovers == {{}, {"b"}}
=============================================================================
