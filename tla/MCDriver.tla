------------------------------- MODULE MCDriver ------------------------------
(* Two source files and a library under a choice of command lines. *)
EXTENDS Driver

On(f) == Arg("on", <<"F", f>>)
Off(f) == Arg("off", <<"F", f>>)
File(p) == Arg("file", p)
Std(s) == Arg("std", s)
Lib(l) == Arg("lib", l)

(* -lm and -lmath both find the library lib.b. *)
MCLibraries == [l \in {"m", "math"} |-> "lib.b"]

(* What files may hold. *)
Codes == {Code("typed"), Code("continue")}
Switches == {Directive(<<a>>) : a \in {On("typed"), Off("typed"), On("continue"), Off("continue")}}
Others == {Code("c-comments"), Directive(<<On("no-directives")>>), Directive(<<Lib("m"), Lib("math")>>),
           Directive(<<Arg("off", <<"W", "type">>)>>),
           Directive(<<Arg("link", "-s"), Off("extrn"), Arg("compiler", <<"-lc">>)>>)}

UpTo(S, n) == UNION {[1 .. k -> S] : k \in 0 .. n}

Tree(a, b, l) == [p \in {"a.b", "b.b", "lib.b"} |-> CASE p = "a.b" -> a [] p = "b.b" -> b [] OTHER -> l]

MCSourceTrees ==
  {Tree(a, b, l) : a \in UpTo(Codes \cup Switches \cup Others, 2),
                   b \in UpTo({Code("typed"), Directive(<<On("continue")>>)}, 1),
                   l \in UpTo(Switches, 1)}
PlainTrees == {Tree(a, <<>>, <<>>) : a \in UpTo(Codes, 2)}
SwitchTrees == {Tree(a, <<>>, <<>>) : a \in UpTo(Codes \cup Switches, 2)}

Both == <<File("a.b"), File("b.b")>>
MCCommandLines ==
  {Both, <<Off("typed")>> \o Both, <<Off("continue"), On("continue")>> \o Both,
   <<Std("B"), Off("continue"), Lib("m")>> \o Both,
   <<Arg("pedantic", ""), Lib("math"), Lib("m")>> \o Both,
   <<Off("c-comments"), Arg("link", "-g")>> \o Both,
   <<On("no-directives"), Off("c-comments"), File("a.b")>>,
   <<File("lib.b"), Lib("m"), File("a.b")>>,
   <<Lib("m")>>, <<Lib("unknown"), File("a.b")>>, <<File("missing.b")>>, <<Std("C")>>, <<On("type")>>, <<>>}
StdCommandLines == {<<Std("B"), File("a.b")>>, <<Std("B"), On("continue"), File("a.b")>>,
                    <<Std("B"), Arg("pedantic", ""), File("a.b")>>, <<Std("Bx"), File("a.b")>>}
SwitchCommandLines == {<<File("a.b")>>, <<Off("typed"), File("a.b")>>, <<Off("continue"), File("a.b")>>}
=============================================================================
