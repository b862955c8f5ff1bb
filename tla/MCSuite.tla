------------------------------- MODULE MCSuite -------------------------------
(* Small instances of Suite. *)
EXTENDS Suite, TLC

CONSTANTS f1, f2, f3, h1, h2, w1, w2

Plain == [found |-> TRUE, cached |-> FALSE, skip |-> {}, jobs |-> Workers]
NoReference == [Plain EXCEPT !.found = FALSE]
Nobody == [Plain EXCEPT !.jobs = {}]

NoGolden == [f \in Files |-> None]

(* Two files with the same content, the third with another; or all apart. *)
Twins == [f \in Files |-> IF f = f3 THEN h2 ELSE h1]
Apart == [f \in Files |-> IF f = f1 THEN h1 ELSE h2]
Makes(a, b) == [h \in Hashes |-> IF h = h1 THEN a ELSE b]

World(content, reference, target, golden) ==
  [content |-> content, reference |-> reference, target |-> target, golden |-> golden]

(* On one content the compilers agree; on the other they differ, only the target
   accepts it, or neither does.  Or the golden results agree with the target in
   the one and not in the other.                                             *)
PeacefulWorlds ==
  {World(Twins, Makes("one", r), Makes("one", "one"), NoGolden) : r \in {"other", "fails"}}
  \cup {World(Twins, Makes("fails", "one"), Makes("fails", "one"), NoGolden),
        World(Twins, Makes("one", "one"), Makes("other", "one"), [f \in Files |-> "one"])}
PeacefulFlags ==
  {Plain, NoReference, [Plain EXCEPT !.cached = TRUE], [Plain EXCEPT !.skip = {f1}], Nobody}

(* The goroutines of -j are alike. *)
Alike == Permutations(Workers)

(* Files that come and go, and golden files that cannot be used. *)
FragileWorlds ==
  {World([Apart EXCEPT ![f2] = IF g = None THEN Unreadable ELSE h2], Makes("one", "one"),
         Makes("one", "one"), [NoGolden EXCEPT ![f2] = g]) : g \in {None, "garbled"}}
FragileFlags == {Plain}

(* Programs that both compilers reject, or only the reference. *)
CacheWorlds == {World(Apart, Makes("fails", "one"), Makes(t, "one"), NoGolden) : t \in {"one", "fails"}}
CacheFlags == {Plain, NoReference}
=============================================================================
