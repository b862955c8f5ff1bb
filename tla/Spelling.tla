------------------------------ MODULE Spelling ------------------------------
(***************************************************************************)
(* How tokens are written, without regard to how the lexer reads them: the  *)
(* characters of a token, and what may stand between two.                  *)
(***************************************************************************)
EXTENDS Tokens

(* The symbols there are under the features that are on.  %= ^= <<= >>= are
   C's and do not need c-ops.                                               *)
Lexicon(on) == Symbols \ ((IF "c-ops" \in on THEN {} ELSE {"+=", "-=", "*=", "/=", "&=", "|="})
                          \cup (IF "b-ops" \in on THEN {} ELSE BAssignments))

(* The symbols that begin as another does. *)
Longer == [sym \in Symbols |-> {u \in Symbols \ {sym} : IsPrefix(Letterwise[sym], Letterwise[u])}]

Chars(tok) == CASE tok \in Symbols -> Letterwise[tok]
                [] tok = "float" -> <<"num", ".", "num">>
                [] tok = "str" -> <<"\"", "a", "\\", "\"", "/", "*", "\\", "*", "\"">>
                [] tok = "directive" -> <<"/", "/", " ", "[", "b", "]", ":", "a", "newline">>
                [] OTHER -> <<tok>>

(* Some token begins as s and t do without a blank between them: a blank is
   needed.                                                                   *)
NeedBlank(s, t, on) ==
  LET begun == Append(Chars(s), Chars(t)[1])
  IN  \/ \E u \in Openings \cup Lexicon(on) : IsPrefix(begun, Letterwise[u])
      \/ s \notin Symbols \cup {"str", "directive"} /\ t \notin Symbols \cup {"str", "directive"}
      \/ {s, t} \cap {".", "..."} # {} /\ {s, t} \cap {"num", "float"} # {}

(* What may stand between two tokens.  "tight" is as little as possible. *)
Gap(gap) == CASE gap = "blank" -> <<" ">>
              [] gap = "comment" -> <<" ", "/", "*", "/", "a", "\"", "*", "*", "/">>
              [] gap = "line" -> <<" ", "/", "/", "*", "'", "b", "newline">>

Spell(text, gap, on) ==
  FlattenSeq([n \in DOMAIN text |->
    Chars(text[n]) \o (IF gap # "tight" THEN Gap(gap)
                       ELSE IF n < Len(text) /\ NeedBlank(text[n], text[n + 1], on) THEN <<" ">> ELSE <<>>)])
=============================================================================
