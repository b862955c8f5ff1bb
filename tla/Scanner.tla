------------------------------- MODULE Scanner -------------------------------
(***************************************************************************)
(* The lexer at work on a file: what is written there, with or without a    *)
(* text of tokens in mind, and the tokens that it finds.                   *)
(***************************************************************************)
EXTENDS Spelling, Lexer

CONSTANTS
  Usual,     \* the features that programs are read with
  Features   \* the sets of features that other files are read with

VARIABLES
  on,       \* the features that are on
  text,     \* the tokens that were meant
  chars,    \* what is written in the file
  lexemes,  \* the tokens that the lexer finds there
  scanned   \* whether it has looked for them

scanVars == <<on, text, chars, lexemes, scanned>>

Toks(ls) == [n \in DOMAIN ls |-> ls[n].tok]

ScanInit == lexemes = <<>> /\ scanned = FALSE

(* readAndTokenizeFiles: all tokens of the file, before the first is parsed. *)
Tokenize ==
  /\ ~scanned
  /\ lexemes' = Lexemes(chars, on)
  /\ scanned' = TRUE
  /\ UNCHANGED <<on, text, chars>>

(* Names are no other words, and no other characters. *)
Others == {" ", "newline", "\"", "'", "\\", "$", "directive", "error", EOF, "end", "other"}
ASSUME NamesAssumption == /\ OtherName \in Identifiers
                          /\ Identifiers \cap (Keywords \cup Symbols \cup Openings \cup Literals \cup Others) = {}

(* Spelling writes line comments, and escapes with backslashes. *)
ASSUME UsualAssumption == {"c-comments", "c-esc"} \subseteq Usual /\ Usual \cap {"b-esc", "no-directives"} = {}

(* The lexer alone, on the text of any tokens that there are, and on any
   characters.                                                               *)
Characters == Letters \cup {Digit} \cup Blanks \cup Marks \cup {"\"", "'", "\\", "$"}
TokensUnder(features) == (Token \ Symbols) \cup Lexicon(features)
Gaps == {"tight", "blank", "comment", "line"}

ScanSpec ==
  /\ ScanInit
  /\ \/ text \in Seq(TokensUnder(Usual)) /\ on = Usual /\ \E gap \in Gaps : chars = Spell(text, gap, Usual)
     \/ text = <<>> /\ on \in Features /\ chars \in Seq(Characters)
  /\ [][Tokenize]_scanVars

-----------------------------------------------------------------------------
(* The tokens of a text are those that it was written with: words, operators
   and literals as close together as they may stand, or with blanks and
   comments between them.                                                    *)
LexedAsWritten == (scanned /\ text # <<>>) => Toks(lexemes) = text

(* The characters i to k of c are a comment. *)
IsBlockComment(c, i, k) == /\ k >= i + 3 /\ c[i] = "/" /\ c[i + 1] = "*"
                           /\ {n \in i + 2 .. k - 1 : c[n] = "*" /\ c[n + 1] = "/"} = {k - 1}
IsLineComment(c, i, k) == /\ "c-comments" \in on
                          /\ k > i /\ c[i] = "/" /\ c[i + 1] = "/"
                          /\ \A n \in i .. k : c[n] # "newline"
                          /\ k = Len(c) \/ c[k + 1] = "newline"

(* The characters i to j - 1 of c are blanks and comments. *)
IsGap(c, i, j) ==
  LET gap[n \in 1 .. j] ==
        \/ n = j
        \/ n < j /\ c[n] \in Blanks /\ gap[n + 1]
        \/ n < j /\ c[n] = "/" /\ \E k \in n .. j - 1 : (IsBlockComment(c, n, k) \/ IsLineComment(c, n, k)) /\ gap[k + 1]
  IN  i \in 1 .. j /\ gap[i]

(* Between the tokens that are found, before and after them there are only
   blanks and comments: the lexer passes over nothing else.                   *)
NothingSkipped ==
  LET n == Len(lexemes)
      end(k) == IF k = 0 THEN 1 ELSE lexemes[k].next
  IN  (scanned /\ (n = 0 \/ lexemes[n].tok # "error")) =>
        /\ \A k \in 1 .. n : IsGap(chars, end(k - 1), lexemes[k].from)
        /\ IsGap(chars, end(n), Len(chars) + 1)

(* =< and => under b-ops, =<>>, and two dots: the lexer is known to take
   characters that the token does not have.                                  *)
TakesMore(l) ==
  LET second == At(chars, l.from + 1)
  IN  \/ l.tok = "=" /\ "b-ops" \in on /\ second \in {"<", ">"}
      \/ l.tok = "=>>" /\ second = "<"
      \/ l.tok = "." /\ second = "."

(* The characters of a symbol are those of the file from position i on. *)
IsWritten(sym, c, i) == \A k \in DOMAIN Letterwise[sym] :
                          i + k - 1 \in DOMAIN c /\ c[i + k - 1] = Letterwise[sym][k]

(* Of the tokens that the characters begin with it is the longest: a symbol
   among those that there are under the features that are on, and a word goes
   on to the first character that is no letter and no digit.                 *)
TokensAreLongest ==
  \A l \in ToSet(lexemes) :
    /\ (l.tok \in Symbols /\ ~TakesMore(l)) =>
         /\ l.tok \in Lexicon(on)
         /\ l.next = l.from + Len(Letterwise[l.tok]) /\ IsWritten(l.tok, chars, l.from)
         /\ \A u \in Longer[l.tok] \cap Lexicon(on) : ~IsWritten(u, chars, l.from)
    /\ l.tok \in Letters =>
         /\ \A k \in l.from .. l.next - 1 : chars[k] \in Letters \cup {Digit}
         /\ At(chars, l.next) \notin Letters \cup {Digit}
=============================================================================
