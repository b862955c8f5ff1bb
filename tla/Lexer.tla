------------------------------- MODULE Lexer --------------------------------
(***************************************************************************)
(* The lexer of pkg/lexer: from characters to tokens, under the features    *)
(* that are on.  A word, and a digit, stands for one character: the loops   *)
(* over letters and digits do not tell them apart.                          *)
(***************************************************************************)
EXTENDS Tokens

CONSTANT OtherName  \* the identifier that all longer words stand for

Blanks == {" ", "newline"}
Digit == "num"
Letters == Identifiers \cup Keywords

(* peek and peekNext: past the end there is a character that none equals. *)
At(c, i) == IF i \in DOMAIN c THEN c[i] ELSE "end"

(* The first position from i on with a character of S, or without one. *)
UpTo(c, i, S) == CHOOSE j \in i .. Len(c) + 1 : /\ At(c, j) \in S \cup {"end"}
                                              /\ \A k \in i .. j - 1 : At(c, k) \notin S \cup {"end"}
Past(c, i, S) == CHOOSE j \in i .. Len(c) + 1 : At(c, j) \notin S /\ \A k \in i .. j - 1 : At(c, k) \in S

(* A token with its place.  util.Error is a lexeme that ends nowhere. *)
Lexeme(tok, from, next) == [tok |-> tok, from |-> from, next |-> next]
Unlexed(from) == Lexeme("error", from, 0)

(* Bug: a comment is over after the first star. *)
SkipToStar(c, i) ==
  LET skip[j \in 1 .. Len(c) + 1] ==
        CASE At(c, j) \in Blanks -> skip[j + 1]
          [] At(c, j) = "/" /\ At(c, j + 1) = "*" ->
               IF UpTo(c, j + 2, {"*"}) > Len(c) - 1 THEN 0 ELSE skip[UpTo(c, j + 2, {"*"}) + 2]
          [] OTHER -> j
  IN  skip[i]

(* skipWhitespaceAndComments: 0 for a comment that does not end. *)
Skip(c, i) ==
  LET closed(j) == {k \in j + 2 .. Len(c) - 1 : c[k] = "*" /\ c[k + 1] = "/"}
      skip[j \in 1 .. Len(c) + 1] ==
        CASE At(c, j) \in Blanks -> skip[j + 1]
          [] At(c, j) = "/" /\ At(c, j + 1) = "*" -> IF closed(j) = {} THEN 0 ELSE skip[Min(closed(j)) + 2]
          [] OTHER -> j
  IN  skip[i]

(* What follows the slashes at i makes a directive. *)
IsDirective(c, i) == LET j == Past(c, i + 2, {" "}) IN SubSeq(c, j, Min({j + 3, Len(c)})) = <<"[", "b", "]", ":">>

(* identifierOrKeyword. *)
WordAt(c, i) ==
  LET j == Past(c, i, Letters \cup {Digit})
  IN  Lexeme(IF j = i + 1 THEN c[i] ELSE OtherName, i, j)

(* numberLiteral, without hexadecimals and exponents: an e is an error. *)
NumberAt(c, i) ==
  LET whole == Past(c, IF c[i] = "." THEN i + 1 ELSE i, {Digit})
      fraction == At(c, whole) = "." /\ At(c, whole + 1) = Digit
      j == IF fraction THEN Past(c, whole + 1, {Digit}) ELSE whole
  IN  IF At(c, j) \in {"else", "extrn"} THEN Unlexed(i)
      ELSE Lexeme(IF fraction \/ c[i] = "." THEN "float" ELSE "num", i, j)

(* stringLiteral and charLiteral: what an escape character is followed by
   does not end the literal.                                                *)
EscapeChars(on) == (IF "c-esc" \in on THEN {"\\"} ELSE {}) \cup (IF "b-esc" \in on THEN {"*"} ELSE {})

(* The position after the quote that ends what goes on at i, or 0. *)
Behind(c, i, quote, escapes) ==
  LET behind[j \in 1 .. Len(c) + 2] ==
        CASE j > Len(c) -> 0
          [] j <= Len(c) /\ c[j] = quote -> j + 1
          [] j <= Len(c) /\ c[j] # quote /\ c[j] \in escapes -> behind[j + 2]
          [] OTHER -> behind[j + 1]
  IN  behind[i]

LiteralAt(c, i, on) ==
  LET j == Behind(c, i + 1, c[i], EscapeChars(on))
  IN  IF j = 0 THEN Unlexed(i) ELSE Lexeme(IF c[i] = "'" THEN "num" ELSE "str", i, j)

-----------------------------------------------------------------------------
(* Operators and punctuation. *)

(* The symbol with the characters i to i + n - 1. *)
SymbolOf(c, i, n) == CHOOSE sym \in Symbols : Letterwise[sym] = SubSeq(c, i, i + n - 1)

(* Bug: B's operators are there with C's. *)
EqualAlways(c, i, on) ==
  IF At(c, i + 1) \in {"=", "+", "-", "*", "/", "%", "&", "|", "^"} THEN Lexeme(SymbolOf(c, i, 2), i, i + 2)
  ELSE Lexeme("=", i, i + 1)

(* equal.  Of =< and => the second character is read even if it is not
   doubled, and > is tried after <.                                         *)
Equal(c, i, on) ==
  LET second == IF "b-ops" \in on \/ At(c, i + 1) = "=" THEN At(c, i + 1) ELSE "other"
      greater(j) == CASE At(c, j) # ">" -> Lexeme("=", i, j)
                      [] At(c, j) = ">" /\ At(c, j + 1) # ">" -> Lexeme("=", i, j + 1)
                      [] OTHER -> Lexeme("=>>", i, j + 2)
  IN  CASE second \in {"=", "+", "-", "*", "/", "%", "&", "|", "^"} -> Lexeme(SymbolOf(c, i, 2), i, i + 2)
        [] second = "<" -> IF At(c, i + 2) = "<" THEN Lexeme("=<<", i, i + 3) ELSE greater(i + 2)
        [] second = ">" -> greater(i + 1)
        [] OTHER -> Lexeme("=", i, i + 1)

(* Bug: no token has more than two characters. *)
LengthOfTwo(c, i, on) ==
  IF \/ c[i] \in {"+", "-", "&", "|", "<", ">"} /\ At(c, i + 1) = c[i]
     \/ c[i] \in {":", "!", "^", "%", "+", "-", "*", "/", "&", "|", "<", ">"} /\ At(c, i + 1) = "="
  THEN 2 ELSE 1

(* matchThen, and plus to greater: how many characters a symbol has. *)
SymbolLength(c, i, on) ==
  LET first == c[i]
      second == At(c, i + 1)
      third == At(c, i + 2)
      cOps == "c-ops" \in on
  IN  CASE first \in {":", "!", "^", "%"} -> IF second = "=" THEN 2 ELSE 1
        [] first \in {"+", "-", "&", "|"} -> IF second = first \/ (cOps /\ second = "=") THEN 2 ELSE 1
        [] first \in {"*", "/"} -> IF cOps /\ second = "=" THEN 2 ELSE 1
        [] first \in {"<", ">"} -> CASE second = first -> IF third = "=" THEN 3 ELSE 2
                                     [] second = "=" -> 2
                                     [] OTHER -> 1
        [] first = "." -> IF second = "." /\ third = "." THEN 3 ELSE 1
        [] OTHER -> 1

(* The cases of Next for symbols.  Of two dots the second is read, too. *)
SymbolAt(c, i, on) ==
  LET length == SymbolLength(c, i, on)
      twoDots == c[i] = "." /\ At(c, i + 1) = "." /\ length = 1
  IN  IF c[i] = "=" THEN Equal(c, i, on)
      ELSE Lexeme(SymbolOf(c, i, length), i, IF twoDots THEN i + 2 ELSE i + length)

-----------------------------------------------------------------------------
(* The token that begins at i. *)
TokenAt(c, i, on) ==
  LET dotted == c[i] = "." /\ At(c, i + 1) = Digit
  IN  CASE c[i] \in Letters -> WordAt(c, i)
        [] c[i] = Digit \/ dotted -> NumberAt(c, i)
        [] c[i] \in {"\"", "'"} -> LiteralAt(c, i, on)
        [] c[i] \in Marks /\ ~dotted -> SymbolAt(c, i, on)
        [] OTHER -> Unlexed(i)

(* Next: the first token from j on. *)
LexemeAt(c, j, on) ==
  LET next[k \in 1 .. Len(c) + 1] ==
        LET i == Skip(c, k)
            slashes == At(c, i) = "/" /\ At(c, i + 1) = "/"
            line == UpTo(c, i, {"newline"})
        IN  IF i = 0 THEN Unlexed(k)
            ELSE IF i > Len(c) THEN Lexeme(EOF, i, i)
            ELSE IF slashes /\ "no-directives" \notin on /\ IsDirective(c, i) THEN Lexeme("directive", i, line)
            ELSE IF slashes /\ "c-comments" \in on THEN next[line]
            ELSE TokenAt(c, i, on)
  IN  next[j]

(* The tokens of a file, up to its end or an error. *)
Lexemes(c, on) ==
  LET from[i \in 1 .. Len(c) + 1] ==
        LET l == LexemeAt(c, i, on)
        IN  IF l.tok = EOF THEN <<>> ELSE IF l.next = 0 THEN <<l>> ELSE <<l>> \o from[l.next]
  IN  from[1]
=============================================================================
