---------------------------- MODULE LexerProofs -----------------------------
(***************************************************************************)
(* That the lexer of Scanner reads what was written, for all tokens, all    *)
(* features and all characters: it passes over blanks and comments only, of *)
(* the operators it takes the longest, and from what Spelling writes it     *)
(* gets back the tokens of the text.                                       *)
(***************************************************************************)
EXTENDS Scanner, Lists

-----------------------------------------------------------------------------
(* What symbols are written with. *)

(* The symbols by the number of their characters. *)
Pairs == {":=", "+=", "-=", "*=", "/=", "%=", "&=", "|=", "^=", "=+", "=-", "=*", "=/", "=%",
          "=&", "=|", "=^", "==", "!=", "<=", ">=", "++", "--", "||", "&&", "<<", ">>"}
Triples == {"...", "<<=", ">>=", "=<<", "=>>"}

(* There are no other symbols. *)
LEMMA SymbolsAre == Symbols = Marks \cup Pairs \cup Triples
<1> DEFINE ops == {"||", "&&", "|", "^", "&", "==", "!=", "<", ">", "<=", ">=", "<<", ">>", "+", "-", "*", "/", "%"}
<1>1. UNION {Ranks[r] : r \in DOMAIN Ranks} = ops
  <2>1. DOMAIN Ranks = 1 .. 10
    BY DEF Ranks
  <2>2. \A r \in 1 .. 10 : Ranks[r] \subseteq ops
    BY DEF Ranks
  <2>3. {1, 2, 3, 4, 5, 6, 7, 8, 9, 10} \subseteq 1 .. 10
    OBVIOUS
  <2>4. ops \subseteq Ranks[1] \cup Ranks[2] \cup Ranks[3] \cup Ranks[4] \cup Ranks[5]
                  \cup Ranks[6] \cup Ranks[7] \cup Ranks[8] \cup Ranks[9] \cup Ranks[10]
    BY DEF Ranks
  <2>5. QED
    BY <2>1, <2>2, <2>3, <2>4
<1>2. QED
  BY ZenonT(60), <1>1 DEF Pairs, Triples, Symbols, Marks, Punctuation, AssignmentOps, CAssignments, BAssignments, UnaryOps

(* The characters of each symbol. *)
LEMMA MarkLetters ==
  /\ Letterwise["("] = <<"(">> /\ Letterwise[")"] = <<")">> /\ Letterwise["["] = <<"[">>
  /\ Letterwise["]"] = <<"]">> /\ Letterwise["{"] = <<"{">> /\ Letterwise["}"] = <<"}">>
  /\ Letterwise[";"] = <<";">> /\ Letterwise[":"] = <<":">> /\ Letterwise[","] = <<",">>
  /\ Letterwise["?"] = <<"?">> /\ Letterwise["."] = <<".">> /\ Letterwise["="] = <<"=">>
  /\ Letterwise["!"] = <<"!">> /\ Letterwise["~"] = <<"~">> /\ Letterwise["-"] = <<"-">>
  /\ Letterwise["+"] = <<"+">> /\ Letterwise["*"] = <<"*">> /\ Letterwise["&"] = <<"&">>
  /\ Letterwise["|"] = <<"|">> /\ Letterwise["^"] = <<"^">> /\ Letterwise["<"] = <<"<">>
  /\ Letterwise[">"] = <<">">> /\ Letterwise["/"] = <<"/">> /\ Letterwise["%"] = <<"%">>
BY SymbolsAre DEF Letterwise, Marks

(* The characters of each symbol that has several. *)
LEMMA ManyLetters ==
  /\ Letterwise["..."] = <<".", ".", ".">> /\ Letterwise["<<="] = <<"<", "<", "=">>
  /\ Letterwise[">>="] = <<">", ">", "=">> /\ Letterwise["=<<"] = <<"=", "<", "<">>
  /\ Letterwise["=>>"] = <<"=", ">", ">">> /\ Letterwise[":="] = <<":", "=">>
  /\ Letterwise["+="] = <<"+", "=">> /\ Letterwise["-="] = <<"-", "=">>
  /\ Letterwise["*="] = <<"*", "=">> /\ Letterwise["/="] = <<"/", "=">>
  /\ Letterwise["%="] = <<"%", "=">> /\ Letterwise["&="] = <<"&", "=">>
  /\ Letterwise["|="] = <<"|", "=">> /\ Letterwise["^="] = <<"^", "=">>
  /\ Letterwise["=+"] = <<"=", "+">> /\ Letterwise["=-"] = <<"=", "-">>
  /\ Letterwise["=*"] = <<"=", "*">> /\ Letterwise["=/"] = <<"=", "/">>
  /\ Letterwise["=%"] = <<"=", "%">> /\ Letterwise["=&"] = <<"=", "&">>
  /\ Letterwise["=|"] = <<"=", "|">> /\ Letterwise["=^"] = <<"=", "^">>
  /\ Letterwise["=="] = <<"=", "=">> /\ Letterwise["!="] = <<"!", "=">>
  /\ Letterwise["<="] = <<"<", "=">> /\ Letterwise[">="] = <<">", "=">>
  /\ Letterwise["++"] = <<"+", "+">> /\ Letterwise["--"] = <<"-", "-">>
  /\ Letterwise["||"] = <<"|", "|">> /\ Letterwise["&&"] = <<"&", "&">>
  /\ Letterwise["<<"] = <<"<", "<">> /\ Letterwise[">>"] = <<">", ">">>
  /\ Letterwise["//"] = <<"/", "/">> /\ Letterwise["/*"] = <<"/", "*">>
BY SymbolsAre DEF Letterwise, Pairs, Triples, Openings

(* A symbol of one character is that character. *)
LEMMA OfMarks == \A u \in Marks : Letterwise[u] = <<u>>
BY MarkLetters DEF Marks

(* How many characters there are. *)
LEMMA OfPairs == \A u \in Pairs \cup Openings : \E a, b : Letterwise[u] = <<a, b>>
BY ManyLetters DEF Pairs, Openings

(* How many characters there are. *)
LEMMA OfTriples == \A u \in Triples : \E a, b, d : Letterwise[u] = <<a, b, d>>
BY ManyLetters DEF Triples

(* Symbols differ in their characters. *)
LEMMA PairsDiffer == \A u, v \in Pairs \cup Openings : Letterwise[u] = Letterwise[v] => u = v
BY SMTT(60), ManyLetters DEF Pairs, Openings

(* Symbols differ in their characters. *)
LEMMA TriplesDiffer == \A u, v \in Triples : Letterwise[u] = Letterwise[v] => u = v
BY SMTT(60), ManyLetters DEF Triples

(* Lengths. *)
LEMMA LengthOf ==
  /\ \A u \in Marks : DOMAIN Letterwise[u] = {1} /\ Len(Letterwise[u]) = 1
  /\ \A u \in Pairs \cup Openings : DOMAIN Letterwise[u] = {1, 2} /\ Len(Letterwise[u]) = 2
  /\ \A u \in Triples : DOMAIN Letterwise[u] = {1, 2, 3} /\ Len(Letterwise[u]) = 3
<1>1. \A u : DOMAIN <<u>> = {1} /\ Len(<<u>>) = 1
  OBVIOUS
<1>2. \A u, v : DOMAIN <<u, v>> = {1, 2} /\ Len(<<u, v>>) = 2
  OBVIOUS
<1>3. \A u, v, w : DOMAIN <<u, v, w>> = {1, 2, 3} /\ Len(<<u, v, w>>) = 3
  OBVIOUS
<1>4. \A u \in Marks : DOMAIN Letterwise[u] = {1} /\ Len(Letterwise[u]) = 1
  BY <1>1, OfMarks
<1>5. \A u \in Pairs \cup Openings : DOMAIN Letterwise[u] = {1, 2} /\ Len(Letterwise[u]) = 2
  BY <1>2, OfPairs
<1>6. \A u \in Triples : DOMAIN Letterwise[u] = {1, 2, 3} /\ Len(Letterwise[u]) = 3
  BY <1>3, OfTriples
<1>7. QED
  BY <1>4, <1>5, <1>6

(* Symbols differ in their characters. *)
LEMMA SymbolsDiffer == \A u, v \in Symbols : Letterwise[u] = Letterwise[v] => u = v
<1>1. \A u, v \in Marks : Letterwise[u] = Letterwise[v] => u = v
  BY OfMarks
<1>2. QED
  BY <1>1, SymbolsAre, LengthOf, PairsDiffer, TriplesDiffer

(* What files hold: the characters of tokens, and those of literals. *)
Alphabet == Characters \cup {"a", "b"}

(* Text without the mark of the end. *)
Text(c) == c \in Seq(Alphabet) /\ \A i \in DOMAIN c : c[i] # "end"

(* A symbol of one character is written where that character is. *)
LEMMA MarksWritten ==
  ASSUME NEW c \in Seq(Alphabet), NEW i \in 1 .. Len(c) + 1, Text(c), NEW u \in Marks
  PROVE  IsWritten(u, c, i) <=> At(c, i) = u
<1>1. IsWritten(u, c, i) <=> i \in DOMAIN c /\ c[i] = u
  BY OfMarks, LengthOf DEF IsWritten
<1>2. u # "end"
  BY DEF Marks
<1>3. QED
  BY <1>1, <1>2 DEF Text, At

(* A symbol of two characters is written where both of them are. *)
LEMMA PairsWritten ==
  ASSUME NEW c \in Seq(Alphabet), NEW i \in 1 .. Len(c) + 1, Text(c), NEW u \in Pairs \cup Openings
  PROVE  IsWritten(u, c, i) <=> At(c, i) = Letterwise[u][1] /\ At(c, i + 1) = Letterwise[u][2]
<1>1. IsWritten(u, c, i) <=> i \in DOMAIN c /\ c[i] = Letterwise[u][1] /\ i + 1 \in DOMAIN c /\ c[i + 1] = Letterwise[u][2]
  BY LengthOf DEF IsWritten
<1>2. Letterwise[u][1] # "end" /\ Letterwise[u][2] # "end"
  BY ManyLetters DEF Pairs, Openings
<1>3. QED
  BY <1>1, <1>2 DEF Text, At

(* A symbol of three characters is written where all of them are. *)
LEMMA TriplesWritten ==
  ASSUME NEW c \in Seq(Alphabet), NEW i \in 1 .. Len(c) + 1, Text(c), NEW u \in Triples
  PROVE  IsWritten(u, c, i) <=> At(c, i) = Letterwise[u][1] /\ At(c, i + 1) = Letterwise[u][2] /\ At(c, i + 2) = Letterwise[u][3]
<1>1. IsWritten(u, c, i) <=> i \in DOMAIN c /\ c[i] = Letterwise[u][1] /\ i + 1 \in DOMAIN c /\ c[i + 1] = Letterwise[u][2]
                             /\ i + 2 \in DOMAIN c /\ c[i + 2] = Letterwise[u][3]
  BY LengthOf DEF IsWritten
<1>2. Letterwise[u][1] # "end" /\ Letterwise[u][2] # "end" /\ Letterwise[u][3] # "end"
  BY ManyLetters DEF Triples
<1>3. QED
  BY <1>1, <1>2 DEF Text, At

(* What is written. *)
LEMMA ManyWritten ==
  ASSUME NEW c \in Seq(Alphabet), NEW i \in 1 .. Len(c) + 1, Text(c)
  PROVE  LET a == At(c, i)
             b == At(c, i + 1)
             d == At(c, i + 2)
             w(u) == IsWritten(u, c, i)
         IN  /\ (w("...") <=> a = "." /\ b = "." /\ d = ".")
             /\ (w("<<=") <=> a = "<" /\ b = "<" /\ d = "=")
             /\ (w(">>=") <=> a = ">" /\ b = ">" /\ d = "=")
             /\ (w("=<<") <=> a = "=" /\ b = "<" /\ d = "<")
             /\ (w("=>>") <=> a = "=" /\ b = ">" /\ d = ">")
             /\ (w(":=") <=> a = ":" /\ b = "=") /\ (w("+=") <=> a = "+" /\ b = "=")
             /\ (w("-=") <=> a = "-" /\ b = "=") /\ (w("*=") <=> a = "*" /\ b = "=")
             /\ (w("/=") <=> a = "/" /\ b = "=") /\ (w("%=") <=> a = "%" /\ b = "=")
             /\ (w("&=") <=> a = "&" /\ b = "=") /\ (w("|=") <=> a = "|" /\ b = "=")
             /\ (w("^=") <=> a = "^" /\ b = "=") /\ (w("=+") <=> a = "=" /\ b = "+")
             /\ (w("=-") <=> a = "=" /\ b = "-") /\ (w("=*") <=> a = "=" /\ b = "*")
             /\ (w("=/") <=> a = "=" /\ b = "/") /\ (w("=%") <=> a = "=" /\ b = "%")
             /\ (w("=&") <=> a = "=" /\ b = "&") /\ (w("=|") <=> a = "=" /\ b = "|")
             /\ (w("=^") <=> a = "=" /\ b = "^") /\ (w("==") <=> a = "=" /\ b = "=")
             /\ (w("!=") <=> a = "!" /\ b = "=") /\ (w("<=") <=> a = "<" /\ b = "=")
             /\ (w(">=") <=> a = ">" /\ b = "=") /\ (w("++") <=> a = "+" /\ b = "+")
             /\ (w("--") <=> a = "-" /\ b = "-") /\ (w("||") <=> a = "|" /\ b = "|")
             /\ (w("&&") <=> a = "&" /\ b = "&") /\ (w("<<") <=> a = "<" /\ b = "<")
             /\ (w(">>") <=> a = ">" /\ b = ">") /\ (w("//") <=> a = "/" /\ b = "/")
             /\ (w("/*") <=> a = "/" /\ b = "*")
<1> DEFINE a == At(c, i)
           b == At(c, i + 1)
           d == At(c, i + 2)
           w(u) == IsWritten(u, c, i)
<1>1. \A u \in Pairs \cup Openings : w(u) <=> a = Letterwise[u][1] /\ b = Letterwise[u][2]
  BY PairsWritten
<1>2. \A u \in Triples : w(u) <=> a = Letterwise[u][1] /\ b = Letterwise[u][2] /\ d = Letterwise[u][3]
  BY TriplesWritten
<1> HIDE DEF a, b, d, w
<1>3. /\ Letterwise["..."][1] = "." /\ Letterwise["..."][2] = "." /\ Letterwise["..."][3] = "."
      /\ Letterwise["<<="][1] = "<" /\ Letterwise["<<="][2] = "<" /\ Letterwise["<<="][3] = "="
      /\ Letterwise[">>="][1] = ">" /\ Letterwise[">>="][2] = ">" /\ Letterwise[">>="][3] = "="
      /\ Letterwise["=<<"][1] = "=" /\ Letterwise["=<<"][2] = "<" /\ Letterwise["=<<"][3] = "<"
      /\ Letterwise["=>>"][1] = "=" /\ Letterwise["=>>"][2] = ">" /\ Letterwise["=>>"][3] = ">"
      /\ Letterwise[":="][1] = ":" /\ Letterwise[":="][2] = "="
      /\ Letterwise["+="][1] = "+" /\ Letterwise["+="][2] = "="
      /\ Letterwise["-="][1] = "-" /\ Letterwise["-="][2] = "="
      /\ Letterwise["*="][1] = "*" /\ Letterwise["*="][2] = "="
      /\ Letterwise["/="][1] = "/" /\ Letterwise["/="][2] = "="
      /\ Letterwise["%="][1] = "%" /\ Letterwise["%="][2] = "="
      /\ Letterwise["&="][1] = "&" /\ Letterwise["&="][2] = "="
      /\ Letterwise["|="][1] = "|" /\ Letterwise["|="][2] = "="
      /\ Letterwise["^="][1] = "^" /\ Letterwise["^="][2] = "="
      /\ Letterwise["=+"][1] = "=" /\ Letterwise["=+"][2] = "+"
      /\ Letterwise["=-"][1] = "=" /\ Letterwise["=-"][2] = "-"
      /\ Letterwise["=*"][1] = "=" /\ Letterwise["=*"][2] = "*"
      /\ Letterwise["=/"][1] = "=" /\ Letterwise["=/"][2] = "/"
      /\ Letterwise["=%"][1] = "=" /\ Letterwise["=%"][2] = "%"
      /\ Letterwise["=&"][1] = "=" /\ Letterwise["=&"][2] = "&"
      /\ Letterwise["=|"][1] = "=" /\ Letterwise["=|"][2] = "|"
      /\ Letterwise["=^"][1] = "=" /\ Letterwise["=^"][2] = "^"
      /\ Letterwise["=="][1] = "=" /\ Letterwise["=="][2] = "="
      /\ Letterwise["!="][1] = "!" /\ Letterwise["!="][2] = "="
      /\ Letterwise["<="][1] = "<" /\ Letterwise["<="][2] = "="
      /\ Letterwise[">="][1] = ">" /\ Letterwise[">="][2] = "="
      /\ Letterwise["++"][1] = "+" /\ Letterwise["++"][2] = "+"
      /\ Letterwise["--"][1] = "-" /\ Letterwise["--"][2] = "-"
      /\ Letterwise["||"][1] = "|" /\ Letterwise["||"][2] = "|"
      /\ Letterwise["&&"][1] = "&" /\ Letterwise["&&"][2] = "&"
      /\ Letterwise["<<"][1] = "<" /\ Letterwise["<<"][2] = "<"
      /\ Letterwise[">>"][1] = ">" /\ Letterwise[">>"][2] = ">"
      /\ Letterwise["//"][1] = "/" /\ Letterwise["//"][2] = "/"
      /\ Letterwise["/*"][1] = "/" /\ Letterwise["/*"][2] = "*"
  BY ManyLetters
<1>4. /\ {":=", "+=", "-=", "*=", "/=", "%=", "&=", "|=", "^=", "=+", "=-", "=*", "=/", "=%", "=&", "=|", "=^", "==", "!=", "<=", ">=", "++", "--", "||", "&&", "<<", ">>", "//", "/*"} \subseteq Pairs \cup Openings
      /\ {"...", "<<=", ">>=", "=<<", "=>>"} \subseteq Triples
  BY DEF Pairs, Openings, Triples
<1>5. /\ (w("...") <=> a = "." /\ b = "." /\ d = ".")
      /\ (w("<<=") <=> a = "<" /\ b = "<" /\ d = "=")
      /\ (w(">>=") <=> a = ">" /\ b = ">" /\ d = "=")
      /\ (w("=<<") <=> a = "=" /\ b = "<" /\ d = "<")
      /\ (w("=>>") <=> a = "=" /\ b = ">" /\ d = ">")
  BY <1>2, <1>3, <1>4
<1>6. /\ (w(":=") <=> a = ":" /\ b = "=") /\ (w("+=") <=> a = "+" /\ b = "=")
      /\ (w("-=") <=> a = "-" /\ b = "=") /\ (w("*=") <=> a = "*" /\ b = "=")
      /\ (w("/=") <=> a = "/" /\ b = "=") /\ (w("%=") <=> a = "%" /\ b = "=")
      /\ (w("&=") <=> a = "&" /\ b = "=") /\ (w("|=") <=> a = "|" /\ b = "=")
      /\ (w("^=") <=> a = "^" /\ b = "=") /\ (w("=+") <=> a = "=" /\ b = "+")
      /\ (w("=-") <=> a = "=" /\ b = "-") /\ (w("=*") <=> a = "=" /\ b = "*")
      /\ (w("=/") <=> a = "=" /\ b = "/") /\ (w("=%") <=> a = "=" /\ b = "%")
  BY <1>1, <1>3, <1>4
<1>7. /\ (w("=&") <=> a = "=" /\ b = "&") /\ (w("=|") <=> a = "=" /\ b = "|")
      /\ (w("=^") <=> a = "=" /\ b = "^") /\ (w("==") <=> a = "=" /\ b = "=")
      /\ (w("!=") <=> a = "!" /\ b = "=") /\ (w("<=") <=> a = "<" /\ b = "=")
      /\ (w(">=") <=> a = ">" /\ b = "=") /\ (w("++") <=> a = "+" /\ b = "+")
      /\ (w("--") <=> a = "-" /\ b = "-") /\ (w("||") <=> a = "|" /\ b = "|")
      /\ (w("&&") <=> a = "&" /\ b = "&") /\ (w("<<") <=> a = "<" /\ b = "<")
      /\ (w(">>") <=> a = ">" /\ b = ">") /\ (w("//") <=> a = "/" /\ b = "/")
      /\ (w("/*") <=> a = "/" /\ b = "*")
  BY <1>1, <1>3, <1>4
<1>8. QED
  BY <1>5, <1>6, <1>7 DEF a, b, d, w

(* The characters of a symbol are a function of their positions. *)
LEMMA LettersOf == \A u \in Symbols \cup Openings :
  /\ Len(Letterwise[u]) \in 1 .. 3 /\ DOMAIN Letterwise[u] = 1 .. Len(Letterwise[u])
  /\ Letterwise[u] = [k \in 1 .. Len(Letterwise[u]) |-> Letterwise[u][k]]
<1>1. \A a : <<a>> = [k \in 1 .. 1 |-> <<a>>[k]]
  OBVIOUS
<1>2. \A a, b : <<a, b>> = [k \in 1 .. 2 |-> <<a, b>>[k]]
  OBVIOUS
<1>3. \A a, b, d : <<a, b, d>> = [k \in 1 .. 3 |-> <<a, b, d>>[k]]
  OBVIOUS
<1>4. \A u \in Marks : Len(Letterwise[u]) = 1 /\ Letterwise[u] = [k \in 1 .. 1 |-> Letterwise[u][k]]
  BY <1>1, LengthOf, OfMarks
<1>5. \A u \in Pairs \cup Openings : Len(Letterwise[u]) = 2 /\ Letterwise[u] = [k \in 1 .. 2 |-> Letterwise[u][k]]
  BY <1>2, LengthOf, OfPairs
<1>6. \A u \in Triples : Len(Letterwise[u]) = 3 /\ Letterwise[u] = [k \in 1 .. 3 |-> Letterwise[u][k]]
  BY <1>3, LengthOf, OfTriples
<1>7. ASSUME NEW u, NEW n \in 1 .. 3, Len(Letterwise[u]) = n, Letterwise[u] = [k \in 1 .. n |-> Letterwise[u][k]]
      PROVE  /\ Len(Letterwise[u]) \in 1 .. 3 /\ DOMAIN Letterwise[u] = 1 .. Len(Letterwise[u])
             /\ Letterwise[u] = [k \in 1 .. Len(Letterwise[u]) |-> Letterwise[u][k]]
  BY <1>7
<1>8. 1 \in 1 .. 3 /\ 2 \in 1 .. 3 /\ 3 \in 1 .. 3
  OBVIOUS
<1>9. QED
  BY <1>4, <1>5, <1>6, <1>7, <1>8, SymbolsAre

(* The symbol with the characters that are there is the one that is written there. *)
LEMMA SymbolOfIs ==
  ASSUME NEW c \in Seq(Alphabet), NEW i \in DOMAIN c, NEW u \in Symbols, IsWritten(u, c, i)
  PROVE  /\ SymbolOf(c, i, Len(Letterwise[u])) = u
         /\ i + Len(Letterwise[u]) - 1 <= Len(c)
<1> DEFINE n == Len(Letterwise[u])
<1>1. n \in 1 .. 3 /\ DOMAIN Letterwise[u] = 1 .. n /\ Letterwise[u] = [k \in 1 .. n |-> Letterwise[u][k]]
  BY LettersOf DEF n
<1>2. \A k \in 1 .. n : i + k - 1 \in DOMAIN c /\ c[i + k - 1] = Letterwise[u][k]
  BY <1>1 DEF IsWritten
<1> HIDE DEF n
<1>3. i \in 1 .. Len(c) /\ i + n - 1 \in 1 .. Len(c)
  <2>1. n \in 1 .. n
    BY <1>1
  <2>2. i + n - 1 \in DOMAIN c
    BY <1>2, <2>1
  <2>3. QED
    BY <2>2, LenProperties
<1>4. SubSeq(c, i, i + n - 1) = [k \in 1 .. n |-> c[i + k - 1]]
  <2>1. i + n - 1 - i + 1 = n
    BY <1>1
  <2> DEFINE s == SubSeq(c, i, i + n - 1)
  <2>2. s \in Seq(Alphabet) /\ Len(s) = n /\ \A k \in 1 .. n : s[k] = c[i + k - 1]
    <3>1. i \in Int /\ i + n - 1 \in Int /\ \A j \in i .. i + n - 1 : c[j] \in Alphabet
      BY <1>1, <1>3, ElementOfSeq
    <3>2. /\ s \in Seq(Alphabet)
          /\ Len(s) = IF i <= i + n - 1 THEN (i + n - 1) - i + 1 ELSE 0
          /\ \A k \in 1 .. (i + n - 1) - i + 1 : s[k] = c[i + k - 1]
      BY <3>1, SubSeqProperties
    <3>3. i <= i + n - 1 /\ (i + n - 1) - i + 1 = n
      BY <3>1, <1>1
    <3> HIDE DEF s
    <3>4. QED
      BY <3>2, <3>3
  <2> HIDE DEF s
  <2>3. s = [k \in 1 .. n |-> s[k]]
    BY <2>2
  <2>4. QED
    BY <2>2, <2>3 DEF s
<1>5. Letterwise[u] = SubSeq(c, i, i + n - 1)
  BY <1>1, <1>2, <1>4
<1>6. QED
  BY <1>3, <1>5, SymbolsDiffer DEF SymbolOf, n

(* Which symbol is written. *)
LEMMA Written ==
  ASSUME NEW c \in Seq(Alphabet), NEW i \in 1 .. Len(c) + 1, Text(c), NEW u \in Symbols, IsWritten(u, c, i)
  PROVE  LET a == At(c, i)
             b == At(c, i + 1)
             d == At(c, i + 2)
         IN  \/ u \in Marks /\ u = a
             \/ (u = "..." /\ a = "." /\ b = "." /\ d = ".")
             \/ (u = "<<=" /\ a = "<" /\ b = "<" /\ d = "=")
             \/ (u = ">>=" /\ a = ">" /\ b = ">" /\ d = "=")
             \/ (u = "=<<" /\ a = "=" /\ b = "<" /\ d = "<")
             \/ (u = "=>>" /\ a = "=" /\ b = ">" /\ d = ">")
             \/ (u = ":=" /\ a = ":" /\ b = "=") \/ (u = "+=" /\ a = "+" /\ b = "=")
             \/ (u = "-=" /\ a = "-" /\ b = "=") \/ (u = "*=" /\ a = "*" /\ b = "=")
             \/ (u = "/=" /\ a = "/" /\ b = "=") \/ (u = "%=" /\ a = "%" /\ b = "=")
             \/ (u = "&=" /\ a = "&" /\ b = "=") \/ (u = "|=" /\ a = "|" /\ b = "=")
             \/ (u = "^=" /\ a = "^" /\ b = "=") \/ (u = "=+" /\ a = "=" /\ b = "+")
             \/ (u = "=-" /\ a = "=" /\ b = "-") \/ (u = "=*" /\ a = "=" /\ b = "*")
             \/ (u = "=/" /\ a = "=" /\ b = "/") \/ (u = "=%" /\ a = "=" /\ b = "%")
             \/ (u = "=&" /\ a = "=" /\ b = "&") \/ (u = "=|" /\ a = "=" /\ b = "|")
             \/ (u = "=^" /\ a = "=" /\ b = "^") \/ (u = "==" /\ a = "=" /\ b = "=")
             \/ (u = "!=" /\ a = "!" /\ b = "=") \/ (u = "<=" /\ a = "<" /\ b = "=")
             \/ (u = ">=" /\ a = ">" /\ b = "=") \/ (u = "++" /\ a = "+" /\ b = "+")
             \/ (u = "--" /\ a = "-" /\ b = "-") \/ (u = "||" /\ a = "|" /\ b = "|")
             \/ (u = "&&" /\ a = "&" /\ b = "&") \/ (u = "<<" /\ a = "<" /\ b = "<")
             \/ (u = ">>" /\ a = ">" /\ b = ">")
<1>1. \/ u \in Marks
      \/ u = "..." \/ u = "<<=" \/ u = ">>=" \/ u = "=<<" \/ u = "=>>" \/ u = ":=" \/ u = "+="
      \/ u = "-=" \/ u = "*=" \/ u = "/=" \/ u = "%=" \/ u = "&=" \/ u = "|=" \/ u = "^="
      \/ u = "=+" \/ u = "=-" \/ u = "=*" \/ u = "=/" \/ u = "=%" \/ u = "=&" \/ u = "=|"
      \/ u = "=^" \/ u = "==" \/ u = "!=" \/ u = "<=" \/ u = ">=" \/ u = "++" \/ u = "--"
      \/ u = "||" \/ u = "&&" \/ u = "<<" \/ u = ">>"
  BY SymbolsAre DEF Pairs, Triples
<1>2. u \in Marks => At(c, i) = u
  BY MarksWritten
<1>3. QED
  BY <1>1, <1>2, ManyWritten

(* C's assignments. *)
COps == {"+=", "-=", "*=", "/=", "&=", "|="}
(* The symbols there are. *)
LEMMA LexiconIs ==
  ASSUME NEW fs
  PROVE  /\ Lexicon(fs) \subseteq Symbols
         /\ \A u \in Symbols : u \in Lexicon(fs) <=> (u \in COps => "c-ops" \in fs) /\ (u \in BAssignments => "b-ops" \in fs)
BY DEF Lexicon, COps

(* Symbols of one character do not depend on features. *)
LEMMA LexiconMarks == \A u \in Marks : u \notin COps /\ u \notin BAssignments
BY DEF Marks, COps, BAssignments

(* SymbolLength: no symbol of the features that are on, and written there, is longer. *)
LEMMA NoLonger ==
  ASSUME NEW c \in Seq(Alphabet), NEW i \in DOMAIN c, Text(c), NEW fs, c[i] \in Marks \ {"="},
         NEW u \in Lexicon(fs), IsWritten(u, c, i)
  PROVE  Len(Letterwise[u]) <= SymbolLength(c, i, fs)
<1>1. i \in 1 .. Len(c) + 1 /\ At(c, i) = c[i]
  BY LenProperties DEF At
<1>2. u \in Symbols
  BY LexiconIs
<1> DEFINE a == At(c, i)
           b == At(c, i + 1)
           d == At(c, i + 2)
           n == SymbolLength(c, i, fs)
<1>3. n \in 1 .. 3
  BY DEF SymbolLength
<1>4. /\ (a = "." /\ b = "." /\ d = "." => n = 3)
      /\ (a \in {"<", ">"} /\ b = a => IF d = "=" THEN n = 3 ELSE n = 2)
      /\ (a \in {"<", ">", ":", "!", "^", "%"} /\ b = "=" => n = 2)
      /\ (a \in {"+", "-", "&", "|"} /\ b = a => n = 2)
      /\ (a \in {"+", "-", "&", "|", "*", "/"} /\ b = "=" /\ "c-ops" \in fs => n = 2)
  BY <1>1 DEF SymbolLength
<1> HIDE DEF a, b, d, n
<1>7. (u \in COps => "c-ops" \in fs) /\ (u \in BAssignments => "b-ops" \in fs)
  BY LexiconIs, <1>2
<1>8. a # "=" /\ a \in Marks
  BY <1>1 DEF a
<1>9. CASE u \in Marks
  <2>1. Len(Letterwise[u]) = 1
    BY <1>9, LengthOf
  <2>2. QED
    BY <2>1, <1>3 DEF n
<1>5. CASE u \in Triples
  <2>1. u \notin Marks
    BY <1>5 DEF Triples, Marks
  <2>2. n = 3
    BY <2>1, <1>5, <1>1, <1>2, <1>4, <1>8, Written DEF Triples, a, b, d
  <2>3. Len(Letterwise[u]) = 3
    BY <1>5, LengthOf
  <2>4. QED
    BY <2>2, <2>3 DEF n
<1>6. CASE u \in Pairs
  <2>1. u \notin Marks
    BY <1>6 DEF Pairs, Marks
  <2>3. n = 2 \/ n = 3
    BY <2>1, <1>6, <1>1, <1>2, <1>4, <1>7, <1>8, Written DEF Pairs, COps, a, b, d
  <2>2. Len(Letterwise[u]) = 2
    BY <1>6, LengthOf
  <2>4. QED
    BY <2>3, <2>2 DEF n
<1>10. QED
  BY <1>2, <1>9, <1>5, <1>6, SymbolsAre

(* Some symbol there is has the length that the lexer takes. *)
LEMMA SomeWritten ==
  ASSUME NEW c \in Seq(Alphabet), NEW i \in DOMAIN c, Text(c), NEW fs, c[i] \in Marks \ {"="}
  PROVE  \E u \in Lexicon(fs) : IsWritten(u, c, i) /\ Len(Letterwise[u]) = SymbolLength(c, i, fs)
<1>1. i \in 1 .. Len(c) + 1 /\ At(c, i) = c[i]
  BY LenProperties DEF At
<1> DEFINE a == At(c, i)
           b == At(c, i + 1)
           d == At(c, i + 2)
           n == SymbolLength(c, i, fs)
           w(u) == IsWritten(u, c, i)
<1>2. \/ n = 1
      \/ n = 2 /\ a \in {":", "!", "^", "%"} /\ b = "="
      \/ n = 2 /\ a \in {"+", "-", "&", "|"} /\ b = a
      \/ n = 2 /\ a \in {"+", "-", "&", "|", "*", "/"} /\ b = "=" /\ "c-ops" \in fs
      \/ n = 2 /\ a \in {"<", ">"} /\ b = "="
      \/ n = 2 /\ a \in {"<", ">"} /\ b = a
      \/ n = 3 /\ a \in {"<", ">"} /\ b = a /\ d = "="
      \/ n = 3 /\ a = "." /\ b = "." /\ d = "."
  BY <1>1 DEF SymbolLength
<1> HIDE DEF a, b, d, n, w
<1>3. SUFFICES \E u \in Symbols : /\ w(u) /\ Len(Letterwise[u]) = n
                                  /\ (u \in COps => "c-ops" \in fs) /\ (u \in BAssignments => "b-ops" \in fs)
  BY LexiconIs DEF w, n
<1>4. CASE n = 1
  <2>1. c[i] \in Symbols /\ c[i] \notin COps /\ c[i] \notin BAssignments /\ Len(Letterwise[c[i]]) = 1
    BY SymbolsAre, LexiconMarks, LengthOf
  <2>2. w(c[i])
    BY MarksWritten, <1>1 DEF w
  <2>3. QED
    BY <2>1, <2>2, <1>4
<1>5. ASSUME NEW u \in Pairs, w(u), u \notin BAssignments, u \in COps => "c-ops" \in fs, n = 2
      PROVE  \E v \in Symbols : /\ w(v) /\ Len(Letterwise[v]) = n
                                /\ (v \in COps => "c-ops" \in fs) /\ (v \in BAssignments => "b-ops" \in fs)
  <2>1. u \in Symbols /\ Len(Letterwise[u]) = 2
    BY SymbolsAre, LengthOf
  <2>2. QED
    BY <2>1, <1>5
<1>6. ASSUME NEW u \in Triples, w(u), u \notin BAssignments, n = 3
      PROVE  \E v \in Symbols : /\ w(v) /\ Len(Letterwise[v]) = n
                                /\ (v \in COps => "c-ops" \in fs) /\ (v \in BAssignments => "b-ops" \in fs)
  <2>1. u \in Symbols /\ Len(Letterwise[u]) = 3 /\ u \notin COps
    BY SymbolsAre, LengthOf DEF Triples, COps
  <2>2. QED
    BY <2>1, <1>6
<1>7. /\ (a = ":" /\ b = "=" => w(":=")) /\ (a = "!" /\ b = "=" => w("!=")) /\ (a = "^" /\ b = "=" => w("^="))
      /\ (a = "%" /\ b = "=" => w("%=")) /\ (a = "<" /\ b = "=" => w("<=")) /\ (a = ">" /\ b = "=" => w(">="))
      /\ (a = "+" /\ b = a => w("++")) /\ (a = "-" /\ b = a => w("--")) /\ (a = "&" /\ b = a => w("&&"))
      /\ (a = "|" /\ b = a => w("||")) /\ (a = "<" /\ b = a => w("<<")) /\ (a = ">" /\ b = a => w(">>"))
      /\ (a = "+" /\ b = "=" => w("+=")) /\ (a = "-" /\ b = "=" => w("-=")) /\ (a = "&" /\ b = "=" => w("&="))
      /\ (a = "|" /\ b = "=" => w("|=")) /\ (a = "*" /\ b = "=" => w("*=")) /\ (a = "/" /\ b = "=" => w("/="))
      /\ (a = "<" /\ b = a /\ d = "=" => w("<<=")) /\ (a = ">" /\ b = a /\ d = "=" => w(">>="))
      /\ (a = "." /\ b = "." /\ d = "." => w("..."))
  BY <1>1, ManyWritten DEF a, b, d, w
<1>8. /\ \A u \in {":=", "!=", "^=", "%=", "<=", ">=", "++", "--", "&&", "||", "<<", ">>"} :
           u \in Pairs /\ u \notin BAssignments /\ u \notin COps
      /\ \A u \in {"+=", "-=", "&=", "|=", "*=", "/="} : u \in Pairs /\ u \notin BAssignments
      /\ \A u \in {"<<=", ">>=", "..."} : u \in Triples /\ u \notin BAssignments
  BY DEF Pairs, Triples, BAssignments, COps
<1>9. CASE n = 2 /\ a \in {":", "!", "^", "%", "<", ">"} /\ b = "="
  BY <1>9, <1>5, <1>7, <1>8
<1>10. CASE n = 2 /\ a \in {"+", "-", "&", "|", "<", ">"} /\ b = a
  BY <1>10, <1>5, <1>7, <1>8
<1>11. CASE n = 2 /\ a \in {"+", "-", "&", "|", "*", "/"} /\ b = "=" /\ "c-ops" \in fs
  BY <1>11, <1>5, <1>7, <1>8
<1>12. CASE n = 3
  BY <1>12, <1>2, <1>6, <1>7, <1>8
<1>13. QED
  BY <1>2, <1>4, <1>9, <1>10, <1>11, <1>12

(* How many characters a symbol has. *)
Size(u) == Len(Letterwise[u])

(* How many characters the symbols have. *)
LEMMA Sizes ==
  /\ \A u \in Marks : Size(u) = 1
  /\ \A u \in Pairs : Size(u) = 2
  /\ \A u \in Triples : Size(u) = 3
  /\ Marks \subseteq Symbols /\ Pairs \subseteq Symbols /\ Triples \subseteq Symbols
BY SymbolsAre, LengthOf DEF Size

(* No symbol has more than three characters. *)
LEMMA AtMost == ASSUME NEW fs, NEW u \in Lexicon(fs) PROVE Size(u) \in 1 .. 3
BY LexiconIs, LettersOf DEF Size

(* SymbolOfIs, in terms of Size. *)
LEMMA SymbolOfSize ==
  ASSUME NEW c \in Seq(Alphabet), NEW i \in DOMAIN c, NEW u \in Symbols, IsWritten(u, c, i)
  PROVE  SymbolOf(c, i, Size(u)) = u /\ i + Size(u) - 1 <= Len(c)
BY SymbolOfIs DEF Size

(* SymbolLength is the length of the longest symbol that is written there. *)
LEMMA SizesAtMost ==
  ASSUME NEW c \in Seq(Alphabet), NEW i \in DOMAIN c, Text(c), NEW fs, c[i] \in Marks \ {"="}
  PROVE  /\ \E u \in Lexicon(fs) : IsWritten(u, c, i) /\ Size(u) = SymbolLength(c, i, fs)
         /\ \A u \in Lexicon(fs) : IsWritten(u, c, i) => Size(u) <= SymbolLength(c, i, fs)
BY SomeWritten, NoLonger DEF Size

(* TakesMore, without regard to where the symbol was found. *)
More(tok, c, i, fs) ==
  LET second == At(c, i + 1)
  IN  \/ tok = "=" /\ "b-ops" \in fs /\ second \in {"<", ">"}
      \/ tok = "=>>" /\ second = "<"
      \/ tok = "." /\ second = "."

(* A symbol with its end: the longest of the lexicon that is written at i. *)
Longest(tok, next, c, i, fs) ==
  /\ next = i + Size(tok) /\ IsWritten(tok, c, i)
  /\ \A u \in Lexicon(fs) : IsWritten(u, c, i) => Size(u) <= Size(tok)

(* What the lexer makes of a symbol at i. *)
Best(l, c, i, fs) ==
  /\ l.tok \in Lexicon(fs) /\ l.from = i /\ l.next \in i + 1 .. Len(c) + 1
  /\ ~More(l.tok, c, i, fs) => Longest(l.tok, l.next, c, i, fs)

(* Where a character is, the text has not ended. *)
LEMMA AtInside == ASSUME NEW c \in Seq(Alphabet), NEW i \in Nat, At(c, i) # "end" PROVE i \in 1 .. Len(c)
BY LenProperties DEF At

(* The lexer takes the symbol with the length it has found. *)
LEMMA OthersBest ==
  ASSUME NEW c \in Seq(Alphabet), NEW i \in DOMAIN c, Text(c), NEW fs, c[i] \in Marks \ {"="}
  PROVE  Best(SymbolAt(c, i, fs), c, i, fs)
<1> DEFINE n == SymbolLength(c, i, fs)
           l == SymbolAt(c, i, fs)
           twoDots == c[i] = "." /\ At(c, i + 1) = "." /\ n = 1
<1>1. PICK u \in Lexicon(fs) : IsWritten(u, c, i) /\ Size(u) = n
  BY SizesAtMost
<1>2. u \in Symbols
  BY LexiconIs
<1>3. SymbolOf(c, i, n) = u /\ i + n - 1 <= Len(c)
  BY <1>1, <1>2, SymbolOfSize
<1>4. n \in 1 .. 3
  BY DEF SymbolLength
<1>5. \A v \in Lexicon(fs) : IsWritten(v, c, i) => Size(v) <= Size(u)
  BY <1>1, SizesAtMost
<1> HIDE DEF n
<1>6. l = Lexeme(u, i, IF twoDots THEN i + 2 ELSE i + n)
  BY <1>3 DEF SymbolAt, n
<1>7. i \in 1 .. Len(c) /\ Len(c) \in Nat /\ (twoDots => i + 1 <= Len(c))
  BY AtInside, LenProperties
<1>8. ASSUME twoDots PROVE u = "."
  <2>1. At(c, i) = "." /\ i \in 1 .. Len(c) + 1 /\ "." \in Marks
    BY <1>8, <1>7 DEF At, Marks
  <2>2. IsWritten(".", c, i)
    BY <2>1, MarksWritten
  <2>3. Size(".") = n /\ "." \in Symbols
    BY <1>8, <2>1, Sizes, SymbolsAre DEF Marks
  <2>4. QED
    BY <2>2, <2>3, <1>3, SymbolOfSize
<1>9. twoDots => More(u, c, i, fs)
  BY <1>8 DEF More
<1>10. ~twoDots => Longest(u, i + n, c, i, fs)
  BY <1>1, <1>5 DEF Longest
<1> HIDE DEF l, twoDots
<1>11. l.tok = u /\ l.from = i /\ l.next = IF twoDots THEN i + 2 ELSE i + n
  BY <1>6 DEF Lexeme
<1>12. l.next \in i + 1 .. Len(c) + 1
  BY <1>11, <1>7, <1>3, <1>4
<1>13. QED
  BY <1>9, <1>10, <1>11, <1>12 DEF Best, l

(* equal: which symbols of several characters can be written at an equals sign. *)
LEMMA EqualLonger ==
  ASSUME NEW c \in Seq(Alphabet), NEW i \in DOMAIN c, Text(c), NEW fs, c[i] = "=",
         NEW u \in Lexicon(fs), IsWritten(u, c, i)
  PROVE  LET b == At(c, i + 1)
             d == At(c, i + 2)
         IN  \/ u = "="
             \/ u \in Pairs /\ b \in {"=", "+", "-", "*", "/", "%", "&", "|", "^"} /\ ("b-ops" \in fs \/ b = "=")
             \/ u = "=<<" /\ b = "<" /\ d = "<" /\ "b-ops" \in fs
             \/ u = "=>>" /\ b = ">" /\ d = ">" /\ "b-ops" \in fs
<1>1. i \in 1 .. Len(c) + 1 /\ At(c, i) = "="
  BY LenProperties DEF At
<1>2. u \in Symbols /\ (u \in BAssignments => "b-ops" \in fs)
  BY LexiconIs
<1>3. {"=+", "=-", "=*", "=/", "=%", "=&", "=|", "=^", "==", ":=", "!="} \subseteq Pairs
  BY DEF Pairs
<1>4. QED
  BY <1>1, <1>2, <1>3, Written DEF BAssignments

(* equal takes the longest symbol, but for those that TakesMore names. *)
LEMMA EqualsBest ==
  ASSUME NEW c \in Seq(Alphabet), NEW i \in DOMAIN c, Text(c), NEW fs, c[i] = "="
  PROVE  Best(SymbolAt(c, i, fs), c, i, fs)
<1> DEFINE b == At(c, i + 1)
           d == At(c, i + 2)
           l == SymbolAt(c, i, fs)
           ops == {"=", "+", "-", "*", "/", "%", "&", "|", "^"}
<1>1. i \in 1 .. Len(c) /\ Len(c) \in Nat /\ At(c, i) = "="
  BY LenProperties DEF At
<1>2. l = Equal(c, i, fs)
  BY DEF SymbolAt
<1>3. (b # "end" => i + 1 <= Len(c)) /\ (d # "end" => i + 2 <= Len(c)) /\ (At(c, i + 3) # "end" => i + 3 <= Len(c))
  BY <1>1, AtInside
<1>4. "=" \in Marks /\ "=" \in Lexicon(fs) /\ IsWritten("=", c, i) /\ Size("=") = 1
  <2>1. "=" \in Marks
    BY DEF Marks
  <2>2. QED
    BY <2>1, <1>1, SymbolsAre, LexiconIs, LexiconMarks, Sizes, MarksWritten
<1>5. ASSUME b \in ops, "b-ops" \in fs \/ b = "=" PROVE Best(l, c, i, fs)
  <2>1. PICK u \in Pairs : IsWritten(u, c, i) /\ u \in Lexicon(fs)
    <3>1. {"=+", "=-", "=*", "=/", "=%", "=&", "=|", "=^", "=="} \subseteq Pairs
      BY DEF Pairs
    <3>2. \A u \in {"=+", "=-", "=*", "=/", "=%", "=&", "=|", "=^", "=="} : u \notin COps /\ (u = "==" => u \notin BAssignments)
      BY DEF COps, BAssignments
    <3>3. \A u \in {"=+", "=-", "=*", "=/", "=%", "=&", "=|", "=^", "=="} : ("b-ops" \in fs \/ u = "==") => u \in Lexicon(fs)
      BY <3>1, <3>2, SymbolsAre, LexiconIs
    <3>4. QED
      BY <1>1, <1>5, <3>1, <3>3, ManyWritten
  <2>2. SymbolOf(c, i, 2) = u /\ u \in Symbols /\ Size(u) = 2
    
    <3>1. u \in Symbols /\ Size(u) = 2
      BY Sizes
    <3>2. QED
      BY <3>1, <2>1, SymbolOfSize
  <2>3. l = Lexeme(u, i, i + 2)
    BY <1>2, <1>5, <2>2 DEF Equal
  <2>4. \A v \in Lexicon(fs) : IsWritten(v, c, i) => Size(v) <= 2
    <3> SUFFICES ASSUME NEW v \in Lexicon(fs), IsWritten(v, c, i) PROVE Size(v) <= 2
      OBVIOUS
    <3>1. v = "=" \/ v \in Pairs
      BY <1>5, EqualLonger
    <3>2. Size(v) = 1 \/ Size(v) = 2
      BY <3>1, <1>4, Sizes
    <3>3. QED
      BY <3>2
  <2>5. l.tok = u /\ l.from = i /\ l.next = i + 2
    BY <2>3 DEF Lexeme
  <2>6. Longest(u, i + 2, c, i, fs)
    BY <2>1, <2>2, <2>4 DEF Longest
  <2>7. i + 2 \in i + 1 .. Len(c) + 1
    BY <1>1, <1>3, <1>5
  <2>8. QED
    BY <2>1, <2>5, <2>6, <2>7 DEF Best
<1>6. ASSUME b = "<", d = "<", "b-ops" \in fs PROVE Best(l, c, i, fs)
  <2>1. "=<<" \in Triples /\ "=<<" \notin COps
    BY DEF Triples, COps
  <2>2. "=<<" \in Lexicon(fs) /\ Size("=<<") = 3
    BY <2>1, <1>6, SymbolsAre, LexiconIs, Sizes
  <2>3. IsWritten("=<<", c, i)
    BY <1>1, <1>6, ManyWritten
  <2>4. l = Lexeme("=<<", i, i + 3)
    BY <1>2, <1>6 DEF Equal
  <2>5. \A v \in Lexicon(fs) : IsWritten(v, c, i) => Size(v) <= 3
    BY AtMost
  <2>6. Longest("=<<", i + 3, c, i, fs)
    BY <2>2, <2>3, <2>5 DEF Longest
  <2>7. i + 3 \in i + 1 .. Len(c) + 1
    BY <1>1, <1>3, <1>6
  <2>8. QED
    BY <2>2, <2>4, <2>6, <2>7 DEF Best, Lexeme
<1>7. ASSUME b = ">", d = ">", "b-ops" \in fs PROVE Best(l, c, i, fs)
  <2>1. "=>>" \in Triples /\ "=>>" \notin COps
    BY DEF Triples, COps
  <2>2. "=>>" \in Lexicon(fs) /\ Size("=>>") = 3
    BY <2>1, <1>7, SymbolsAre, LexiconIs, Sizes
  <2>3. IsWritten("=>>", c, i)
    BY <1>1, <1>7, ManyWritten
  <2>4. l = Lexeme("=>>", i, i + 3)
    BY <1>1, <1>2, <1>7 DEF Equal
  <2>5. \A v \in Lexicon(fs) : IsWritten(v, c, i) => Size(v) <= 3
    BY AtMost
  <2>6. Longest("=>>", i + 3, c, i, fs)
    BY <2>2, <2>3, <2>5 DEF Longest
  <2>7. i + 3 \in i + 1 .. Len(c) + 1
    BY <1>1, <1>3, <1>7
  <2>8. QED
    BY <2>2, <2>4, <2>6, <2>7 DEF Best, Lexeme
<1>8. ASSUME b \in {"<", ">"}, b = "<" => d # "<", b = ">" => d # ">", "b-ops" \in fs PROVE Best(l, c, i, fs)
  <2>1. "=>>" \in Lexicon(fs)
    <3>1. "=>>" \in Triples /\ "=>>" \notin COps
      BY DEF Triples, COps
    <3>2. QED
      BY <3>1, <1>8, SymbolsAre, LexiconIs
  <2>2. \/ l = Lexeme("=", i, i + 2) 
        \/ l = Lexeme("=", i, i + 3) /\ d = ">"
        \/ l = Lexeme("=>>", i, i + 4) /\ At(c, i + 3) = ">" /\ b = "<"
    BY <1>1, <1>2, <1>8 DEF Equal
  <2>3. l.next \in i + 1 .. Len(c) + 1
    BY <2>2, <1>1, <1>3, <1>8 DEF Lexeme
  <2>4. l.tok \in Lexicon(fs) /\ l.from = i
    BY <2>1, <2>2, <1>4 DEF Lexeme
  <2>5. More(l.tok, c, i, fs)
    BY <2>2, <1>8 DEF Lexeme, More
  <2>6. QED
    BY <2>3, <2>4, <2>5 DEF Best
<1>9. ASSUME ~(b \in ops /\ ("b-ops" \in fs \/ b = "=")), ~(b \in {"<", ">"} /\ "b-ops" \in fs) PROVE Best(l, c, i, fs)
  <2>1. l = Lexeme("=", i, i + 1)
    BY <1>2, <1>9 DEF Equal
  <2>2. \A v \in Lexicon(fs) : IsWritten(v, c, i) => Size(v) <= 1
    BY <1>9, <1>4, EqualLonger
  <2>3. Longest("=", i + 1, c, i, fs)
    BY <2>2, <1>4 DEF Longest
  <2>4. QED
    BY <2>1, <2>3, <1>1, <1>4 DEF Best, Lexeme
<1>10. QED
  BY <1>5, <1>6, <1>7, <1>8, <1>9

(* Every symbol. *)
LEMMA SymbolsBest ==
  ASSUME NEW c \in Seq(Alphabet), NEW i \in DOMAIN c, Text(c), NEW fs, c[i] \in Marks
  PROVE  Best(SymbolAt(c, i, fs), c, i, fs)
BY EqualsBest, OthersBest

-----------------------------------------------------------------------------
(* Recursions from the end. *)

(* A recursion from the end: each value is made from those behind it. *)
Within(step, m, S) == \A j \in 1 .. m : \A h \in [j + 1 .. m -> S] : step[j][h] \in S
Backwards(g, step, m) == \A j \in 1 .. m : g[j] = step[j][[k \in j + 1 .. m |-> g[k]]]

(* There is a function of that recursion. *)
LEMMA FromEnd ==
  ASSUME NEW m \in Nat, NEW S, NEW step, Within(step, m, S)
  PROVE  \E g \in [1 .. m -> S] : Backwards(g, step, m)
<1> DEFINE From(n, g) == \A j \in m - n + 1 .. m : g[j] = step[j][[k \in j + 1 .. m |-> g[k]]]
           T == {n \in Nat : n <= m => \E g \in [m - n + 1 .. m -> S] : From(n, g)}
<1>1. 0 \in T
  <2>1. [k \in m - 0 + 1 .. m |-> {}] \in [m - 0 + 1 .. m -> S]
    OBVIOUS
  <2>2. From(0, [k \in m - 0 + 1 .. m |-> {}])
    OBVIOUS
  <2>3. QED
    BY <2>1, <2>2
<1>2. ASSUME NEW n \in T PROVE n + 1 \in T
  <2>1. SUFFICES ASSUME n + 1 <= m PROVE \E g \in [m - (n + 1) + 1 .. m -> S] : From(n + 1, g)
    OBVIOUS
  <2>2. n \in Nat /\ m - n \in 1 .. m /\ m - (n + 1) + 1 = m - n
    BY <2>1
  <2>3. PICK f \in [m - n + 1 .. m -> S] : From(n, f)
    BY <2>1
  <2> DEFINE i == m - n
             v == step[i][[k \in i + 1 .. m |-> f[k]]]
             g == [j \in i .. m |-> IF j = i THEN v ELSE f[j]]
  <2>4. v \in S
    <3>1. [k \in i + 1 .. m |-> f[k]] \in [i + 1 .. m -> S]
      BY <2>2
    <3>2. QED
      BY <2>2, <3>1 DEF Within
  <2> HIDE DEF v
  <2>5. g \in [i .. m -> S]
    BY <2>4, <2>2
  <2>6. ASSUME NEW j \in i .. m PROVE g[j] = step[j][[k \in j + 1 .. m |-> g[k]]]
    <3>1. [k \in j + 1 .. m |-> g[k]] = [k \in j + 1 .. m |-> f[k]]
      BY <2>2
    <3>2. CASE j = i
      BY <3>1, <3>2 DEF v
    <3>3. CASE j # i
      <4>1. j \in m - n + 1 .. m
        BY <3>3, <2>2
      <4>2. f[j] = step[j][[k \in j + 1 .. m |-> f[k]]]
        BY <4>1, <2>3
      <4>3. QED
        BY <3>3, <4>2, <3>1
    <3>4. QED
      BY <3>2, <3>3
  <2>7. From(n + 1, g)
    BY <2>2, <2>6
  <2>8. g \in [m - (n + 1) + 1 .. m -> S]
    BY <2>2, <2>5
  <2> HIDE DEF g, From
  <2>9. QED
    BY <2>7, <2>8
<1>3. m \in T
  <2> HIDE DEF T
  <2>1. T \subseteq Nat
    BY DEF T
  <2>2. QED
    BY <2>1, <1>1, <1>2, Inductive
<1>4. m - m + 1 = 1
  OBVIOUS
<1>5. QED
  BY <1>3, <1>4 DEF Backwards

(* Induction from the end. *)
LEMMA Downward ==
  ASSUME NEW m \in Nat, NEW T, \A j \in 1 .. m : (\A k \in j + 1 .. m : k \in T) => j \in T
  PROVE  1 .. m \subseteq T
<1> DEFINE U == {n \in Nat : n <= m => \A k \in m - n + 1 .. m : k \in T}
<1>1. 0 \in U
  OBVIOUS
<1>2. ASSUME NEW n \in U PROVE n + 1 \in U
  <2>1. SUFFICES ASSUME n + 1 <= m, NEW k \in m - (n + 1) + 1 .. m PROVE k \in T
    OBVIOUS
  <2>2. n \in Nat /\ m - n \in 1 .. m
    BY <2>1
  <2>3. \A i \in m - n + 1 .. m : i \in T
    BY <2>1
  <2>4. m - n \in T
    BY <2>2, <2>3
  <2>5. k = m - n \/ k \in m - n + 1 .. m
    BY <2>1, <2>2
  <2>6. QED
    BY <2>3, <2>4, <2>5
<1>3. m \in U
  <2> HIDE DEF U
  <2>1. U \subseteq Nat
    BY DEF U
  <2>2. QED
    BY <2>1, <1>1, <1>2, Inductive
<1>4. m - m + 1 = 1
  OBVIOUS
<1>5. QED
  BY <1>3, <1>4

(* The first of some numbers. *)
LEMMA FirstOf ==
  ASSUME NEW i \in Nat, NEW n \in Nat, NEW S, S \subseteq i .. n, S # {}
  PROVE  \E j \in S : \A k \in i .. j - 1 : k \notin S
<1>1. S \subseteq Nat
  OBVIOUS
<1>2. PICK x \in S : \A y \in S : <<y, x>> \notin OpToRel(<, Nat)
  BY ONLY <1>1, S # {}, WFMin, NatLessThanWellFounded
<1>3. \A y \in S : ~ (y < x)
  BY <1>1, <1>2 DEF OpToRel
<1>4. QED
  BY <1>1, <1>3

-----------------------------------------------------------------------------
(* The functions of the lexer that are defined from the end. *)

(* The character at each position. *)
LEMMA AtIs ==
  ASSUME NEW c, Text(c)
  PROVE  /\ Len(c) \in Nat /\ DOMAIN c = 1 .. Len(c)
         /\ \A i \in Nat : i > Len(c) => At(c, i) = "end"
         /\ \A i \in 1 .. Len(c) : At(c, i) = c[i] /\ At(c, i) # "end"
BY LenProperties DEF Text, At

(* UpTo is the first position with such a character, or behind the text. *)
LEMMA UpToIs ==
  ASSUME NEW c, Text(c), NEW i \in 1 .. Len(c) + 1, NEW S
  PROVE  LET j == UpTo(c, i, S)
         IN  /\ j \in i .. Len(c) + 1 /\ At(c, j) \in S \cup {"end"}
             /\ \A k \in i .. j - 1 : At(c, k) \notin S \cup {"end"}
<1> DEFINE F == {j \in i .. Len(c) + 1 : At(c, j) \in S \cup {"end"}}
<1>1. Len(c) \in Nat /\ Len(c) + 1 \in Nat /\ i \in Nat /\ At(c, Len(c) + 1) = "end"
  BY AtIs
<1>2. Len(c) + 1 \in F
  BY <1>1
<1>3. \E j \in F : \A k \in i .. j - 1 : k \notin F
  <2>1. F \subseteq i .. Len(c) + 1
    OBVIOUS
  <2> HIDE DEF F
  <2>2. QED
    BY <1>1, <1>2, <2>1, FirstOf
<1>4. \E j \in i .. Len(c) + 1 : At(c, j) \in S \cup {"end"} /\ \A k \in i .. j - 1 : At(c, k) \notin S \cup {"end"}
  BY <1>1, <1>3
<1>5. QED
  BY <1>4 DEF UpTo

(* Past is the first position with no such character. *)
LEMMA PastIs ==
  ASSUME NEW c, Text(c), NEW i \in 1 .. Len(c) + 1, NEW S, "end" \notin S
  PROVE  LET j == Past(c, i, S)
         IN  /\ j \in i .. Len(c) + 1 /\ At(c, j) \notin S
             /\ \A k \in i .. j - 1 : At(c, k) \in S
<1> DEFINE F == {j \in i .. Len(c) + 1 : At(c, j) \notin S}
<1>1. Len(c) \in Nat /\ Len(c) + 1 \in Nat /\ i \in Nat /\ At(c, Len(c) + 1) = "end"
  BY AtIs
<1>2. Len(c) + 1 \in F
  BY <1>1
<1>3. \E j \in F : \A k \in i .. j - 1 : k \notin F
  <2>1. F \subseteq i .. Len(c) + 1
    OBVIOUS
  <2> HIDE DEF F
  <2>2. QED
    BY <1>1, <1>2, <2>1, FirstOf
<1>4. \E j \in i .. Len(c) + 1 : At(c, j) \notin S /\ \A k \in i .. j - 1 : At(c, k) \in S
  BY <1>1, <1>3
<1>5. QED
  BY <1>4 DEF Past

-----------------------------------------------------------------------------
(* Where a comment that begins at j may end. *)
Closings(c, j) == {k \in j + 2 .. Len(c) - 1 : c[k] = "*" /\ c[k + 1] = "/"}
Opens(c, j) == At(c, j) = "/" /\ At(c, j + 1) = "*"

(* A comment that is closed ends with the first star and slash. *)
LEMMA FirstClosing ==
  ASSUME NEW c, Text(c), NEW j \in 1 .. Len(c) + 1, Closings(c, j) # {}
  PROVE  Min(Closings(c, j)) \in Closings(c, j) /\ \A k \in Closings(c, j) : Min(Closings(c, j)) <= k
<1>1. Len(c) \in Nat /\ j + 2 \in Nat /\ Closings(c, j) \subseteq j + 2 .. Len(c)
  BY AtIs DEF Closings
<1>2. PICK k \in Closings(c, j) : \A n \in j + 2 .. k - 1 : n \notin Closings(c, j)
  BY <1>1, FirstOf
<1>3. \A n \in Closings(c, j) : k <= n
  BY <1>1, <1>2
<1>4. QED
  BY <1>3 DEF Min

(* The recursion of Skip. *)
LEMMA SkipIs ==
  ASSUME NEW c, Text(c), NEW j \in 1 .. Len(c) + 1
  PROVE  /\ Skip(c, j) \in 0 .. Len(c) + 1
         /\ At(c, j) \in Blanks => j + 1 \in 1 .. Len(c) + 1 /\ Skip(c, j) = Skip(c, j + 1)
         /\ Opens(c, j) =>
              Skip(c, j) = IF Closings(c, j) = {} THEN 0 ELSE Skip(c, Min(Closings(c, j)) + 2)
         /\ (At(c, j) \notin Blanks /\ ~Opens(c, j)) => Skip(c, j) = j
<1> DEFINE m == Len(c) + 1
           body(h, i) == CASE At(c, i) \in Blanks -> h[i + 1]
                           [] At(c, i) = "/" /\ At(c, i + 1) = "*" ->
                                IF Closings(c, i) = {} THEN 0 ELSE h[Min(Closings(c, i)) + 2]
                           [] OTHER -> i
           Eq(h) == h = [i \in 1 .. m |-> body(h, i)]
           f == CHOOSE h : Eq(h)
           step == [i \in 1 .. m |-> [h \in [i + 1 .. m -> 0 .. m] |-> body(h, i)]]
<1>1. m \in Nat /\ m = Len(c) + 1
  BY AtIs
<1>2. ASSUME NEW i \in 1 .. m, At(c, i) \in Blanks PROVE i + 1 \in i + 1 .. m
  <2>1. i # Len(c) + 1
    <3>1. At(c, Len(c) + 1) = "end"
      BY <1>1, AtIs
    <3>2. QED
      BY <1>2, <3>1 DEF Blanks
  <2>2. QED
    BY <2>1, <1>1
<1>3. ASSUME NEW i \in 1 .. m, Closings(c, i) # {} PROVE Min(Closings(c, i)) + 2 \in i + 1 .. m
  <2>1. Min(Closings(c, i)) \in i + 2 .. Len(c) - 1
    BY <1>3, FirstClosing DEF Closings
  <2>2. QED
    BY <2>1, <1>1
<1>4. \A i \in 1 .. m : \A h \in [i + 1 .. m -> 0 .. m] : step[i][h] = body(h, i) /\ body(h, i) \in 0 .. m
  BY <1>1, <1>2, <1>3
<1> HIDE DEF step, m
<1>5. PICK g \in [1 .. m -> 0 .. m] : Backwards(g, step, m)
  <2>1. Within(step, m, 0 .. m)
    BY <1>4 DEF Within
  <2>2. QED
    BY <1>1, <2>1, FromEnd
<1>6. \A i \in 1 .. m : g[i] = body(g, i)
  <2> SUFFICES ASSUME NEW i \in 1 .. m PROVE g[i] = body(g, i)
    OBVIOUS
  <2> DEFINE h == [k \in i + 1 .. m |-> g[k]]
  <2>1. h \in [i + 1 .. m -> 0 .. m]
    BY <1>1
  <2>2. g[i] = body(h, i)
    BY <1>4, <1>5, <2>1 DEF Backwards
  <2>3. body(h, i) = body(g, i)
    BY <1>2, <1>3
  <2>4. QED
    BY <2>2, <2>3
<1>7. Eq(g)
  BY <1>6
<1>8. Eq(f)
  BY <1>7
<1>9. \A i \in 1 .. m : Skip(c, i) = f[i]
  BY DEF Skip, Closings, m
<1> HIDE DEF f
<1>10. \A i \in 1 .. m : f[i] = body(f, i)
  BY <1>8
<1> DEFINE T == {i \in 1 .. m : f[i] \in 0 .. m}
<1>11. \A i \in 1 .. m : (\A k \in i + 1 .. m : k \in T) => i \in T
  BY <1>1, <1>2, <1>3, <1>10
<1>12. \A i \in 1 .. m : f[i] \in 0 .. m
  <2> HIDE DEF T
  <2>1. 1 .. m \subseteq T
    BY <1>1, <1>11, Downward
  <2>2. QED
    BY <2>1 DEF T
<1>13. j \in 1 .. m
  BY <1>1
<1>14. Skip(c, j) = body(f, j) /\ Skip(c, j) \in 0 .. Len(c) + 1
  BY <1>1, <1>9, <1>10, <1>12, <1>13
<1>15. ASSUME At(c, j) \in Blanks PROVE j + 1 \in 1 .. Len(c) + 1 /\ Skip(c, j) = Skip(c, j + 1)
  <2>1. j + 1 \in 1 .. m
    BY <1>1, <1>2, <1>13, <1>15
  <2>2. Skip(c, j + 1) = f[j + 1]
    BY <2>1, <1>9
  <2>3. Skip(c, j) = f[j + 1]
    BY <1>14, <1>15 DEF Blanks
  <2>4. QED
    BY <2>1, <2>2, <2>3, <1>1
<1>16. ASSUME Opens(c, j), Closings(c, j) # {} PROVE Skip(c, j) = Skip(c, Min(Closings(c, j)) + 2)
  <2>1. At(c, j) \notin Blanks
    BY <1>16 DEF Opens, Blanks
  <2>2. Min(Closings(c, j)) + 2 \in 1 .. m
    BY <1>1, <1>3, <1>13, <1>16
  <2>3. QED
    BY <2>1, <2>2, <1>9, <1>14, <1>16 DEF Opens
<1>17. ASSUME Opens(c, j), Closings(c, j) = {} PROVE Skip(c, j) = 0
  BY <1>14, <1>17 DEF Opens, Blanks
<1>18. ASSUME At(c, j) \notin Blanks, ~Opens(c, j) PROVE Skip(c, j) = j
  BY <1>14, <1>18 DEF Opens
<1>19. QED
  BY <1>14, <1>15, <1>16, <1>17, <1>18

-----------------------------------------------------------------------------
(* Comments and gaps. *)

(* The characters i to k of c are a comment of either kind. *)
IsComment(c, i, k) == IsBlockComment(c, i, k) \/ IsLineComment(c, i, k)

(* A gap begins with a blank or a comment, and goes on with a gap. *)
LEMMA GapIs ==
  ASSUME NEW c, NEW j \in Nat, NEW i \in 1 .. j
  PROVE  IsGap(c, i, j) <=> \/ i = j
                            \/ i < j /\ c[i] \in Blanks /\ IsGap(c, i + 1, j)
                            \/ i < j /\ c[i] = "/" /\ \E k \in i .. j - 1 : IsComment(c, i, k) /\ IsGap(c, k + 1, j)
<1> DEFINE body(h, n) == \/ n = j
                         \/ n < j /\ c[n] \in Blanks /\ h[n + 1]
                         \/ n < j /\ c[n] = "/" /\ \E k \in n .. j - 1 : (IsBlockComment(c, n, k) \/ IsLineComment(c, n, k)) /\ h[k + 1]
           Eq(h) == h = [n \in 1 .. j |-> body(h, n)]
           f == CHOOSE h : Eq(h)
           step == [n \in 1 .. j |-> [h \in [n + 1 .. j -> BOOLEAN] |-> body(h, n)]]
<1>1. \A n \in 1 .. j : \A h \in [n + 1 .. j -> BOOLEAN] : step[n][h] = body(h, n) /\ body(h, n) \in BOOLEAN
  OBVIOUS
<1> HIDE DEF step
<1>2. PICK g \in [1 .. j -> BOOLEAN] : Backwards(g, step, j)
  <2>1. Within(step, j, BOOLEAN)
    BY <1>1 DEF Within
  <2>2. QED
    BY <2>1, FromEnd
<1>3. \A n \in 1 .. j : g[n] = body(g, n)
  <2> SUFFICES ASSUME NEW n \in 1 .. j PROVE g[n] = body(g, n)
    OBVIOUS
  <2> DEFINE h == [k \in n + 1 .. j |-> g[k]]
  <2>1. h \in [n + 1 .. j -> BOOLEAN]
    OBVIOUS
  <2>2. g[n] = body(h, n)
    BY <1>1, <1>2, <2>1 DEF Backwards
  <2>3. \A k \in n .. j - 1 : h[k + 1] = g[k + 1]
    OBVIOUS
  <2> HIDE DEF h
  <2>4. body(h, n) = body(g, n)
    BY <2>3
  <2>5. QED
    BY <2>2, <2>4
<1>4. Eq(g)
  BY <1>3
<1>5. Eq(f)
  BY <1>4
<1>6. \A n \in 1 .. j : IsGap(c, n, j) <=> f[n]
  BY DEF IsGap
<1> HIDE DEF f
<1>7. \A n \in 1 .. j : f[n] = body(f, n)
  BY <1>5
<1>8. \A k \in i .. j - 1 : k + 1 \in 1 .. j /\ (IsGap(c, k + 1, j) <=> f[k + 1])
  BY <1>6
<1>9. IsGap(c, i, j) <=> body(f, i)
  BY <1>6, <1>7
<1>10. i < j => i \in i .. j - 1
  OBVIOUS
<1>11. QED
  BY <1>8, <1>9, <1>10 DEF IsComment

(* What Skip passes over is a gap, and a token begins behind it. *)
LEMMA SkipGap ==
  ASSUME NEW c, Text(c), NEW j \in 1 .. Len(c) + 1, Skip(c, j) # 0
  PROVE  /\ Skip(c, j) \in j .. Len(c) + 1
         /\ At(c, Skip(c, j)) \notin Blanks /\ ~Opens(c, Skip(c, j))
         /\ \A e \in Nat : IsGap(c, Skip(c, j), e) => IsGap(c, j, e)
<1> DEFINE m == Len(c) + 1
           Fine(k) == LET i == Skip(c, k)
                      IN  /\ i \in k .. m
                          /\ At(c, i) \notin Blanks /\ ~Opens(c, i)
                          /\ \A e \in Nat : IsGap(c, i, e) => IsGap(c, k, e)
           T == {k \in 1 .. m : Skip(c, k) # 0 => Fine(k)}
<1>1. m \in Nat
  BY AtIs
<1>2. ASSUME NEW k \in 1 .. m, \A n \in k + 1 .. m : n \in T, Skip(c, k) # 0 PROVE Fine(k)
  <2>1. CASE At(c, k) \in Blanks
    <3>1. k + 1 \in k + 1 .. m /\ Skip(c, k + 1) = Skip(c, k)
      BY <1>1, <2>1, SkipIs
    <3>2. Fine(k + 1)
      BY <3>1, <1>2
    <3>3. ASSUME NEW e \in Nat, IsGap(c, k + 1, e) PROVE IsGap(c, k, e)
      <4>1. k + 1 \in 1 .. e
        BY <3>3 DEF IsGap
      <4>2. c[k] \in Blanks
        BY <2>1, AtIs, <1>1, <3>1
      <4>3. QED
        BY <4>1, <4>2, <3>3, GapIs
    <3>4. QED
      BY <3>1, <3>2, <3>3, <1>1
  <2>2. CASE Opens(c, k)
    <3> DEFINE n == Min(Closings(c, k))
    <3>1. Closings(c, k) # {}
      BY <1>2, <2>2, SkipIs, <1>1
    <3>2. n \in Closings(c, k) /\ \A i \in Closings(c, k) : n <= i
      BY <3>1, FirstClosing, <1>1
    <3>3. n \in k + 2 .. Len(c) - 1 /\ Skip(c, n + 2) = Skip(c, k)
      BY <3>1, <3>2, <2>2, SkipIs, <1>1 DEF Closings
    <3> HIDE DEF n
    <3>4. n + 2 \in k + 1 .. m
      BY <3>3, <1>1
    <3>5. Fine(n + 2)
      BY <3>3, <3>4, <1>2
    <3>6. IsBlockComment(c, k, n + 1)
      <4>1. c[k] = "/" /\ c[k + 1] = "*"
        BY <2>2, <3>3, AtIs DEF Opens
      <4>2. {i \in k + 2 .. (n + 1) - 1 : c[i] = "*" /\ c[i + 1] = "/"} = {(n + 1) - 1}
        BY <3>2, <3>3, <1>1 DEF Closings
      <4>3. n + 1 >= k + 3
        BY <3>3
      <4>4. QED
        BY <4>1, <4>2, <4>3 DEF IsBlockComment
    <3>7. ASSUME NEW e \in Nat, IsGap(c, n + 2, e) PROVE IsGap(c, k, e)
      <4>1. n + 2 \in 1 .. e
        BY <3>7 DEF IsGap
      <4>2. c[k] = "/"
        BY <3>6 DEF IsBlockComment
      <4>3. n + 1 \in k .. e - 1 /\ (n + 1) + 1 = n + 2 /\ k \in 1 .. e /\ k < e
        BY <4>1, <3>3
      <4>4. QED
        BY <4>2, <4>3, <3>6, <3>7, GapIs DEF IsComment
    <3>8. QED
      BY <3>3, <3>4, <3>5, <3>7, <1>1
  <2>3. CASE At(c, k) \notin Blanks /\ ~Opens(c, k)
    <3>1. Skip(c, k) = k
      BY <2>3, SkipIs, <1>1
    <3>2. QED
      BY <3>1, <2>3, <1>1
  <2>4. QED
    BY <2>1, <2>2, <2>3
<1>3. \A k \in 1 .. m : (\A n \in k + 1 .. m : n \in T) => k \in T
  BY <1>2
<1>4. 1 .. m \subseteq T
  <2> HIDE DEF T, m
  <2>1. QED
    BY <1>1, <1>3, Downward
<1>5. QED
  BY <1>4

(* The recursion of Behind. *)
LEMMA BehindIs ==
  ASSUME NEW c, Text(c), NEW quote, NEW escapes, NEW j \in 1 .. Len(c) + 2
  PROVE  LET behind(i) == Behind(c, i, quote, escapes)
         IN  /\ behind(j) = 0 \/ behind(j) \in j + 1 .. Len(c) + 1
             /\ j > Len(c) => behind(j) = 0
             /\ j <= Len(c) => behind(j) = IF c[j] = quote THEN j + 1
                                           ELSE IF c[j] \in escapes THEN behind(j + 2) ELSE behind(j + 1)
<1> DEFINE m == Len(c) + 2
           body(h, i) == CASE i > Len(c) -> 0
                           [] i <= Len(c) /\ c[i] = quote -> i + 1
                           [] i <= Len(c) /\ c[i] # quote /\ c[i] \in escapes -> h[i + 2]
                           [] OTHER -> h[i + 1]
           Eq(h) == h = [i \in 1 .. m |-> body(h, i)]
           f == CHOOSE h : Eq(h)
           step == [i \in 1 .. m |-> [h \in [i + 1 .. m -> 0 .. m] |-> body(h, i)]]
           behind(i) == Behind(c, i, quote, escapes)
<1>1. m \in Nat /\ m = Len(c) + 2 /\ Len(c) \in Nat
  BY AtIs
<1>2. \A i \in 1 .. m : \A h \in [i + 1 .. m -> 0 .. m] : step[i][h] = body(h, i) /\ body(h, i) \in 0 .. m
  BY <1>1
<1> HIDE DEF step, m
<1>3. PICK g \in [1 .. m -> 0 .. m] : Backwards(g, step, m)
  <2>1. Within(step, m, 0 .. m)
    BY <1>2 DEF Within
  <2>2. QED
    BY <1>1, <2>1, FromEnd
<1>4. \A i \in 1 .. m : g[i] = body(g, i)
  <2> SUFFICES ASSUME NEW i \in 1 .. m PROVE g[i] = body(g, i)
    OBVIOUS
  <2> DEFINE h == [k \in i + 1 .. m |-> g[k]]
  <2>1. h \in [i + 1 .. m -> 0 .. m]
    BY <1>1
  <2>2. g[i] = body(h, i)
    BY <1>2, <1>3, <2>1 DEF Backwards
  <2>3. i <= Len(c) => h[i + 1] = g[i + 1] /\ h[i + 2] = g[i + 2]
    BY <1>1
  <2> HIDE DEF h
  <2>4. body(h, i) = body(g, i)
    BY <2>3, <1>1
  <2>5. QED
    BY <2>2, <2>4
<1>5. Eq(g)
  BY <1>4
<1>6. Eq(f)
  BY <1>5
<1>7. \A i \in 1 .. m : behind(i) = f[i]
  BY DEF Behind, m
<1> HIDE DEF f
<1>8. \A i \in 1 .. m : f[i] = body(f, i)
  BY <1>6
<1>9. \A i \in 1 .. m : /\ i > Len(c) => f[i] = 0
                        /\ i <= Len(c) => f[i] = IF c[i] = quote THEN i + 1
                                                 ELSE IF c[i] \in escapes THEN f[i + 2] ELSE f[i + 1]
  BY <1>8, <1>1
<1> DEFINE T == {i \in 1 .. m : f[i] = 0 \/ f[i] \in i + 1 .. Len(c) + 1}
<1>10. \A i \in 1 .. m : (\A k \in i + 1 .. m : k \in T) => i \in T
  <2> SUFFICES ASSUME NEW i \in 1 .. m, \A k \in i + 1 .. m : k \in T PROVE f[i] = 0 \/ f[i] \in i + 1 .. Len(c) + 1
    OBVIOUS
  <2>1. CASE i > Len(c)
    BY <2>1, <1>9
  <2>2. CASE i <= Len(c)
    <3>1. i + 1 \in i + 1 .. m /\ i + 2 \in i + 1 .. m
      BY <2>2, <1>1
    <3>2. \A k \in {i + 1, i + 2} : f[k] = 0 \/ f[k] \in k + 1 .. Len(c) + 1
      BY <3>1
    <3>3. QED
      BY SMTT(60), <2>2, <3>2, <1>1, <1>9
  <2>3. QED
    BY <2>1, <2>2, <1>1
<1>11. \A i \in 1 .. m : f[i] = 0 \/ f[i] \in i + 1 .. Len(c) + 1
  <2> HIDE DEF T
  <2>1. 1 .. m \subseteq T
    BY <1>1, <1>10, Downward
  <2>2. QED
    BY <2>1 DEF T
<1>12. j \in 1 .. m /\ (j <= Len(c) => j + 1 \in 1 .. m /\ j + 2 \in 1 .. m)
  BY <1>1
<1> HIDE DEF behind
<1>13. /\ behind(j) = 0 \/ behind(j) \in j + 1 .. Len(c) + 1
       /\ j > Len(c) => behind(j) = 0
       /\ j <= Len(c) => behind(j) = IF c[j] = quote THEN j + 1
                                     ELSE IF c[j] \in escapes THEN behind(j + 2) ELSE behind(j + 1)
  BY <1>7, <1>9, <1>11, <1>12
<1>14. QED
  BY <1>13 DEF behind

-----------------------------------------------------------------------------
(* The kinds of tokens. *)

(* What a lexeme that begins at i must be. *)
Ends(l, c, i) == \/ l.tok = "error" /\ l.next = 0
                 \/ l.tok \in Token /\ l.next \in i + 1 .. Len(c) + 1
(* A word goes on to the first character that is no letter and no digit. *)
WholeWord(l, c) == /\ \A k \in l.from .. l.next - 1 : c[k] \in Letters \cup {Digit}
                   /\ At(c, l.next) \notin Letters \cup {Digit}
(* A token that begins at i, and what is known of it. *)
Found(l, c, i, fs) ==
  /\ l.from = i /\ Ends(l, c, i)
  /\ l.tok \in Symbols => Best(l, c, i, fs)
  /\ l.tok \in Letters => WholeWord(l, c)

(* The kinds of tokens are apart. *)
LEMMA KindsApart ==
  /\ Letters \cap (Symbols \cup Literals \cup Others) = {}
  /\ Symbols \cap (Literals \cup Others) = {}
  /\ OtherName \in Letters /\ Letters \cup Symbols \cup Literals \cup {"directive"} = Token
  /\ {"error", "directive", EOF, "end"} \subseteq Others
<1>1. Keywords \cap (Symbols \cup Literals \cup Others) = {}
  BY ZenonT(60), SymbolsAre DEF Keywords, Marks, Pairs, Triples, Literals, Others, EOF
<1>2. Symbols \cap (Literals \cup Others) = {}
  BY SymbolsAre DEF Marks, Pairs, Triples, Literals, Others, EOF
<1>3. QED
  BY <1>1, <1>2, NamesAssumption DEF Letters, Token, Others

(* An error is as Found says. *)
LEMMA ErrorsFound == ASSUME NEW c, NEW i, NEW fs PROVE Found(Unlexed(i), c, i, fs)
<1> DEFINE l == Unlexed(i)
<1>1. l.tok = "error" /\ l.from = i /\ l.next = 0
  BY DEF Unlexed, Lexeme
<1>2. "error" \notin Symbols /\ "error" \notin Letters
  BY KindsApart
<1> HIDE DEF l
<1>3. QED
  BY <1>1, <1>2 DEF Found, Ends, l

(* identifierOrKeyword takes the whole word. *)
LEMMA WordsFound ==
  ASSUME NEW c, Text(c), NEW i \in 1 .. Len(c), c[i] \in Letters, NEW fs
  PROVE  Found(WordAt(c, i), c, i, fs)
<1> DEFINE S == Letters \cup {Digit}
           j == Past(c, i, S)
           l == WordAt(c, i)
<1>1. "end" \notin S
  BY KindsApart DEF Digit
<1>2. j \in i .. Len(c) + 1 /\ At(c, j) \notin S /\ \A k \in i .. j - 1 : At(c, k) \in S
  <2>1. i \in 1 .. Len(c) + 1
    BY AtIs
  <2> HIDE DEF S
  <2>2. QED
    BY <1>1, <2>1, PastIs
<1>3. At(c, i) = c[i] /\ i \in Nat /\ Len(c) \in Nat
  BY AtIs
<1>4. l.tok \in Letters /\ l.from = i /\ l.next = j
  BY KindsApart DEF WordAt, Lexeme
<1> HIDE DEF j, l
<1>5. j \in i + 1 .. Len(c) + 1
  BY <1>2, <1>3
<1>6. \A k \in i .. j - 1 : c[k] \in S
  BY <1>2, <1>3, AtIs
<1>7. WholeWord(l, c)
  BY <1>2, <1>4, <1>6 DEF WholeWord
<1>8. Ends(l, c, i)
  BY <1>4, <1>5, KindsApart DEF Ends
<1>9. l.tok \notin Symbols
  BY <1>4, KindsApart
<1>10. QED
  BY <1>4, <1>7, <1>8, <1>9 DEF Found, l

(* A literal that ends behind its beginning is as Found says. *)
LEMMA LiteralFound ==
  ASSUME NEW c, NEW i, NEW fs, NEW tok \in Literals, NEW j \in i + 1 .. Len(c) + 1
  PROVE  Found(Lexeme(tok, i, j), c, i, fs)
<1> DEFINE l == Lexeme(tok, i, j)
<1>1. l.tok = tok /\ l.from = i /\ l.next = j
  BY DEF Lexeme
<1>2. tok \notin Symbols /\ tok \notin Letters /\ tok \in Token
  BY KindsApart
<1> HIDE DEF l
<1>3. QED
  BY <1>1, <1>2 DEF Found, Ends, l

(* numberLiteral ends behind its beginning, and within the text. *)
LEMMA NumbersFound ==
  ASSUME NEW c, Text(c), NEW i \in 1 .. Len(c), c[i] = Digit \/ (c[i] = "." /\ At(c, i + 1) = Digit), NEW fs
  PROVE  Found(NumberAt(c, i), c, i, fs)
<1> DEFINE b == IF c[i] = "." THEN i + 1 ELSE i
           whole == Past(c, b, {Digit})
           fraction == At(c, whole) = "." /\ At(c, whole + 1) = Digit
           j == IF fraction THEN Past(c, whole + 1, {Digit}) ELSE whole
           tok == IF fraction \/ c[i] = "." THEN "float" ELSE "num"
<1>1. Len(c) \in Nat /\ i \in Nat /\ At(c, i) = c[i] /\ "end" \notin {Digit}
  BY AtIs DEF Digit
<1>2. b \in i .. Len(c) + 1 /\ At(c, b) = Digit
  <2>1. CASE c[i] = "."
    BY <2>1, <1>1, AtInside DEF Digit, Text
  <2>2. CASE c[i] # "."
    BY <2>2, <1>1
  <2>3. QED
    BY <2>1, <2>2
<1> HIDE DEF b
<1>3. whole \in b .. Len(c) + 1 /\ At(c, whole) # Digit
  BY <1>1, <1>2, PastIs
<1>4. whole \in i + 1 .. Len(c) + 1
  <2>1. whole # b
    BY <1>2, <1>3
  <2> HIDE DEF whole
  <2>2. QED
    BY <2>1, <1>1, <1>2, <1>3
<1> HIDE DEF whole
<1>5. j \in i + 1 .. Len(c) + 1
  <2>1. CASE fraction
    <3>1. whole + 1 \in 1 .. Len(c)
      <4>1. At(c, whole + 1) # "end"
        BY <2>1 DEF Digit
      <4>2. QED
        BY <4>1, <1>1, <1>4, AtInside DEF Text
    <3>2. Past(c, whole + 1, {Digit}) \in whole + 1 .. Len(c) + 1
      BY <3>1, <1>1, PastIs
    <3>3. QED
      BY <2>1, <3>2, <1>1, <1>4
  <2>2. CASE ~fraction
    BY <2>2, <1>4
  <2>3. QED
    BY <2>1, <2>2
<1>6. NumberAt(c, i) = IF At(c, j) \in {"else", "extrn"} THEN Unlexed(i) ELSE Lexeme(tok, i, j)
  BY DEF NumberAt, b, whole
<1>7. tok \in Literals
  BY DEF Literals
<1> HIDE DEF j, tok
<1>8. QED
  BY <1>5, <1>6, <1>7, ErrorsFound, LiteralFound

(* stringLiteral and charLiteral end behind their beginnings, and within the text. *)
LEMMA LiteralsFound ==
  ASSUME NEW c, Text(c), NEW i \in 1 .. Len(c), NEW fs
  PROVE  Found(LiteralAt(c, i, fs), c, i, fs)
<1> DEFINE j == Behind(c, i + 1, c[i], EscapeChars(fs))
           tok == IF c[i] = "'" THEN "num" ELSE "str"
<1>1. i + 1 \in 1 .. Len(c) + 2 /\ Len(c) \in Nat /\ i \in Nat
  BY AtIs
<1>2. j = 0 \/ j \in i + 1 + 1 .. Len(c) + 1
  BY <1>1, BehindIs
<1>3. tok \in Literals
  BY DEF Literals
<1>4. LiteralAt(c, i, fs) = IF j = 0 THEN Unlexed(i) ELSE Lexeme(tok, i, j)
  BY DEF LiteralAt
<1> HIDE DEF j, tok
<1>5. j # 0 => j \in i + 1 .. Len(c) + 1
  BY <1>1, <1>2
<1>6. QED
  BY <1>3, <1>4, <1>5, ErrorsFound, LiteralFound

(* A token is found where it begins. *)
LEMMA TokensFound ==
  ASSUME NEW c, Text(c), NEW i \in 1 .. Len(c), NEW fs
  PROVE  Found(TokenAt(c, i, fs), c, i, fs)
<1> DEFINE dotted == c[i] = "." /\ At(c, i + 1) = Digit
           l == TokenAt(c, i, fs)
<1>1. CASE c[i] \in Letters
  <2>1. c[i] # Digit /\ c[i] \notin {"\"", "'"} /\ c[i] \notin Marks
    BY <1>1, KindsApart, SymbolsAre DEF Digit, Others, Literals
  <2>2. ~dotted
    BY <2>1 DEF Marks
  <2>3. l = WordAt(c, i)
    BY <1>1, <2>1, <2>2 DEF TokenAt
  <2>4. QED
    BY <1>1, <2>3, WordsFound
<1>2. CASE c[i] \notin Letters /\ (c[i] = Digit \/ dotted)
  <2>1. c[i] \notin {"\"", "'"} /\ ~(c[i] \in Marks /\ ~dotted)
    BY <1>2 DEF Digit, Marks
  <2>2. l = NumberAt(c, i)
    BY <1>2, <2>1 DEF TokenAt
  <2>3. QED
    BY <1>2, <2>2, NumbersFound
<1>3. CASE c[i] \in {"\"", "'"}
  <2>1. c[i] \notin Letters /\ c[i] # Digit /\ ~dotted /\ c[i] \notin Marks
    BY <1>3, KindsApart DEF Digit, Others, Marks
  <2>2. l = LiteralAt(c, i, fs)
    BY <1>3, <2>1 DEF TokenAt
  <2>3. QED
    BY <2>2, LiteralsFound
<1>4. CASE c[i] \in Marks /\ ~dotted
  <2>1. c[i] \notin Letters /\ c[i] # Digit /\ c[i] \notin {"\"", "'"}
    BY <1>4, KindsApart, SymbolsAre DEF Digit, Marks
  <2>2. l = SymbolAt(c, i, fs)
    BY <1>4, <2>1 DEF TokenAt
  <2>3. Best(l, c, i, fs)
    BY <2>2, <1>4, AtIs, SymbolsBest DEF Text
  <2> HIDE DEF l
  <2>4. l.tok \in Symbols /\ l.tok \notin Letters /\ l.tok \in Token
    BY <2>3, LexiconIs, KindsApart DEF Best
  <2>5. QED
    BY <2>3, <2>4 DEF Found, Best, Ends, l
<1>5. CASE c[i] \notin Letters /\ ~(c[i] = Digit \/ dotted) /\ c[i] \notin {"\"", "'"} /\ ~(c[i] \in Marks /\ ~dotted)
  <2>1. l = Unlexed(i)
    BY <1>5 DEF TokenAt
  <2>2. QED
    BY <2>1, ErrorsFound
<1>6. QED
  BY <1>1, <1>2, <1>3, <1>4, <1>5

-----------------------------------------------------------------------------
(* The first token from a position on. *)

(* Two slashes at i, and the end of their line. *)
Slashes(c, i) == At(c, i) = "/" /\ At(c, i + 1) = "/"
LineFrom(c, i) == UpTo(c, i, {"newline"})

(* The end of a line that begins with slashes. *)
LEMMA LineIs ==
  ASSUME NEW c, Text(c), NEW i \in 1 .. Len(c) + 1, Slashes(c, i)
  PROVE  /\ i <= Len(c) /\ LineFrom(c, i) \in i + 2 .. Len(c) + 1
         /\ \A n \in i .. LineFrom(c, i) - 1 : c[n] # "newline"
         /\ LineFrom(c, i) = Len(c) + 1 \/ c[LineFrom(c, i)] = "newline"
<1> DEFINE j == LineFrom(c, i)
<1>1. j \in i .. Len(c) + 1 /\ At(c, j) \in {"newline", "end"} /\ \A k \in i .. j - 1 : At(c, k) \notin {"newline", "end"}
  <2>1. {"newline"} \cup {"end"} = {"newline", "end"}
    OBVIOUS
  <2>2. QED
    BY <2>1, UpToIs DEF LineFrom
<1>2. Len(c) \in Nat /\ i \in Nat
  BY AtIs
<1> HIDE DEF j
<1>3. j # i /\ j # i + 1
  BY <1>1 DEF Slashes
<1>4. i # Len(c) + 1
  BY <1>2, AtIs DEF Slashes
<1>5. \A n \in i .. j - 1 : c[n] # "newline"
  <2> SUFFICES ASSUME NEW n \in i .. j - 1 PROVE c[n] # "newline"
    OBVIOUS
  <2>1. n \in 1 .. Len(c)
    BY <1>1, <1>2
  <2>2. QED
    BY <2>1, <1>1, AtIs
<1>6. j = Len(c) + 1 \/ c[j] = "newline"
  <2>1. CASE j \in 1 .. Len(c)
    BY <2>1, <1>1, AtIs
  <2>2. QED
    BY <2>1, <1>1, <1>2
<1>7. QED
  BY <1>1, <1>2, <1>3, <1>4, <1>5, <1>6 DEF j

(* The recursion of LexemeAt. *)
LEMMA LexemeIs ==
  ASSUME NEW c, Text(c), NEW j \in 1 .. Len(c) + 1, NEW fs
  PROVE  LET i == Skip(c, j)
         IN  LexemeAt(c, j, fs) =
               IF i = 0 THEN Unlexed(j)
               ELSE IF i > Len(c) THEN Lexeme(EOF, i, i)
               ELSE IF Slashes(c, i) /\ "no-directives" \notin fs /\ IsDirective(c, i) THEN Lexeme("directive", i, LineFrom(c, i))
               ELSE IF Slashes(c, i) /\ "c-comments" \in fs THEN LexemeAt(c, LineFrom(c, i), fs)
               ELSE TokenAt(c, i, fs)
<1> DEFINE m == Len(c) + 1
           end(k) == LET i == Skip(c, k)
                     IN  IF i = 0 THEN Unlexed(k)
                         ELSE IF i > Len(c) THEN Lexeme(EOF, i, i)
                         ELSE IF Slashes(c, i) /\ "no-directives" \notin fs /\ IsDirective(c, i) THEN Lexeme("directive", i, LineFrom(c, i))
                         ELSE TokenAt(c, i, fs)
           over(k) == LET i == Skip(c, k)
                      IN  /\ i # 0 /\ ~(i > Len(c))
                          /\ ~(Slashes(c, i) /\ "no-directives" \notin fs /\ IsDirective(c, i))
                          /\ Slashes(c, i) /\ "c-comments" \in fs
           line(k) == LineFrom(c, Skip(c, k))
           body(h, k) == IF over(k) THEN h[line(k)] ELSE end(k)
           S == {end(k) : k \in 1 .. m}
           Eq(h) == h = [k \in 1 .. m |-> body(h, k)]
           f == CHOOSE h : Eq(h)
           step == [k \in 1 .. m |-> [h \in [k + 1 .. m -> S] |-> body(h, k)]]
<1>1. m \in Nat /\ m = Len(c) + 1 /\ Len(c) \in Nat
  BY AtIs
<1>2. \A k \in 1 .. m : over(k) => line(k) \in k + 1 .. m
  <2> SUFFICES ASSUME NEW k \in 1 .. m, over(k) PROVE line(k) \in k + 1 .. m
    OBVIOUS
  <2> DEFINE i == Skip(c, k)
  <2>1. i \in k .. m
    BY SkipGap
  <2>2. i \in 1 .. Len(c) + 1 /\ Slashes(c, i)
    BY <2>1, <1>1
  <2> HIDE DEF i
  <2>3. LineFrom(c, i) \in i + 2 .. m
    BY <2>2, LineIs
  <2>4. LineFrom(c, i) \in k + 1 .. m
    BY <2>1, <2>3, <1>1
  <2>5. QED
    BY <2>4 DEF i
<1> HIDE DEF end, over, line
<1>3. \A k \in 1 .. m : \A h \in [k + 1 .. m -> S] : step[k][h] = body(h, k) /\ body(h, k) \in S
  BY <1>2
<1> HIDE DEF step, m, S
<1>4. PICK g \in [1 .. m -> S] : Backwards(g, step, m)
  <2>1. Within(step, m, S)
    BY <1>3 DEF Within
  <2>2. QED
    BY <1>1, <2>1, FromEnd
<1>5. \A k \in 1 .. m : g[k] = body(g, k)
  <2> SUFFICES ASSUME NEW k \in 1 .. m PROVE g[k] = body(g, k)
    OBVIOUS
  <2> DEFINE h == [n \in k + 1 .. m |-> g[n]]
  <2>1. h \in [k + 1 .. m -> S]
    BY <1>1
  <2>2. g[k] = body(h, k)
    BY <1>3, <1>4, <2>1 DEF Backwards
  <2>3. over(k) => h[line(k)] = g[line(k)]
    BY <1>2
  <2> HIDE DEF h
  <2>4. body(h, k) = body(g, k)
    BY <2>3
  <2>5. QED
    BY <2>2, <2>4
<1>6. Eq(g)
  BY <1>5
<1>7. Eq(f)
  BY <1>6
<1>8. \A k \in 1 .. m : LexemeAt(c, k, fs) = f[k]
  <2> DEFINE Orig(h) == h = [k \in 1 .. Len(c) + 1 |->
                     LET i == Skip(c, k)
                         slashes == At(c, i) = "/" /\ At(c, i + 1) = "/"
                         ln == UpTo(c, i, {"newline"})
                     IN  IF i = 0 THEN Unlexed(k)
                         ELSE IF i > Len(c) THEN Lexeme(EOF, i, i)
                         ELSE IF slashes /\ "no-directives" \notin fs /\ IsDirective(c, i) THEN Lexeme("directive", i, ln)
                         ELSE IF slashes /\ "c-comments" \in fs THEN h[ln]
                         ELSE TokenAt(c, i, fs)]
  <2>1. \A k : LexemeAt(c, k, fs) = (CHOOSE h : Orig(h))[k]
    BY DEF LexemeAt
  <2>2. ASSUME NEW h PROVE Orig(h) <=> Eq(h)
    BY DEF over, end, line, m, Slashes, LineFrom
  <2> HIDE DEF Orig, Eq
  <2>3. (CHOOSE h : Orig(h)) = (CHOOSE h : Eq(h))
    BY <2>2
  <2>4. QED
    BY <2>1, <2>3
<1> HIDE DEF f
<1>9. \A k \in 1 .. m : f[k] = body(f, k)
  BY <1>7
<1>10. j \in 1 .. m /\ (over(j) => line(j) \in 1 .. m)
  BY <1>1, <1>2
<1>11. LexemeAt(c, j, fs) = IF over(j) THEN LexemeAt(c, line(j), fs) ELSE end(j)
  BY <1>8, <1>9, <1>10
<1>12. QED
  BY <1>11 DEF over, end, line

-----------------------------------------------------------------------------
(* What the lexer finds from j on. *)
FoundFrom(l, c, j) ==
  \/ l.tok = "error" /\ l.next = 0
  \/ l.tok = EOF /\ IsGap(c, j, Len(c) + 1)
  \/ \E i \in j .. Len(c) : /\ IsGap(c, j, i) /\ l.from = i
                            /\ \/ l.tok = "directive" /\ l.next \in i + 1 .. Len(c) + 1
                               \/ Found(l, c, i, on)

(* Nothing is a gap. *)
LEMMA NoGap == ASSUME NEW c, NEW i \in Nat \ {0} PROVE IsGap(c, i, i)
<1>1. i \in Nat /\ i \in 1 .. i
  OBVIOUS
<1>2. QED
  BY <1>1, GapIs

(* Blanks and comments are passed over, and then there is a token. *)
LEMMA LexemeFound ==
  ASSUME NEW c, Text(c), NEW j \in 1 .. Len(c) + 1
  PROVE  FoundFrom(LexemeAt(c, j, on), c, j)
<1> DEFINE m == Len(c) + 1
           l(k) == LexemeAt(c, k, on)
           T == {k \in 1 .. m : FoundFrom(l(k), c, k)}
<1>1. m \in Nat /\ Len(c) \in Nat
  BY AtIs
<1>2. ASSUME NEW k \in 1 .. m, \A n \in k + 1 .. m : n \in T PROVE FoundFrom(l(k), c, k)
  <2> DEFINE i == Skip(c, k)
  <2>1. CASE i = 0
    <3>1. l(k) = Unlexed(k)
      BY <2>1, LexemeIs, <1>1
    <3>2. l(k).tok = "error" /\ l(k).next = 0
      BY <3>1 DEF Unlexed, Lexeme
    <3> HIDE DEF l
    <3>3. QED
      BY <3>2 DEF FoundFrom
  <2>2. ASSUME i # 0 PROVE /\ i \in k .. m /\ i \in Nat \ {0}
                           /\ \A e \in Nat : IsGap(c, i, e) => IsGap(c, k, e)
    BY <2>2, SkipGap, <1>1
  <2>3. ASSUME i # 0 PROVE IsGap(c, k, i)
    BY <2>2, <2>3, NoGap
  <2>4. CASE i # 0 /\ i > Len(c)
    <3>1. l(k) = Lexeme(EOF, i, i) /\ i = Len(c) + 1
      <4>1. l(k) = Lexeme(EOF, i, i)
        BY <2>4, LexemeIs, <1>1
      <4>2. i = Len(c) + 1
        BY <2>2, <2>4, <1>1
      <4>3. QED
        BY <4>1, <4>2
    <3>2. l(k).tok = EOF
      BY <3>1 DEF Lexeme
    <3> HIDE DEF l
    <3>3. QED
      BY <3>1, <3>2, <2>3, <2>4 DEF FoundFrom
  <2>5. CASE i # 0 /\ ~(i > Len(c))
    <3>1. i \in k .. Len(c) /\ i \in 1 .. Len(c) /\ IsGap(c, k, i)
      BY <2>2, <2>3, <2>5, <1>1
    <3> HIDE DEF i
    <3>2. CASE Slashes(c, i) /\ "no-directives" \notin on /\ IsDirective(c, i)
      <4>1. l(k) = Lexeme("directive", i, LineFrom(c, i))
        BY <2>5, <3>2, LexemeIs, <1>1 DEF i
      <4>2. LineFrom(c, i) \in i + 1 .. Len(c) + 1
        BY <3>1, <3>2, LineIs, <1>1
      <4>3. l(k).tok = "directive" /\ l(k).from = i /\ l(k).next = LineFrom(c, i)
        BY <4>1 DEF Lexeme
      <4> HIDE DEF l
      <4>4. QED
        BY <3>1, <4>2, <4>3 DEF FoundFrom
    <3>3. CASE ~(Slashes(c, i) /\ "no-directives" \notin on /\ IsDirective(c, i)) /\ Slashes(c, i) /\ "c-comments" \in on
      <4> DEFINE n == LineFrom(c, i)
      <4>1. l(k) = l(n)
        BY <2>5, <3>3, LexemeIs, <1>1 DEF i
      <4>2. n \in i + 2 .. m /\ (\A x \in i .. n - 1 : c[x] # "newline") /\ (n = m \/ c[n] = "newline")
        BY <3>1, <3>3, LineIs, <1>1
      <4> HIDE DEF n
      <4>3. c[i] = "/" /\ c[i + 1] = "/"
        BY <3>1, <3>3, <4>2, AtIs, <1>1 DEF Slashes
      <4>4. IsLineComment(c, i, n - 1)
        BY <3>1, <3>3, <4>2, <4>3, <1>1 DEF IsLineComment
      <4>5. ASSUME NEW e \in Nat, IsGap(c, n, e) PROVE IsGap(c, k, e)
        <5>1. n \in 1 .. e
          BY <4>5 DEF IsGap
        <5>2. n - 1 \in i .. e - 1 /\ (n - 1) + 1 = n /\ i \in 1 .. e /\ i < e
          BY <5>1, <4>2, <3>1, <1>1
        <5>3. IsGap(c, i, e)
          BY <5>2, <4>3, <4>4, <4>5, GapIs DEF IsComment
        <5>4. QED
          BY <5>3, <2>2, <2>5 DEF i
      <4>6. n \in k + 1 .. m
        BY <4>2, <3>1, <1>1
      <4>7. FoundFrom(l(n), c, n)
        BY <4>6, <1>2
      <4> HIDE DEF l
      <4>8. CASE l(n).tok = "error" /\ l(n).next = 0
        BY <4>8, <4>1 DEF FoundFrom
      <4>9. CASE l(n).tok = EOF /\ IsGap(c, n, Len(c) + 1)
        BY <4>9, <4>1, <4>5, <1>1 DEF FoundFrom
      <4>10. ASSUME NEW x \in n .. Len(c), IsGap(c, n, x), l(n).from = x,
                    (l(n).tok = "directive" /\ l(n).next \in x + 1 .. Len(c) + 1) \/ Found(l(n), c, x, on)
             PROVE FoundFrom(l(k), c, k)
        <5>1. x \in k .. Len(c) /\ x \in Nat
          BY <4>6, <4>10, <1>1
        <5>2. IsGap(c, k, x)
          BY <5>1, <4>5, <4>10
        <5>3. QED
          BY <5>1, <5>2, <4>1, <4>10 DEF FoundFrom
      <4>11. QED
        BY <4>7, <4>8, <4>9, <4>10 DEF FoundFrom
    <3>4. CASE ~(Slashes(c, i) /\ "no-directives" \notin on /\ IsDirective(c, i)) /\ ~(Slashes(c, i) /\ "c-comments" \in on)
      <4>1. l(k) = TokenAt(c, i, on)
        BY <2>5, <3>4, LexemeIs, <1>1 DEF i
      <4>2. Found(l(k), c, i, on)
        BY <4>1, <3>1, TokensFound
      <4> HIDE DEF l
      <4>3. QED
        BY <4>2, <3>1 DEF FoundFrom, Found
    <3>5. QED
      BY <3>2, <3>3, <3>4
  <2>6. QED
    BY <2>1, <2>4, <2>5
<1>3. \A k \in 1 .. m : (\A n \in k + 1 .. m : n \in T) => k \in T
  BY <1>2
<1>4. 1 .. m \subseteq T
  <2> HIDE DEF T, m
  <2>1. QED
    BY <1>1, <1>3, Downward
<1>5. QED
  BY <1>4

-----------------------------------------------------------------------------
(* All tokens of a file. *)

(* Next goes forward, but for an error and the end of the text. *)
LEMMA NextFound ==
  ASSUME NEW c, Text(c), NEW j \in 1 .. Len(c) + 1
  PROVE  LET l == LexemeAt(c, j, on) IN l.tok = EOF \/ l.next = 0 \/ l.next \in j + 1 .. Len(c) + 1
<1> DEFINE l == LexemeAt(c, j, on)
<1>1. FoundFrom(l, c, j)
  BY LexemeFound
<1>2. Len(c) \in Nat
  BY AtIs
<1> HIDE DEF l
<1>3. ASSUME NEW i \in j .. Len(c), (l.tok = "directive" /\ l.next \in i + 1 .. Len(c) + 1) \/ Found(l, c, i, on)
      PROVE  l.next = 0 \/ l.next \in j + 1 .. Len(c) + 1
  BY <1>2, <1>3 DEF Found, Ends
<1>4. QED
  BY <1>1, <1>3 DEF FoundFrom, l

(* The tokens from a position on. *)
Rest(c, fs) ==
  CHOOSE from : from = [i \in 1 .. Len(c) + 1 |->
    LET l == LexemeAt(c, i, fs)
    IN  IF l.tok = EOF THEN <<>> ELSE IF l.next = 0 THEN <<l>> ELSE <<l>> \o from[l.next]]

(* The tokens from a position on are the first of them and those behind it. *)
LEMMA RestIs ==
  ASSUME NEW c, Text(c)
  PROVE  /\ Lexemes(c, on) = Rest(c, on)[1]
         /\ \A i \in 1 .. Len(c) + 1 :
              LET l == LexemeAt(c, i, on)
              IN  /\ Rest(c, on)[i] \in Seq({LexemeAt(c, k, on) : k \in 1 .. Len(c) + 1})
                  /\ l.tok = EOF => Rest(c, on)[i] = <<>>
                  /\ (l.tok # EOF /\ l.next = 0) => Rest(c, on)[i] = <<l>>
                  /\ (l.tok # EOF /\ l.next # 0) => l.next \in i + 1 .. Len(c) + 1 /\ Rest(c, on)[i] = <<l>> \o Rest(c, on)[l.next]
<1> DEFINE m == Len(c) + 1
           l(i) == LexemeAt(c, i, on)
           S == Seq({l(k) : k \in 1 .. m})
           body(h, i) == IF l(i).tok = EOF THEN <<>> ELSE IF l(i).next = 0 THEN <<l(i)>> ELSE <<l(i)>> \o h[l(i).next]
           Eq(h) == h = [i \in 1 .. m |-> body(h, i)]
           f == Rest(c, on)
           step == [i \in 1 .. m |-> [h \in [i + 1 .. m -> S] |-> body(h, i)]]
<1>1. m \in Nat /\ m = Len(c) + 1
  BY AtIs
<1>2. \A i \in 1 .. m : l(i).tok = EOF \/ l(i).next = 0 \/ l(i).next \in i + 1 .. m
  BY NextFound
<1> HIDE DEF m, l
<1>3. \A i \in 1 .. m : <<l(i)>> \in S /\ <<>> \in S /\ \A s \in S : <<l(i)>> \o s \in S
  BY EmptySeq, ConcatProperties
<1> HIDE DEF S
<1>4. \A i \in 1 .. m : \A h \in [i + 1 .. m -> S] : step[i][h] = body(h, i) /\ body(h, i) \in S
  BY <1>2, <1>3
<1> HIDE DEF step
<1>5. PICK g \in [1 .. m -> S] : Backwards(g, step, m)
  <2>1. Within(step, m, S)
    BY <1>4 DEF Within
  <2>2. QED
    BY <1>1, <2>1, FromEnd
<1>6. \A i \in 1 .. m : g[i] = body(g, i)
  <2> SUFFICES ASSUME NEW i \in 1 .. m PROVE g[i] = body(g, i)
    OBVIOUS
  <2> DEFINE h == [k \in i + 1 .. m |-> g[k]]
  <2>1. h \in [i + 1 .. m -> S]
    BY <1>1
  <2>2. g[i] = body(h, i)
    BY <1>4, <1>5, <2>1 DEF Backwards
  <2>3. l(i).tok = EOF \/ l(i).next = 0 \/ h[l(i).next] = g[l(i).next]
    BY <1>2
  <2> HIDE DEF h
  <2>4. body(h, i) = body(g, i)
    BY <2>3
  <2>5. QED
    BY <2>2, <2>4
<1>7. Eq(g)
  BY <1>6
<1>8. f = CHOOSE h : Eq(h)
  BY DEF Rest, m, l
<1>9. Lexemes(c, on) = f[1]
  BY SMTT(60) DEF Lexemes, Rest
<1> HIDE DEF f
<1>10. Eq(f)
  BY <1>7, <1>8
<1>11. \A i \in 1 .. m : f[i] = body(f, i)
  BY <1>10
<1> DEFINE T == {i \in 1 .. m : f[i] \in S}
<1>12. \A i \in 1 .. m : (\A k \in i + 1 .. m : k \in T) => i \in T
  BY <1>2, <1>3, <1>11
<1>13. \A i \in 1 .. m : f[i] \in S
  <2> HIDE DEF T
  <2>1. 1 .. m \subseteq T
    BY <1>1, <1>12, Downward
  <2>2. QED
    BY <2>1 DEF T
<1>14. \A i \in 1 .. m : /\ f[i] \in S
                         /\ l(i).tok = EOF => f[i] = <<>>
                         /\ (l(i).tok # EOF /\ l(i).next = 0) => f[i] = <<l(i)>>
                         /\ (l(i).tok # EOF /\ l(i).next # 0) => l(i).next \in i + 1 .. m /\ f[i] = <<l(i)>> \o f[l(i).next]
  BY <1>2, <1>11, <1>13
<1>15. QED
  BY <1>9, <1>14 DEF f, l, m, S

-----------------------------------------------------------------------------
(* Where the n-th of some tokens is looked for, the first of them at i. *)
Before(ls, i, n) == IF n = 1 THEN i ELSE ls[n - 1].next

(* Each token is found behind the one before, and the last is an error or
   there is nothing behind it.                                              *)
Chain(ls, c, i) ==
  /\ \A n \in 1 .. Len(ls) : /\ Before(ls, i, n) \in 1 .. Len(c) + 1
                             /\ FoundFrom(ls[n], c, Before(ls, i, n)) /\ ls[n].tok # EOF
  /\ LET e == Before(ls, i, Len(ls) + 1)
     IN  \/ e = 0 /\ Len(ls) > 0 /\ ls[Len(ls)].tok = "error"
         \/ e \in 1 .. Len(c) + 1 /\ IsGap(c, e, Len(c) + 1)

(* Each token of a file is the first that the lexer finds behind the one before it. *)
LEMMA Chained ==
  ASSUME NEW c, Text(c)
  PROVE  Chain(Lexemes(c, on), c, 1) /\ Lexemes(c, on) \in Seq({LexemeAt(c, k, on) : k \in 1 .. Len(c) + 1})
<1> DEFINE m == Len(c) + 1
           l(i) == LexemeAt(c, i, on)
           f == Rest(c, on)
           L == {LexemeAt(c, k, on) : k \in 1 .. Len(c) + 1}
           T == {i \in 1 .. m : Chain(f[i], c, i)}
<1>1. m \in Nat /\ Len(c) \in Nat
  BY AtIs
<1>2. ASSUME NEW i \in 1 .. m, \A k \in i + 1 .. m : k \in T PROVE Chain(f[i], c, i)
  <2>1. FoundFrom(l(i), c, i)
    BY LexemeFound
  <2>2. CASE l(i).tok = EOF
    <3>1. f[i] = <<>>
      BY <2>2, RestIs
    <3>2. Len(f[i]) = 0
      BY <3>1
    <3>3. IsGap(c, i, Len(c) + 1)
      <4>1. l(i).tok # "error" /\ l(i).tok # "directive"
        BY <2>2 DEF EOF
      <4>2. l(i).tok \notin Token
        <5>1. EOF \in Others /\ EOF \notin Literals \cup {"directive"}
          BY KindsApart DEF EOF, Literals
        <5>2. QED
          BY <2>2, <5>1, KindsApart
      <4> HIDE DEF l
      <4>3. QED
        BY <2>1, <4>1, <4>2 DEF FoundFrom, Found, Ends
    <3>4. QED
      BY <3>2, <3>3 DEF Chain, Before
  <2>3. CASE l(i).tok # EOF /\ l(i).next = 0
    <3>1. f[i] = <<l(i)>>
      BY <2>3, RestIs
    <3>2. l(i).tok = "error"
      <4> HIDE DEF l
      <4>1. QED
        BY <2>1, <2>3, <1>1 DEF FoundFrom, Found, Ends
    <3>3. Len(f[i]) = 1 /\ f[i][1] = l(i)
      BY <3>1
    <3> HIDE DEF f, l
    <3>4. Before(f[i], i, 1) = i /\ Before(f[i], i, 2) = 0
      BY <3>3, <2>3 DEF Before
    <3>5. QED
      BY <3>2, <3>3, <3>4, <2>1, <2>3 DEF Chain
  <2>4. CASE l(i).tok # EOF /\ l(i).next # 0
    <3> DEFINE j == l(i).next
               s == f[j]
               t == f[i]
    <3>1. j \in i + 1 .. m /\ t = <<l(i)>> \o s
      BY <2>4, RestIs
    <3>2. s \in Seq(L) /\ Len(s) \in Nat
      <4>1. j \in 1 .. m
        BY <3>1, <1>1
      <4>2. s \in Seq(L)
        BY <4>1, RestIs
      <4>3. QED
        BY <4>2, LenProperties
    <3>3. Chain(s, c, j)
      BY <3>1, <1>2
    <3> HIDE DEF s
    <3>4. Len(t) = Len(s) + 1 /\ t[1] = l(i) /\ \A n \in 1 .. Len(s) : t[n + 1] = s[n]
      <4>1. <<l(i)>> \in Seq(L) /\ Len(<<l(i)>>) = 1
        OBVIOUS
      <4>2. QED
        BY <3>1, <3>2, <4>1, ConcatProperties
    <3> HIDE DEF t
    <3>5. \A n \in 1 .. Len(s) + 1 : Before(t, i, n + 1) = Before(s, j, n)
      <4> SUFFICES ASSUME NEW n \in 1 .. Len(s) + 1 PROVE Before(t, i, n + 1) = Before(s, j, n)
        OBVIOUS
      <4>1. Before(t, i, n + 1) = t[n].next
        BY DEF Before
      <4>2. CASE n = 1
        BY <4>1, <4>2, <3>4 DEF Before
      <4>3. CASE n # 1
        <5>1. n - 1 \in 1 .. Len(s) /\ (n - 1) + 1 = n
          BY <4>3, <3>2
        <5>2. t[n] = s[n - 1]
          BY <5>1, <3>4
        <5>3. QED
          BY <4>1, <4>3, <5>2 DEF Before
      <4>4. QED
        BY <4>2, <4>3
    <3> HIDE DEF l, j
    <3>6. ASSUME NEW n \in 1 .. Len(t)
          PROVE  Before(t, i, n) \in 1 .. Len(c) + 1 /\ FoundFrom(t[n], c, Before(t, i, n)) /\ t[n].tok # EOF
      <4>1. CASE n = 1
        BY <4>1, <3>4, <2>1, <2>4 DEF Before
      <4>2. CASE n # 1
        <5>1. n - 1 \in 1 .. Len(s) /\ n - 1 \in 1 .. Len(s) + 1 /\ (n - 1) + 1 = n
          BY <4>2, <3>2, <3>4
        <5>2. t[n] = s[n - 1] /\ Before(t, i, n) = Before(s, j, n - 1)
          BY <5>1, <3>4, <3>5
        <5>3. QED
          BY <5>1, <5>2, <3>3 DEF Chain
      <4>3. QED
        BY <4>1, <4>2
    <3>7. Before(t, i, Len(t) + 1) = Before(s, j, Len(s) + 1)
      <4>1. Len(s) + 1 \in 1 .. Len(s) + 1
        BY <3>2
      <4>2. QED
        BY <4>1, <3>4, <3>5
    <3>8. Len(s) > 0 => Len(t) > 0 /\ t[Len(t)] = s[Len(s)]
      BY <3>2, <3>4
    <3>9. Chain(t, c, i)
      BY <3>3, <3>6, <3>7, <3>8 DEF Chain
    <3>10. QED
      BY <3>9 DEF t
  <2>5. QED
    BY <2>2, <2>3, <2>4
<1>3. \A i \in 1 .. m : (\A k \in i + 1 .. m : k \in T) => i \in T
  BY <1>2
<1>4. 1 .. m \subseteq T
  <2> HIDE DEF T, m
  <2>1. QED
    BY <1>1, <1>3, Downward
<1>5. 1 \in 1 .. m
  BY <1>1
<1>6. QED
  BY <1>4, <1>5, RestIs

-----------------------------------------------------------------------------
(* What is in the file. *)

(* What the characters of a file are. *)
LEMMA AlphabetIs ==
  /\ Letters \subseteq Alphabet /\ Marks \subseteq Alphabet /\ Blanks \subseteq Alphabet
  /\ "num" \in Alphabet /\ "\"" \in Alphabet /\ "'" \in Alphabet /\ "\\" \in Alphabet
  /\ "a" \in Alphabet /\ "b" \in Alphabet
  /\ "end" \notin Alphabet
<1>1. Letters \cup Marks \cup Blanks \cup {"num", "\"", "'", "\\", "$", "a", "b"} = Alphabet
  BY DEF Alphabet, Characters, Digit
<1>2. "end" \notin Letters
  BY KindsApart
<1>3. "end" \notin Marks
  BY DEF Marks
<1>4. "end" \notin Alphabet
  BY <1>1, <1>2, <1>3 DEF Blanks
<1>5. QED
  BY <1>1, <1>4

(* Sequences of nine characters. *)
LEMMA Nine ==
  ASSUME NEW A, NEW a \in A, NEW b \in A, NEW d \in A, NEW e \in A, NEW f \in A, NEW g \in A, NEW h \in A, NEW i \in A, NEW j \in A
  PROVE  <<a, b, d, e, f, g, h, i, j>> \in Seq(A)
<1>1. <<a, b, d, e, f, g, h, i, j>> \in [1 .. 9 -> A]
  OBVIOUS
<1>2. QED
  BY <1>1, FunctionIsSeq

(* Sequences of three characters and of one. *)
LEMMA Three ==
  ASSUME NEW A, NEW a \in A, NEW b \in A, NEW d \in A
  PROVE  <<a, b, d>> \in Seq(A) /\ <<a>> \in Seq(A)
OBVIOUS

(* Sequences of seven characters. *)
LEMMA Seven ==
  ASSUME NEW A, NEW a \in A, NEW b \in A, NEW d \in A, NEW e \in A, NEW f \in A, NEW g \in A, NEW h \in A
  PROVE  <<a, b, d, e, f, g, h>> \in Seq(A)
OBVIOUS

(* Sequences of characters are texts. *)
LEMMA TextOf == ASSUME NEW c \in Seq(Alphabet) PROVE Text(c)
<1>1. DOMAIN c = 1 .. Len(c)
  BY LenProperties
<1>2. \A i \in 1 .. Len(c) : c[i] \in Alphabet
  BY ElementOfSeq
<1>3. QED
  BY <1>1, <1>2, AlphabetIs DEF Text

(* The characters of each token. *)
LEMMA CharsOf ==
  /\ \A tok \in Symbols : Chars(tok) = Letterwise[tok]
  /\ \A tok \in Letters : Chars(tok) = <<tok>>
  /\ Chars("num") = <<"num">>
  /\ Chars("float") = <<"num", ".", "num">>
  /\ Chars("str") = <<"\"", "a", "\\", "\"", "/", "*", "\\", "*", "\"">>
  /\ Chars("directive") = <<"/", "/", " ", "[", "b", "]", ":", "a", "newline">>
<1>1. \A tok \in Letters : tok \notin Symbols /\ tok # "float" /\ tok # "str" /\ tok # "directive"
  BY KindsApart DEF Literals
<1>2. "num" \notin Symbols /\ "float" \notin Symbols /\ "str" \notin Symbols /\ "directive" \notin Symbols
  BY KindsApart DEF Literals
<1>3. \A tok \in Letters : Chars(tok) = <<tok>>
  BY <1>1 DEF Chars
<1>4. \A tok \in Symbols : Chars(tok) = Letterwise[tok]
  BY <1>2 DEF Chars
<1>5. QED
  BY <1>2, <1>3, <1>4 DEF Chars

(* The characters of a token are characters. *)
LEMMA CharsAre == ASSUME NEW tok \in Token PROVE Chars(tok) \in Seq(Alphabet)
<1>1. CASE tok \in Symbols
  <2>1. ASSUME NEW u \in Marks PROVE <<u>> \in Seq(Alphabet)
    <3>1. u \in Alphabet
      BY AlphabetIs
    <3>2. QED
      BY <3>1
  <2>2. \A u \in Pairs : \E x, y \in {":", "=", "+", "-", "*", "/", "%", "&", "|", "^", "!", "<", ">"} : Letterwise[u] = <<x, y>>
    BY ManyLetters DEF Pairs
  <2>3. \A u \in Triples : \E x, y, z \in {"=", "<", ">", "."} : Letterwise[u] = <<x, y, z>>
    BY ManyLetters DEF Triples
  <2>6. {":", "=", "+", "-", "*", "/", "%", "&", "|", "^", "!", "<", ">", "."} \subseteq Alphabet
    BY AlphabetIs DEF Marks
  <2>4. Letterwise[tok] \in Seq(Alphabet)
    <3>1. CASE tok \in Marks
      BY <3>1, <2>1, OfMarks
    <3>2. CASE tok \in Pairs
      <4>1. PICK x, y \in {":", "=", "+", "-", "*", "/", "%", "&", "|", "^", "!", "<", ">"} : Letterwise[tok] = <<x, y>>
        BY <3>2, <2>2
      <4>2. x \in Alphabet /\ y \in Alphabet
        BY <2>6
      <4>3. QED
        BY <4>1, <4>2
    <3>3. CASE tok \in Triples
      <4>1. PICK x, y, z \in {"=", "<", ">", "."} : Letterwise[tok] = <<x, y, z>>
        BY <3>3, <2>3
      <4>2. x \in Alphabet /\ y \in Alphabet /\ z \in Alphabet
        BY <2>6
      <4>3. QED
        BY <4>1, <4>2
    <3>4. QED
      BY <1>1, <3>1, <3>2, <3>3, SymbolsAre
  <2>5. QED
    BY <1>1, <2>4, CharsOf
<1>2. CASE tok \in Letters
  <2>1. tok \in Alphabet
    BY <1>2, AlphabetIs
  <2>2. Chars(tok) = <<tok>>
    BY <1>2, CharsOf
  <2>3. QED
    BY <2>1, <2>2
<1>3. CASE tok \in Literals \cup {"directive"}
  <2>2. /\ <<"num", ".", "num">> \in Seq(Alphabet)
        /\ <<"\"", "a", "\\", "\"", "/", "*", "\\", "*", "\"">> \in Seq(Alphabet)
        /\ <<"/", "/", " ", "[", "b", "]", ":", "a", "newline">> \in Seq(Alphabet)
        /\ <<"num">> \in Seq(Alphabet)
    <3>1. /\ "." \in Alphabet /\ "/" \in Alphabet /\ "*" \in Alphabet /\ " " \in Alphabet /\ "[" \in Alphabet
          /\ "]" \in Alphabet /\ ":" \in Alphabet /\ "newline" \in Alphabet
      BY AlphabetIs DEF Marks, Blanks
    <3>2. "num" \in Alphabet /\ "\"" \in Alphabet /\ "\\" \in Alphabet /\ "a" \in Alphabet /\ "b" \in Alphabet
      BY AlphabetIs
    <3>3. <<"\"", "a", "\\", "\"", "/", "*", "\\", "*", "\"">> \in Seq(Alphabet)
      BY ONLY <3>1, <3>2, Nine
    <3>4. <<"/", "/", " ", "[", "b", "]", ":", "a", "newline">> \in Seq(Alphabet)
      BY ONLY <3>1, <3>2, Nine
    <3>5. <<"num", ".", "num">> \in Seq(Alphabet) /\ <<"num">> \in Seq(Alphabet)
      BY ONLY <3>1, <3>2, Three
    <3>6. QED
      BY <3>3, <3>4, <3>5
  <2>3. QED
    BY <1>3, <2>2, CharsOf DEF Literals
<1>4. QED
  BY <1>1, <1>2, <1>3, KindsApart

(* What follows the characters of the n-th token. *)
After(t, n, gap, fs) == IF gap # "tight" THEN Gap(gap)
                        ELSE IF n < Len(t) /\ NeedBlank(t[n], t[n + 1], fs) THEN <<" ">> ELSE <<>>

(* The characters of the n-th token with what follows them. *)
Piece(t, n, gap, fs) == Chars(t[n]) \o After(t, n, gap, fs)
Pieces(t, gap, fs) == [n \in DOMAIN t |-> Piece(t, n, gap, fs)]

(* What stands between tokens is text. *)
LEMMA GapsAre ==
  ASSUME NEW gap \in Gaps
  PROVE  <<" ">> \in Seq(Alphabet) /\ <<>> \in Seq(Alphabet) /\ (gap # "tight" => Gap(gap) \in Seq(Alphabet))
<1>1. "/" \in Alphabet /\ "*" \in Alphabet /\ " " \in Alphabet /\ "newline" \in Alphabet
  BY AlphabetIs DEF Marks, Blanks
<1>2. /\ <<" ">> \in Seq(Alphabet) /\ <<>> \in Seq(Alphabet)
      /\ <<" ", "/", "*", "/", "a", "\"", "*", "*", "/">> \in Seq(Alphabet)
      /\ <<" ", "/", "/", "*", "'", "b", "newline">> \in Seq(Alphabet)
  <2>1. "\"" \in Alphabet /\ "'" \in Alphabet /\ "a" \in Alphabet /\ "b" \in Alphabet
    BY AlphabetIs
  <2>2. <<" ", "/", "*", "/", "a", "\"", "*", "*", "/">> \in Seq(Alphabet)
    BY ONLY <1>1, <2>1, Nine
  <2>3. <<" ", "/", "/", "*", "'", "b", "newline">> \in Seq(Alphabet)
    BY ONLY <1>1, <2>1, Seven
  <2>4. <<" ">> \in Seq(Alphabet) /\ <<>> \in Seq(Alphabet)
    BY ONLY <1>1, Three, EmptySeq
  <2>5. QED
    BY <2>2, <2>3, <2>4
<1>3. QED
  BY <1>2 DEF Gap, Gaps

(* Spell puts the pieces together. *)
LEMMA PiecesAre ==
  ASSUME NEW t \in Seq(Token), NEW gap \in Gaps, NEW fs
  PROVE  Pieces(t, gap, fs) \in Seq(Seq(Alphabet)) /\ Len(Pieces(t, gap, fs)) = Len(t) /\ Spell(t, gap, fs) = FlattenSeq(Pieces(t, gap, fs))
<1>1. DOMAIN t = 1 .. Len(t) /\ Len(t) \in Nat
  BY LenProperties
<1>2. Spell(t, gap, fs) = FlattenSeq(Pieces(t, gap, fs))
  BY DEF Spell, Pieces, Piece, After
<1>3. <<" ">> \in Seq(Alphabet) /\ <<>> \in Seq(Alphabet) /\ (gap # "tight" => Gap(gap) \in Seq(Alphabet))
  BY GapsAre
<1>4. ASSUME NEW n \in 1 .. Len(t) PROVE Piece(t, n, gap, fs) \in Seq(Alphabet)
  <2>1. Chars(t[n]) \in Seq(Alphabet)
    BY CharsAre, ElementOfSeq
  <2>2. QED
    BY <2>1, <1>3, ConcatProperties DEF Piece, After
<1>5. Pieces(t, gap, fs) \in [1 .. Len(t) -> Seq(Alphabet)]
  BY <1>1, <1>4 DEF Pieces
<1>6. Pieces(t, gap, fs) \in Seq(Seq(Alphabet))
  BY ONLY <1>1, <1>5, FunctionIsSeq
<1>7. Len(Pieces(t, gap, fs)) = Len(t)
  BY ONLY <1>1, <1>5, <1>6, LenProperties
<1>8. QED
  BY <1>2, <1>6, <1>7

(* What Spell writes is a text. *)
LEMMA SpelledText ==
  ASSUME NEW t \in Seq(Token), NEW gap \in Gaps, NEW fs PROVE Text(Spell(t, gap, fs))
<1>1. <<>> \in Seq(Alphabet)
  OBVIOUS
<1>2. FlattenSeq(Pieces(t, gap, fs)) \in Seq(Alphabet)
  BY <1>1, PiecesAre, FlattenAppend
<1>3. QED
  BY <1>2, PiecesAre, TextOf

(* Any characters are a text. *)
LEMMA CharactersText == ASSUME NEW c \in Seq(Characters) PROVE Text(c)
<1>3. Characters \subseteq Alphabet
  BY DEF Alphabet
<1>4. c \in Seq(Alphabet)
  BY <1>3, SeqMonotonic
<1>5. QED
  BY <1>4, TextOf

(* What the lexer has found are the tokens of the file. *)
ScanInv == /\ Text(chars) /\ scanned \in BOOLEAN
           /\ lexemes = IF scanned THEN Lexemes(chars, on) ELSE <<>>

(* The tokens there are under some features are tokens. *)
LEMMA TokensUnderAre == \A fs : TokensUnder(fs) \subseteq Token
BY LexiconIs DEF TokensUnder, Token

(* ScanInv holds whatever is in the file: its characters stay, and what was found are its tokens. *)
LEMMA ScanInvariant == ScanSpec => []ScanInv
<1> DEFINE Start == /\ ScanInit
                    /\ \/ text \in Seq(TokensUnder(Usual)) /\ on = Usual /\ \E gap \in Gaps : chars = Spell(text, gap, Usual)
                       \/ text = <<>> /\ on \in Features /\ chars \in Seq(Characters)
<1>1. Start => ScanInv
  <2> SUFFICES ASSUME Start PROVE ScanInv
    OBVIOUS
  <2>1. Text(chars)
    <3>1. CASE chars \in Seq(Characters)
      BY <3>1, CharactersText
    <3>2. ASSUME text \in Seq(TokensUnder(Usual)), NEW gap \in Gaps, chars = Spell(text, gap, Usual) PROVE Text(chars)
      <4>1. text \in Seq(Token)
        BY <3>2, TokensUnderAre, SeqMonotonic
      <4>2. QED
        BY <4>1, <3>2, SpelledText
    <3>3. QED
      BY <3>1, <3>2
  <2>2. QED
    BY <2>1 DEF ScanInit, ScanInv
<1>2. ScanInv /\ [Tokenize]_scanVars => ScanInv'
  <2> SUFFICES ASSUME ScanInv, [Tokenize]_scanVars PROVE ScanInv'
    OBVIOUS
  <2>1. Text(chars) /\ chars' = chars /\ on' = on
    BY DEF ScanInv, Tokenize, scanVars
  <2>2. Text(chars)'
    BY <2>1 DEF Text, Alphabet, Characters, Letters, Digit, Blanks, Marks, Keywords
  <2>3. CASE Tokenize
    BY <2>1, <2>2, <2>3 DEF ScanInv, Tokenize
  <2>4. CASE UNCHANGED scanVars
    BY <2>1, <2>2, <2>4 DEF ScanInv, scanVars
  <2>5. QED
    BY <2>3, <2>4
<1>3. QED
  BY <1>1, <1>2, PTL DEF ScanSpec

-----------------------------------------------------------------------------
(* Nothing skipped, and the longest taken. *)

(* The chain of tokens leaves out only gaps. *)
LEMMA SkippedNothing == ScanInv => NothingSkipped
<1> DEFINE n == Len(lexemes)
           c == chars
           end(k) == IF k = 0 THEN 1 ELSE lexemes[k].next
<1> SUFFICES ASSUME ScanInv, scanned, n = 0 \/ lexemes[n].tok # "error"
             PROVE  /\ \A k \in 1 .. n : IsGap(c, end(k - 1), lexemes[k].from)
                    /\ IsGap(c, end(n), Len(c) + 1)
  BY DEF NothingSkipped
<1>1. Text(c) /\ lexemes = Lexemes(c, on)
  BY DEF ScanInv
<1>2. Chain(lexemes, c, 1) /\ n \in Nat
  <2>1. lexemes \in Seq({LexemeAt(c, k, on) : k \in 1 .. Len(c) + 1}) /\ Chain(lexemes, c, 1)
    BY <1>1, Chained
  <2>2. QED
    BY <2>1, LenProperties
<1> HIDE DEF n, c
<1>3. \A k \in 1 .. n + 1 : end(k - 1) = Before(lexemes, 1, k)
  BY <1>2 DEF Before
<1>4. ASSUME NEW k \in 1 .. n PROVE IsGap(c, end(k - 1), lexemes[k].from)
  <2>1. FoundFrom(lexemes[k], c, Before(lexemes, 1, k)) /\ lexemes[k].tok # EOF
    BY <1>2 DEF Chain, n
  <2>2. lexemes[k].next # 0 \/ lexemes[k].tok # "error"
    <3>1. CASE k = n
      BY <3>1
    <3>2. CASE k # n
      <4>1. k + 1 \in 1 .. n
        BY <3>2, <1>2
      <4>2. Before(lexemes, 1, k + 1) \in 1 .. Len(c) + 1
        BY <4>1, <1>2 DEF Chain, n
      <4>3. Before(lexemes, 1, k + 1) = lexemes[k].next
        BY DEF Before
      <4>4. QED
        BY <4>2, <4>3
    <3>3. QED
      BY <3>1, <3>2
  <2>3. end(k - 1) = Before(lexemes, 1, k)
    BY <1>2, <1>3
  <2> HIDE DEF end
  <2>4. QED
    BY <2>1, <2>2, <2>3 DEF FoundFrom
<1>5. IsGap(c, end(n), Len(c) + 1)
  <2>1. end(n) = Before(lexemes, 1, n + 1)
    BY <1>2 DEF Before
  <2>2. n > 0 => lexemes[n].tok # "error"
    OBVIOUS
  <2> HIDE DEF end
  <2>3. QED
    BY <2>1, <2>2, <1>2 DEF Chain, n
<1>6. QED
  BY <1>4, <1>5

(* A symbol that was found is the longest of the lexicon that is written there. *)
LEMMA FoundLongest ==
  ASSUME NEW l, NEW c, Text(c), NEW i \in 1 .. Len(c), Found(l, c, i, on), l.tok \in Symbols, ~More(l.tok, c, i, on)
  PROVE  /\ l.tok \in Lexicon(on)
         /\ l.next = i + Len(Letterwise[l.tok]) /\ IsWritten(l.tok, c, i)
         /\ \A u \in Longer[l.tok] \cap Lexicon(on) : ~IsWritten(u, c, i)
<1>1. l.tok \in Lexicon(on) /\ Longest(l.tok, l.next, c, i, on)
  BY DEF Found, Best
<1>2. l.next = i + Len(Letterwise[l.tok]) /\ IsWritten(l.tok, c, i)
  BY <1>1 DEF Longest, Size
<1>3. ASSUME NEW u \in Longer[l.tok] \cap Lexicon(on), IsWritten(u, c, i) PROVE FALSE
  <2>1. u \in Symbols \ {l.tok} /\ Size(l.tok) <= Size(u)
    BY <1>3 DEF Longer, IsPrefix, Size
  <2>2. Size(u) <= Size(l.tok)
    BY <1>1, <1>3 DEF Longest
  <2>3. Size(u) \in 1 .. 3 /\ Size(l.tok) \in 1 .. 3
    BY <1>1, <1>3, AtMost
  <2>4. Size(u) = Size(l.tok)
    BY <2>1, <2>2, <2>3
  <2>5. c \in Seq(Alphabet) /\ i \in DOMAIN c
    BY AtIs DEF Text
  <2>6. SymbolOf(c, i, Size(u)) = u /\ SymbolOf(c, i, Size(l.tok)) = l.tok
    BY <1>2, <1>3, <2>1, <2>5, SymbolOfSize
  <2>7. QED
    BY <2>1, <2>4, <2>6
<1>4. QED
  BY <1>1, <1>2, <1>3

(* All tokens of the chain are the longest. *)
LEMMA LongestTaken == ScanInv => TokensAreLongest
<1> SUFFICES ASSUME ScanInv, NEW l \in ToSet(lexemes)
             PROVE  /\ (l.tok \in Symbols /\ ~TakesMore(l)) =>
                         /\ l.tok \in Lexicon(on)
                         /\ l.next = l.from + Len(Letterwise[l.tok]) /\ IsWritten(l.tok, chars, l.from)
                         /\ \A u \in Longer[l.tok] \cap Lexicon(on) : ~IsWritten(u, chars, l.from)
                    /\ l.tok \in Letters =>
                         /\ \A k \in l.from .. l.next - 1 : chars[k] \in Letters \cup {Digit}
                         /\ At(chars, l.next) \notin Letters \cup {Digit}
  BY DEF TokensAreLongest
<1>1. Text(chars) /\ lexemes = Lexemes(chars, on) /\ Len(chars) \in Nat
  <2>1. lexemes # <<>>
    BY DEF ToSet
  <2>2. QED
    BY <2>1, AtIs DEF ScanInv
<1>2. PICK n \in 1 .. Len(lexemes) : l = lexemes[n]
  <2>1. DOMAIN lexemes = 1 .. Len(lexemes)
    BY <1>1, Chained, LenProperties
  <2>2. QED
    BY <2>1 DEF ToSet
<1> DEFINE j == Before(lexemes, 1, n)
<1>3. j \in 1 .. Len(chars) + 1 /\ FoundFrom(l, chars, j) /\ l.tok # EOF
  BY <1>1, <1>2, Chained DEF Chain
<1> HIDE DEF j
<1>4. CASE l.tok = "error" \/ l.tok = "directive"
  BY <1>4, KindsApart
<1>5. ASSUME NEW i \in j .. Len(chars), l.from = i, Found(l, chars, i, on)
      PROVE  /\ (l.tok \in Symbols /\ ~TakesMore(l)) =>
                  /\ l.tok \in Lexicon(on)
                  /\ l.next = l.from + Len(Letterwise[l.tok]) /\ IsWritten(l.tok, chars, l.from)
                  /\ \A u \in Longer[l.tok] \cap Lexicon(on) : ~IsWritten(u, chars, l.from)
             /\ l.tok \in Letters =>
                  /\ \A k \in l.from .. l.next - 1 : chars[k] \in Letters \cup {Digit}
                  /\ At(chars, l.next) \notin Letters \cup {Digit}
  <2>1. i \in 1 .. Len(chars)
    BY <1>1, <1>3
  <2>2. TakesMore(l) <=> More(l.tok, chars, i, on)
    BY <1>5 DEF TakesMore, More
  <2>3. l.tok \in Letters => WholeWord(l, chars)
    BY <1>5 DEF Found
  <2>4. QED
    BY <1>1, <1>5, <2>1, <2>2, <2>3, FoundLongest DEF WholeWord
<1>6. QED
  BY <1>3, <1>4, <1>5 DEF FoundFrom

(* Whatever characters a file has: between its tokens, before and after them
   there are only blanks and comments (skipWhitespaceAndComments, Next). *)
THEOREM SkipsNothing == ScanSpec => []NothingSkipped
BY ScanInvariant, SkippedNothing, PTL

(* Whatever characters a file has: each operator is the longest there is under
   the features that are on, and each word goes on to its end, but for the
   cases of equal that TakesMore names. *)
THEOREM TakesLongest == ScanSpec => []TokensAreLongest
BY ScanInvariant, LongestTaken, PTL

-----------------------------------------------------------------------------
(* Tokens that stand apart. *)

(* The characters of a word stand in c from i on. *)
Stands(word, c, i) == \A k \in 1 .. Len(word) : At(c, i + k - 1) = word[k]

(* What follows a token does not make another token of it. *)
Apart(s, d, fs) ==
  /\ \A u \in Openings \cup Lexicon(fs) : ~IsPrefix(Append(Chars(s), d), Letterwise[u])
  /\ s \notin Symbols \cup {"str", "directive"} => d \notin Letters \cup {Digit}
  /\ s \in {"num", "float"} => d # "."
  /\ s \in {".", "..."} => d # Digit

(* A symbol that is written goes on with the next character in a longer one. *)
LEMMA GoesOn ==
  ASSUME NEW c, Text(c), NEW i \in 1 .. Len(c), NEW s \in Symbols, NEW u \in Symbols \cup Openings,
         IsWritten(s, c, i), IsWritten(u, c, i), Size(s) < Size(u)
  PROVE  IsPrefix(Append(Letterwise[s], At(c, i + Size(s))), Letterwise[u])
<1> DEFINE m == Size(s)
           v == Letterwise[s]
           w == Letterwise[u]
           d == At(c, i + m)
           x == Append(v, d)
<1>1. /\ m \in 1 .. 3 /\ Size(u) \in 1 .. 3 /\ Len(v) = m /\ DOMAIN v = 1 .. m /\ DOMAIN w = 1 .. Size(u) /\ Len(w) = Size(u)
      /\ v = [k \in 1 .. m |-> v[k]] /\ w = [k \in 1 .. Size(u) |-> w[k]]
  BY LettersOf DEF Size
<1> HIDE DEF m
<1> DEFINE A == {v[k] : k \in 1 .. m} \cup {w[k] : k \in 1 .. Size(u)} \cup {d}
<1>2. v \in [1 .. m -> A] /\ w \in [1 .. Size(u) -> A] /\ d \in A /\ m \in Nat /\ Size(u) \in Nat
  BY <1>1
<1> HIDE DEF A
<1>3. v \in Seq(A) /\ w \in Seq(A)
  BY ONLY <1>2, FunctionIsSeq
<1>4. \A k \in 1 .. m : v[k] = w[k]
  <2> SUFFICES ASSUME NEW k \in 1 .. m PROVE v[k] = w[k]
    OBVIOUS
  <2>1. c[i + k - 1] = v[k]
    BY <1>1 DEF IsWritten
  <2>2. k \in 1 .. Size(u)
    BY <1>1 DEF m
  <2>3. c[i + k - 1] = w[k]
    BY <1>1, <2>2 DEF IsWritten
  <2>4. QED
    BY <2>1, <2>3
<1>5. w[m + 1] = d
  <2>1. m + 1 \in 1 .. Size(u)
    BY <1>1 DEF m
  <2>2. i + (m + 1) - 1 \in DOMAIN c /\ c[i + (m + 1) - 1] = w[m + 1]
    BY <1>1, <2>1 DEF IsWritten
  <2>3. i + (m + 1) - 1 = i + m
    BY <1>1
  <2>4. QED
    BY <2>2, <2>3, AtIs
<1> HIDE DEF v, w, d
<1>6. x \in Seq(A) /\ Len(x) = m + 1 /\ x[m + 1] = d /\ \A k \in 1 .. m : x[k] = v[k]
  BY <1>1, <1>2, <1>3, AppendProperties
<1> HIDE DEF x
<1>7. m + 1 <= Len(w)
  BY <1>1 DEF m
<1>8. SubSeq(x, 1, m + 1) = x /\ SubSeq(w, 1, m + 1) = x
  <2>1. \A k \in 1 .. m + 1 : x[k] = w[k]
    BY <1>4, <1>5, <1>6, <1>2
  <2>2. SubSeq(x, 1, m + 1) \in Seq(A) /\ SubSeq(w, 1, m + 1) \in Seq(A)
    BY <1>3, <1>6, <1>7, <1>2, SubSeqProperties
  <2>3. Len(SubSeq(x, 1, m + 1)) = m + 1 /\ Len(SubSeq(w, 1, m + 1)) = m + 1
    BY <1>3, <1>6, <1>7, <1>2, SubSeqProperties
  <2>4. \A k \in 1 .. m + 1 : SubSeq(x, 1, m + 1)[k] = x[k] /\ SubSeq(w, 1, m + 1)[k] = w[k]
    BY <1>3, <1>6, <1>7, <1>2, SubSeqProperties
  <2>5. QED
    BY ONLY <2>1, <2>2, <2>3, <2>4, <1>6, <1>2, SeqEqual
<1>9. QED
  BY <1>6, <1>7, <1>8 DEF IsPrefix, x, v, w, d, m

(* A symbol whose characters stand there is written there. *)
LEMMA SymbolStands ==
  ASSUME NEW c, Text(c), NEW i \in 1 .. Len(c), NEW s \in Symbols, Stands(Chars(s), c, i)
  PROVE  /\ IsWritten(s, c, i) /\ Len(Chars(s)) = Size(s) /\ Chars(s) = Letterwise[s]
         /\ c[i] \in Marks /\ (c[i] = "." => s \in {".", "..."})
<1>1. Len(c) \in Nat /\ DOMAIN c = 1 .. Len(c) /\ \A n \in Nat : At(c, n) # "end" => n \in 1 .. Len(c) /\ c[n] = At(c, n)
  BY AtIs, AtInside DEF Text
<1>2. Chars(s) = Letterwise[s] /\ DOMAIN Letterwise[s] = 1 .. Len(Letterwise[s]) /\ Len(Letterwise[s]) \in 1 .. 3
  BY CharsOf, LettersOf
<1>3. \A k \in 1 .. Len(Letterwise[s]) : Letterwise[s][k] # "end"
  <2>1. Chars(s) \in Seq(Alphabet)
    BY CharsAre, KindsApart
  <2>2. QED
    BY <2>1, <1>2, ElementOfSeq, AlphabetIs
<1>4. ASSUME NEW k \in DOMAIN Letterwise[s] PROVE i + k - 1 \in DOMAIN c /\ c[i + k - 1] = Letterwise[s][k]
  <2>1. k \in 1 .. Len(Letterwise[s]) /\ i + k - 1 \in Nat
    BY <1>2
  <2>2. At(c, i + k - 1) = Letterwise[s][k]
    BY <2>1, <1>2 DEF Stands
  <2>3. QED
    BY <2>1, <2>2, <1>1, <1>3
<1>5. IsWritten(s, c, i)
  BY <1>4 DEF IsWritten
<1>6. i \in 1 .. Len(c) + 1 /\ At(c, i) = c[i]
  BY <1>1, AtIs
<1>7. c[i] \in Marks /\ (c[i] = "." => s \in {".", "..."})
  <2>1. 1 \in DOMAIN Letterwise[s] /\ c[i] = Letterwise[s][1]
    <3>1. 1 \in DOMAIN Letterwise[s] /\ i + 1 - 1 = i
      <4>1. \A n \in 1 .. 3 : 1 \in 1 .. n
        OBVIOUS
      <4>2. i + 1 - 1 = i
        BY <1>1
      <4>3. QED
        BY <4>1, <4>2, <1>2
    <3>2. QED
      BY <3>1, <1>4
  <2>2. CASE s \in Marks
    BY <2>1, <2>2, OfMarks
  <2>3. CASE s \in Pairs
    <3>1. PICK x, y \in {":", "=", "+", "-", "*", "/", "%", "&", "|", "^", "!", "<", ">"} : Letterwise[s] = <<x, y>>
      BY <2>3, ManyLetters DEF Pairs
    <3>2. c[i] = x
      BY <2>1, <3>1
    <3>3. QED
      BY <3>2 DEF Marks
  <2>4. CASE s \in Triples
    <3>1. PICK x, y, z \in {"=", "<", ">", "."} : Letterwise[s] = <<x, y, z>> /\ (s # "..." => x # ".")
      BY <2>4, ManyLetters DEF Triples
    <3>2. c[i] = x
      BY <2>1, <3>1
    <3>3. QED
      BY <3>1, <3>2 DEF Marks
  <2>5. QED
    BY <2>2, <2>3, <2>4, SymbolsAre
<1>8. QED
  BY <1>2, <1>5, <1>7 DEF Size

(* A character put behind one other. *)
LEMMA AppendOne == \A x, y : Append(<<x>>, y) = <<x, y>>
<1> SUFFICES ASSUME NEW x, NEW y PROVE Append(<<x>>, y) = <<x, y>>
  OBVIOUS
<1> DEFINE S == {x, y}
<1>1. <<x>> \in Seq(S) /\ <<x, y>> \in Seq(S) /\ Len(<<x>>) = 1 /\ Len(<<x, y>>) = 2 /\ <<x, y>>[1] = x /\ <<x, y>>[2] = y /\ <<x>>[1] = x
  OBVIOUS
<1>2. y \in S
  OBVIOUS
<1> HIDE DEF S
<1>3. Append(<<x>>, y) \in Seq(S) /\ Len(Append(<<x>>, y)) = 2 /\ Append(<<x>>, y)[1] = x /\ Append(<<x>>, y)[2] = y
  BY <1>1, <1>2, AppendProperties
<1>4. \A k \in 1 .. 2 : Append(<<x>>, y)[k] = <<x, y>>[k]
  BY <1>1, <1>3
<1>5. QED
  BY ONLY <1>1, <1>3, <1>4, SeqEqual

(* No longer symbol is written where one stands apart. *)
LEMMA ApartLongest ==
  ASSUME NEW c, Text(c), NEW i \in 1 .. Len(c), NEW fs, NEW s \in Lexicon(fs), Stands(Chars(s), c, i),
         Apart(s, At(c, i + Len(Chars(s))), fs)
  PROVE  \A u \in Openings \cup Lexicon(fs) : IsWritten(u, c, i) => Size(u) <= Size(s)
<1>1. s \in Symbols /\ Lexicon(fs) \subseteq Symbols
  BY LexiconIs
<1>2. IsWritten(s, c, i) /\ Len(Chars(s)) = Size(s) /\ Chars(s) = Letterwise[s]
  BY <1>1, SymbolStands
<1>3. ASSUME NEW u \in Openings \cup Lexicon(fs), IsWritten(u, c, i), ~(Size(u) <= Size(s)) PROVE FALSE
  <2>1. u \in Symbols \cup Openings
    BY <1>1
  <2>2. Size(u) \in 1 .. 3 /\ Size(s) \in 1 .. 3
    BY <2>1, <1>1, LettersOf DEF Size
  <2>3. Size(s) < Size(u)
    BY <2>2, <1>3
  <2>4. IsPrefix(Append(Letterwise[s], At(c, i + Size(s))), Letterwise[u])
    BY <2>1, <2>3, <1>1, <1>2, <1>3, GoesOn
  <2>5. QED
    BY <2>4, <1>2 DEF Apart
<1>4. QED
  BY <1>3

(* matchThen, and plus to greater: a symbol that stands apart is read. *)
LEMMA OthersRead ==
  ASSUME NEW c, Text(c), NEW i \in 1 .. Len(c), NEW fs, NEW s \in Lexicon(fs), Stands(Chars(s), c, i),
         Apart(s, At(c, i + Len(Chars(s))), fs), c[i] # "="
  PROVE  SymbolAt(c, i, fs).tok = s /\ SymbolAt(c, i, fs).next = i + Size(s)
<1> DEFINE n == SymbolLength(c, i, fs)
           l == SymbolAt(c, i, fs)
           twoDots == c[i] = "." /\ At(c, i + 1) = "." /\ n = 1
<1>1. s \in Symbols
  BY LexiconIs
<1>2. IsWritten(s, c, i) /\ Len(Chars(s)) = Size(s) /\ Chars(s) = Letterwise[s] /\ c[i] \in Marks \ {"="}
      /\ (c[i] = "." => s \in {".", "..."})
  BY <1>1, SymbolStands
<1>3. c \in Seq(Alphabet) /\ i \in DOMAIN c
  BY AtIs DEF Text
<1>4. PICK u \in Lexicon(fs) : IsWritten(u, c, i) /\ Size(u) = n
  BY <1>2, <1>3, SizesAtMost
<1>5. Size(s) <= n /\ n <= Size(s)
  <2>1. Size(s) <= n
    BY <1>2, <1>3, SizesAtMost
  <2>2. Size(u) <= Size(s)
    BY <1>4, ApartLongest
  <2>3. QED
    BY <2>1, <2>2, <1>4
<1>6. Size(s) \in 1 .. 3 /\ n \in 1 .. 3
  BY <1>4, AtMost
<1>7. n = Size(s)
  BY <1>5, <1>6
<1>8. SymbolOf(c, i, n) = s
  BY <1>1, <1>2, <1>3, <1>7, SymbolOfSize
<1>9. ~twoDots
  <2>1. SUFFICES ASSUME twoDots PROVE FALSE
    OBVIOUS
  <2>2. s = "."
    <3>1. Size("...") = 3
      BY Sizes DEF Triples
    <3>2. QED
      BY <2>1, <3>1, <1>2, <1>7
  <2>3. Letterwise["."] = <<".">> /\ Letterwise["..."] = <<".", ".", ".">>
    BY OfMarks, ManyLetters DEF Marks
  <2>4. "..." \in Lexicon(fs)
    <3>1. "..." \in Triples /\ "..." \notin COps /\ "..." \notin BAssignments
      BY DEF Triples, COps, BAssignments
    <3>2. QED
      BY <3>1, Sizes, LexiconIs
  <2>5. At(c, i + Len(Chars(s))) = "."
    BY <2>1, <1>2, <1>7
  <2>6. Append(Chars(s), ".") = <<".", ".">>
    <3>1. Chars(s) = <<".">>
      BY <2>2, <2>3, <1>2
    <3>2. QED
      BY <3>1, AppendOne
  <2>7. IsPrefix(<<".", ".">>, <<".", ".", ".">>)
    BY DEF IsPrefix
  <2>8. QED
    BY <2>3, <2>4, <2>5, <2>6, <2>7 DEF Apart
<1> HIDE DEF n
<1>10. l = Lexeme(s, i, i + n)
  BY <1>8, <1>9 DEF SymbolAt, n
<1>11. l.tok = s /\ l.next = i + n
  BY <1>10 DEF Lexeme
<1>12. QED
  BY <1>7, <1>11

(* equal: a symbol that stands apart is read. *)
LEMMA EqualsRead ==
  ASSUME NEW c, Text(c), NEW i \in 1 .. Len(c), NEW fs, NEW s \in Lexicon(fs), Stands(Chars(s), c, i),
         Apart(s, At(c, i + Len(Chars(s))), fs), c[i] = "="
  PROVE  SymbolAt(c, i, fs).tok = s /\ SymbolAt(c, i, fs).next = i + Size(s)
<1> DEFINE b == At(c, i + 1)
           d == At(c, i + 2)
           l == SymbolAt(c, i, fs)
           ops == {"=", "+", "-", "*", "/", "%", "&", "|", "^"}
<1>1. s \in Symbols
  BY LexiconIs
<1>2. IsWritten(s, c, i) /\ Len(Chars(s)) = Size(s) /\ Chars(s) = Letterwise[s]
  BY <1>1, SymbolStands
<1>3. c \in Seq(Alphabet) /\ i \in DOMAIN c /\ At(c, i) = "="
  BY AtIs DEF Text
<1>4. l = Equal(c, i, fs)
  BY DEF SymbolAt
<1>5. "=" \in Symbols /\ Size("=") = 1 /\ Letterwise["="] = <<"=">> /\ Size("=<<") = 3 /\ Size("=>>") = 3
  BY Sizes, OfMarks DEF Marks, Triples
<1>6. ASSUME s = "=" PROVE l = Lexeme("=", i, i + 1)
  <2>1. ~(b \in ops /\ ("b-ops" \in fs \/ b = "="))
    <3> SUFFICES ASSUME b \in ops, "b-ops" \in fs \/ b = "=" PROVE FALSE
      OBVIOUS
    <3>1. {"=+", "=-", "=*", "=/", "=%", "=&", "=|", "=^", "=="} \subseteq Pairs
      BY DEF Pairs
    <3>2. \A u \in {"=+", "=-", "=*", "=/", "=%", "=&", "=|", "=^", "=="} : u \notin COps /\ (u = "==" => u \notin BAssignments)
      BY DEF COps, BAssignments
    <3>3. \A u \in {"=+", "=-", "=*", "=/", "=%", "=&", "=|", "=^", "=="} : ("b-ops" \in fs \/ u = "==") => u \in Lexicon(fs)
      BY <3>1, <3>2, SymbolsAre, LexiconIs
    <3>4. i \in 1 .. Len(c) + 1
      BY AtIs
    <3>5. \E u \in Pairs \cap Lexicon(fs) : IsWritten(u, c, i)
      BY <3>1, <3>3, <3>4, <1>3, ManyWritten
    <3>6. PICK u \in Pairs \cap Lexicon(fs) : IsWritten(u, c, i)
      BY <3>5
    <3>7. Size(u) = 2 /\ Size(u) <= Size(s)
      BY <3>6, Sizes, ApartLongest
    <3>8. QED
      BY <3>7, <1>5, <1>6
  <2>2. ~("b-ops" \in fs /\ b \in {"<", ">"})
    <3> SUFFICES ASSUME "b-ops" \in fs, b \in {"<", ">"} PROVE FALSE
      OBVIOUS
    <3>1. "=<<" \in Lexicon(fs) /\ "=>>" \in Lexicon(fs)
      <4>1. {"=<<", "=>>"} \subseteq Triples /\ "=<<" \notin COps /\ "=>>" \notin COps
        BY DEF Triples, COps
      <4>2. QED
        BY <4>1, SymbolsAre, LexiconIs
    <3>2. Letterwise["=<<"] = <<"=", "<", "<">> /\ Letterwise["=>>"] = <<"=", ">", ">">>
      BY ManyLetters
    <3>3. Append(Chars(s), b) = <<"=", b>> /\ At(c, i + Len(Chars(s))) = b
      <4>1. Chars(s) = <<"=">> /\ Len(Chars(s)) = 1
        BY <1>2, <1>5, <1>6
      <4>2. QED
        BY <4>1, AppendOne
    <3>4. IsPrefix(<<"=", "<">>, <<"=", "<", "<">>) /\ IsPrefix(<<"=", ">">>, <<"=", ">", ">">>)
      BY DEF IsPrefix
    <3>5. QED
      BY <3>1, <3>2, <3>3, <3>4 DEF Apart
  <2>3. QED
    BY <1>4, <2>1, <2>2 DEF Equal
<1>7. ASSUME s \in Pairs, b \in ops, "b-ops" \in fs \/ b = "=" PROVE l = Lexeme(s, i, i + 2)
  <2>1. Size(s) = 2
    BY <1>7, Sizes
  <2>2. SymbolOf(c, i, 2) = s
    BY <2>1, <1>1, <1>2, <1>3, SymbolOfSize
  <2>3. QED
    BY <1>4, <1>7, <2>2 DEF Equal
<1>8. ASSUME s = "=<<", b = "<", d = "<", "b-ops" \in fs PROVE l = Lexeme("=<<", i, i + 3)
  BY <1>4, <1>8 DEF Equal
<1>9. ASSUME s = "=>>", b = ">", d = ">", "b-ops" \in fs PROVE l = Lexeme("=>>", i, i + 3)
  <2>1. i + 1 + 1 = i + 2 /\ i + 1 + 2 = i + 3
    OBVIOUS
  <2>2. QED
    BY <1>4, <1>9, <2>1 DEF Equal
<1>10. \/ s = "="
       \/ s \in Pairs /\ b \in ops /\ ("b-ops" \in fs \/ b = "=")
       \/ s = "=<<" /\ b = "<" /\ d = "<" /\ "b-ops" \in fs
       \/ s = "=>>" /\ b = ">" /\ d = ">" /\ "b-ops" \in fs
  BY <1>2, <1>3, EqualLonger
<1>11. l = Lexeme(s, i, i + Size(s))
  BY <1>5, <1>6, <1>7, <1>8, <1>9, <1>10, Sizes
<1> HIDE DEF l
<1>12. QED
  BY <1>11 DEF Lexeme, l

(* A symbol that stands apart is read. *)
LEMMA SymbolsRead ==
  ASSUME NEW c, Text(c), NEW i \in 1 .. Len(c), NEW fs, NEW s \in Lexicon(fs), Stands(Chars(s), c, i),
         Apart(s, At(c, i + Len(Chars(s))), fs)
  PROVE  LexemeAt(c, i, fs).tok = s /\ LexemeAt(c, i, fs).next = i + Len(Chars(s))
<1> DEFINE d == At(c, i + Len(Chars(s)))
<1>1. s \in Symbols
  BY LexiconIs
<1>2. IsWritten(s, c, i) /\ Len(Chars(s)) = Size(s) /\ Chars(s) = Letterwise[s] /\ c[i] \in Marks
      /\ (c[i] = "." => s \in {".", "..."})
  BY <1>1, SymbolStands
<1>3. c \in Seq(Alphabet) /\ i \in DOMAIN c /\ At(c, i) = c[i] /\ i \in 1 .. Len(c) + 1 /\ i \in Nat /\ Len(c) \in Nat
  BY AtIs DEF Text
<1>4. ~(c[i] = "/" /\ At(c, i + 1) \in {"*", "/"})
  <2>1. SUFFICES ASSUME c[i] = "/", At(c, i + 1) \in {"*", "/"} PROVE FALSE
    OBVIOUS
  <2>2. s = "/"
    BY <2>1, <1>1, <1>2, <1>3, Written
  <2>3. \E u \in Openings : IsWritten(u, c, i)
    <3>1. IsWritten("//", c, i) \/ IsWritten("/*", c, i)
      <4>1. Letterwise["//"] = <<"/", "/">> /\ Letterwise["/*"] = <<"/", "*">>
        BY ManyLetters
      <4>2. QED
        BY <2>1, <1>3, <4>1, PairsWritten DEF Openings
    <3>2. QED
      BY <3>1 DEF Openings
  <2>4. \A u \in Openings : Size(u) = 2
    BY LengthOf DEF Size
  <2>5. Size(s) = 1
    BY <2>2, Sizes DEF Marks
  <2>6. QED
    BY <2>3, <2>4, <2>5, ApartLongest
<1>5. Skip(c, i) = i
  <2>1. c[i] \notin Blanks
    BY <1>2 DEF Marks, Blanks
  <2>2. QED
    BY <2>1, <1>3, <1>4, SkipIs DEF Opens
<1>6. LexemeAt(c, i, fs) = TokenAt(c, i, fs)
  BY <1>3, <1>4, <1>5, LexemeIs DEF Slashes
<1>7. ~(c[i] = "." /\ At(c, i + 1) = Digit)
  <2>1. SUFFICES ASSUME c[i] = ".", At(c, i + 1) = Digit PROVE FALSE
    OBVIOUS
  <2>2. s = "."
    <3>1. s = "..." => At(c, i + 1) = "."
      BY <1>2, <1>3, ManyWritten
    <3>2. QED
      BY <3>1, <2>1, <1>2 DEF Digit
  <2>3. Size(s) = 1
    BY <2>2, Sizes DEF Marks
  <2>4. QED
    BY <2>1, <2>2, <2>3, <1>2 DEF Apart
<1>8. TokenAt(c, i, fs) = SymbolAt(c, i, fs)
  <2>1. c[i] \notin Letters /\ c[i] # Digit /\ c[i] \notin {"\"", "'"}
    BY <1>2, KindsApart, SymbolsAre DEF Digit, Marks
  <2>2. QED
    BY <2>1, <1>2, <1>7 DEF TokenAt
<1>9. SymbolAt(c, i, fs).tok = s /\ SymbolAt(c, i, fs).next = i + Size(s)
  BY OthersRead, EqualsRead
<1>10. QED
  BY <1>2, <1>6, <1>8, <1>9

-----------------------------------------------------------------------------
(* Words, numbers, strings and directives. *)

(* The features that Spelling writes for. *)
Writable(fs) == {"c-comments", "c-esc"} \subseteq fs /\ fs \cap {"b-esc", "no-directives"} = {}

(* A token that begins neither with a blank nor with a slash. *)
LEMMA ReadHere ==
  ASSUME NEW c, Text(c), NEW i \in 1 .. Len(c), NEW fs, c[i] \notin Blanks, c[i] # "/"
  PROVE  LexemeAt(c, i, fs) = TokenAt(c, i, fs)
<1>1. At(c, i) = c[i] /\ i \in 1 .. Len(c) + 1 /\ i \in Nat /\ Len(c) \in Nat
  BY AtIs
<1>2. Skip(c, i) = i
  BY <1>1, SkipIs DEF Opens
<1>3. QED
  BY <1>1, <1>2, LexemeIs DEF Slashes

(* A word that stands apart is read. *)
LEMMA WordsRead ==
  ASSUME NEW c, Text(c), NEW i \in 1 .. Len(c), NEW fs, NEW s \in Letters, At(c, i) = s,
         At(c, i + 1) \notin Letters \cup {Digit}
  PROVE  LexemeAt(c, i, fs).tok = s /\ LexemeAt(c, i, fs).next = i + 1
<1> DEFINE S == Letters \cup {Digit}
           j == Past(c, i, S)
<1>1. At(c, i) = c[i] /\ i \in 1 .. Len(c) + 1 /\ i \in Nat /\ Len(c) \in Nat
  BY AtIs
<1>2. c[i] \in Letters /\ c[i] # Digit /\ c[i] \notin {"\"", "'"} /\ c[i] \notin Marks /\ c[i] \notin Blanks
  BY <1>1, KindsApart, SymbolsAre DEF Digit, Others, Literals, Blanks
<1>3. c[i] # "/" /\ c[i] # "."
  BY <1>2 DEF Marks
<1>4. LexemeAt(c, i, fs) = WordAt(c, i)
  BY <1>2, <1>3, ReadHere DEF TokenAt
<1>5. j = i + 1
  <2>1. "end" \notin S
    BY KindsApart DEF Digit
  <2>2. At(c, i) \in S /\ At(c, i + 1) \notin S
    BY <1>1, <1>2
  <2> HIDE DEF S
  <2>3. j \in i .. Len(c) + 1 /\ At(c, j) \notin S /\ \A k \in i .. j - 1 : At(c, k) \in S
    BY <2>1, <1>1, PastIs
  <2> HIDE DEF j
  <2>4. j # i /\ ~(j > i + 1)
    BY <2>2, <2>3, <1>1
  <2>5. QED
    BY <2>3, <2>4, <1>1
<1> HIDE DEF j
<1>6. WordAt(c, i) = Lexeme(c[i], i, i + 1)
  BY <1>5 DEF WordAt, j
<1>7. QED
  BY <1>1, <1>4, <1>6 DEF Lexeme

(* Past digits. *)
LEMMA PastDigit ==
  ASSUME NEW c, Text(c), NEW i \in 1 .. Len(c), At(c, i) = Digit, At(c, i + 1) # Digit
  PROVE  Past(c, i, {Digit}) = i + 1
<1> DEFINE j == Past(c, i, {Digit})
<1>1. i \in 1 .. Len(c) + 1 /\ i \in Nat /\ Len(c) \in Nat
  BY AtIs
<1>2. "end" \notin {Digit}
  BY DEF Digit
<1>3. j \in i .. Len(c) + 1 /\ At(c, j) \notin {Digit} /\ \A k \in i .. j - 1 : At(c, k) \in {Digit}
  BY <1>1, <1>2, PastIs
<1> HIDE DEF j
<1>4. j # i /\ ~(j > i + 1)
  BY <1>1, <1>3
<1>5. QED
  BY <1>1, <1>3, <1>4 DEF j

(* A digit begins a number. *)
LEMMA DigitHere ==
  ASSUME NEW c, Text(c), NEW i \in 1 .. Len(c), NEW fs, At(c, i) = Digit
  PROVE  LexemeAt(c, i, fs) = NumberAt(c, i) /\ c[i] = Digit
<1>1. At(c, i) = c[i]
  BY AtIs
<1>2. c[i] \notin Letters /\ c[i] \notin {"\"", "'"} /\ c[i] \notin Marks /\ c[i] \notin Blanks /\ c[i] # "/"
  BY <1>1, KindsApart DEF Digit, Literals, Marks, Blanks
<1>3. QED
  BY <1>1, <1>2, ReadHere DEF TokenAt

(* A whole number that stands apart is read. *)
LEMMA NumbersRead ==
  ASSUME NEW c, Text(c), NEW i \in 1 .. Len(c), NEW fs, At(c, i) = Digit,
         At(c, i + 1) \notin Letters \cup {Digit, "."}
  PROVE  LexemeAt(c, i, fs).tok = "num" /\ LexemeAt(c, i, fs).next = i + 1
<1>1. LexemeAt(c, i, fs) = NumberAt(c, i) /\ c[i] # "."
  BY DigitHere DEF Digit
<1>2. Past(c, i, {Digit}) = i + 1
  BY PastDigit
<1>3. At(c, i + 1) \notin {"else", "extrn"} /\ At(c, i + 1) # "."
  BY DEF Letters, Keywords
<1>4. NumberAt(c, i) = Lexeme("num", i, i + 1)
  BY <1>1, <1>2, <1>3 DEF NumberAt
<1>5. QED
  BY <1>1, <1>4 DEF Lexeme

(* A float that stands apart is read. *)
LEMMA FloatsRead ==
  ASSUME NEW c, Text(c), NEW i \in 1 .. Len(c), NEW fs, At(c, i) = Digit, At(c, i + 1) = ".", At(c, i + 2) = Digit,
         At(c, i + 3) \notin Letters \cup {Digit}
  PROVE  LexemeAt(c, i, fs).tok = "float" /\ LexemeAt(c, i, fs).next = i + 3
<1>1. LexemeAt(c, i, fs) = NumberAt(c, i) /\ c[i] # "."
  BY DigitHere DEF Digit
<1>2. Past(c, i, {Digit}) = i + 1
  BY PastDigit DEF Digit
<1>3. i + 1 + 1 = i + 2 /\ i + 2 + 1 = i + 3 /\ i \in Nat
  OBVIOUS
<1>4. i + 2 \in 1 .. Len(c)
  BY <1>3, AtInside DEF Digit, Text
<1>5. Past(c, i + 2, {Digit}) = i + 3
  BY <1>3, <1>4, PastDigit
<1>6. At(c, i + 3) \notin {"else", "extrn"}
  BY DEF Letters, Keywords
<1>7. NumberAt(c, i) = Lexeme("float", i, i + 3)
  BY <1>1, <1>2, <1>3, <1>5, <1>6 DEF NumberAt
<1>8. QED
  BY <1>1, <1>7 DEF Lexeme

(* Texts are written with backslashes for escapes. *)
LEMMA EscapesAre == ASSUME NEW fs, Writable(fs) PROVE EscapeChars(fs) = {"\\"}
BY DEF Writable, EscapeChars

(* Sequences of four characters. *)
LEMMA Four ==
  ASSUME NEW A, NEW a \in A, NEW b \in A, NEW d \in A, NEW e \in A
  PROVE  <<a, b, d, e>> \in Seq(A)
OBVIOUS

(* The characters of a word of nine, one by one. *)
LEMMA StandsNine ==
  ASSUME NEW w, NEW c, NEW i \in Nat, Stands(w, c, i), Len(w) = 9
  PROVE  /\ At(c, i) = w[1] /\ At(c, i + 1) = w[2] /\ At(c, i + 2) = w[3] /\ At(c, i + 3) = w[4] /\ At(c, i + 4) = w[5]
         /\ At(c, i + 5) = w[6] /\ At(c, i + 6) = w[7] /\ At(c, i + 7) = w[8] /\ At(c, i + 8) = w[9]
<1>1. \A k \in 1 .. 9 : At(c, i + k - 1) = w[k]
  BY DEF Stands
<1>2. \A k \in 1 .. 9 : i + k - 1 = i + (k - 1)
  OBVIOUS
<1>3. /\ i + 1 - 1 = i /\ i + 2 - 1 = i + 1 /\ i + 3 - 1 = i + 2 /\ i + 4 - 1 = i + 3 /\ i + 5 - 1 = i + 4
      /\ i + 6 - 1 = i + 5 /\ i + 7 - 1 = i + 6 /\ i + 8 - 1 = i + 7 /\ i + 9 - 1 = i + 8
  OBVIOUS
<1>4. 1 \in 1 .. 9 /\ 2 \in 1 .. 9 /\ 3 \in 1 .. 9 /\ 4 \in 1 .. 9 /\ 5 \in 1 .. 9 /\ 6 \in 1 .. 9 /\ 7 \in 1 .. 9
      /\ 8 \in 1 .. 9 /\ 9 \in 1 .. 9
  OBVIOUS
<1>5. QED
  BY <1>1, <1>3, <1>4

(* The characters of a string that has its own end escaped in it. *)
LEMMA StringIs ==
  LET w == Chars("str")
  IN  Len(w) = 9 /\ w[1] = "\"" /\ w[2] = "a" /\ w[3] = "\\" /\ w[5] = "/" /\ w[6] = "*" /\ w[7] = "\\" /\ w[9] = "\""
<1> DEFINE w == <<"\"", "a", "\\", "\"", "/", "*", "\\", "*", "\"">>
<1>1. Chars("str") = w
  BY CharsOf
<1>2. Len(w) = 9 /\ w[1] = "\"" /\ w[2] = "a" /\ w[3] = "\\" /\ w[5] = "/" /\ w[6] = "*" /\ w[7] = "\\" /\ w[9] = "\""
  OBVIOUS
<1> HIDE DEF w
<1>3. QED
  BY <1>1, <1>2

(* The characters of a directive. *)
LEMMA DirectiveIs ==
  LET w == Chars("directive")
  IN  /\ Len(w) = 9 /\ w[1] = "/" /\ w[2] = "/" /\ w[3] = " " /\ w[4] = "[" /\ w[5] = "b" /\ w[6] = "]" /\ w[7] = ":"
      /\ w[8] = "a" /\ w[9] = "newline"
<1> DEFINE w == <<"/", "/", " ", "[", "b", "]", ":", "a", "newline">>
<1>1. Chars("directive") = w
  BY CharsOf
<1>2. /\ Len(w) = 9 /\ w[1] = "/" /\ w[2] = "/" /\ w[3] = " " /\ w[4] = "[" /\ w[5] = "b" /\ w[6] = "]" /\ w[7] = ":"
      /\ w[8] = "a" /\ w[9] = "newline"
  OBVIOUS
<1> HIDE DEF w
<1>3. QED
  BY <1>1, <1>2

(* stringLiteral: a string is read up to the quote that is not escaped. *)
LEMMA StringsRead ==
  ASSUME NEW c, Text(c), NEW i \in 1 .. Len(c), NEW fs, Writable(fs), Stands(Chars("str"), c, i)
  PROVE  LexemeAt(c, i, fs).tok = "str" /\ LexemeAt(c, i, fs).next = i + 9
<1> DEFINE behind(j) == Behind(c, j, "\"", {"\\"})
<1>1. i \in Nat /\ Len(c) \in Nat /\ EscapeChars(fs) = {"\\"}
  BY AtIs, EscapesAre
<1>2. /\ At(c, i) = "\"" /\ At(c, i + 1) = "a" /\ At(c, i + 2) = "\\" /\ At(c, i + 4) = "/" /\ At(c, i + 5) = "*"
      /\ At(c, i + 6) = "\\" /\ At(c, i + 8) = "\""
  BY ZenonT(60), <1>1, StandsNine, StringIs
<1>3. ASSUME NEW j \in Nat, At(c, j) # "end"
      PROVE behind(j) = IF At(c, j) = "\"" THEN j + 1 ELSE IF At(c, j) \in {"\\"} THEN behind(j + 2) ELSE behind(j + 1)
  <2>1. j \in 1 .. Len(c)
    BY <1>3, AtInside DEF Text
  <2>2. j \in 1 .. Len(c) + 2 /\ j <= Len(c) /\ At(c, j) = c[j]
    BY <2>1, <1>1, AtIs
  <2>3. QED
    <3> DEFINE q == "\""
               e == {"\\"}
    <3>1. behind(j) = Behind(c, j, q, e) /\ behind(j + 1) = Behind(c, j + 1, q, e) /\ behind(j + 2) = Behind(c, j + 2, q, e)
      OBVIOUS
    <3> HIDE DEF q, e, behind
    <3>2. behind(j) = IF c[j] = q THEN j + 1 ELSE IF c[j] \in e THEN behind(j + 2) ELSE behind(j + 1)
      BY <3>1, <2>2, BehindIs
    <3>3. QED
      BY <3>2, <2>2 DEF q, e
<1>4. At(c, i) = c[i]
  BY AtIs
<1>5. c[i] \notin Letters /\ c[i] \notin Marks /\ c[i] # Digit /\ c[i] \notin Blanks /\ c[i] # "/" /\ c[i] # "."
  BY <1>2, <1>4, KindsApart DEF Others, Marks, Digit, Blanks
<1>6. LexemeAt(c, i, fs) = LiteralAt(c, i, fs)
  BY <1>2, <1>4, <1>5, ReadHere DEF TokenAt
<1> HIDE DEF behind
<1>7. behind(i + 8) = i + 9
  <2>1. i + 8 \in Nat /\ i + 8 + 1 = i + 9
    BY <1>1
  <2>2. QED
    BY <2>1, <1>2, <1>3
<1>8. behind(i + 6) = behind(i + 8)
  <2>1. i + 6 \in Nat /\ i + 6 + 2 = i + 8
    BY <1>1
  <2>2. QED
    BY <2>1, <1>2, <1>3
<1>9. behind(i + 5) = behind(i + 6)
  <2>1. i + 5 \in Nat /\ i + 5 + 1 = i + 6
    BY <1>1
  <2>2. QED
    BY <2>1, <1>2, <1>3
<1>10. behind(i + 4) = behind(i + 5)
  <2>1. i + 4 \in Nat /\ i + 4 + 1 = i + 5
    BY <1>1
  <2>2. QED
    BY <2>1, <1>2, <1>3
<1>11. behind(i + 2) = behind(i + 4)
  <2>1. i + 2 \in Nat /\ i + 2 + 2 = i + 4
    BY <1>1
  <2>2. QED
    BY <2>1, <1>2, <1>3
<1>12. behind(i + 1) = behind(i + 2)
  <2>1. i + 1 \in Nat /\ i + 1 + 1 = i + 2
    BY <1>1
  <2>2. QED
    BY <2>1, <1>2, <1>3
<1>13. behind(i + 1) = i + 9
  BY <1>7, <1>8, <1>9, <1>10, <1>11, <1>12
<1>14. LiteralAt(c, i, fs) = Lexeme("str", i, i + 9)
  <2>0. c[i] = "\""
    BY <1>2, <1>4
  <2>1. i + 9 # 0
    BY <1>1
  <2>2. Behind(c, i + 1, c[i], EscapeChars(fs)) = i + 9
    BY <1>1, <1>13, <2>0 DEF behind
  <2>3. QED
    BY <2>0, <2>1, <2>2 DEF LiteralAt
<1>15. QED
  BY <1>6, <1>14 DEF Lexeme

(* Where the characters of S end. *)
LEMMA PastOne ==
  ASSUME NEW c, Text(c), NEW i \in 1 .. Len(c), NEW d, d # "end", At(c, i) = d, At(c, i + 1) # d
  PROVE  Past(c, i, {d}) = i + 1
<1> DEFINE j == Past(c, i, {d})
<1>1. i \in 1 .. Len(c) + 1 /\ i \in Nat /\ Len(c) \in Nat
  BY AtIs
<1>2. "end" \notin {d}
  OBVIOUS
<1>3. j \in i .. Len(c) + 1 /\ At(c, j) \notin {d} /\ \A k \in i .. j - 1 : At(c, k) \in {d}
  BY <1>1, <1>2, PastIs
<1> HIDE DEF j
<1>4. j # i /\ ~(j > i + 1)
  BY <1>1, <1>3
<1>5. QED
  BY <1>1, <1>3, <1>4 DEF j

(* lineCommentOrDirective: a directive is read up to the end of its line. *)
LEMMA DirectivesRead ==
  ASSUME NEW c, Text(c), NEW i \in 1 .. Len(c), NEW fs, Writable(fs), Stands(Chars("directive"), c, i)
  PROVE  LexemeAt(c, i, fs).tok = "directive" /\ LexemeAt(c, i, fs).next = i + 8
<1>1. i \in Nat /\ Len(c) \in Nat /\ i \in 1 .. Len(c) + 1
  BY AtIs
<1>2. /\ At(c, i) = "/" /\ At(c, i + 1) = "/" /\ At(c, i + 2) = " " /\ At(c, i + 3) = "[" /\ At(c, i + 4) = "b"
      /\ At(c, i + 5) = "]" /\ At(c, i + 6) = ":" /\ At(c, i + 7) = "a" /\ At(c, i + 8) = "newline"
  <2> DEFINE w == Chars("directive")
  <2>1. Len(w) = 9 /\ Stands(w, c, i)
    BY DirectiveIs
  <2>2. /\ w[1] = "/" /\ w[2] = "/" /\ w[3] = " " /\ w[4] = "[" /\ w[5] = "b" /\ w[6] = "]" /\ w[7] = ":"
        /\ w[8] = "a" /\ w[9] = "newline"
    BY DirectiveIs
  <2> HIDE DEF w
  <2>3. /\ At(c, i) = w[1] /\ At(c, i + 1) = w[2] /\ At(c, i + 2) = w[3] /\ At(c, i + 3) = w[4] /\ At(c, i + 4) = w[5]
        /\ At(c, i + 5) = w[6] /\ At(c, i + 6) = w[7] /\ At(c, i + 7) = w[8] /\ At(c, i + 8) = w[9]
    BY <2>1, <1>1, StandsNine
  <2>4. QED
    BY <2>2, <2>3
<1>3. i + 2 \in 1 .. Len(c) /\ i + 8 \in 1 .. Len(c)
  <2>1. i + 2 \in Nat /\ i + 8 \in Nat
    BY <1>1
  <2>2. At(c, i + 2) # "end" /\ At(c, i + 8) # "end"
    BY <1>2
  <2>3. QED
    BY <2>1, <2>2, AtInside DEF Text
<1>4. Slashes(c, i) /\ ~Opens(c, i) /\ At(c, i) \notin Blanks
  BY <1>2 DEF Slashes, Opens, Blanks
<1>5. Skip(c, i) = i
  BY <1>1, <1>4, SkipIs
<1>6. Past(c, i + 2, {" "}) = i + 3
  <2>1. i + 2 + 1 = i + 3
    BY <1>1
  <2>2. At(c, i + 3) # " " /\ " " # "end" /\ At(c, i + 2) = " "
    BY <1>2
  <2>3. QED
    BY <2>1, <2>2, <1>3, PastOne
<1>7. IsDirective(c, i)
  <2>1. Min({i + 3 + 3, Len(c)}) = i + 6
    BY <1>1, <1>3 DEF Min
  <2>2. SubSeq(c, i + 3, i + 6) = <<"[", "b", "]", ":">>
    <3> DEFINE S == {"[", "b", "]", ":"}
               t == SubSeq(c, i + 3, i + 6)
               u == <<"[", "b", "]", ":">>
    <3>1. c[i + 3] = "[" /\ c[i + 4] = "b" /\ c[i + 5] = "]" /\ c[i + 6] = ":"
      <4>1. i + 3 \in 1 .. Len(c) /\ i + 4 \in 1 .. Len(c) /\ i + 5 \in 1 .. Len(c) /\ i + 6 \in 1 .. Len(c)
        BY <1>1, <1>3
      <4>2. QED
        BY <4>1, <1>2, AtIs
    <3>2. \A k \in i + 3 .. i + 6 : c[k] \in S
      <4>1. \A k \in i + 3 .. i + 6 : k = i + 3 \/ k = i + 4 \/ k = i + 5 \/ k = i + 6
        BY <1>1
      <4>2. QED
        BY <3>1, <4>1
    <3>3. u[1] = "[" /\ u[2] = "b" /\ u[3] = "]" /\ u[4] = ":" /\ Len(u) = 4
      OBVIOUS
    <3>4. u \in Seq(S)
      <4>1. "[" \in S /\ "b" \in S /\ "]" \in S /\ ":" \in S
        OBVIOUS
      <4> HIDE DEF S
      <4>2. QED
        BY ONLY <4>1, Four
    <3> HIDE DEF S, u
    <3>5. t \in Seq(S) /\ Len(t) = 4 /\ \A k \in 1 .. 4 : t[k] = c[i + 3 + k - 1]
      <4>1. i + 3 \in Int /\ i + 6 \in Int
        BY <1>1
      <4>2. t \in Seq(S) /\ Len(t) = (IF i + 3 <= i + 6 THEN (i + 6) - (i + 3) + 1 ELSE 0)
            /\ \A k \in 1 .. (i + 6) - (i + 3) + 1 : t[k] = c[i + 3 + k - 1]
        BY ONLY <4>1, <3>2, SubSeqProperties
      <4>3. (i + 6) - (i + 3) + 1 = 4 /\ i + 3 <= i + 6
        BY <1>1
      <4> HIDE DEF t
      <4>4. QED
        BY <4>2, <4>3
    <3> HIDE DEF t
    <3>6. t[1] = u[1] /\ t[2] = u[2] /\ t[3] = u[3] /\ t[4] = u[4]
      <4>1. i + 3 + 1 - 1 = i + 3 /\ i + 3 + 2 - 1 = i + 4 /\ i + 3 + 3 - 1 = i + 5 /\ i + 3 + 4 - 1 = i + 6
        BY <1>1
      <4>2. t[1] = c[i + 3 + 1 - 1] /\ t[2] = c[i + 3 + 2 - 1] /\ t[3] = c[i + 3 + 3 - 1] /\ t[4] = c[i + 3 + 4 - 1]
        BY <3>5
      <4>3. QED
        BY <4>1, <4>2, <3>1, <3>3
    <3>7. \A k \in 1 .. 4 : t[k] = u[k]
      <4>1. \A k \in 1 .. 4 : k = 1 \/ k = 2 \/ k = 3 \/ k = 4
        OBVIOUS
      <4>2. QED
        BY <3>6, <4>1
    <3>8. t = u
      BY ONLY <3>3, <3>4, <3>5, <3>7, SeqEqual
    <3>9. QED
      BY <3>8 DEF t, u
  <2>3. QED
    BY <1>6, <2>1, <2>2 DEF IsDirective
<1>8. LineFrom(c, i) = i + 8
  <2> DEFINE j == LineFrom(c, i)
             S == {"newline", "end"}
  <2>1. j \in i .. Len(c) + 1 /\ At(c, j) \in S /\ \A k \in i .. j - 1 : At(c, k) \notin S
    <3>1. {"newline"} \cup {"end"} = S
      OBVIOUS
    <3>2. QED
      BY <1>1, <3>1, UpToIs DEF LineFrom
  <2>2. At(c, i + 8) \in S
    BY <1>2
  <2>3. /\ At(c, i) \notin S /\ At(c, i + 1) \notin S /\ At(c, i + 2) \notin S /\ At(c, i + 3) \notin S
        /\ At(c, i + 4) \notin S /\ At(c, i + 5) \notin S /\ At(c, i + 6) \notin S /\ At(c, i + 7) \notin S
    BY <1>2
  <2> HIDE DEF j, S
  <2>4. ~(j > i + 8)
    <3>1. j > i + 8 => i + 8 \in i .. j - 1
      BY <2>1, <1>1
    <3>2. QED
      BY <2>1, <2>2, <3>1
  <2>5. j # i /\ j # i + 1 /\ j # i + 2 /\ j # i + 3 /\ j # i + 4 /\ j # i + 5 /\ j # i + 6 /\ j # i + 7
    BY <2>1, <2>3
  <2>6. j \in Nat /\ j >= i
    BY <2>1, <1>1
  <2>7. QED
    BY <2>4, <2>5, <2>6, <1>1 DEF j
<1>9. LexemeAt(c, i, fs) = Lexeme("directive", i, i + 8)
  <2>1. "no-directives" \notin fs /\ i # 0 /\ ~(i > Len(c))
    BY <1>1 DEF Writable
  <2>2. QED
    BY <2>1, <1>1, <1>4, <1>5, <1>7, <1>8, LexemeIs
<1>10. QED
  BY <1>9 DEF Lexeme

(* The end of a directive's line is left to what follows. *)
Left(tok) == IF tok = "directive" THEN 1 ELSE 0

(* A token that stands apart is read. *)
LEMMA TokenRead ==
  ASSUME NEW c, Text(c), NEW i \in 1 .. Len(c), NEW fs, Writable(fs), NEW s \in TokensUnder(fs), Stands(Chars(s), c, i),
         Apart(s, At(c, i + Len(Chars(s))), fs)
  PROVE  LexemeAt(c, i, fs).tok = s /\ LexemeAt(c, i, fs).next = i + Len(Chars(s)) - Left(s)
<1>1. i \in Nat /\ Len(c) \in Nat /\ \A k \in 1 .. Len(c) : At(c, k) = c[k]
  BY AtIs
<1>2. s \in Lexicon(fs) \cup Letters \cup Literals \cup {"directive"}
  BY KindsApart DEF TokensUnder
<1>3. CASE s \in Lexicon(fs)
  <2>1. s # "directive" /\ Len(Chars(s)) \in Nat
    BY <1>3, LexiconIs, KindsApart, SymbolStands, LettersOf DEF Size
  <2>2. QED
    BY <2>1, <1>1, <1>3, SymbolsRead DEF Left
<1>4. CASE s \in Letters
  <2>1. Chars(s) = <<s>> /\ s # "directive" /\ s \notin Symbols \cup {"str", "directive"}
    BY <1>4, CharsOf, KindsApart DEF Literals
  <2>2. Len(Chars(s)) = 1 /\ Chars(s)[1] = s
    BY <2>1
  <2>3. At(c, i) = s
    BY <2>2, <1>1 DEF Stands
  <2>4. At(c, i + 1) \notin Letters \cup {Digit}
    BY <2>1, <2>2 DEF Apart
  <2>5. LexemeAt(c, i, fs).tok = s /\ LexemeAt(c, i, fs).next = i + 1
    BY <1>4, <2>3, <2>4, WordsRead
  <2>6. Left(s) = 0
    BY <2>1 DEF Left
  <2>7. QED
    BY <2>2, <2>5, <2>6, <1>1
<1>5. CASE s = "num"
  <2>1. Len(Chars(s)) = 1 /\ Chars(s)[1] = Digit
    <3>1. Chars(s) = <<Digit>>
      BY <1>5, CharsOf DEF Digit
    <3>2. QED
      BY <3>1
  <2>2. At(c, i) = Digit
    BY <2>1, <1>1 DEF Stands
  <2>3. s \notin Symbols \cup {"str", "directive"}
    BY <1>5, KindsApart DEF Literals
  <2>4. At(c, i + 1) \notin Letters \cup {Digit, "."}
    BY <2>1, <2>3, <1>5 DEF Apart
  <2>5. LexemeAt(c, i, fs).tok = s /\ LexemeAt(c, i, fs).next = i + 1
    BY <1>5, <2>2, <2>4, NumbersRead
  <2>6. Left(s) = 0
    BY <1>5 DEF Left
  <2>7. QED
    BY <2>1, <2>5, <2>6, <1>1
<1>6. CASE s = "float"
  <2>1. Len(Chars(s)) = 3 /\ Chars(s)[1] = Digit /\ Chars(s)[2] = "." /\ Chars(s)[3] = Digit
    <3>1. Chars(s) = <<Digit, ".", Digit>>
      BY <1>6, CharsOf DEF Digit
    <3>2. QED
      BY <3>1
  <2>2. At(c, i) = Digit /\ At(c, i + 1) = "." /\ At(c, i + 2) = Digit
    BY <2>1, <1>1 DEF Stands
  <2>3. s \notin Symbols \cup {"str", "directive"}
    BY <1>6, KindsApart DEF Literals
  <2>4. At(c, i + 3) \notin Letters \cup {Digit}
    BY <2>1, <2>3, <1>6 DEF Apart
  <2>5. LexemeAt(c, i, fs).tok = s /\ LexemeAt(c, i, fs).next = i + 3
    BY <1>6, <2>2, <2>4, FloatsRead
  <2>6. Left(s) = 0
    BY <1>6 DEF Left
  <2>7. QED
    BY <2>1, <2>5, <2>6, <1>1
<1>7. CASE s = "str"
  <2>1. LexemeAt(c, i, fs).tok = s /\ LexemeAt(c, i, fs).next = i + 9
    BY <1>7, StringsRead
  <2>2. Len(Chars(s)) = 9 /\ Left(s) = 0
    BY <1>7, StringIs DEF Left
  <2>3. QED
    BY <2>1, <2>2, <1>1
<1>8. CASE s = "directive"
  <2>1. LexemeAt(c, i, fs).tok = s /\ LexemeAt(c, i, fs).next = i + 8
    BY <1>8, DirectivesRead
  <2>2. Len(Chars(s)) = 9 /\ Left(s) = 1
    BY <1>8, DirectiveIs DEF Left
  <2>3. QED
    BY <2>1, <2>2, <1>1
<1>9. QED
  BY <1>2, <1>3, <1>4, <1>5, <1>6, <1>7, <1>8 DEF Literals

-----------------------------------------------------------------------------
(* Where tokens stand. *)

(* Where each of the sequences begins that are put together. *)
Starts(g, seqs, c) ==
  /\ g \in [1 .. Len(seqs) + 1 -> Nat] /\ g[1] = 1 /\ g[Len(seqs) + 1] = Len(c) + 1
  /\ \A n \in 1 .. Len(seqs) : /\ g[n + 1] = g[n] + Len(seqs[n])
                               /\ \A k \in 1 .. Len(seqs[n]) : g[n] + k - 1 \in 1 .. Len(c) /\ c[g[n] + k - 1] = seqs[n][k]

(* Sequences that are put together begin where those before them end. *)
LEMMA FlattenStarts ==
  ASSUME NEW S, NEW seqs \in Seq(Seq(S))
  PROVE  \E g : Starts(g, seqs, FlattenSeq(seqs))
<1> DEFINE T == {ss \in Seq(Seq(S)) : \E g : Starts(g, ss, FlattenSeq(ss))}
<1>1. <<>> \in T
  <2> DEFINE g == [n \in 1 .. 1 |-> 1]
             ss == <<>>
  <2>1. ss \in Seq(Seq(S)) /\ Len(ss) = 0 /\ FlattenSeq(ss) = <<>> /\ Len(<<>>) = 0
    BY FlattenNone
  <2>2. g \in [1 .. 0 + 1 -> Nat] /\ g[1] = 1
    OBVIOUS
  <2> HIDE DEF ss, g
  <2>3. Starts(g, ss, FlattenSeq(ss))
    BY <2>1, <2>2 DEF Starts
  <2>4. QED
    BY <2>1, <2>3 DEF ss
<1>2. ASSUME NEW ss \in T, NEW s \in Seq(S) PROVE Append(ss, s) \in T
  <2>1. PICK g : Starts(g, ss, FlattenSeq(ss))
    OBVIOUS
  <2> DEFINE c == FlattenSeq(ss)
             more == Append(ss, s)
             d == FlattenSeq(more)
             N == Len(ss)
             h == [n \in 1 .. N + 2 |-> IF n = N + 2 THEN g[N + 1] + Len(s) ELSE g[n]]
  <2>2. ss \in Seq(Seq(S)) /\ c \in Seq(S) /\ d = c \o s /\ N \in Nat /\ Len(s) \in Nat /\ Len(c) \in Nat
    BY FlattenAppend, LenProperties
  <2>3. more \in Seq(Seq(S)) /\ Len(more) = N + 1 /\ more[N + 1] = s /\ \A n \in 1 .. N : more[n] = ss[n]
    BY <2>2, AppendProperties
  <2>4. Len(d) = Len(c) + Len(s) /\ \A i \in 1 .. Len(c) + Len(s) : d[i] = IF i <= Len(c) THEN c[i] ELSE s[i - Len(c)]
    BY <2>2, ConcatProperties
  <2> HIDE DEF c, more, d, N
  <2>5. g \in [1 .. N + 1 -> Nat] /\ g[1] = 1 /\ g[N + 1] = Len(c) + 1
    BY <2>1 DEF Starts, c, N
  <2>6. h \in [1 .. (N + 1) + 1 -> Nat] /\ h[1] = 1 /\ h[(N + 1) + 1] = Len(d) + 1 /\ \A n \in 1 .. N + 1 : h[n] = g[n]
    BY <2>2, <2>4, <2>5
  <2>7. ASSUME NEW n \in 1 .. N + 1
        PROVE  /\ h[n + 1] = h[n] + Len(more[n])
               /\ \A k \in 1 .. Len(more[n]) : h[n] + k - 1 \in 1 .. Len(d) /\ d[h[n] + k - 1] = more[n][k]
    <3>1. CASE n = N + 1
      <4>1. h[n] = Len(c) + 1 /\ more[n] = s /\ h[n + 1] = Len(c) + 1 + Len(s)
        BY <3>1, <2>2, <2>3, <2>5
      <4>2. ASSUME NEW k \in 1 .. Len(s) PROVE Len(c) + 1 + k - 1 \in 1 .. Len(d) /\ d[Len(c) + 1 + k - 1] = s[k]
        <5>1. Len(c) + 1 + k - 1 = Len(c) + k /\ Len(c) + k \in 1 .. Len(c) + Len(s) /\ ~(Len(c) + k <= Len(c)) /\ (Len(c) + k) - Len(c) = k
          BY <2>2
        <5>2. QED
          BY <5>1, <2>4
      <4> HIDE DEF h
      <4>3. QED
        BY <4>1, <4>2
    <3>2. CASE n # N + 1
      <4>1. n \in 1 .. N /\ n + 1 \in 1 .. N + 1 /\ h[n] = g[n] /\ h[n + 1] = g[n + 1] /\ more[n] = ss[n]
        BY SMTT(60), <3>2, <2>2, <2>3, <2>6
      <4>2. /\ g[n + 1] = g[n] + Len(ss[n])
            /\ \A k \in 1 .. Len(ss[n]) : g[n] + k - 1 \in 1 .. Len(c) /\ c[g[n] + k - 1] = ss[n][k]
        BY <4>1, <2>1 DEF Starts, c, N
      <4>3. \A i \in 1 .. Len(c) : i \in 1 .. Len(d) /\ d[i] = c[i]
        BY <2>2, <2>4
      <4> HIDE DEF h
      <4>4. QED
        BY <4>1, <4>2, <4>3
    <3>3. QED
      BY <3>1, <3>2
  <2> HIDE DEF h
  <2>8. Starts(h, more, d)
    BY <2>3, <2>6, <2>7 DEF Starts
  <2>9. QED
    BY <2>3, <2>8 DEF more, d
<1>3. T = Seq(Seq(S))
  <2>1. T \subseteq Seq(Seq(S))
    OBVIOUS
  <2> HIDE DEF T
  <2>2. QED
    BY <1>1, <1>2, <2>1, SeqInductive
<1>4. QED
  BY <1>3

-----------------------------------------------------------------------------
(* The characters of symbols are those that are symbols themselves. *)
LEMMA SymbolLetters ==
  \A u \in Symbols \cup Openings : \A k \in 1 .. Len(Letterwise[u]) : Letterwise[u][k] \in Marks
<1> SUFFICES ASSUME NEW u \in Symbols \cup Openings, NEW k \in 1 .. Len(Letterwise[u]) PROVE Letterwise[u][k] \in Marks
  OBVIOUS
<1>1. CASE u \in Marks
  <2>1. Letterwise[u] = <<u>> /\ Len(Letterwise[u]) = 1
    BY <1>1, OfMarks, LengthOf
  <2>2. k = 1
    BY <2>1
  <2>3. QED
    BY <2>1, <2>2, <1>1
<1>2. CASE u \in Pairs \cup Openings
  <2>1. PICK x, y \in {":", "=", "+", "-", "*", "/", "%", "&", "|", "^", "!", "<", ">"} : Letterwise[u] = <<x, y>>
    BY SMTT(60), <1>2, ManyLetters DEF Pairs, Openings
  <2>2. k = 1 \/ k = 2
    BY <1>2, LengthOf
  <2>3. Letterwise[u][1] = x /\ Letterwise[u][2] = y
    BY <2>1
  <2>4. QED
    BY <2>2, <2>3 DEF Marks
<1>3. CASE u \in Triples
  <2>1. PICK x, y, z \in {"=", "<", ">", "."} : Letterwise[u] = <<x, y, z>>
    BY <1>3, ManyLetters DEF Triples
  <2>2. k = 1 \/ k = 2 \/ k = 3
    <3>1. Len(Letterwise[u]) = 3
      BY <1>3, LengthOf
    <3>2. k \in 1 .. 3
      BY <3>1
    <3>3. QED
      BY <3>2
  <2>3. Letterwise[u][1] = x /\ Letterwise[u][2] = y /\ Letterwise[u][3] = z
    BY <2>1
  <2>4. QED
    BY <2>2, <2>3 DEF Marks
<1>4. QED
  BY <1>1, <1>2, <1>3, SymbolsAre

(* A symbol that begins with more has that at its place. *)
LEMMA PrefixMark ==
  ASSUME NEW s \in Token, NEW d, NEW u \in Symbols \cup Openings, IsPrefix(Append(Chars(s), d), Letterwise[u])
  PROVE  d \in Marks
<1> DEFINE v == Chars(s)
           w == Letterwise[u]
           x == Append(v, d)
           A == Alphabet \cup {d}
           n == Len(v) + 1
<1>1. v \in Seq(A) /\ d \in A /\ Len(v) \in Nat
  <2>1. v \in Seq(Alphabet)
    BY CharsAre
  <2>2. QED
    BY <2>1, SeqMonotonic, LenProperties
<1>2. Len(w) \in 1 .. 3 /\ DOMAIN w = 1 .. Len(w) /\ \A k \in 1 .. Len(w) : w[k] \in Marks
  BY LettersOf, SymbolLetters
<1> HIDE DEF v, w, A
<1>3. x \in Seq(A) /\ Len(x) = n /\ x[n] = d /\ n \in Nat
  BY <1>1, AppendProperties
<1>4. n <= Len(w) /\ SubSeq(x, 1, n) = SubSeq(w, 1, n)
  BY <1>3 DEF IsPrefix, v, w
<1>5. SubSeq(x, 1, n)[n] = d
  <2>1. \A k \in 1 .. n : x[k] \in A
    BY <1>3, ElementOfSeq
  <2>2. n \in 1 .. n - 1 + 1 /\ 1 + n - 1 = n
    BY <1>1
  <2> HIDE DEF x, n
  <2>3. \A k \in 1 .. n - 1 + 1 : SubSeq(x, 1, n)[k] = x[1 + k - 1]
    BY ONLY <1>3, <2>1, SubSeqProperties
  <2>4. QED
    BY <2>2, <2>3, <1>3
<1>6. SubSeq(w, 1, n)[n] = w[n]
  <2>1. n \in 1 .. n - 1 + 1 /\ 1 + n - 1 = n
    BY <1>1
  <2>2. \A k \in 1 .. n : w[k] \in Marks
    BY <1>1, <1>2, <1>4
  <2> HIDE DEF n
  <2>3. \A k \in 1 .. n - 1 + 1 : SubSeq(w, 1, n)[k] = w[1 + k - 1]
    BY ONLY <1>3, <2>2, SubSeqProperties
  <2>4. QED
    BY <2>1, <2>3
<1>7. n \in 1 .. Len(w)
  BY <1>1, <1>2, <1>4
<1>8. QED
  BY <1>2, <1>4, <1>5, <1>6, <1>7

(* Blanks, and the end, keep any token apart. *)
LEMMA ApartBlank ==
  ASSUME NEW fs, NEW s \in TokensUnder(fs), NEW d \in {" ", "end"}
  PROVE  Apart(s, d, fs)
<1>1. s \in Token /\ Openings \cup Lexicon(fs) \subseteq Symbols \cup Openings
  BY TokensUnderAre, LexiconIs
<1>2. d \notin Marks /\ d \notin Letters \cup {Digit} /\ d # "." /\ d # Digit
  BY KindsApart DEF Marks, Digit, Others
<1>3. \A u \in Openings \cup Lexicon(fs) : ~IsPrefix(Append(Chars(s), d), Letterwise[u])
  BY <1>1, <1>2, PrefixMark
<1>4. QED
  BY <1>2, <1>3 DEF Apart

(* How a token begins. *)
LEMMA FirstChars ==
  ASSUME NEW t \in Token
  PROVE  /\ t \in Symbols => Chars(t)[1] \in Marks /\ (Chars(t)[1] = "." => t \in {".", "..."})
         /\ t \in Letters => Chars(t)[1] = t
         /\ t \in {"num", "float"} => Chars(t)[1] = Digit
         /\ t = "str" => Chars(t)[1] = "\""
         /\ t = "directive" => Chars(t)[1] = "/"
<1>1. CASE t \in Symbols
  <2>1. t \notin Letters /\ t \notin Literals \cup {"directive"}
    BY <1>1, KindsApart
  <2>2. Chars(t) = Letterwise[t] /\ Chars(t)[1] \in Marks
    <3>1. 1 \in 1 .. Len(Letterwise[t])
      <4>1. \A n \in 1 .. 3 : 1 \in 1 .. n
        OBVIOUS
      <4>2. Len(Letterwise[t]) \in 1 .. 3
        BY <1>1, LettersOf
      <4>3. QED
        BY <4>1, <4>2
    <3>2. QED
      BY <1>1, <3>1, CharsOf, SymbolLetters
  <2>3. Letterwise[t][1] = "." => t \in {".", "..."}
    <3>1. CASE t \in Marks
      <4>1. Letterwise[t] = <<t>>
        BY <3>1, OfMarks
      <4>2. Letterwise[t][1] = t
        BY <4>1
      <4>3. QED
        BY <4>2
    <3>2. CASE t \in Pairs
      <4>1. PICK x, y \in {":", "=", "+", "-", "*", "/", "%", "&", "|", "^", "!", "<", ">"} : Letterwise[t] = <<x, y>>
        BY <3>2, ManyLetters DEF Pairs
      <4>2. Letterwise[t][1] = x
        BY <4>1
      <4>3. QED
        BY <4>2
    <3>3. CASE t \in Triples
      <4>1. PICK x, y, z \in {"=", "<", ">", "."} : Letterwise[t] = <<x, y, z>> /\ (t # "..." => x # ".")
        BY <3>3, ManyLetters DEF Triples
      <4>2. Letterwise[t][1] = x
        BY <4>1
      <4>3. QED
        BY <4>1, <4>2
    <3>4. QED
      BY <1>1, <3>1, <3>2, <3>3, SymbolsAre
  <2>4. QED
    BY <2>1, <2>2, <2>3 DEF Literals
<1>2. CASE t \in Letters
  <2>1. t \notin Symbols /\ t \notin Literals \cup {"directive"}
    BY <1>2, KindsApart
  <2>2. Chars(t) = <<t>>
    BY <1>2, CharsOf
  <2>3. Chars(t)[1] = t
    BY <2>2
  <2>4. QED
    BY <2>1, <2>3 DEF Literals
<1>3. CASE t \in Literals \cup {"directive"}
  <2>1. t \notin Symbols /\ t \notin Letters
    BY <1>3, KindsApart
  <2>2. t \in {"num", "float"} => Chars(t)[1] = Digit
    <3>1. Chars("num")[1] = "num" /\ Chars("float")[1] = "num"
      <4>1. Chars("num") = <<"num">> /\ Chars("float") = <<"num", ".", "num">>
        BY CharsOf
      <4>2. QED
        BY <4>1
    <3>2. QED
      BY <3>1 DEF Digit
  <2>3. Chars("str")[1] = "\"" /\ Chars("directive")[1] = "/"
    BY StringIs, DirectiveIs
  <2>4. QED
    BY <2>1, <2>2, <2>3
<1>4. QED
  BY <1>1, <1>2, <1>3, KindsApart

(* What needs no blank before it keeps a token apart. *)
LEMMA ApartNext ==
  ASSUME NEW fs, NEW s \in TokensUnder(fs), NEW t \in TokensUnder(fs), ~NeedBlank(s, t, fs)
  PROVE  Apart(s, Chars(t)[1], fs)
<1> DEFINE d == Chars(t)[1]
<1>1. s \in Token /\ t \in Token
  BY TokensUnderAre
<1>2. \A u \in Openings \cup Lexicon(fs) : ~IsPrefix(Append(Chars(s), d), Letterwise[u])
  BY DEF NeedBlank
<1>3. s \notin Symbols \cup {"str", "directive"} => t \in Symbols \cup {"str", "directive"}
  BY DEF NeedBlank
<1>4. ~({s, t} \cap {".", "..."} # {} /\ {s, t} \cap {"num", "float"} # {})
  BY DEF NeedBlank
<1> HIDE DEF d
<1>5. /\ t \in Symbols => d \in Marks /\ (d = "." => t \in {".", "..."})
      /\ t \in Letters => d = t
      /\ t \in {"num", "float"} => d = Digit
      /\ t = "str" => d = "\""
      /\ t = "directive" => d = "/"
  BY <1>1, FirstChars DEF d
<1>6. \A x \in Marks \cup {"\""} : x \notin Letters \cup {Digit}
  BY KindsApart, SymbolsAre DEF Digit, Others, Marks
<1>7. s \notin Symbols \cup {"str", "directive"} => d \notin Letters \cup {Digit}
  BY <1>3, <1>5, <1>6 DEF Marks
<1>8. t \in Symbols \/ t \in Letters \/ t \in {"num", "float"} \/ t = "str" \/ t = "directive"
  BY <1>1, KindsApart DEF Literals
<1>9. "." \in Symbols /\ "num" \in Literals
  BY SymbolsAre DEF Marks, Literals
<1>10. d = "." => t \in {".", "..."}
  BY <1>5, <1>8, <1>9, KindsApart DEF Digit
<1>11. d = Digit => t \in {"num", "float"}
  BY <1>5, <1>8, <1>9, KindsApart DEF Digit, Marks
<1>12. s \in {"num", "float"} => d # "."
  BY <1>4, <1>10
<1>13. s \in {".", "..."} => d # Digit
  BY <1>4, <1>11
<1>14. QED
  BY <1>2, <1>7, <1>12, <1>13 DEF Apart, d

-----------------------------------------------------------------------------
(* What stands between them. *)

(* What is passed over does not matter. *)
LEMMA SkipSame ==
  ASSUME NEW c, Text(c), NEW fs, NEW j \in 1 .. Len(c) + 1, NEW k \in 1 .. Len(c) + 1, Skip(c, j) = Skip(c, k), Skip(c, k) # 0
  PROVE  LexemeAt(c, j, fs) = LexemeAt(c, k, fs)
BY LexemeIs

(* A blank is passed over. *)
LEMMA BlankSame ==
  ASSUME NEW c, Text(c), NEW fs, NEW j \in 1 .. Len(c), At(c, j) \in Blanks, Skip(c, j + 1) # 0
  PROVE  LexemeAt(c, j, fs) = LexemeAt(c, j + 1, fs) /\ Skip(c, j) # 0
<1>1. j \in 1 .. Len(c) + 1 /\ j + 1 \in 1 .. Len(c) + 1
  BY AtIs
<1>2. Skip(c, j) = Skip(c, j + 1)
  BY <1>1, SkipIs
<1>3. QED
  BY <1>1, <1>2, SkipSame

(* Across(e, f): from e on the lexer finds what it finds from f on. *)
Across(c, fs, e, f) == LexemeAt(c, e, fs) = LexemeAt(c, f, fs) /\ Skip(c, e) # 0

(* A comment in stars and slashes is passed over, whatever looks like its end before. *)
LEMMA AcrossComment ==
  ASSUME NEW c, Text(c), NEW fs, NEW e \in Nat \ {0}, Stands(Gap("comment"), c, e), Skip(c, e + 9) # 0
  PROVE  Across(c, fs, e, e + 9)
<1> DEFINE w == <<" ", "/", "*", "/", "a", "\"", "*", "*", "/">>
           f == e + 1
<1>1. Gap("comment") = w
  BY DEF Gap
<1>2. /\ Len(w) = 9 /\ w[1] = " " /\ w[2] = "/" /\ w[3] = "*" /\ w[4] = "/" /\ w[5] = "a" /\ w[6] = "\"" /\ w[7] = "*"
      /\ w[8] = "*" /\ w[9] = "/"
  OBVIOUS
<1> HIDE DEF w
<1>3. /\ At(c, e) = w[1] /\ At(c, e + 1) = w[2] /\ At(c, e + 2) = w[3] /\ At(c, e + 3) = w[4] /\ At(c, e + 4) = w[5]
      /\ At(c, e + 5) = w[6] /\ At(c, e + 6) = w[7] /\ At(c, e + 7) = w[8] /\ At(c, e + 8) = w[9]
  <2>1. Len(w) = 9
    BY <1>2
  <2>2. Stands(w, c, e) /\ e \in Nat
    BY <1>1
  <2>3. QED
    BY ONLY <2>1, <2>2, StandsNine
<1>4. Len(c) \in Nat
  BY AtIs
<1>5. e + 8 \in 1 .. Len(c)
  <2>1. e + 8 \in Nat
    OBVIOUS
  <2>2. At(c, e + 8) # "end"
    BY <1>2, <1>3
  <2>3. QED
    BY <2>1, <2>2, AtInside DEF Text
<1>6. e \in 1 .. Len(c) /\ e + 1 \in 1 .. Len(c) + 1 /\ e + 9 \in 1 .. Len(c) + 1
  BY <1>4, <1>5
<1>7. Opens(c, f)
  <2>1. f + 1 = e + 2
    OBVIOUS
  <2>2. QED
    BY <2>1, <1>2, <1>3 DEF Opens
<1>8. e + 7 \in Closings(c, f)
  <2>1. e + 7 \in f + 2 .. Len(c) - 1 /\ e + 7 + 1 = e + 8 /\ e + 7 \in 1 .. Len(c)
    BY <1>4, <1>5
  <2>2. c[e + 7] = "*" /\ c[e + 8] = "/"
    BY ZenonT(60), <2>1, <1>2, <1>3, <1>5, AtIs
  <2>3. QED
    BY <2>1, <2>2 DEF Closings
<1>9. \A k \in Closings(c, f) : k >= e + 7
  <2> SUFFICES ASSUME NEW k \in Closings(c, f), ~(k >= e + 7) PROVE FALSE
    OBVIOUS
  <2>1. k \in e + 3 .. e + 6
    BY <1>4 DEF Closings
  <2>2. k = e + 3 \/ k = e + 4 \/ k = e + 5 \/ k = e + 6
    BY <2>1
  <2>3. k \in 1 .. Len(c) /\ k + 1 \in 1 .. Len(c)
    BY <2>1, <1>5, <1>4
  <2>4. At(c, k) = "*" /\ At(c, k + 1) = "/"
    BY <2>3, AtIs DEF Closings
  <2>5. k # e + 3 /\ k # e + 4 /\ k # e + 5
    BY <2>4, <1>2, <1>3
  <2>6. e + 6 + 1 = e + 7
    OBVIOUS
  <2>7. QED
    BY <2>2, <2>4, <2>5, <2>6, <1>2, <1>3
<1>10. Min(Closings(c, f)) = e + 7
  <2>1. Min(Closings(c, f)) \in Closings(c, f) /\ \A k \in Closings(c, f) : Min(Closings(c, f)) <= k
    BY <1>6, <1>8, FirstClosing
  <2>2. Min(Closings(c, f)) <= e + 7 /\ Min(Closings(c, f)) >= e + 7
    BY <2>1, <1>8, <1>9
  <2>3. Min(Closings(c, f)) \in Int
    BY <2>1, <1>4 DEF Closings
  <2>4. QED
    BY <2>2, <2>3
<1>11. Skip(c, f) = Skip(c, e + 9)
  <2>1. e + 7 + 2 = e + 9
    OBVIOUS
  <2>2. QED
    BY <2>1, <1>6, <1>7, <1>8, <1>10, SkipIs
<1>12. Skip(c, e) = Skip(c, f)
  <2>1. At(c, e) \in Blanks
    BY <1>2, <1>3 DEF Blanks
  <2>2. e \in 1 .. Len(c) + 1
    BY <1>4, <1>6
  <2>3. QED
    BY <2>1, <2>2, SkipIs
<1>13. e \in 1 .. Len(c) + 1
  BY <1>4, <1>6
<1>14. QED
  BY <1>6, <1>11, <1>12, <1>13, SkipSame DEF Across

(* The characters of a word of seven, one by one. *)
LEMMA StandsSeven ==
  ASSUME NEW w, NEW c, NEW i \in Nat, Stands(w, c, i), Len(w) = 7
  PROVE  /\ At(c, i) = w[1] /\ At(c, i + 1) = w[2] /\ At(c, i + 2) = w[3] /\ At(c, i + 3) = w[4] /\ At(c, i + 4) = w[5]
         /\ At(c, i + 5) = w[6] /\ At(c, i + 6) = w[7]
<1>1. \A k \in 1 .. 7 : At(c, i + k - 1) = w[k]
  BY DEF Stands
<1>3. /\ i + 1 - 1 = i /\ i + 2 - 1 = i + 1 /\ i + 3 - 1 = i + 2 /\ i + 4 - 1 = i + 3 /\ i + 5 - 1 = i + 4
      /\ i + 6 - 1 = i + 5 /\ i + 7 - 1 = i + 6
  OBVIOUS
<1>4. 1 \in 1 .. 7 /\ 2 \in 1 .. 7 /\ 3 \in 1 .. 7 /\ 4 \in 1 .. 7 /\ 5 \in 1 .. 7 /\ 6 \in 1 .. 7 /\ 7 \in 1 .. 7
  OBVIOUS
<1>5. QED
  BY <1>1, <1>3, <1>4

(* A comment up to the end of its line is passed over. *)
LEMMA AcrossLine ==
  ASSUME NEW c, Text(c), NEW fs, Writable(fs), NEW e \in Nat \ {0}, Stands(Gap("line"), c, e), Skip(c, e + 7) # 0
  PROVE  Across(c, fs, e, e + 7)
<1> DEFINE w == <<" ", "/", "/", "*", "'", "b", "newline">>
           f == e + 1
<1>1. Gap("line") = w
  BY DEF Gap
<1>2. Len(w) = 7 /\ w[1] = " " /\ w[2] = "/" /\ w[3] = "/" /\ w[4] = "*" /\ w[5] = "'" /\ w[6] = "b" /\ w[7] = "newline"
  OBVIOUS
<1> HIDE DEF w
<1>3. /\ At(c, e) = w[1] /\ At(c, e + 1) = w[2] /\ At(c, e + 2) = w[3] /\ At(c, e + 3) = w[4] /\ At(c, e + 4) = w[5]
      /\ At(c, e + 5) = w[6] /\ At(c, e + 6) = w[7]
  <2>1. Len(w) = 7
    BY <1>2
  <2>2. Stands(w, c, e) /\ e \in Nat
    BY <1>1
  <2>3. QED
    BY ONLY <2>1, <2>2, StandsSeven
<1>4. Len(c) \in Nat
  BY AtIs
<1>5. e + 6 \in 1 .. Len(c)
  <2>1. e + 6 \in Nat
    OBVIOUS
  <2>2. At(c, e + 6) # "end"
    BY <1>2, <1>3
  <2>3. QED
    BY <2>1, <2>2, AtInside DEF Text
<1>6. /\ e \in 1 .. Len(c) /\ e + 1 \in 1 .. Len(c) + 1 /\ e + 3 \in 1 .. Len(c) /\ e + 7 \in 1 .. Len(c) + 1
      /\ e \in 1 .. Len(c) + 1 /\ e + 6 \in 1 .. Len(c) + 1
  BY <1>4, <1>5
<1>7. f + 1 = e + 2 /\ f + 2 = e + 3 /\ e + 6 + 1 = e + 7 /\ f # 0 /\ ~(f > Len(c))
  BY <1>4, <1>5
<1>8. Slashes(c, f) /\ ~Opens(c, f) /\ At(c, f) \notin Blanks
  BY <1>2, <1>3, <1>7 DEF Slashes, Opens, Blanks
<1>9. Skip(c, f) = f
  BY <1>6, <1>8, SkipIs
<1>10. Skip(c, e) = f
  <2>1. At(c, e) \in Blanks
    BY <1>2, <1>3 DEF Blanks
  <2>2. QED
    BY <2>1, <1>6, <1>9, SkipIs
<1>11. ~IsDirective(c, f)
  <2> DEFINE j == Past(c, f + 2, {" "})
             n == Min({e + 3 + 3, Len(c)})
             u == <<"[", "b", "]", ":">>
  <2>1. At(c, e + 3) = "*" /\ "end" \notin {" "}
    BY <1>2, <1>3
  <2>2. j = e + 3
    <3>1. e + 3 \in 1 .. Len(c) + 1
      BY <1>4, <1>6
    <3>2. j \in e + 3 .. Len(c) + 1 /\ \A k \in e + 3 .. j - 1 : At(c, k) \in {" "}
      BY <2>1, <3>1, <1>7, PastIs
    <3> HIDE DEF j
    <3>3. j \in e + 3 .. Len(c) + 1
      BY <3>2
    <3>4. ~(j > e + 3)
      <4>1. j > e + 3 => e + 3 \in e + 3 .. j - 1
        BY <3>3, <1>4
      <4>2. ~(At(c, e + 3) \in {" "})
        BY <2>1
      <4>3. QED
        BY <4>1, <4>2, <3>2
    <3>5. QED
      BY <3>3, <3>4, <1>4
  <2>3. n \in Int /\ n >= e + 3 /\ n <= Len(c)
    BY <1>4, <1>6 DEF Min
  <2> HIDE DEF n
  <2>4. SubSeq(c, e + 3, n)[1] = "*"
    <3>1. c \in Seq(Alphabet) /\ \A k \in 1 .. Len(c) : c[k] \in Alphabet
      BY ElementOfSeq DEF Text
    <3>2. \A k \in e + 3 .. n : c[k] \in Alphabet
      BY <3>1, <2>3, <1>4
    <3>3. e + 3 \in Int /\ 1 \in 1 .. n - (e + 3) + 1 /\ e + 3 + 1 - 1 = e + 3
      BY <2>3
    <3>4. \A k \in 1 .. n - (e + 3) + 1 : SubSeq(c, e + 3, n)[k] = c[e + 3 + k - 1]
      BY ONLY <2>3, <3>2, <3>3, SubSeqProperties
    <3>5. SubSeq(c, e + 3, n)[1] = c[e + 3 + 1 - 1]
      BY <3>3, <3>4
    <3>6. c[e + 3] = "*"
      BY <2>1, <1>6, AtIs
    <3>7. QED
      BY <3>3, <3>5, <3>6
  <2>5. u[1] = "["
    OBVIOUS
  <2>6. SubSeq(c, e + 3, n) # u
    BY <2>4, <2>5
  <2>7. QED
    BY <2>2, <2>6 DEF IsDirective, n
<1>12. LineFrom(c, f) = e + 6
  <2> DEFINE j == LineFrom(c, f)
             S == {"newline", "end"}
  <2>1. j \in f .. Len(c) + 1 /\ At(c, j) \in S /\ \A k \in f .. j - 1 : At(c, k) \notin S
    <3>1. {"newline"} \cup {"end"} = S
      OBVIOUS
    <3>2. QED
      BY <1>6, <3>1, UpToIs DEF LineFrom
  <2>2. At(c, e + 6) \in S
    BY <1>2, <1>3
  <2>3. At(c, e + 1) \notin S /\ At(c, e + 2) \notin S /\ At(c, e + 3) \notin S /\ At(c, e + 4) \notin S /\ At(c, e + 5) \notin S
    BY <1>2, <1>3
  <2> HIDE DEF j, S
  <2>4. ~(j > e + 6)
    <3>1. j > e + 6 => e + 6 \in f .. j - 1
      BY <2>1, <1>4
    <3>2. QED
      BY <2>1, <2>2, <3>1
  <2>5. j # e + 1 /\ j # e + 2 /\ j # e + 3 /\ j # e + 4 /\ j # e + 5
    BY <2>1, <2>3
  <2>6. j \in Nat /\ j >= e + 1
    BY <2>1, <1>4
  <2>7. QED
    BY <2>4, <2>5, <2>6 DEF j
<1>13. LexemeAt(c, e, fs) = LexemeAt(c, e + 6, fs)
  <2>1. "c-comments" \in fs
    BY DEF Writable
  <2> HIDE DEF f
  <2>2. QED
    BY <2>1, <1>6, <1>7, <1>8, <1>10, <1>11, <1>12, LexemeIs
<1>14. LexemeAt(c, e + 6, fs) = LexemeAt(c, e + 7, fs)
  <2>1. At(c, e + 6) \in Blanks
    BY <1>2, <1>3 DEF Blanks
  <2>2. QED
    BY <2>1, <1>5, <1>7, BlankSame
<1>15. QED
  BY <1>7, <1>10, <1>13, <1>14 DEF Across

(* What may stand between two tokens. *)
Between == {<<>>, <<" ">>, Gap("comment"), Gap("line")}

(* All tokens have characters. *)
LEMMA SomeChars ==
  ASSUME NEW s \in Token PROVE Len(Chars(s)) \in Nat \ {0}
<1>1. CASE s \in Symbols
  <2>1. Len(Letterwise[s]) \in 1 .. 3
    BY <1>1, LettersOf
  <2>2. Len(Letterwise[s]) \in Nat \ {0}
    BY <2>1
  <2>3. QED
    BY <1>1, <2>2, CharsOf
<1>2. CASE s \in Letters
  <2>1. Len(<<s>>) = 1
    OBVIOUS
  <2>2. Len(Chars(s)) = 1
    BY <1>2, <2>1, CharsOf
  <2>3. QED
    BY <2>2
<1>3. CASE s \in Literals \cup {"directive"}
  <2>1. Len(<<"num">>) = 1 /\ Len(<<"num", ".", "num">>) = 3
    OBVIOUS
  <2>2. Len(Chars("str")) = 9 /\ Len(Chars("directive")) = 9
    BY StringIs, DirectiveIs
  <2>3. Len(Chars(s)) = 1 \/ Len(Chars(s)) = 3 \/ Len(Chars(s)) = 9
    BY <1>3, <2>1, <2>2, CharsOf DEF Literals
  <2>4. \A n : (n = 1 \/ n = 3 \/ n = 9) => n \in Nat \ {0}
    OBVIOUS
  <2>5. QED
    BY Zenon, <2>3, <2>4
<1>4. QED
  BY <1>1, <1>2, <1>3 DEF Token, Letters

(* A word that is put together from two stands where they stand. *)
LEMMA StandsTogether ==
  ASSUME NEW A, NEW v \in Seq(A), NEW w \in Seq(A), NEW c, NEW i \in Nat, Stands(v \o w, c, i)
  PROVE  Stands(v, c, i) /\ Stands(w, c, i + Len(v))
<1> DEFINE x == v \o w
<1>1. /\ Len(v) \in Nat /\ Len(w) \in Nat /\ Len(x) = Len(v) + Len(w)
      /\ \A k \in 1 .. Len(v) + Len(w) : x[k] = IF k <= Len(v) THEN v[k] ELSE w[k - Len(v)]
  BY ConcatProperties, LenProperties
<1>2. \A k \in 1 .. Len(x) : At(c, i + k - 1) = x[k]
  BY DEF Stands
<1> HIDE DEF x
<1>3. ASSUME NEW k \in 1 .. Len(v) PROVE At(c, i + k - 1) = v[k]
  <2>1. k \in 1 .. Len(x) /\ k \in 1 .. Len(v) + Len(w) /\ k <= Len(v)
    BY <1>1
  <2>2. QED
    BY <2>1, <1>1, <1>2
<1>4. ASSUME NEW k \in 1 .. Len(w) PROVE At(c, i + Len(v) + k - 1) = w[k]
  <2> DEFINE n == Len(v) + k
  <2>1. n \in 1 .. Len(x) /\ n \in 1 .. Len(v) + Len(w) /\ ~(n <= Len(v)) /\ n - Len(v) = k /\ i + Len(v) + k - 1 = i + n - 1
    BY <1>1
  <2> HIDE DEF n
  <2>2. QED
    BY <2>1, <1>1, <1>2
<1>5. QED
  BY <1>3, <1>4 DEF Stands

(* The lexer passes over what stands between tokens. *)
LEMMA AcrossGap ==
  ASSUME NEW c, Text(c), NEW fs, Writable(fs), NEW e \in 1 .. Len(c) + 1, NEW G \in Between, Stands(G, c, e),
         Skip(c, e + Len(G)) # 0
  PROVE  Across(c, fs, e, e + Len(G))
<1>1. Len(c) \in Nat /\ e \in Nat \ {0}
  BY AtIs
<1>2. CASE G = <<>>
  <2>1. Len(G) = 0
    BY <1>2
  <2>2. e + Len(G) = e
    BY <2>1, <1>1
  <2>3. QED
    BY <2>2 DEF Across
<1>3. CASE G = <<" ">>
  <2>1. Len(G) = 1 /\ G[1] = " "
    BY <1>3
  <2>2. 1 \in 1 .. Len(G) /\ e + 1 - 1 = e
    <3>1. Len(G) = 1
      BY <2>1
    <3>2. QED
      BY <3>1, <1>1
  <2>3. At(c, e) = " "
    BY <2>1, <2>2 DEF Stands
  <2>4. e \in 1 .. Len(c)
    BY <2>3, <1>1, AtInside DEF Text
  <2>5. At(c, e) \in Blanks
    BY <2>3 DEF Blanks
  <2>6. QED
    BY <2>1, <2>4, <2>5, BlankSame DEF Across
<1>4. CASE G = Gap("comment")
  <2>1. Len(G) = 9
    <3>1. Gap("comment") = <<" ", "/", "*", "/", "a", "\"", "*", "*", "/">>
      BY DEF Gap
    <3>2. QED
      BY <3>1, <1>4
  <2>2. QED
    BY <2>1, <1>1, <1>4, AcrossComment
<1>5. CASE G = Gap("line")
  <2>1. Len(G) = 7
    <3>1. Gap("line") = <<" ", "/", "/", "*", "'", "b", "newline">>
      BY DEF Gap
    <3>2. QED
      BY <3>1, <1>5
  <2>2. QED
    BY <2>1, <1>1, <1>5, AcrossLine
<1>6. QED
  BY <1>2, <1>3, <1>4, <1>5 DEF Between

(* Behind a token the lexer goes on as behind its characters. *)
LEMMA AcrossLeft ==
  ASSUME NEW c, Text(c), NEW fs, NEW i \in 1 .. Len(c), NEW s \in Token, Stands(Chars(s), c, i), Skip(c, i + Len(Chars(s))) # 0
  PROVE  LET m == i + Len(Chars(s)) IN Across(c, fs, m - Left(s), m)
<1> DEFINE m == i + Len(Chars(s))
<1>1. CASE s = "directive"
  <2> DEFINE w == Chars("directive")
  <2>1. Len(w) = 9 /\ w[9] = "newline"
    BY DirectiveIs
  <2>2. Left(s) = 1
    BY <1>1 DEF Left
  <2>n. Len(w) = 9 /\ m = i + 9
    BY <2>1, <1>1
  <2> HIDE DEF w, m
  <2>3. 9 \in 1 .. Len(w) /\ i + 9 - 1 = i + 8 /\ i + 8 \in Nat /\ m - Left(s) = i + 8 /\ i + 8 + 1 = m
    BY <2>n, <2>2
  <2>4. At(c, i + 8) = "newline"
    BY <2>1, <2>3, <1>1 DEF Stands, w
  <2>5. i + 8 \in 1 .. Len(c)
    BY <2>3, <2>4, AtInside DEF Text
  <2>6. At(c, i + 8) \in Blanks
    BY <2>4 DEF Blanks
  <2>7. Across(c, fs, i + 8, m)
    BY <2>3, <2>5, <2>6, BlankSame DEF Across, m
  <2>8. QED
    BY <2>3, <2>7 DEF m
<1>2. CASE s # "directive"
  <2>1. Left(s) = 0 /\ m \in Nat
    BY <1>2, SomeChars DEF Left
  <2> HIDE DEF m
  <2>2. m - Left(s) = m
    BY <2>1
  <2>4. Skip(c, m) # 0
    BY DEF m
  <2>3. QED
    BY <2>2, <2>4 DEF Across, m
<1>3. QED
  BY <1>1, <1>2

(* From where the same token follows the same tokens follow. *)
LEMMA SameRest ==
  ASSUME NEW c, Text(c), NEW j \in 1 .. Len(c) + 1, NEW k \in 1 .. Len(c) + 1, LexemeAt(c, j, on) = LexemeAt(c, k, on)
  PROVE  Rest(c, on)[j] = Rest(c, on)[k]
BY ZenonT(60), RestIs

(* Nothing stands between two tokens only if they need no blank; else it begins with one. *)
LEMMA AfterIs ==
  ASSUME NEW t, NEW n, NEW gap \in Gaps, NEW fs
  PROVE  /\ After(t, n, gap, fs) \in Between
         /\ After(t, n, gap, fs) = <<>> \/ (Len(After(t, n, gap, fs)) \in Nat \ {0} /\ After(t, n, gap, fs)[1] = " ")
         /\ After(t, n, gap, fs) = <<>> => ~(n < Len(t)) \/ ~NeedBlank(t[n], t[n + 1], fs)
<1>1. Gap("blank") = <<" ">>
  BY DEF Gap
<1>2. Gap("comment") = <<" ", "/", "*", "/", "a", "\"", "*", "*", "/">>
  BY DEF Gap
<1>3. Gap("line") = <<" ", "/", "/", "*", "'", "b", "newline">>
  BY DEF Gap
<1> DEFINE x == <<" ", "/", "*", "/", "a", "\"", "*", "*", "/">>
           y == <<" ", "/", "/", "*", "'", "b", "newline">>
           z == <<" ">>
<1>4. Len(x) = 9 /\ Len(y) = 7 /\ Len(z) = 1 /\ Len(<<>>) = 0
  OBVIOUS
<1>5. x[1] = " " /\ y[1] = " " /\ z[1] = " "
  OBVIOUS
<1>6. ASSUME NEW G \in {x, y, z} PROVE G # <<>> /\ Len(G) \in Nat \ {0} /\ G[1] = " "
  <2> HIDE DEF x, y, z
  <2>1. Len(G) = 9 \/ Len(G) = 7 \/ Len(G) = 1
    BY <1>4
  <2>2. Len(G) \in Nat \ {0} /\ Len(G) # 0
    BY <2>1
  <2>3. G[1] = " "
    BY <1>5
  <2>4. QED
    BY <2>2, <2>3, <1>4
<1>7. After(t, n, gap, fs) \in {x, y, z} \/ (After(t, n, gap, fs) = <<>> /\ gap = "tight" /\ ~(n < Len(t) /\ NeedBlank(t[n], t[n + 1], fs)))
  BY <1>1, <1>2, <1>3 DEF After, Gaps
<1>8. x \in Between /\ y \in Between /\ z \in Between /\ <<>> \in Between
  BY <1>2, <1>3 DEF Between
<1> HIDE DEF x, y, z
<1>9. QED
  BY <1>6, <1>7, <1>8

(* The characters of a text: each token at its place, and what is between. *)
Placed(g, t, gap, fs, c) ==
  /\ g \in [1 .. Len(t) + 1 -> 1 .. Len(c) + 1] /\ g[1] = 1 /\ g[Len(t) + 1] = Len(c) + 1
  /\ \A n \in 1 .. Len(t) :
       /\ Stands(Chars(t[n]), c, g[n]) /\ Stands(After(t, n, gap, fs), c, g[n] + Len(Chars(t[n])))
       /\ g[n + 1] = g[n] + Len(Chars(t[n])) + Len(After(t, n, gap, fs))
       /\ g[n] \in 1 .. Len(c) /\ g[n] + Len(Chars(t[n])) \in 1 .. Len(c) + 1

(* The tokens of a text have their places in what Spell writes. *)
LEMMA TextPlaced ==
  ASSUME NEW t \in Seq(Token), NEW gap \in Gaps, NEW fs
  PROVE  \E g : Placed(g, t, gap, fs, Spell(t, gap, fs))
<1> DEFINE c == Spell(t, gap, fs)
           p == Pieces(t, gap, fs)
           N == Len(t)
<1>1. p \in Seq(Seq(Alphabet)) /\ Len(p) = N /\ c = FlattenSeq(p) /\ N \in Nat /\ DOMAIN t = 1 .. N
  BY PiecesAre, LenProperties
<1>2. \A n \in 1 .. N : p[n] = Chars(t[n]) \o After(t, n, gap, fs)
  BY <1>1 DEF Pieces, Piece, After
<1>3. Text(c)
  BY SpelledText
<1>4. Len(c) \in Nat /\ \A i \in 1 .. Len(c) : At(c, i) = c[i]
  BY <1>3, AtIs
<1>5. PICK g : Starts(g, p, c)
  BY <1>1, FlattenStarts
<1> HIDE DEF c, p, N
<1>6. g \in [1 .. N + 1 -> Nat] /\ g[1] = 1 /\ g[N + 1] = Len(c) + 1
  BY <1>1, <1>5 DEF Starts
<1>7. ASSUME NEW n \in 1 .. N
      PROVE  /\ Stands(Chars(t[n]), c, g[n]) /\ Stands(After(t, n, gap, fs), c, g[n] + Len(Chars(t[n])))
             /\ g[n + 1] = g[n] + Len(Chars(t[n])) + Len(After(t, n, gap, fs))
             /\ Len(Chars(t[n])) \in Nat \ {0} /\ Len(After(t, n, gap, fs)) \in Nat
  <2> DEFINE v == Chars(t[n])
             w == After(t, n, gap, fs)
  <2>1. t[n] \in Token
    BY <1>1, ElementOfSeq DEF N
  <2>2. v \in Seq(Alphabet) /\ Len(v) \in Nat \ {0}
    BY <2>1, CharsAre, SomeChars
  <2>3. w \in Seq(Alphabet)
    <3>1. <<" ">> \in Seq(Alphabet) /\ <<>> \in Seq(Alphabet)
      <4>1. " " \in Alphabet
        BY AlphabetIs DEF Blanks
      <4>2. QED
        BY ONLY <4>1, Three, EmptySeq
    <3>2. gap # "tight" => Gap(gap) \in Seq(Alphabet)
      BY GapsAre
    <3>3. QED
      BY <3>1, <3>2 DEF After
  <2>4. p[n] = v \o w
    BY <1>2
  <2> HIDE DEF v, w
  <2>5. Len(v \o w) = Len(v) + Len(w) /\ Len(w) \in Nat
    BY <2>2, <2>3, ConcatProperties, LenProperties
  <2>6. g[n] \in Nat /\ n \in 1 .. Len(p)
    BY <1>1, <1>6
  <2>7. g[n + 1] = g[n] + Len(p[n]) /\ \A k \in 1 .. Len(p[n]) : g[n] + k - 1 \in 1 .. Len(c) /\ c[g[n] + k - 1] = p[n][k]
    BY <2>6, <1>5 DEF Starts
  <2>8. Stands(p[n], c, g[n])
    BY <2>7, <1>4 DEF Stands
  <2>9. Stands(v, c, g[n]) /\ Stands(w, c, g[n] + Len(v))
    BY <2>2, <2>3, <2>4, <2>6, <2>8, StandsTogether
  <2>10. g[n + 1] = g[n] + Len(v) + Len(w)
    BY <2>2, <2>4, <2>5, <2>6, <2>7
  <2>11. QED
    BY <2>2, <2>5, <2>9, <2>10 DEF v, w
<1>8. ASSUME NEW n \in 1 .. N PROVE g[n] \in 1 .. Len(c) /\ g[n] + Len(Chars(t[n])) \in 1 .. Len(c) + 1
  <2> DEFINE m == Len(Chars(t[n]))
  <2>1. m \in Nat \ {0} /\ Stands(Chars(t[n]), c, g[n]) /\ g[n] \in Nat
    BY SMTT(60), <1>6, <1>7, <1>1
  <2>2. \A k \in 1 .. Len(p[n]) : g[n] + k - 1 \in 1 .. Len(c)
    BY <1>1, <1>5 DEF Starts
  <2>3. Len(p[n]) >= m /\ Len(p[n]) \in Nat
    <3>1. n \in 1 .. N + 1 /\ n + 1 \in 1 .. N + 1
      BY <1>1
    <3>2. g[n + 1] = g[n] + Len(p[n]) /\ g[n + 1] = g[n] + m + Len(After(t, n, gap, fs)) /\ Len(After(t, n, gap, fs)) \in Nat
      BY <1>1, <1>5, <1>7 DEF Starts
    <3>3. Len(p[n]) \in Nat
      BY <1>1, ElementOfSeq, LenProperties
    <3> HIDE DEF m
    <3>4. QED
      BY <3>2, <3>3, <2>1
  <2> HIDE DEF m
  <2>4. 1 \in 1 .. Len(p[n]) /\ m \in 1 .. Len(p[n]) /\ g[n] + 1 - 1 = g[n]
    BY <2>1, <2>3
  <2>5. g[n] \in 1 .. Len(c) /\ g[n] + m - 1 \in 1 .. Len(c)
    BY <2>2, <2>4
  <2>6. g[n] + m \in 1 .. Len(c) + 1
    BY <2>1, <2>5, <1>4
  <2>7. QED
    BY <2>5, <2>6 DEF m
<1>10. g \in [1 .. N + 1 -> 1 .. Len(c) + 1]
  <2>1. \A n \in 1 .. N + 1 : g[n] \in 1 .. Len(c) + 1
    <3> SUFFICES ASSUME NEW n \in 1 .. N + 1 PROVE g[n] \in 1 .. Len(c) + 1
      OBVIOUS
    <3>1. n \in 1 .. N \/ n = N + 1
      BY <1>1
    <3>2. QED
      BY <3>1, <1>4, <1>6, <1>8
  <2>2. QED
    BY <1>6, <2>1
<1>11. Placed(g, t, gap, fs, c)
  BY <1>6, <1>7, <1>8, <1>10 DEF Placed, N
<1>12. QED
  BY <1>11 DEF c

-----------------------------------------------------------------------------
(* The text is read. *)

(* What the lexer makes of an error or of the end is no token. *)
LEMMA NoTokens == "error" \notin Token /\ EOF \notin Token
<1>1. "error" \notin Identifiers /\ EOF \notin Identifiers
  BY NamesAssumption DEF Others
<1>2. "error" \notin Symbols /\ EOF \notin Symbols
  BY SymbolsAre DEF Marks, Pairs, Triples, EOF
<1>3. QED
  BY <1>1, <1>2 DEF Token, Keywords, Literals, EOF

(* Each token of a text is read at its place, and the next is looked for
   from its end with the same result as at the next place.                   *)
LEMMA PlacedRead ==
  ASSUME NEW c, Text(c), Writable(on), NEW t \in Seq(TokensUnder(on)), NEW gap \in Gaps, NEW g, Placed(g, t, gap, on, c),
         NEW n \in 1 .. Len(t)
  PROVE  LexemeAt(c, g[n], on).tok = t[n] /\ LexemeAt(c, g[n], on).next = g[n] + Len(Chars(t[n])) - Left(t[n])
<1> DEFINE s == t[n]
           G == After(t, n, gap, on)
           i == g[n]
           m == i + Len(Chars(s))
           N == Len(t)
<1>1. Len(c) \in Nat /\ N \in Nat /\ n \in 1 .. N /\ s \in TokensUnder(on) /\ s \in Token
  BY AtIs, LenProperties, ElementOfSeq, TokensUnderAre
<1>2. /\ Stands(Chars(s), c, i) /\ Stands(G, c, m) /\ g[n + 1] = m + Len(G)
      /\ i \in 1 .. Len(c) /\ m \in 1 .. Len(c) + 1 /\ g[N + 1] = Len(c) + 1
  BY DEF Placed
<1>3. Apart(s, At(c, m), on)
  <2>1. CASE G # <<>>
    <3>1. Len(G) \in Nat \ {0} /\ G[1] = " "
      BY <2>1, AfterIs
    <3> HIDE DEF G, m
    <3>2. Len(G) \in Nat \ {0}
      BY <3>1
    <3>3. 1 \in 1 .. Len(G) /\ m + 1 - 1 = m
      BY <3>2, <1>1, <1>2
    <3>4. At(c, m) = " "
      BY <3>1, <3>3, <1>2 DEF Stands
    <3>5. QED
      BY <3>4, <1>1, ApartBlank
  <2>2. CASE G = <<>>
    <3>1. Len(<<>>) = 0
      OBVIOUS
    <3>2. Len(G) = 0
      BY <2>2, <3>1
    <3>3. ~(n < N) \/ ~NeedBlank(t[n], t[n + 1], on)
      BY <2>2, AfterIs
    <3> HIDE DEF G, m, N
    <3>4. g[n + 1] = m
      BY <3>2, <1>1, <1>2
    <3>5. CASE n = N
      <4>1. m = Len(c) + 1 /\ m \in Nat /\ m > Len(c)
        BY <3>4, <3>5, <1>1, <1>2
      <4>2. At(c, m) = "end"
        BY <4>1, AtIs
      <4>3. QED
        BY <4>2, <1>1, ApartBlank
    <3>6. CASE n # N
      <4>1. n < N /\ n + 1 \in 1 .. N
        BY <3>6, <1>1
      <4>2. ~NeedBlank(s, t[n + 1], on) /\ t[n + 1] \in TokensUnder(on) /\ t[n + 1] \in Token
        BY <3>3, <4>1, TokensUnderAre, ElementOfSeq DEF N
      <4>3. Stands(Chars(t[n + 1]), c, m)
        BY <3>4, <4>1 DEF Placed, N
      <4>4. Len(Chars(t[n + 1])) \in Nat \ {0}
        BY <4>2, SomeChars
      <4>5. 1 \in 1 .. Len(Chars(t[n + 1])) /\ m + 1 - 1 = m
        BY <4>4, <1>1, <1>2
      <4>6. At(c, m) = Chars(t[n + 1])[1]
        BY <4>3, <4>5 DEF Stands
      <4>7. QED
        BY <4>2, <4>6, <1>1, ApartNext
    <3>7. QED
      BY <3>5, <3>6
  <2>3. QED
    BY <2>1, <2>2
<1>4. QED
  BY <1>1, <1>2, <1>3, TokenRead

(* The lexer finds something from each place on. *)
LEMMA PlacedFound ==
  ASSUME NEW c, Text(c), Writable(on), NEW t \in Seq(TokensUnder(on)), NEW gap \in Gaps, NEW g, Placed(g, t, gap, on, c),
         NEW n \in 1 .. Len(t) + 1
  PROVE  Skip(c, g[n]) # 0
<1>1. Len(c) \in Nat /\ Len(t) \in Nat /\ g[n] \in 1 .. Len(c) + 1
  BY AtIs, LenProperties DEF Placed
<1>2. CASE n = Len(t) + 1
  <2>1. g[n] = Len(c) + 1 /\ Len(c) + 1 \in Nat /\ Len(c) + 1 > Len(c)
    BY <1>1, <1>2 DEF Placed
  <2>2. At(c, g[n]) = "end"
    BY <2>1, AtIs
  <2>3. At(c, g[n]) \notin Blanks /\ ~Opens(c, g[n])
    BY <2>2 DEF Blanks, Opens
  <2>4. Skip(c, g[n]) = g[n]
    BY <2>3, <1>1, SkipIs
  <2>5. QED
    BY <2>4, <1>1
<1>3. CASE n # Len(t) + 1
  <2>1. n \in 1 .. Len(t)
    BY <1>1, <1>3
  <2>2. LexemeAt(c, g[n], on).tok = t[n]
    BY <2>1, PlacedRead
  <2>3. t[n] # "error"
    <3>1. t[n] \in Token
      BY <2>1, ElementOfSeq, TokensUnderAre
    <3>2. QED
      BY <3>1, NoTokens
  <2>4. Skip(c, g[n]) = 0 => LexemeAt(c, g[n], on).tok = "error"
    BY <1>1, LexemeIs DEF Unlexed, Lexeme
  <2>5. QED
    BY <2>2, <2>3, <2>4
<1>4. QED
  BY <1>2, <1>3

(* From the end of a token the lexer finds what it finds at the place of the next. *)
LEMMA PlacedNext ==
  ASSUME NEW c, Text(c), Writable(on), NEW t \in Seq(TokensUnder(on)), NEW gap \in Gaps, NEW g, Placed(g, t, gap, on, c),
         NEW n \in 1 .. Len(t)
  PROVE  LET l == LexemeAt(c, g[n], on)
         IN  l.next \in 1 .. Len(c) + 1 /\ LexemeAt(c, l.next, on) = LexemeAt(c, g[n + 1], on)
<1> DEFINE s == t[n]
           G == After(t, n, gap, on)
           i == g[n]
           m == i + Len(Chars(s))
           N == Len(t)
<1>1. Len(c) \in Nat /\ N \in Nat /\ n \in 1 .. N /\ s \in Token
  BY AtIs, LenProperties, ElementOfSeq, TokensUnderAre
<1>2. /\ Stands(Chars(s), c, i) /\ Stands(G, c, m) /\ g[n + 1] = m + Len(G)
      /\ i \in 1 .. Len(c) /\ m \in 1 .. Len(c) + 1
  BY DEF Placed
<1>3. n + 1 \in 1 .. N + 1
  BY <1>1
<1>4. Skip(c, g[n + 1]) # 0
  BY <1>3, PlacedFound
<1>5. G \in Between
  BY AfterIs
<1>6. Across(c, on, m, g[n + 1])
  <2> HIDE DEF G, m
  <2>1. Skip(c, m + Len(G)) # 0
    BY <1>2, <1>4
  <2>2. QED
    BY <2>1, <1>2, <1>5, AcrossGap
<1>7. Skip(c, m) # 0
  BY <1>6 DEF Across
<1>8. Across(c, on, m - Left(s), m)
  BY <1>1, <1>2, <1>7, AcrossLeft
<1>9. LexemeAt(c, g[n], on).next = m - Left(s)
  <2>1. LexemeAt(c, g[n], on).next = g[n] + Len(Chars(t[n])) - Left(t[n])
    BY PlacedRead
  <2>2. Left(s) \in Nat /\ Len(Chars(s)) \in Nat /\ i \in Nat
    BY <1>1, <1>2, SomeChars DEF Left
  <2>3. QED
    BY <2>1, <2>2
<1>10. m - Left(s) \in 1 .. Len(c) + 1
  <2>1. Left(s) = 0 \/ Left(s) = 1
    BY DEF Left
  <2>2. Len(Chars(s)) \in Nat \ {0}
    BY <1>1, SomeChars
  <2>3. QED
    BY <2>1, <2>2, <1>1, <1>2
<1> HIDE DEF m
<1>11. LexemeAt(c, m - Left(s), on) = LexemeAt(c, g[n + 1], on)
  BY <1>6, <1>8 DEF Across
<1>12. QED
  BY <1>9, <1>10, <1>11

(* From each place on the tokens are those of the text from there on. *)
LEMMA PlacedRest ==
  ASSUME NEW c, Text(c), Writable(on), NEW t \in Seq(TokensUnder(on)), NEW gap \in Gaps, NEW g, Placed(g, t, gap, on, c),
         NEW n \in 1 .. Len(t) + 1
  PROVE  LET r == Rest(c, on)[g[n]] IN Len(r) = Len(t) - n + 1 /\ \A k \in 1 .. Len(t) - n + 1 : r[k].tok = t[n + k - 1]
<1> DEFINE N == Len(t)
           L == {LexemeAt(c, k, on) : k \in 1 .. Len(c) + 1}
           r(j) == Rest(c, on)[g[j]]
           T == {j \in 1 .. N + 1 : Len(r(j)) = N - j + 1 /\ \A k \in 1 .. N - j + 1 : r(j)[k].tok = t[j + k - 1]}
<1>1. Len(c) \in Nat /\ N \in Nat /\ N + 1 \in Nat
  BY AtIs, LenProperties
<1>2. \A j \in 1 .. N + 1 : g[j] \in 1 .. Len(c) + 1 /\ r(j) \in Seq(L)
  BY RestIs DEF Placed
<1>3. ASSUME NEW j \in 1 .. N + 1, \A k \in j + 1 .. N + 1 : k \in T PROVE j \in T
  <2>1. CASE j = N + 1
    <3>1. g[j] = Len(c) + 1 /\ Len(c) + 1 \in Nat /\ Len(c) + 1 > Len(c)
      BY <2>1, <1>1 DEF Placed
    <3>2. At(c, g[j]) = "end"
      BY <3>1, AtIs
    <3>3. At(c, g[j]) \notin Blanks /\ ~Opens(c, g[j])
      BY <3>2 DEF Blanks, Opens
    <3>4. Skip(c, g[j]) = g[j]
      BY <3>3, <1>2, SkipIs
    <3>5. LexemeAt(c, g[j], on) = Lexeme(EOF, g[j], g[j])
      <4>1. g[j] # 0 /\ g[j] > Len(c)
        BY <3>1, <1>1
      <4> DEFINE x == g[j]
      <4>2. x \in 1 .. Len(c) + 1
        BY <1>2
      <4> HIDE DEF x
      <4>3. Skip(c, x) = x /\ x # 0 /\ x > Len(c)
        BY <4>1, <3>4 DEF x
      <4>4. LexemeAt(c, x, on) = Lexeme(EOF, x, x)
        BY <4>2, <4>3, LexemeIs
      <4>5. QED
        BY <4>4 DEF x
    <3>6. r(j) = <<>>
      <4>1. LexemeAt(c, g[j], on).tok = EOF
        BY <3>5 DEF Lexeme
      <4>2. QED
        BY <4>1, <1>2, RestIs
    <3>7. Len(r(j)) = 0
      BY <3>6
    <3>8. N - j + 1 = 0
      BY <2>1, <1>1
    <3> HIDE DEF r
    <3>9. Len(r(j)) = N - j + 1 /\ \A k \in 1 .. N - j + 1 : r(j)[k].tok = t[j + k - 1]
      BY <3>7, <3>8
    <3>10. QED
      BY <3>9
  <2>2. CASE j # N + 1
    <3> DEFINE l == LexemeAt(c, g[j], on)
    <3>1. j \in 1 .. N /\ j + 1 \in j + 1 .. N + 1 /\ j + 1 \in 1 .. N + 1
      BY <2>2, <1>1
    <3>2. l.tok = t[j] /\ l.next \in 1 .. Len(c) + 1 /\ LexemeAt(c, l.next, on) = LexemeAt(c, g[j + 1], on)
      BY <3>1, PlacedRead, PlacedNext
    <3>3. l.tok # EOF
      <4>1. t[j] \in Token
        BY <3>1, ElementOfSeq, TokensUnderAre
      <4>2. QED
        BY <4>1, <3>2, NoTokens
    <3>4. l.next # 0
      BY <3>2, <1>1
    <3>5. r(j) = <<l>> \o Rest(c, on)[l.next]
      BY <3>3, <3>4, <1>2, RestIs
    <3>6. Rest(c, on)[l.next] = r(j + 1)
      BY <3>1, <3>2, <1>2, SameRest
    <3>7. l \in L
      BY <1>2
    <3>8. r(j + 1) \in Seq(L) /\ j + 1 \in T
      BY <3>1, <1>2, <1>3
    <3> HIDE DEF l, L
    <3>9. <<l>> \in Seq(L) /\ Len(<<l>>) = 1 /\ <<l>>[1] = l
      BY <3>7
    <3> DEFINE q == r(j + 1)
    <3>10. Len(q) = N - (j + 1) + 1 /\ \A k \in 1 .. N - (j + 1) + 1 : q[k].tok = t[(j + 1) + k - 1]
      BY <3>8
    <3>11. r(j) = <<l>> \o q
      BY <3>5, <3>6
    <3>12. q \in Seq(L)
      BY <3>8
    <3> HIDE DEF r, q, T
    <3>13. Len(r(j)) = 1 + Len(q) /\ \A k \in 1 .. 1 + Len(q) : r(j)[k] = IF k <= 1 THEN <<l>>[k] ELSE q[k - 1]
      BY <3>9, <3>11, <3>12, ConcatProperties
    <3>14. 1 + Len(q) = N - j + 1
      BY <3>10, <3>1, <1>1
    <3>15. ASSUME NEW k \in 1 .. N - j + 1 PROVE r(j)[k].tok = t[j + k - 1]
      <4>1. CASE k = 1
        <5>1. r(j)[k] = l
          BY <4>1, <3>9, <3>13, <3>14
        <5>2. j + k - 1 = j
          BY <4>1
        <5>3. QED
          BY <5>1, <5>2, <3>2 DEF l
      <4>2. CASE k # 1
        <5>1. ~(k <= 1) /\ k - 1 \in 1 .. N - (j + 1) + 1 /\ (j + 1) + (k - 1) - 1 = j + k - 1
          BY <4>2, <3>1, <1>1
        <5>2. r(j)[k] = q[k - 1]
          BY <5>1, <3>13, <3>14
        <5>3. q[k - 1].tok = t[(j + 1) + (k - 1) - 1]
          BY <5>1, <3>10
        <5>4. QED
          BY <5>1, <5>2, <5>3
      <4>3. QED
        BY <4>1, <4>2
    <3>16. QED
      BY <3>13, <3>14, <3>15 DEF T
  <2>3. QED
    BY <2>1, <2>2
<1>4. 1 .. N + 1 \subseteq T
  <2> HIDE DEF T, N
  <2>1. QED
    BY <1>1, <1>3, Downward
<1>5. n \in T
  BY <1>4
<1>6. QED
  BY <1>5

(* What Spelling writes the lexer reads. *)
LEMMA SpelledRead ==
  ASSUME Writable(on), NEW t \in Seq(TokensUnder(on)), NEW gap \in Gaps
  PROVE  Toks(Lexemes(Spell(t, gap, on), on)) = t
<1> DEFINE c == Spell(t, gap, on)
           ls == Lexemes(c, on)
           N == Len(t)
<1>1. t \in Seq(Token)
  BY TokensUnderAre, SeqMonotonic
<1>2. Text(c)
  BY <1>1, SpelledText
<1>3. PICK g : Placed(g, t, gap, on, c)
  BY <1>1, TextPlaced
<1> HIDE DEF c
<1>4. N \in Nat /\ DOMAIN t = 1 .. N
  BY LenProperties
<1>5. 1 \in 1 .. N + 1 /\ g[1] = 1 /\ N - 1 + 1 = N /\ \A k \in 1 .. N : 1 + k - 1 = k
  BY <1>3, <1>4 DEF Placed
<1>6. ls = Rest(c, on)[1] /\ 1 \in 1 .. Len(c) + 1
  BY <1>2, RestIs, AtIs
<1>7. ls \in Seq({LexemeAt(c, k, on) : k \in 1 .. Len(c) + 1})
  BY <1>2, <1>6, RestIs
<1>8. Len(ls) = N /\ \A k \in 1 .. N : ls[k].tok = t[k]
  <2> HIDE DEF ls
  <2>1. LET r == Rest(c, on)[g[1]] IN Len(r) = Len(t) - 1 + 1 /\ \A k \in 1 .. Len(t) - 1 + 1 : r[k].tok = t[1 + k - 1]
    BY <1>2, <1>3, <1>5, PlacedRest
  <2>2. Len(ls) = Len(t) - 1 + 1 /\ \A k \in 1 .. Len(t) - 1 + 1 : ls[k].tok = t[1 + k - 1]
    BY <2>1, <1>5, <1>6
  <2>3. QED
    BY <2>2, <1>5
<1>9. DOMAIN ls = 1 .. N
  <2> HIDE DEF ls
  <2>1. QED
    BY <1>7, <1>8, LenProperties
<1>10. Toks(ls) = [k \in 1 .. N |-> t[k]]
  <2> HIDE DEF ls
  <2>1. QED
    BY <1>8, <1>9 DEF Toks
<1>11. t = [k \in 1 .. N |-> t[k]]
  BY <1>4
<1>12. QED
  BY <1>10, <1>11 DEF c

(* A text that the lexer has read was written, with the usual features. *)
WrittenInv == text # <<>> => /\ text \in Seq(TokensUnder(Usual)) /\ on = Usual
                             /\ \E gap \in Gaps : chars = Spell(text, gap, Usual)

(* WrittenInv holds: neither the features nor the file change. *)
LEMMA WrittenInvariant == ScanSpec => []WrittenInv
<1> DEFINE Start == /\ ScanInit
                    /\ \/ text \in Seq(TokensUnder(Usual)) /\ on = Usual /\ \E gap \in Gaps : chars = Spell(text, gap, Usual)
                       \/ text = <<>> /\ on \in Features /\ chars \in Seq(Characters)
<1>1. Start => WrittenInv
  BY DEF WrittenInv
<1>2. WrittenInv /\ [Tokenize]_scanVars => WrittenInv'
  <2> SUFFICES ASSUME WrittenInv, [Tokenize]_scanVars PROVE WrittenInv'
    OBVIOUS
  <2>1. text' = text /\ chars' = chars /\ on' = on
    BY DEF Tokenize, scanVars
  <2>2. QED
    BY <2>1 DEF WrittenInv, TokensUnder, Token, Lexicon, Symbols, Spell, Gaps
<1>3. QED
  BY <1>1, <1>2, PTL DEF ScanSpec

(* The tokens of a text are those that it was written with, whatever is
   between them.                                                             *)
THEOREM ReadsAsWritten == ScanSpec => []LexedAsWritten
<1>1. ScanInv /\ WrittenInv => LexedAsWritten
  <2> SUFFICES ASSUME ScanInv, WrittenInv, scanned, text # <<>> PROVE Toks(lexemes) = text
    BY DEF LexedAsWritten
  <2>1. on = Usual /\ text \in Seq(TokensUnder(on)) /\ lexemes = Lexemes(chars, on)
    BY DEF ScanInv, WrittenInv
  <2>2. PICK gap \in Gaps : chars = Spell(text, gap, on)
    BY <2>1 DEF WrittenInv
  <2>3. Writable(on)
    BY <2>1, UsualAssumption DEF Writable
  <2>4. QED
    BY <2>1, <2>2, <2>3, SpelledRead
<1>2. QED
  BY <1>1, ScanInvariant, WrittenInvariant, PTL
=============================================================================
