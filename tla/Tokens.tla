------------------------------- MODULE Tokens --------------------------------
(***************************************************************************)
(* The tokens of pkg/token, without types, and the characters of symbols.  *)
(* The lexer, the parser and the grammar share them.                       *)
(***************************************************************************)
EXTENDS Integers, Sequences, FiniteSets, SequencesExt

CONSTANT Identifiers  \* the identifiers of the texts

Keywords == {"if", "else", "while", "switch", "case", "default", "goto", "return",
             "break", "continue", "auto", "extrn", "typeof"}
Punctuation == {"(", ")", "[", "]", "{", "}", ";", ":", ",", "?", "...", "."}
CAssignments == {"+=", "-=", "*=", "/=", "%=", "&=", "|=", "^=", "<<=", ">>="}
BAssignments == {"=+", "=-", "=*", "=/", "=%", "=&", "=|", "=^", "=<<", "=>>"}
AssignmentOps == {"=", ":="} \cup CAssignments \cup BAssignments
UnaryOps == {"!", "~", "-", "+", "++", "--", "*", "&"}
StepOps == {"++", "--"}

(* The binary operators, those that bind least first. *)
Ranks == <<{"||"}, {"&&"}, {"|"}, {"^"}, {"&"}, {"==", "!="}, {"<", ">", "<=", ">="},
           {"<<", ">>"}, {"+", "-"}, {"*", "/", "%"}>>

Symbols == Punctuation \cup AssignmentOps \cup UnaryOps \cup UNION {Ranks[r] : r \in DOMAIN Ranks}
Literals == {"num", "float", "str"}
Token == Identifiers \cup Keywords \cup Symbols \cup Literals \cup {"directive"}
EOF == "eof"

(* The symbols of one character, and the characters of the others, and of the
   beginnings of comments.                                                   *)
Marks == {"(", ")", "[", "]", "{", "}", ";", ":", ",", "?", ".", "=", "!", "~", "-", "+", "*", "&",
          "|", "^", "<", ">", "/", "%"}
Openings == {"//", "/*"}

Letterwise == [sym \in Symbols \cup Openings |->
  CASE sym = "..." -> <<".", ".", ".">>
    [] sym = "<<=" -> <<"<", "<", "=">> [] sym = ">>=" -> <<">", ">", "=">>
    [] sym = "=<<" -> <<"=", "<", "<">> [] sym = "=>>" -> <<"=", ">", ">">>
    [] sym = ":=" -> <<":", "=">> [] sym = "+=" -> <<"+", "=">> [] sym = "-=" -> <<"-", "=">>
    [] sym = "*=" -> <<"*", "=">> [] sym = "/=" -> <<"/", "=">> [] sym = "%=" -> <<"%", "=">>
    [] sym = "&=" -> <<"&", "=">> [] sym = "|=" -> <<"|", "=">> [] sym = "^=" -> <<"^", "=">>
    [] sym = "=+" -> <<"=", "+">> [] sym = "=-" -> <<"=", "-">> [] sym = "=*" -> <<"=", "*">>
    [] sym = "=/" -> <<"=", "/">> [] sym = "=%" -> <<"=", "%">> [] sym = "=&" -> <<"=", "&">>
    [] sym = "=|" -> <<"=", "|">> [] sym = "=^" -> <<"=", "^">> [] sym = "==" -> <<"=", "=">>
    [] sym = "!=" -> <<"!", "=">> [] sym = "<=" -> <<"<", "=">> [] sym = ">=" -> <<">", "=">>
    [] sym = "++" -> <<"+", "+">> [] sym = "--" -> <<"-", "-">> [] sym = "||" -> <<"|", "|">>
    [] sym = "&&" -> <<"&", "&">> [] sym = "<<" -> <<"<", "<">> [] sym = ">>" -> <<">", ">">>
    [] sym = "//" -> <<"/", "/">> [] sym = "/*" -> <<"/", "*">>
    [] OTHER -> <<sym>>]
=============================================================================
