------------------------------- MODULE Reading -------------------------------
(***************************************************************************)
(* The lexer and the parser against the grammar.  A behaviour writes a      *)
(* program (Write of Grammar, Spell of Spelling), perhaps with one token     *)
(* wrong (Misspell), or scribbles characters, and reads them (Read).        *)
(***************************************************************************)
EXTENDS Scanner, Parser, Grammar

CONSTANTS
  Programs,  \* the trees that texts are written for
  Misspelt,  \* those of them whose texts may be wrong in one token
  Slips,     \* the tokens that get into such texts
  Styles,    \* the ways of writing a tree, see Write and Gap
  Scribbles  \* characters written for no tree

VARIABLES
  tree,     \* the tree that was meant
  edited,   \* whether a token of its text was changed
  result    \* the parse of the tokens found, once there is one

vars == <<scanVars, tree, edited, result>>

Unread == Parse(Leaf("unread"), 0)

Init == /\ \/ /\ tree \in Programs
              /\ \E style \in Styles : /\ text = Write(tree, 0, style)
                                       /\ chars = Spell(text, style.gap, Usual)
              /\ on = Usual
              /\ edited = FALSE
           \/ /\ tree = Missing /\ text = <<>> /\ edited = TRUE
              /\ chars \in Scribbles
              /\ on \in Features
        /\ ScanInit
        /\ result = Unread

(* One token is left out, replaced or added. *)
Misspell ==
  /\ ~scanned /\ ~edited
  /\ tree \in Misspelt
  /\ \E i \in 1 .. Len(text) + 1 :
       \/ i <= Len(text) /\ text' = RemoveAt(text, i)
       \/ i <= Len(text) /\ \E tok \in Slips : text' = ReplaceAt(text, i, tok)
       \/ \E tok \in Slips : text' = InsertAt(text, i, tok)
  /\ chars' = Spell(text', "blank", on)
  /\ edited' = TRUE
  /\ UNCHANGED <<on, tree, lexemes, scanned, result>>

(* The parser is given the tokens, unless there was an error. *)
Read ==
  /\ Tokenize
  /\ result' = IF \E l \in ToSet(lexemes') : l.next = 0 THEN Failure ELSE Program(Toks(lexemes'))
  /\ UNCHANGED <<tree, edited>>

Stop == scanned /\ UNCHANGED vars

Next == Misspell \/ Read \/ Stop

Spec == Init /\ [][Next]_vars

-----------------------------------------------------------------------------
(* The lexer finds tokens, an error last, and their parse is a tree that
   codegen may rely on: the parts of each kind of node, values that are there
   where a node needs them, places where they are assigned to, and label texts that are names or, for punctuation, empty.   *)
TypeOK == /\ text \in Seq(Token)
          /\ edited \in BOOLEAN
          /\ \A n \in DOMAIN lexemes : lexemes[n].tok \in Token \/ (lexemes[n].tok = "error" /\ n = Len(lexemes))
          /\ result.next \in Panicked .. Len(lexemes) + 1
          /\ IF result.next > 0 THEN WellFormed(result.tree) ELSE result.tree \in {Unread.tree, Missing}

-----------------------------------------------------------------------------
WrittenAsMeant == scanned /\ ~edited /\ ~DanglingElse(tree)

(* The parser reads what was written: operators by rank and from the left,
   assignments to one or many places wherever an expression may be, every
   else at its if, bodies of one statement, labels that are keywords,
   declarations before the body of a function, lists of values.  Only a
   default becomes a label.                                                  *)
RoundTrip == WrittenAsMeant => result = Parse(AsRead(tree), Len(text) + 1)

(* What the parser accepts, correct or not, is a text of the tree it makes:
   no token is skipped and none is made up, whatever the look-aheads, except
   that a label before a closing brace has an empty statement.  Of the trees
   with that text it is the one with each else at the nearest if.            *)
AcceptedIsGrammatical ==
  result.next > 0 => IsText(Toks(lexemes), result.tree) /\ ~DanglingElse(result.tree)

(* The parser ends for every text in which each closing brace closes one. *)
BracesBalanced(t) ==
  LET open[n \in 0 .. Len(t)] ==
        IF n = 0 THEN 0 ELSE open[n - 1] + (CASE t[n] = "{" -> 1 [] t[n] = "}" -> -1 [] OTHER -> 0)
  IN  \A n \in DOMAIN t : open[n] >= 0
EndsUnlessBracesLeft == result.next = Endless => ~BracesBalanced(Toks(lexemes))

(* Where nothing is read for an expression, a node is made without it or an
   error ends the parser; it panics only where a declaration lacks a value, as
   in a := ; (parseDeclaration and NewVarDecl, against arguments and the values
   of a case, whose lists are closed before the node is made).               *)
LacksValue(t) ==
  \E i \in DOMAIN t : \E j \in i + 1 .. Len(t) + 1 :
    /\ t[i] \in {"=", ":="} /\ t[j - 1] \in {t[i], ","} /\ ";" \notin ToSet(SubSeq(t, i, j - 1))
    /\ j <= Len(t) => t[j] \in {";", "}"}
PanicsOnlyForWantOfValue == result.next = Panicked => LacksValue(Toks(lexemes))

(* docs/BX_SPEC.md:427: a switch may have a default case, and the parser
   makes it one.                                                             *)
DefaultIsACase ==
  (WrittenAsMeant /\ Last(tree.kids).kind = "function" /\ Last(Last(tree.kids).kids).kind = "switch")
  => result.tree = tree
=============================================================================
