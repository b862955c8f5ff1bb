---------------------------- MODULE DriverProofs ----------------------------
(***************************************************************************)
(* Proofs about Driver, for all source trees and all command lines.  The    *)
(* settings are folded from words that are spread over arguments, files and *)
(* two passes; the lemmas say how the last word on a setting changes as     *)
(* words are read, and what a file that is read gives.                      *)
(***************************************************************************)
EXTENDS Driver, Lists

-----------------------------------------------------------------------------
(* The files, typed. *)

(* A sequence is one of its own elements. *)
LEMMA SequenceIsSeq ==
  ASSUME NEW s, IsSequence(s)
  PROVE  s \in Seq(ToSet(s)) /\ DOMAIN s = 1 .. Len(s)
<1>1. s \in [1 .. Len(s) -> ToSet(s)] /\ DOMAIN s = 1 .. Len(s) /\ Len(s) \in Nat
  BY DEF IsSequence, ToSet
<1>2. QED
  BY ONLY <1>1, FunctionIsSeq

(* Every sequence of a set is a sequence. *)
LEMMA SeqIsSequence ==
  ASSUME NEW A, NEW s \in Seq(A)
  PROVE  IsSequence(s)
BY LenProperties DEF IsSequence

(* One element more, as Append puts it. *)
LEMMA SequenceGrows ==
  ASSUME NEW s, IsSequence(s), NEW e
  PROVE  IsSequence(Append(s, e)) /\ ToSet(Append(s, e)) = ToSet(s) \cup {e}
<1>1. s \in Seq(ToSet(s))
  BY SequenceIsSeq
<1>2. s \in Seq(ToSet(s) \cup {e}) /\ e \in ToSet(s) \cup {e}
  BY <1>1, SeqMonotonic
<1> DEFINE A == ToSet(s) \cup {e}
<1> HIDE DEF A
<1>3. Append(s, e) \in Seq(A) /\ ToSet(Append(s, e)) = ToSet(s) \cup {e}
  BY <1>2, AppendProperties, Elements DEF A
<1>4. QED
  BY <1>3, SeqIsSequence

(* One element less, as Tail takes it. *)
LEMMA SequenceShrinks ==
  ASSUME NEW s, IsSequence(s), s # <<>>
  PROVE  IsSequence(Tail(s))
<1>1. s \in Seq(ToSet(s))
  BY SequenceIsSeq
<1> DEFINE A == ToSet(s)
<1> HIDE DEF A
<1>2. s \in Seq(A)
  BY <1>1 DEF A
<1>3. Tail(s) \in Seq(A)
  BY <1>2, HeadTailProperties
<1>4. QED
  BY <1>3, SeqIsSequence

(* Only directives have arguments, and they need nothing. *)
Proper(i) == \/ i.kind = "directive" /\ i.needs = "nothing"
             \/ i.kind = "code" /\ i.args = <<>>

(* A file is a sequence of directives and code. *)
LEMMA FilesTyped ==
  ASSUME sources \in SourceTrees, NEW p \in Paths
  PROVE  /\ sources[p] \in Seq(Item)
         /\ \A j \in DOMAIN sources[p] : sources[p][j] \in Item /\ Proper(sources[p][j])
<1>1. IsSequence(sources[p]) /\ \A j \in DOMAIN sources[p] : IsItem(sources[p][j])
  BY DriverAssumption DEF Paths
<1>2. ASSUME NEW j \in DOMAIN sources[p]
      PROVE  sources[p][j] \in Item /\ Proper(sources[p][j])
  <2> DEFINE i == sources[p][j]
  <2>0. IsItem(i)
    BY <1>1
  <2>1. CASE IsSequence(i.args) /\ i = Directive(i.args)
    <3>1. i.args \in Seq(ToSet(i.args))
      BY <2>1, SequenceIsSeq
    <3>2. ToSet(i.args) \subseteq Argument
      BY DEF ToSet, Argument
    <3>3. i.args \in Seq(Argument)
      BY <3>1, <3>2, SeqMonotonic
    <3>4. i = [kind |-> "directive", args |-> i.args, needs |-> "nothing"]
      BY <2>1 DEF Directive
    <3> DEFINE as == i.args
    <3>5. i = [kind |-> "directive", args |-> as, needs |-> "nothing"] /\ as \in Seq(Argument)
      BY <3>3, <3>4
    <3> HIDE DEF i, as
    <3>6. i \in Item /\ i.kind = "directive" /\ i.needs = "nothing"
      BY <3>5 DEF Item
    <3>7. QED
      BY <3>6 DEF i, Proper
  <2>2. CASE i.needs \in Features \cup {"nothing"} /\ i = Code(i.needs)
    <3> DEFINE n == i.needs
    <3>1. i = [kind |-> "code", args |-> <<>>, needs |-> n] /\ n \in Features \cup {"nothing"}
      BY <2>2 DEF Code
    <3> HIDE DEF i, n
    <3>2. <<>> \in Seq(Argument)
      BY EmptySeq
    <3>3. i \in Item /\ i.kind = "code" /\ i.args = <<>>
      BY <3>1, <3>2 DEF Item
    <3>4. QED
      BY <3>3 DEF i, Proper
  <2>3. QED
    BY <2>0, <2>1, <2>2 DEF IsItem
<1>3. ToSet(sources[p]) \subseteq Item
  BY <1>2 DEF ToSet
<1>4. QED
  BY <1>1, <1>2, <1>3, SequenceIsSeq, SeqMonotonic

-----------------------------------------------------------------------------
(* What a pass reads of the files, and the words in it. *)
ArgsOf == [i \in Item |-> i.args]
Lexed(on) == [i \in Item |-> LexItem(on, i)]
LexedFile(on) == [p \in Paths |-> Through(Lexed(on), sources[p])]
WordsIn == [p \in Paths |-> Through(ArgsOf, sources[p])]
Pending(its) == Through(ArgsOf, its)

(* What the lexer cannot read is an item without arguments. *)
LEMMA JunkTyped == Junk \in Item /\ Junk.kind = "junk" /\ Junk.args = <<>> /\ Junk.needs = "nothing"
BY EmptySeq DEF Junk, Item

(* Reading an item, a file or the words of either gives sequences. *)
LEMMA ReadTyped ==
  ASSUME sources \in SourceTrees, NEW on
  PROVE  /\ Gives(ArgsOf, Item, Argument) /\ Gives(Lexed(on), Item, Item)
         /\ Gives(LexedFile(on), Paths, Item) /\ Gives(WordsIn, Paths, Argument)
<1>1. Gives(ArgsOf, Item, Argument)
  BY DEF Gives, ArgsOf, Item
<1>2. Gives(Lexed(on), Item, Item)
  <2>1. ASSUME NEW i \in Item PROVE LexItem(on, i) \in Seq(Item)
    <3>1. \A x \in Item : <<x>> \in Seq(Item)
      OBVIOUS
    <3>2. [i EXCEPT !.kind = "junk"] \in Item
      BY DEF Item
    <3>3. <<>> \in Seq(Item)
      BY EmptySeq
    <3> DEFINE I == Item
    <3>4. i \in I /\ Junk \in I /\ [i EXCEPT !.kind = "junk"] \in I /\ <<>> \in Seq(I) /\ \A x \in I : <<x>> \in Seq(I)
      BY <3>1, <3>2, <3>3, JunkTyped
    <3> HIDE DEF I
    <3>5. LexItem(on, i) \in Seq(I)
      BY <3>4 DEF LexItem
    <3>6. QED
      BY <3>5 DEF I
  <2>2. QED
    BY <2>1 DEF Gives, Lexed
<1>3. Gives(LexedFile(on), Paths, Item)
  <2>1. \A p \in Paths : Through(Lexed(on), sources[p]) \in Seq(Item)
    BY <1>2, FilesTyped, ThroughIs
  <2>2. QED
    BY <2>1 DEF Gives, LexedFile
<1>4. Gives(WordsIn, Paths, Argument)
  <2>1. \A p \in Paths : Through(ArgsOf, sources[p]) \in Seq(Argument)
    BY <1>1, FilesTyped, ThroughIs
  <2>2. QED
    BY <2>1 DEF Gives, WordsIn
<1>5. QED
  BY <1>1, <1>2, <1>3, <1>4

(* Reading files is reading one after the other. *)
LEMMA LexFilesIs ==
  ASSUME sources \in SourceTrees, NEW on, NEW fs \in Seq(Paths)
  PROVE  LexFiles(on, fs) = Through(LexedFile(on), fs) /\ LexFiles(on, fs) \in Seq(Item)
<1>1. ASSUME NEW p \in Paths
      PROVE  FlattenSeq([j \in DOMAIN sources[p] |-> LexItem(on, sources[p][j])]) = LexedFile(on)[p]
  <2>1. [j \in DOMAIN sources[p] |-> LexItem(on, sources[p][j])] = [j \in DOMAIN sources[p] |-> Lexed(on)[sources[p][j]]]
    BY FilesTyped DEF Lexed
  <2>2. QED
    BY <2>1 DEF Through, LexedFile
<1>2. \A k \in DOMAIN fs : fs[k] \in Paths
  BY ElementOfSeq, LenProperties
<1>3. [k \in DOMAIN fs |-> FlattenSeq([j \in DOMAIN sources[fs[k]] |-> LexItem(on, sources[fs[k]][j])])]
      = [k \in DOMAIN fs |-> LexedFile(on)[fs[k]]]
  BY <1>1, <1>2
<1>4. LexFiles(on, fs) = Through(LexedFile(on), fs)
  BY <1>3 DEF LexFiles, Through
<1>5. QED
  BY <1>4, ReadTyped, ThroughIs

(* The words of files are those of one after the other. *)
LEMMA WordsIs ==
  ASSUME sources \in SourceTrees, NEW fs \in Seq(Paths)
  PROVE  Words(fs) = Through(WordsIn, fs) /\ Words(fs) \in Seq(Argument)
<1>1. ASSUME NEW p \in Paths
      PROVE  FlattenSeq([j \in DOMAIN sources[p] |-> sources[p][j].args]) = WordsIn[p]
  <2>1. [j \in DOMAIN sources[p] |-> sources[p][j].args] = [j \in DOMAIN sources[p] |-> ArgsOf[sources[p][j]]]
    BY FilesTyped DEF ArgsOf
  <2>2. QED
    BY <2>1 DEF Through, WordsIn
<1>2. \A k \in DOMAIN fs : fs[k] \in Paths
  BY ElementOfSeq, LenProperties
<1>3. [k \in DOMAIN fs |-> FlattenSeq([j \in DOMAIN sources[fs[k]] |-> sources[fs[k]][j].args])]
      = [k \in DOMAIN fs |-> WordsIn[fs[k]]]
  BY <1>1, <1>2
<1>4. Words(fs) = Through(WordsIn, fs)
  BY <1>3 DEF Words, Through
<1>5. QED
  BY <1>4, ReadTyped, ThroughIs

(* Reading turns directives to words, or to nothing when they are off. *)
LEMMA WordsRead ==
  ASSUME sources \in SourceTrees, NEW on, NEW fs \in Seq(Paths)
  PROVE  Pending(LexFiles(on, fs)) = IF NoDirectives \in on THEN <<>> ELSE Words(fs)
<1> DEFINE one == [i \in Item |-> Pending(LexItem(on, i))]
           each == [p \in Paths |-> Pending(LexedFile(on)[p])]
<1>0. /\ Gives(ArgsOf, Item, Argument) /\ Gives(Lexed(on), Item, Item)
      /\ Gives(LexedFile(on), Paths, Item) /\ Gives(WordsIn, Paths, Argument)
  BY ReadTyped
<1>1. Gives(one, Item, Argument) /\ \A i \in Item : one[i] = Through(ArgsOf, Lexed(on)[i])
  <2>1. \A i \in Item : Lexed(on)[i] = LexItem(on, i) /\ LexItem(on, i) \in Seq(Item)
    BY <1>0 DEF Lexed, Gives
  <2>2. \A i \in Item : Through(ArgsOf, LexItem(on, i)) \in Seq(Argument)
    BY <1>0, <2>1, ThroughIs
  <2>3. QED
    BY <2>1, <2>2 DEF Pending, Gives
<1>2. Gives(each, Paths, Argument) /\ \A p \in Paths : each[p] = Through(ArgsOf, LexedFile(on)[p])
  <2>1. \A p \in Paths : LexedFile(on)[p] \in Seq(Item)
    BY <1>0 DEF Gives
  <2>2. \A p \in Paths : Through(ArgsOf, LexedFile(on)[p]) \in Seq(Argument)
    BY <1>0, <2>1, ThroughIs
  <2>3. QED
    BY <2>2 DEF Pending, Gives
<1> HIDE DEF one, each
<1>3. Pending(LexFiles(on, fs)) = Through(each, fs)
  BY <1>0, <1>2, LexFilesIs, ThroughThrough DEF Pending
<1>4. ASSUME NEW p \in Paths PROVE each[p] = Through(one, sources[p])
  <2>1. LexedFile(on)[p] = Through(Lexed(on), sources[p])
    BY DEF LexedFile
  <2>2. sources[p] \in Seq(Item)
    BY FilesTyped
  <2>3. Through(ArgsOf, Through(Lexed(on), sources[p])) = Through(one, sources[p])
    BY <1>0, <1>1, <2>2, ThroughThrough
  <2>4. QED
    BY <1>2, <2>1, <2>3
<1>5. ASSUME NEW i \in Item, Proper(i)
      PROVE  one[i] = IF NoDirectives \in on THEN <<>> ELSE i.args
  <2>0. one[i] = Pending(LexItem(on, i))
    BY DEF one
  <2>1. Pending(<<>>) = <<>>
    BY ThroughNone DEF Pending
  <2>2. \A x \in Item : Pending(<<x>>) = x.args
    <3> SUFFICES ASSUME NEW x \in Item PROVE Pending(<<x>>) = x.args
      OBVIOUS
    <3>1. <<>> \in Seq(Item) /\ Append(<<>>, x) = <<x>>
      BY EmptySeq
    <3>2. Through(ArgsOf, Append(<<>>, x)) = Through(ArgsOf, <<>>) \o ArgsOf[x]
      BY ZenonT(60), <1>0, <3>1, ThroughAppend
    <3>3. x.args \in Seq(Argument) /\ ArgsOf[x] = x.args
      BY DEF Item, ArgsOf
    <3>4. <<>> \o x.args = x.args
      BY <3>3, ConcatEmptySeq
    <3>5. QED
      BY <3>1, <3>2, <3>3, <3>4, ThroughNone DEF Pending
  <2>3. CASE i.kind = "directive"
    <3>1. Pending(<<Junk>>) = <<>> /\ Pending(<<i>>) = i.args
      BY <2>2, JunkTyped
    <3>2. QED
      BY <2>0, <2>1, <2>3, <3>1 DEF LexItem, NoDirectives
  <2>4. CASE i.kind # "directive"
    <3>1. i.args = <<>>
      BY <1>5, <2>4 DEF Proper
    <3>2. [i EXCEPT !.kind = "junk"] \in Item /\ [i EXCEPT !.kind = "junk"].args = <<>>
      BY <3>1 DEF Item
    <3>3. Pending(LexItem(on, i)) = <<>>
      BY <2>4, <2>2, <3>1, <3>2 DEF LexItem
    <3>4. QED
      BY <2>0, <3>1, <3>3
  <2>5. QED
    BY <2>3, <2>4
<1>6. ASSUME NEW p \in Paths PROVE \A i \in ToSet(sources[p]) : i \in Item /\ Proper(i)
  BY FilesTyped DEF ToSet
<1>7. CASE NoDirectives \in on
  <2>1. \A p \in Paths : each[p] = <<>>
    <3> SUFFICES ASSUME NEW p \in Paths PROVE Through(one, sources[p]) = <<>>
      BY <1>4
    <3>1. \A i \in ToSet(sources[p]) : one[i] = <<>>
      BY <1>5, <1>6, <1>7
    <3>2. sources[p] \in Seq(Item)
      BY FilesTyped
    <3>3. QED
      BY <1>1, <3>1, <3>2, ThroughNothing
  <2>2. \A p \in ToSet(fs) : each[p] = <<>>
    BY <2>1, Elements
  <2>3. Through(each, fs) = <<>>
    BY <1>2, <2>2, ThroughNothing
  <2>4. QED
    BY <1>3, <1>7, <2>3
<1>8. CASE NoDirectives \notin on
  <2>1. \A p \in Paths : each[p] = WordsIn[p]
    <3> SUFFICES ASSUME NEW p \in Paths PROVE Through(one, sources[p]) = WordsIn[p]
      BY <1>4
    <3>1. \A i \in ToSet(sources[p]) : one[i] = ArgsOf[i]
      BY <1>5, <1>6, <1>8 DEF ArgsOf
    <3>2. QED
      BY <3>1, ThroughSame DEF WordsIn
  <2>2. \A p \in ToSet(fs) : each[p] = WordsIn[p]
    BY <2>1, Elements
  <2>3. Through(each, fs) = Through(WordsIn, fs)
    BY <2>2, ThroughSame
  <2>4. QED
    BY <1>3, <1>8, <2>3, WordsIs
<1>9. QED
  BY <1>7, <1>8

(* Code that needs what is off reads as junk. *)
LEMMA UnreadIsJunk ==
  ASSUME sources \in SourceTrees, NEW on, NEW fs \in Seq(Paths),
         NEW f \in ToSet(fs), NEW j \in DOMAIN sources[f],
         sources[f][j].needs \in Lexical, <<"F", sources[f][j].needs>> \notin on
  PROVE  \E i \in ToSet(LexFiles(on, fs)) : i.kind = "junk"
<1> DEFINE i == sources[f][j]
           x == [i EXCEPT !.kind = "junk"]
<1>0. /\ Gives(Lexed(on), Item, Item) /\ Gives(LexedFile(on), Paths, Item)
  BY ReadTyped
<1>1. f \in Paths
  BY Elements
<1>2. sources[f] \in Seq(Item) /\ i \in Item /\ Proper(i) /\ i \in ToSet(sources[f])
  BY <1>1, FilesTyped DEF ToSet
<1>3. i.kind # "directive"
  BY <1>2 DEF Proper, Lexical
<1>4. Lexed(on)[i] = <<x>>
  BY <1>2, <1>3 DEF Lexed, LexItem
<1>5. x \in ToSet(Lexed(on)[i])
  BY <1>4 DEF ToSet
<1>6. ToSet(LexedFile(on)[f]) = UNION {ToSet(Lexed(on)[a]) : a \in ToSet(sources[f])}
  BY <1>0, <1>1, <1>2, ThroughElements DEF LexedFile
<1>7. x \in ToSet(LexedFile(on)[f])
  BY <1>2, <1>5, <1>6
<1>8. ToSet(LexFiles(on, fs)) = UNION {ToSet(LexedFile(on)[p]) : p \in ToSet(fs)}
  BY <1>0, LexFilesIs, ThroughElements
<1>9. x \in ToSet(LexFiles(on, fs))
  BY <1>7, <1>8
<1>10. x.kind = "junk"
  BY <1>2 DEF Item
<1>11. QED
  BY <1>9, <1>10

(* Everything read is code, a directive, or junk with no arguments. *)
Readable(i) == i.kind \in {"code", "junk"} => i.args = <<>>

(* Only directives carry arguments after reading. *)
LEMMA ReadableItems ==
  ASSUME sources \in SourceTrees, NEW on, NEW fs \in Seq(Paths)
  PROVE  \A i \in ToSet(LexFiles(on, fs)) : Readable(i)
<1>0. /\ Gives(Lexed(on), Item, Item) /\ Gives(LexedFile(on), Paths, Item)
  BY ReadTyped
<1>1. \A a \in Item : Proper(a) => \A i \in ToSet(Lexed(on)[a]) : Readable(i)
  <2> SUFFICES ASSUME NEW a \in Item, Proper(a), NEW i \in ToSet(LexItem(on, a)) PROVE Readable(i)
    BY DEF Lexed
  <2> DEFINE x == [a EXCEPT !.kind = "junk"]
  <2>0. /\ ToSet(<<a>>) = {a} /\ ToSet(<<Junk>>) = {Junk} /\ ToSet(<<>>) = {}
        /\ ToSet(<<x>>) = {x}
    BY DEF ToSet
  <2>1. i \in {a, Junk} \/ (i = x /\ a.kind # "directive")
    <3> HIDE DEF x
    <3>1. LexItem(on, a) \in {<<a>>, <<Junk>>, <<>>} \/ (LexItem(on, a) = <<x>> /\ a.kind # "directive")
      BY DEF LexItem, x
    <3>2. QED
      BY <2>0, <3>1
  <2>2. a.kind # "directive" => [a EXCEPT !.kind = "junk"].args = <<>>
    BY DEF Proper, Item
  <2>3. QED
    BY <2>1, <2>2, JunkTyped DEF Readable, Proper
<1>2. \A p \in Paths : \A i \in ToSet(LexedFile(on)[p]) : Readable(i)
  <2> SUFFICES ASSUME NEW p \in Paths, NEW i \in ToSet(LexedFile(on)[p]) PROVE Readable(i)
    OBVIOUS
  <2>1. sources[p] \in Seq(Item)
    BY FilesTyped
  <2>2. ToSet(LexedFile(on)[p]) = UNION {ToSet(Lexed(on)[a]) : a \in ToSet(sources[p])}
    BY <1>0, <2>1, ThroughElements DEF LexedFile
  <2>3. PICK a \in ToSet(sources[p]) : i \in ToSet(Lexed(on)[a])
    BY <2>2
  <2>4. a \in Item /\ Proper(a)
    BY FilesTyped DEF ToSet
  <2>5. QED
    BY <1>1, <2>3, <2>4
<1>3. ToSet(LexFiles(on, fs)) = UNION {ToSet(LexedFile(on)[p]) : p \in ToSet(fs)}
  BY <1>0, LexFilesIs, ThroughElements
<1>4. ToSet(fs) \subseteq Paths
  BY Elements
<1>5. QED
  BY <1>2, <1>3, <1>4

-----------------------------------------------------------------------------
(* The last word on a setting. *)
Said(words, s) == {k \in DOMAIN words : words[k].kind \in {"on", "off"} /\ words[k].value = s}

(* The last word is that of the last place that says something. *)
LEMMA LastWordIs ==
  ASSUME NEW words, NEW s, NEW was
  PROVE  LastWord(words, s, was) = IF Said(words, s) = {} THEN was ELSE words[Max(Said(words, s))].kind = "on"
BY DEF LastWord, Said

(* The last word is on or off. *)
LEMMA LastWordBoolean ==
  ASSUME NEW words, NEW s, NEW was \in BOOLEAN
  PROVE  LastWord(words, s, was) \in BOOLEAN
BY LastWordIs

(* The words that come after have the last one. *)
LEMMA LastWordConcat ==
  ASSUME NEW A, NEW u \in Seq(A), NEW v \in Seq(A), NEW s, NEW was
  PROVE  LastWord(u \o v, s, was) = LastWord(v, s, LastWord(u, s, was))
<1> DEFINE m == Len(u)
           n == Len(v)
           w == u \o v
<1>1. /\ m \in Nat /\ n \in Nat /\ DOMAIN u = 1 .. m /\ DOMAIN v = 1 .. n /\ DOMAIN w = 1 .. m + n
      /\ \A k \in 1 .. m : w[k] = u[k]
      /\ \A k \in 1 .. n : w[m + k] = v[k]
      /\ \A k \in 1 .. m + n : k > m => (k - m \in 1 .. n /\ w[k] = v[k - m])
  BY ConcatProperties, LenProperties
<1> HIDE DEF m, n, w
<1>2. \A k \in 1 .. m + n : k \in Said(w, s) <=> IF k <= m THEN k \in Said(u, s) ELSE k - m \in Said(v, s)
  BY <1>1 DEF Said
<1>3. /\ Said(u, s) \subseteq 1 .. m /\ Said(v, s) \subseteq 1 .. n /\ Said(w, s) \subseteq 1 .. m + n
  BY <1>1 DEF Said
<1>4. CASE Said(v, s) = {}
  <2>1. Said(w, s) = Said(u, s)
    <3>1. \A k \in 1 .. m + n : k \in Said(w, s) <=> k <= m /\ k \in Said(u, s)
      BY <1>1, <1>2, <1>4
    <3>2. \A k \in Said(u, s) : k \in 1 .. m + n /\ k <= m
      BY <1>1, <1>3
    <3>3. QED
      BY <1>3, <3>1, <3>2
  <2>2. CASE Said(u, s) = {}
    BY <1>4, <2>1, <2>2, LastWordIs DEF w
  <2>3. CASE Said(u, s) # {}
    <3>1. Max(Said(u, s)) \in 1 .. m
      BY <1>1, <1>3, <2>3, MaxOf
    <3>2. w[Max(Said(u, s))] = u[Max(Said(u, s))]
      BY <1>1, <3>1
    <3>3. QED
      BY <1>4, <2>1, <2>3, <3>2, LastWordIs DEF w
  <2>4. QED
    BY <2>2, <2>3
<1>5. CASE Said(v, s) # {}
  <2> DEFINE x == Max(Said(v, s))
             y == Max(Said(w, s))
  <2>1. x \in Said(v, s) /\ \A k \in Said(v, s) : k <= x
    BY <1>1, <1>3, <1>5, MaxOf
  <2>2. m + x \in Said(w, s)
    <3>1. x \in 1 .. n
      BY <1>3, <2>1
    <3>2. m + x \in 1 .. m + n /\ ~ (m + x <= m) /\ (m + x) - m = x
      BY <1>1, <3>1
    <3>3. QED
      BY <1>2, <2>1, <3>2
  <2>3. y \in Said(w, s) /\ \A k \in Said(w, s) : k <= y
    <3>1. Said(w, s) # {} /\ m + n \in Nat
      BY <1>1, <2>2
    <3>2. QED
      BY <1>3, <3>1, MaxOf
  <2> HIDE DEF x, y
  <2>4. x \in 1 .. n /\ y \in 1 .. m + n
    BY <1>3, <2>1, <2>3
  <2>5. m + x <= y
    BY <2>2, <2>3
  <2>6. ~ (y <= m) /\ y - m \in Said(v, s)
    BY <1>1, <1>2, <2>3, <2>4, <2>5
  <2>7. y = m + x
    BY <1>1, <2>1, <2>4, <2>5, <2>6
  <2>8. w[y] = v[x]
    BY <1>1, <2>4, <2>7
  <2>9. Said(w, s) # {}
    BY <2>2
  <2>10. QED
    BY <1>5, <2>8, <2>9, LastWordIs DEF w, x, y
<1>6. QED
  BY <1>4, <1>5

(* Said twice is said once. *)
LEMMA LastWordTwice ==
  ASSUME NEW words, NEW s, NEW was
  PROVE  LastWord(words, s, LastWord(words, s, was)) = LastWord(words, s, was)
BY LastWordIs

(* Words about something else leave what was. *)
LEMMA LastWordNone ==
  ASSUME NEW words, NEW s, NEW was,
         \A k \in DOMAIN words : words[k].kind \in {"on", "off"} => words[k].value # s
  PROVE  LastWord(words, s, was) = was
<1>1. Said(words, s) = {}
  BY DEF Said
<1>2. QED
  BY <1>1, LastWordIs

(* One word is the last one if it is about the setting. *)
LEMMA LastWordOne ==
  ASSUME NEW a, NEW s, NEW was
  PROVE  LastWord(<<a>>, s, was) = IF a.kind \in {"on", "off"} /\ a.value = s THEN a.kind = "on" ELSE was
<1> DEFINE w == <<a>>
<1>1. DOMAIN w = {1} /\ w[1] = a
  OBVIOUS
<1> HIDE DEF w
<1>2. CASE a.kind \in {"on", "off"} /\ a.value = s
  <2>1. Said(w, s) = {1}
    BY <1>1, <1>2 DEF Said
  <2>2. Max({1}) = 1
    <3>1. {1} \subseteq 1 .. 1
      OBVIOUS
    <3>2. Max({1}) \in {1}
      BY ONLY <3>1, MaxOf, 1 \in Nat, {1} # {}
    <3>3. QED
      BY <3>2
  <2>3. QED
    BY <1>1, <1>2, <2>1, <2>2, LastWordIs DEF w
<1>3. CASE ~ (a.kind \in {"on", "off"} /\ a.value = s)
  <2>1. Said(w, s) = {}
    BY <1>1, <1>3 DEF Said
  <2>2. QED
    BY <1>3, <2>1, LastWordIs DEF w
<1>4. QED
  BY <1>2, <1>3

-----------------------------------------------------------------------------
(* The files of the second pass. *)
Adds(acc, l) == IF \E k \in DOMAIN acc : acc[k] = Libraries[l] THEN acc ELSE Append(acc, Libraries[l])

(* The fold of AddLibraries, one library at a time. *)
AddsUp(f, fs, libs, n) == f[0] = fs /\ \A k \in 1 .. n : f[k] = Adds(f[k - 1], libs[k])

(* AddLibraries adds one library after the other. *)
LEMMA AddLibrariesSteps ==
  ASSUME NEW P, NEW fs \in Seq(P), NEW n \in Nat, NEW libs, DOMAIN libs = 1 .. n,
         \A k \in 1 .. n : Libraries[libs[k]] \in P
  PROVE  \E f \in [0 .. n -> Seq(P)] : AddsUp(f, fs, libs, n) /\ AddLibraries(fs, libs) = f[n]
<1> DEFINE Eq(H) == H = [S \in SUBSET (1 .. n) |-> IF S = {} THEN fs ELSE Adds(H[S \ {Max(S)}], libs[Max(S)])]
           G == CHOOSE H : Eq(H)
           step == [k \in Nat |-> [acc \in Seq(P) |-> IF k \in 1 .. n THEN Adds(acc, libs[k]) ELSE acc]]
<1>1. \A k \in Nat, acc \in Seq(P) : step[k][acc] \in Seq(P)
  <2>1. \A k \in 1 .. n, acc \in Seq(P) : Adds(acc, libs[k]) \in Seq(P)
    BY AppendProperties DEF Adds
  <2> QED
    BY <2>1
<1>2. \A k \in 1 .. n, acc \in Seq(P) : step[k][acc] = Adds(acc, libs[k])
  OBVIOUS
<1> HIDE DEF step
<1>3. PICK H \in [SUBSET (1 .. n) -> Seq(P)] : FoldsBy(H, Seq(P), n, fs, step)
  BY <1>1, FoldExists
<1>4. ASSUME NEW S \in SUBSET (1 .. n), S # {} PROVE Max(S) \in 1 .. n /\ S \ {Max(S)} \in SUBSET (1 .. n)
  BY <1>4, MaxOf
<1>5. Eq(H)
  <2> SUFFICES ASSUME NEW S \in SUBSET (1 .. n)
               PROVE  H[S] = IF S = {} THEN fs ELSE Adds(H[S \ {Max(S)}], libs[Max(S)])
    OBVIOUS
  <2> QED
    BY <1>2, <1>3, <1>4 DEF FoldsBy
<1>6. Eq(G)
  BY <1>5
<1>7. AddLibraries(fs, libs) = G[1 .. n]
  BY Zenon DEF AddLibraries, FoldLeft, MapThenFoldSet, Adds
<1> HIDE DEF G
<1>8. FoldsBy(G, Seq(P), n, fs, step)
  <2>1. G[{}] = fs
    BY <1>6
  <2>2. ASSUME NEW S \in SUBSET (1 .. n), S # {}, G[S \ {Max(S)}] \in Seq(P)
        PROVE  G[S] = step[Max(S)][G[S \ {Max(S)}]]
    BY <1>2, <1>4, <1>6, <2>2
  <2> QED
    BY <2>1, <2>2 DEF FoldsBy
<1>9. PICK f \in [0 .. n -> Seq(P)] : StepsTo(f, n, fs, step, G[1 .. n])
  <2> DEFINE A == Seq(P)
  <2>1. fs \in A /\ \A k \in Nat, a \in A : step[k][a] \in A
    BY <1>1
  <2>2. FoldsBy(G, A, n, fs, step)
    BY <1>8
  <2> HIDE DEF A
  <2>3. \E f \in [0 .. n -> A] : StepsTo(f, n, fs, step, G[1 .. n])
    BY <2>1, <2>2, FoldSteps
  <2> QED
    BY <2>3 DEF A
<1>10. f[0] = fs /\ f[n] = G[1 .. n] /\ \A k \in 1 .. n : f[k] = Adds(f[k - 1], libs[k])
  <2>1. \A k \in 1 .. n : f[k] = step[k][f[k - 1]] /\ k - 1 \in 0 .. n
    BY <1>9 DEF StepsTo
  <2> QED
    BY <1>2, <1>9, <2>1 DEF StepsTo
<1> QED
  BY <1>7, <1>10 DEF AddsUp

(* What more has beside s, and that it begins with s. *)
Extended(more, s, paths) ==
  /\ ToSet(more) = ToSet(s) \cup paths
  /\ IsInjective(s) => IsInjective(more)
  /\ Len(s) <= Len(more)
  /\ \A k \in 1 .. Len(s) : more[k] = s[k]

(* Adding one library: its path is there afterwards, and paths stay apart. *)
LEMMA AddsOne ==
  ASSUME NEW P, NEW acc \in Seq(P), NEW l, Libraries[l] \in P
  PROVE  /\ Adds(acc, l) \in Seq(P)
         /\ Extended(Adds(acc, l), acc, {Libraries[l]})
<1>0. Len(acc) \in Nat /\ DOMAIN acc = 1 .. Len(acc)
  BY LenProperties
<1>1. CASE \E k \in DOMAIN acc : acc[k] = Libraries[l]
  <2>1. Adds(acc, l) = acc
    BY <1>1 DEF Adds
  <2>2. Libraries[l] \in ToSet(acc)
    BY <1>1 DEF ToSet
  <2>3. QED
    BY <1>0, <2>1, <2>2 DEF Extended
<1>2. CASE ~ \E k \in DOMAIN acc : acc[k] = Libraries[l]
  <2> DEFINE w == Append(acc, Libraries[l])
             m == Len(acc)
  <2>1. Adds(acc, l) = w
    BY <1>2 DEF Adds
  <2>2. /\ w \in Seq(P) /\ ToSet(w) = ToSet(acc) \cup {Libraries[l]} /\ Len(w) = m + 1
        /\ \A k \in 1 .. m : w[k] = acc[k]
        /\ w[m + 1] = Libraries[l] /\ DOMAIN w = 1 .. m + 1
    BY AppendProperties, Elements, LenProperties
  <2> HIDE DEF w, m
  <2>3. ASSUME IsInjective(acc) PROVE IsInjective(w)
    <3>1. \A j, k \in 1 .. m + 1 : w[j] = w[k] => j = k
      <4> SUFFICES ASSUME NEW j \in 1 .. m + 1, NEW k \in 1 .. m + 1, w[j] = w[k] PROVE j = k
        OBVIOUS
      <4>0. \A x \in 1 .. m + 1 : x \in 1 .. m \/ x = m + 1
        BY <1>0 DEF m
      <4>1. \A x \in 1 .. m : w[x] # w[m + 1]
        BY <1>0, <1>2, <2>2 DEF m
      <4>2. CASE j \in 1 .. m /\ k \in 1 .. m
        BY <2>2, <2>3, <4>2, <1>0 DEF IsInjective, m
      <4>3. CASE j = m + 1 \/ k = m + 1
        BY <4>0, <4>1, <4>3
      <4>4. QED
        BY <4>0, <4>2, <4>3
    <3>2. QED
      BY <2>2, <3>1 DEF IsInjective
  <2>4. QED
    BY <1>0, <2>1, <2>2, <2>3 DEF m, Extended
<1>3. QED
  BY <1>1, <1>2

(* The second pass reads the inputs and then every library's file, none twice
   unless an input was given twice. *)
LEMMA LibrariesAdded ==
  ASSUME NEW P, NEW fs \in Seq(P), NEW n \in Nat, NEW libs, DOMAIN libs = 1 .. n,
         \A k \in 1 .. n : Libraries[libs[k]] \in P
  PROVE  LET all == AddLibraries(fs, libs)
         IN  /\ all \in Seq(P)
             /\ Extended(all, fs, {Libraries[l] : l \in ToSet(libs)})
<1>1. PICK f \in [0 .. n -> Seq(P)] : AddsUp(f, fs, libs, n) /\ AddLibraries(fs, libs) = f[n]
  BY AddLibrariesSteps
<1> DEFINE Upto(k) == {Libraries[libs[j]] : j \in 1 .. k}
           T == {k \in Nat : k <= n => Extended(f[k], fs, Upto(k))}
<1>2. 0 \in T
  <2>1. Upto(0) = {}
    OBVIOUS
  <2>2. f[0] = fs /\ Len(fs) \in Nat
    BY <1>1, LenProperties DEF AddsUp
  <2>3. Extended(f[0], fs, Upto(0))
    BY <2>1, <2>2 DEF Extended
  <2>4. QED
    BY <2>3
<1>3. ASSUME NEW k \in Nat, k \in T PROVE k + 1 \in T
  <2>1. CASE k + 1 <= n
    <3> DEFINE l == libs[k + 1]
               acc == f[k]
               next == f[k + 1]
    <3>1. k + 1 \in 1 .. n /\ (k + 1) - 1 = k /\ k <= n /\ k \in 0 .. n
      BY <2>1
    <3>2. Extended(acc, fs, Upto(k))
      BY <1>3, <3>1
    <3>3. next = Adds(acc, l) /\ acc \in Seq(P) /\ next \in Seq(P) /\ Libraries[l] \in P
      <4>1. next = Adds(f[(k + 1) - 1], l)
        BY <1>1, <3>1 DEF AddsUp
      <4>2. QED
        BY <3>1, <4>1
    <3>4. Upto(k + 1) = Upto(k) \cup {Libraries[l]}
      <4>1. \A j \in 1 .. k + 1 : j \in 1 .. k \/ j = k + 1
        OBVIOUS
      <4>2. \A j \in 1 .. k : j \in 1 .. k + 1
        OBVIOUS
      <4>3. k + 1 \in 1 .. k + 1
        OBVIOUS
      <4>4. QED
        BY <4>1, <4>2, <4>3
    <3> HIDE DEF l, acc, next, Upto
    <3>5. Extended(next, acc, {Libraries[l]})
      BY <3>3, AddsOne
    <3>6. Len(fs) \in Nat /\ Len(acc) \in Nat /\ Len(next) \in Nat
      BY <3>3, LenProperties
    <3>7. Extended(next, fs, Upto(k) \cup {Libraries[l]})
      BY <3>2, <3>5, <3>6 DEF Extended
    <3>8. Extended(next, fs, Upto(k + 1))
      BY <3>4, <3>7
    <3>9. QED
      BY <3>8 DEF next
  <2>2. CASE ~ (k + 1 <= n)
    BY <2>2
  <2>3. QED
    BY <2>1, <2>2
<1>4. T = Nat
  <2>1. T \subseteq Nat
    OBVIOUS
  <2> HIDE DEF T
  <2>2. \A k \in T : k + 1 \in T
    BY <1>3, <2>1
  <2>3. QED
    BY ONLY <2>1, <1>2, <2>2, Inductive
<1>5. Extended(f[n], fs, Upto(n))
  <2>1. n \in T
    BY <1>4
  <2> HIDE DEF Upto
  <2>2. QED
    BY <2>1
<1>6. Upto(n) = {Libraries[l] : l \in ToSet(libs)}
  BY DEF ToSet
<1>7. f[n] \in Seq(P)
  OBVIOUS
<1>8. QED
  BY <1>1, <1>5, <1>6, <1>7

(* An order of a set holds each of its elements. *)
LEMMA OrderIsAll ==
  ASSUME NEW S, IsFiniteSet(S), NEW order \in SetToSeqs(S)
  PROVE  ToSet(order) = S /\ DOMAIN order = 1 .. Cardinality(S) /\ Cardinality(S) \in Nat
<1> DEFINE n == Cardinality(S)
<1>1. n \in Nat
  BY FS_CardinalityType
<1>2. order \in [1 .. n -> S] /\ \A i, j \in 1 .. n : i # j => order[i] # order[j]
  BY DEF SetToSeqs
<1>3. order \in Injection(1 .. n, S)
  BY <1>2 DEF Injection, IsInjective
<1>4. Cardinality(1 .. n) = n /\ IsFiniteSet(1 .. n)
  <2>1. 1 \in Int /\ n \in Int /\ (1 > n <=> n = 0) /\ n - 1 + 1 = n
    BY <1>1
  <2> HIDE DEF n
  <2>2. QED
    BY <2>1, FS_Interval
<1> HIDE DEF n
<1>5. order \in Surjection(1 .. n, S)
  BY <1>3, <1>4, FS_Injection DEF n
<1>6. \A x \in S : \E i \in 1 .. n : order[i] = x
  BY <1>5 DEF Surjection
<1>7. ToSet(order) = S
  BY <1>2, <1>6 DEF ToSet
<1>8. QED
  BY <1>1, <1>2, <1>7 DEF n

(* A sequence has finitely many elements. *)
LEMMA FiniteElements ==
  ASSUME NEW s, IsSequence(s)
  PROVE  IsFiniteSet(ToSet(s))
<1> DEFINE n == Len(s)
<1>1. n \in Nat /\ DOMAIN s = 1 .. n /\ s \in [1 .. n -> ToSet(s)] /\ \A x \in ToSet(s) : \E i \in 1 .. n : s[i] = x
  BY DEF IsSequence, ToSet
<1>2. s \in Surjection(1 .. n, ToSet(s))
  BY <1>1 DEF Surjection
<1>3. IsFiniteSet(1 .. n)
  <2>1. 1 \in Int /\ n \in Int
    BY <1>1
  <2> HIDE DEF n
  <2>2. QED
    BY <2>1, FS_Interval
<1> HIDE DEF n
<1>4. QED
  BY <1>2, <1>3, FS_Surjection

-----------------------------------------------------------------------------
(* The command line and the configuration it makes. *)
IsCommand(c) ==
  /\ c = [std |-> c.std, pedantic |-> c.pedantic, on |-> c.on, off |-> c.off, libs |-> c.libs,
          linker |-> c.linker, compiler |-> c.compiler, inputs |-> c.inputs]
  /\ c.pedantic \in BOOLEAN /\ c.on \subseteq Settings /\ c.off \subseteq Settings
  /\ IsSequence(c.libs) /\ IsSequence(c.inputs)

IsConfig(c) == /\ c = [on |-> c.on, libs |-> c.libs, linker |-> c.linker]
               /\ c.on \subseteq Settings /\ IsSequence(c.libs)

(* The empty sequence is one. *)
LEMMA EmptyIsSequence == IsSequence(<<>>)
BY DEF IsSequence

(* What is on at first are features and warnings. *)
LEMMA DefaultsAreSettings == Defaults \subseteq Settings
BY DEF Defaults, Settings, F, W, Features, Warnings

(* The command line starts well typed. *)
LEMMA StartTyped == IsCommand(NoCommand)
BY EmptyIsSequence DEF NoCommand, IsCommand

(* An argument keeps the command line typed. *)
LEMMA TakeTyped ==
  ASSUME IsCommand(cmd), NEW a, Known(a)
  PROVE  IsCommand(Take(a))
<1> DEFINE k == a.kind
           v == a.value
<1>1. k \in {"on", "off", "lib", "link", "compiler", "std", "pedantic", "file"} /\ (k \in {"on", "off"} => v \in Settings)
  BY DEF Known
<1>2. IsSequence(Append(cmd.libs, v)) /\ IsSequence(Append(cmd.inputs, v))
  BY SequenceGrows DEF IsCommand
<1>3. Take(a) = CASE k = "on" -> [cmd EXCEPT !.on = @ \cup {v}]
                  [] k = "off" -> [cmd EXCEPT !.off = @ \cup {v}]
                  [] k = "lib" -> [cmd EXCEPT !.libs = Append(@, v)]
                  [] k = "link" -> [cmd EXCEPT !.linker = Append(@, v)]
                  [] k = "compiler" -> [cmd EXCEPT !.compiler = @ \o v]
                  [] k = "std" -> [cmd EXCEPT !.std = v]
                  [] k = "pedantic" -> [cmd EXCEPT !.pedantic = TRUE]
                  [] k = "file" -> [cmd EXCEPT !.inputs = Append(@, v)]
  BY DEF Take
<1> HIDE DEF k, v
<1>4. CASE k = "on"
  BY <1>1, <1>3, <1>4 DEF IsCommand
<1>5. CASE k = "off"
  BY <1>1, <1>3, <1>5 DEF IsCommand
<1>6. CASE k = "lib"
  BY <1>2, <1>3, <1>6 DEF IsCommand
<1>7. CASE k = "link"
  BY <1>3, <1>7 DEF IsCommand
<1>8. CASE k = "compiler"
  BY <1>3, <1>8 DEF IsCommand
<1>9. CASE k = "std"
  BY <1>3, <1>9 DEF IsCommand
<1>10. CASE k = "pedantic"
  BY <1>3, <1>10 DEF IsCommand
<1>11. CASE k = "file"
  BY <1>2, <1>3, <1>11 DEF IsCommand
<1>12. QED
  BY <1>1, <1>4, <1>5, <1>6, <1>7, <1>8, <1>9, <1>10, <1>11

(* An argument keeps the configuration typed. *)
LEMMA ChangeTyped ==
  ASSUME NEW c, IsConfig(c), NEW a, Allowed(a)
  PROVE  IsConfig(Change(c, a))
<1> DEFINE k == a.kind
           v == a.value
<1>1. k \in {"on", "off", "lib", "link", "compiler"} /\ (k \in {"on", "off"} => v \in Settings)
  BY DEF Allowed
<1>2. IsSequence(Append(c.libs, v))
  BY SequenceGrows DEF IsConfig
<1>3. Change(c, a) = CASE k = "on" -> [c EXCEPT !.on = @ \cup {v}]
                       [] k = "off" -> [c EXCEPT !.on = @ \ {v}]
                       [] k = "lib" -> [c EXCEPT !.libs = Append(@, v)]
                       [] k = "link" -> [c EXCEPT !.linker = Append(@, v)]
                       [] k = "compiler" -> [c EXCEPT !.linker = @ \o v]
  BY DEF Change
<1> HIDE DEF k, v
<1>4. CASE k = "on"
  BY <1>1, <1>3, <1>4 DEF IsConfig
<1>5. CASE k = "off"
  BY <1>1, <1>3, <1>5 DEF IsConfig
<1>6. CASE k = "lib"
  BY <1>2, <1>3, <1>6 DEF IsConfig
<1>7. CASE k = "link"
  BY <1>3, <1>7 DEF IsConfig
<1>8. CASE k = "compiler"
  BY <1>3, <1>8 DEF IsConfig
<1>9. QED
  BY <1>1, <1>4, <1>5, <1>6, <1>7, <1>8

(* What a change leaves: of the setting it names the last word, of libraries
   one more. *)
LEMMA ChangeSays ==
  ASSUME NEW c, IsConfig(c), NEW a, Allowed(a), NEW s
  PROVE  /\ s \in Change(c, a).on <=> IF a.kind \in {"on", "off"} /\ a.value = s THEN a.kind = "on" ELSE s \in c.on
         /\ ToSet(Change(c, a).libs) = ToSet(c.libs) \cup (IF a.kind = "lib" THEN {a.value} ELSE {})
<1> DEFINE k == a.kind
           v == a.value
<1>1. k \in {"on", "off", "lib", "link", "compiler"}
  BY DEF Allowed
<1>2. ToSet(Append(c.libs, v)) = ToSet(c.libs) \cup {v}
  BY SequenceGrows DEF IsConfig
<1>3. Change(c, a) = CASE k = "on" -> [c EXCEPT !.on = @ \cup {v}]
                       [] k = "off" -> [c EXCEPT !.on = @ \ {v}]
                       [] k = "lib" -> [c EXCEPT !.libs = Append(@, v)]
                       [] k = "link" -> [c EXCEPT !.linker = Append(@, v)]
                       [] k = "compiler" -> [c EXCEPT !.linker = @ \o v]
  BY DEF Change
<1>4. c = [on |-> c.on, libs |-> c.libs, linker |-> c.linker]
  BY DEF IsConfig
<1> HIDE DEF k, v
<1>5. /\ s \in Change(c, a).on <=> IF k \in {"on", "off"} /\ v = s THEN k = "on" ELSE s \in c.on
      /\ ToSet(Change(c, a).libs) = ToSet(c.libs) \cup (IF k = "lib" THEN {v} ELSE {})
  <2>1. CASE k = "on"
    BY <1>3, <1>4, <2>1
  <2>2. CASE k = "off"
    BY <1>3, <1>4, <2>2
  <2>3. CASE k = "lib"
    BY <1>2, <1>3, <1>4, <2>3
  <2>4. CASE k = "link"
    BY <1>3, <1>4, <2>4
  <2>5. CASE k = "compiler"
    BY <1>3, <1>4, <2>5
  <2>6. QED
    BY <1>1, <2>1, <2>2, <2>3, <2>4, <2>5
<1>6. QED
  BY <1>5 DEF k, v

(* The configuration of the first pass is the word of the command line. *)
Configured == FlagGroups(ApplyStd(Defaults \cup (IF cmd.pedantic THEN W({"pedantic"}) ELSE {}), cmd.std, cmd.pedantic))

(* What a standard turns on are features and warnings. *)
LEMMA StdAreSettings ==
  ASSUME NEW std, NEW pedantic \in BOOLEAN
  PROVE  StdFeatures(std, pedantic) \subseteq Settings /\ StdWarnings(std) \subseteq Settings
<1>1. StdFeatures(std, pedantic) \subseteq Settings
  BY DEF StdFeatures, Settings, F, W, Features, Warnings
<1>2. StdWarnings(std) \subseteq Settings
  BY DEF StdWarnings, Settings, F, W, Features, Warnings
<1>3. QED
  BY <1>1, <1>2

(* After the command line, what is on is what its words say. *)
LEMMA FlagsAre ==
  ASSUME IsCommand(cmd)
  PROVE  Configured \subseteq Settings /\ \A s : s \in Configured <=> CommandWord(s)
<1> DEFINE ped == IF cmd.pedantic THEN W({"pedantic"}) ELSE {}
<1>0. W({"pedantic"}) = {<<"W", "pedantic">>} /\ <<"W", "pedantic">> \in Settings
  BY DEF W, Settings, Warnings
<1>1. <<"W", "pedantic">> \notin AllStdWarnings /\ <<"W", "pedantic">>[1] = "W"
  BY DEF AllStdWarnings, StdWarnings, W
<1>2. \A s : s \in ApplyStd(Defaults \cup ped, cmd.std, cmd.pedantic)
             <=> s \in ApplyStd(Defaults, cmd.std, cmd.pedantic) \/ s \in ped
  BY <1>0, <1>1 DEF ApplyStd
<1>3. \A s : s \in Configured <=> CommandWord(s)
  BY <1>0, <1>2 DEF Configured, FlagGroups, CommandWord
<1>4. ApplyStd(Defaults, cmd.std, cmd.pedantic) \subseteq Settings
  BY StdAreSettings, DefaultsAreSettings DEF ApplyStd, IsCommand
<1>5. \A s : CommandWord(s) => s \in Settings
  BY <1>0, <1>4, DefaultsAreSettings DEF CommandWord, IsCommand
<1>6. QED
  BY <1>3, <1>5

-----------------------------------------------------------------------------
(***************************************************************************)
(* The inductive invariant.  In either pass, what is still to be read,     *)
(* applied to the settings as they stand, comes to what the whole of the   *)
(* words comes to, applied to those of the command line.                   *)
(***************************************************************************)
Settled(words, rest, on) ==
  \A s \in Settings : LastWord(rest, s, s \in on) <=> LastWord(words, s, CommandWord(s))

LibsIn(words) == {words[k].value : k \in {j \in DOMAIN words : words[j].kind = "lib"}}

Typed ==
  /\ sources \in SourceTrees /\ IsSequence(args) /\ IsCommand(cmd) /\ IsConfig(cfg)
  /\ phase \in {"args", "scan", "compile", "generated", "error"}
  /\ files \in Seq(Paths)
  /\ items \in Seq(Item) /\ \A i \in ToSet(items) : Readable(i)
  /\ blame \in Item
  /\ typed \in BOOLEAN /\ checked \in BOOLEAN

Unread == phase = "args" => cfg.on = Defaults

Scanning ==
  phase = "scan" =>
    /\ files = cmd.inputs
    /\ Settled(InputWords, Pending(items), cfg.on)
    /\ Requested = ToSet(cfg.libs) \cup LibsIn(Pending(items))

LastIn(f) == LastWord(InputWords, <<"F", f>>, CommandWord(<<"F", f>>))

(* Code of the inputs that the first pass has not allowed is junk to come. *)
Judged ==
  \A f \in ToSet(cmd.inputs) : \A j \in DOMAIN sources[f] :
    sources[f][j].needs \in Lexical =>
      \/ LastIn(sources[f][j].needs)
      \/ \E i \in ToSet(items) : i.kind = "junk"

Compiling ==
  phase \in {"compile", "generated"} =>
    /\ cmd.inputs \in Seq(Paths)
    /\ Extended(files, cmd.inputs, {Libraries[l] : l \in Requested})
    /\ Settled(InputWords \o LibraryWords, Pending(items), cfg.on)
    /\ typed <=> LastIn("typed")
    /\ Judged
    /\ phase = "generated" => items = <<>> /\ (checked <=> <<"F", "typed">> \in cfg.on)

DInv == Typed /\ Unread /\ Scanning /\ Compiling

(* Errors keep everything but the phase and the item to blame. *)
LEMMA FailKeeps ==
  ASSUME DInv, NEW i \in Item, Fail(i)
  PROVE  DInv'
<1>1. /\ phase' = "error" /\ blame' = i
      /\ UNCHANGED <<sources, args, cmd, cfg, files, items, typed, checked>>
  BY DEF Fail
<1>2. Paths' = Paths /\ Item' = Item
  BY <1>1 DEF Paths, Item, Argument
<1>3. Typed'
  BY <1>1, <1>2 DEF DInv, Typed
<1>4. Unread' /\ Scanning' /\ Compiling'
  BY <1>1 DEF Unread, Scanning, Compiling
<1>5. QED
  BY <1>3, <1>4 DEF DInv

(* What the files and the command line say stays. *)
LEMMA Fixed ==
  ASSUME UNCHANGED <<sources, cmd>>
  PROVE  /\ Paths' = Paths /\ Item' = Item /\ Argument' = Argument /\ ArgsOf' = ArgsOf
         /\ InputWords' = InputWords /\ Requested' = Requested
         /\ \A s : CommandWord(s)' = CommandWord(s)
         /\ \A f : LastIn(f)' = LastIn(f)
<1>1. Paths' = Paths /\ Argument' = Argument
  BY DEF Paths, Argument
<1>2. Item' = Item
  BY <1>1 DEF Item
<1>3. ArgsOf' = ArgsOf
  BY <1>2 DEF ArgsOf
<1>4. \A s : CommandWord(s)' = CommandWord(s)
  BY DEF CommandWord
<1>5. InputWords' = InputWords
  BY <1>4 DEF InputWords, Words
<1>6. Requested' = Requested
  BY <1>5 DEF Requested
<1>7. \A f : LastIn(f)' = LastIn(f)
  BY <1>4, <1>5 DEF LastIn
<1>8. QED
  BY <1>1, <1>2, <1>3, <1>4, <1>5, <1>6, <1>7

(* The words of the first item come first. *)
LEMMA PendingFirst ==
  ASSUME sources \in SourceTrees, NEW h \in Item, NEW rest \in Seq(Item)
  PROVE  /\ Pending(<<h>> \o rest) = h.args \o Pending(rest)
         /\ Pending(rest) \in Seq(Argument)
         /\ h.args \in Seq(Argument)
<1>0. Gives(ArgsOf, Item, Argument)
  BY ReadTyped
<1>1. <<>> \in Seq(Item) /\ <<h>> \in Seq(Item) /\ Append(<<>>, h) = <<h>>
  BY EmptySeq
<1>2. h.args \in Seq(Argument) /\ ArgsOf[h] = h.args
  BY DEF Item, ArgsOf
<1>3. Through(ArgsOf, Append(<<>>, h)) = Through(ArgsOf, <<>>) \o ArgsOf[h]
  BY ZenonT(60), <1>0, <1>1, ThroughAppend
<1>4. <<>> \o h.args = h.args
  BY <1>2, ConcatEmptySeq
<1>5. Through(ArgsOf, <<h>>) = h.args
  BY <1>1, <1>2, <1>3, <1>4, ThroughNone
<1>6. Through(ArgsOf, <<h>> \o rest) = Through(ArgsOf, <<h>>) \o Through(ArgsOf, rest)
  <2>1. \A u \in Seq(Item) : Through(ArgsOf, u \o rest) = Through(ArgsOf, u) \o Through(ArgsOf, rest)
    BY <1>0, ThroughConcat
  <2>2. QED
    BY <1>1, <2>1
<1>7. Through(ArgsOf, rest) \in Seq(Argument)
  BY <1>0, ThroughIs
<1>8. QED
  BY <1>2, <1>5, <1>6, <1>7 DEF Pending

(* The libraries that words request. *)
LEMMA LibsInIs ==
  ASSUME NEW words
  PROVE  LibsIn(words) = {a.value : a \in {x \in ToSet(words) : x.kind = "lib"}}
BY DEF LibsIn, ToSet

(* A step of a pass that leaves the outcome of what is read. *)
LEMMA PassStep ==
  ASSUME DInv, phase \in {"scan", "compile"}, UNCHANGED <<sources, args, cmd, phase, files, typed, checked, blame>>,
         IsConfig(cfg'), items' \in Seq(Item), \A i \in ToSet(items') : Readable(i),
         \A s \in Settings : LastWord(Pending(items), s, s \in cfg.on) <=> LastWord(Through(ArgsOf, items'), s, s \in cfg'.on),
         ToSet(cfg.libs) \cup LibsIn(Pending(items)) = ToSet(cfg'.libs) \cup LibsIn(Through(ArgsOf, items')),
         \A i \in ToSet(items) : i.kind = "junk" => i \in ToSet(items')
  PROVE  DInv'
<1>0. /\ Paths' = Paths /\ Item' = Item /\ ArgsOf' = ArgsOf
      /\ InputWords' = InputWords /\ Requested' = Requested
      /\ \A s : CommandWord(s)' = CommandWord(s)
      /\ \A f : LastIn(f)' = LastIn(f)
  BY Fixed
<1>1. Pending(items)' = Through(ArgsOf, items')
  BY <1>0 DEF Pending
<1>2. LibraryWords' = LibraryWords
  BY <1>0 DEF LibraryWords, LibraryFiles, Words
<1>3. Typed'
  BY <1>0 DEF DInv, Typed
<1>4. Unread'
  BY DEF Unread
<1>5. ASSUME NEW words, \A s \in Settings : LastWord(Pending(items), s, s \in cfg.on) <=> LastWord(words, s, CommandWord(s))
      PROVE  \A s \in Settings : LastWord(Through(ArgsOf, items'), s, s \in cfg'.on) <=> LastWord(words, s, CommandWord(s)')
  BY <1>0, <1>5
<1>6. Scanning'
  <2> SUFFICES ASSUME phase = "scan"
               PROVE  /\ files' = cmd'.inputs
                      /\ Settled(InputWords, Pending(items), cfg.on)'
                      /\ Requested' = ToSet(cfg'.libs) \cup LibsIn(Pending(items))'
    BY DEF Scanning
  <2>1. files = cmd.inputs /\ Settled(InputWords, Pending(items), cfg.on)
        /\ Requested = ToSet(cfg.libs) \cup LibsIn(Pending(items))
    BY DEF DInv, Scanning
  <2>2. Settled(InputWords, Pending(items), cfg.on)'
    BY <1>0, <1>1, <1>5, <2>1 DEF Settled
  <2>3. LibsIn(Pending(items))' = LibsIn(Through(ArgsOf, items'))
    BY <1>1 DEF LibsIn
  <2>4. QED
    BY <1>0, <2>1, <2>2, <2>3
<1>7. Compiling'
  <2> SUFFICES ASSUME phase = "compile"
               PROVE  /\ cmd'.inputs \in Seq(Paths')
                      /\ Extended(files', cmd'.inputs, {Libraries[l] : l \in Requested'})
                      /\ Settled(InputWords \o LibraryWords, Pending(items), cfg.on)'
                      /\ typed' <=> LastIn("typed")'
                      /\ Judged'
    BY DEF Compiling
  <2>1. /\ cmd.inputs \in Seq(Paths)
        /\ Extended(files, cmd.inputs, {Libraries[l] : l \in Requested})
        /\ Settled(InputWords \o LibraryWords, Pending(items), cfg.on)
        /\ typed <=> LastIn("typed")
        /\ Judged
    BY DEF DInv, Compiling
  <2>2. Settled(InputWords \o LibraryWords, Pending(items), cfg.on)'
    BY <1>0, <1>1, <1>2, <1>5, <2>1 DEF Settled
  <2>3. Judged'
    BY <1>0, <2>1 DEF Judged
  <2>4. QED
    BY <1>0, <2>1, <2>2, <2>3
<1>8. QED
  BY <1>3, <1>4, <1>6, <1>7 DEF DInv

(* The item at hand, and what is read after it. *)
LEMMA ItemAtHand ==
  ASSUME Typed, items # <<>>
  PROVE  /\ ThisItem \in Item /\ Tail(items) \in Seq(Item) /\ Readable(ThisItem)
         /\ Pending(items) = ThisItem.args \o Pending(Tail(items))
         /\ ThisItem.args \in Seq(Argument) /\ Pending(Tail(items)) \in Seq(Argument)
         /\ ToSet(items) = {ThisItem} \cup ToSet(Tail(items))
<1>1. /\ Head(items) \in Item /\ Tail(items) \in Seq(Item) /\ items = <<Head(items)>> \o Tail(items)
      /\ ToSet(items) = {Head(items)} \cup ToSet(Tail(items))
  BY HeadFirst DEF Typed
<1>2. ASSUME NEW h \in Item, NEW rest \in Seq(Item)
      PROVE  /\ Pending(<<h>> \o rest) = h.args \o Pending(rest)
             /\ Pending(rest) \in Seq(Argument) /\ h.args \in Seq(Argument)
  BY PendingFirst DEF Typed
<1>3. Readable(Head(items))
  BY <1>1 DEF Typed
<1>4. QED
  BY <1>1, <1>2, <1>3 DEF ThisItem

(* DirectiveEnd preserves the invariant. *)
LEMMA DirectiveEndStep ==
  ASSUME DInv, DirectiveEnd
  PROVE  DInv'
<1>1. /\ phase \in {"scan", "compile"} /\ items # <<>> /\ ThisItem.args = <<>> /\ ThisItem.kind = "directive"
      /\ items' = Tail(items) /\ cfg' = cfg
      /\ UNCHANGED <<sources, args, cmd, phase, files, typed, checked, blame>>
  BY DEF DirectiveEnd, Parsing
<1>2. Typed
  BY DEF DInv
<1>3. Pending(items) = Through(ArgsOf, items')
  BY <1>1, <1>2, ItemAtHand, ConcatEmptySeq DEF Pending
<1>4. IsConfig(cfg') /\ items' \in Seq(Item) /\ (\A i \in ToSet(items') : Readable(i))
      /\ \A i \in ToSet(items) : i.kind = "junk" => i \in ToSet(items')
  BY <1>1, <1>2, ItemAtHand DEF Typed
<1>5. QED
  BY <1>1, <1>3, <1>4, PassStep

(* ParseCode preserves the invariant. *)
LEMMA ParseCodeStep ==
  ASSUME DInv, ParseCode
  PROVE  DInv'
<1>1. /\ phase \in {"scan", "compile"} /\ items # <<>> /\ ThisItem.kind \in {"code", "junk"}
      /\ IF ~Accepts(ThisItem) THEN Fail(ThisItem) ELSE
           /\ items' = Tail(items) /\ cfg' = cfg
           /\ UNCHANGED <<sources, args, cmd, phase, files, typed, checked, blame>>
  BY DEF ParseCode, Parsing
<1>2. Typed
  BY DEF DInv
<1>3. CASE ~Accepts(ThisItem)
  BY <1>1, <1>2, <1>3, ItemAtHand, FailKeeps
<1>4. CASE Accepts(ThisItem)
  <2>1. ThisItem.args = <<>> /\ ThisItem.kind # "junk"
    BY <1>1, <1>2, <1>4, ItemAtHand DEF Readable, Accepts
  <2>2. Pending(items) = Through(ArgsOf, items')
    BY <1>1, <1>2, <1>4, <2>1, ItemAtHand, ConcatEmptySeq DEF Pending
  <2>3. IsConfig(cfg') /\ items' \in Seq(Item) /\ (\A i \in ToSet(items') : Readable(i))
        /\ \A i \in ToSet(items) : i.kind = "junk" => i \in ToSet(items')
    BY <1>1, <1>2, <1>4, <2>1, ItemAtHand DEF Typed
  <2>4. QED
    BY <1>1, <1>4, <2>2, <2>3, PassStep
<1>5. QED
  BY <1>3, <1>4

(* One argument less to read, and the settings as it says. *)
LEMMA OneArgument ==
  ASSUME NEW A, NEW a, <<a>> \in Seq(A), NEW t \in Seq(A), NEW p \in Seq(A),
         NEW c, IsConfig(c), Allowed(a)
  PROVE  /\ \A s : LastWord((<<a>> \o t) \o p, s, s \in c.on) <=> LastWord(t \o p, s, s \in Change(c, a).on)
         /\ ToSet(c.libs) \cup LibsIn((<<a>> \o t) \o p) = ToSet(Change(c, a).libs) \cup LibsIn(t \o p)
<1> DEFINE w == <<a>>
           d == Change(c, a)
<1>1. w \in Seq(A) /\ ToSet(w) = {a}
  BY DEF ToSet
<1>2. ASSUME NEW s PROVE LastWord(w, s, s \in c.on) = (s \in d.on)
  <2>1. LastWord(w, s, s \in c.on) = IF a.kind \in {"on", "off"} /\ a.value = s THEN a.kind = "on" ELSE s \in c.on
    BY LastWordOne
  <2>2. s \in d.on <=> IF a.kind \in {"on", "off"} /\ a.value = s THEN a.kind = "on" ELSE s \in c.on
    BY ChangeSays
  <2>3. QED
    BY <2>1, <2>2
<1>3. ToSet(d.libs) = ToSet(c.libs) \cup (IF a.kind = "lib" THEN {a.value} ELSE {})
  BY ChangeSays
<1> HIDE DEF w, d
<1>4. (w \o t) \o p = w \o (t \o p) /\ t \o p \in Seq(A)
  BY <1>1, ConcatAssociative, ConcatProperties
<1>5. ASSUME NEW s PROVE LastWord(w \o (t \o p), s, s \in c.on) <=> LastWord(t \o p, s, s \in d.on)
  <2>1. \A v \in Seq(A) : LastWord(w \o v, s, s \in c.on) = LastWord(v, s, LastWord(w, s, s \in c.on))
    BY <1>1, LastWordConcat
  <2>2. LastWord(w \o (t \o p), s, s \in c.on) = LastWord(t \o p, s, s \in d.on)
    BY <1>2, <1>4, <2>1
  <2>3. QED
    BY <2>2
<1>6. ToSet(w \o (t \o p)) = {a} \cup ToSet(t \o p)
  <2>1. \A v \in Seq(A) : ToSet(w \o v) = {a} \cup ToSet(v)
    BY <1>1, Elements
  <2>2. QED
    BY <1>4, <2>1
<1>7. LibsIn(w \o (t \o p)) = LibsIn(t \o p) \cup (IF a.kind = "lib" THEN {a.value} ELSE {})
  BY <1>6, LibsInIs
<1>8. QED
  BY <1>3, <1>4, <1>5, <1>7 DEF w, d

(* ProcessArg preserves the invariant. *)
LEMMA ProcessArgStep ==
  ASSUME DInv, ProcessArg
  PROVE  DInv'
<1> DEFINE h == ThisItem
           a == Head(h.args)
           g == [h EXCEPT !.args = Tail(@)]
           rest == Tail(items)
<1>1. /\ phase \in {"scan", "compile"} /\ items # <<>> /\ h.args # <<>> /\ h.kind = "directive"
      /\ IF ~Allowed(a) THEN Fail(h) ELSE
           /\ items' = <<g>> \o rest /\ cfg' = Change(cfg, a)
           /\ UNCHANGED <<sources, args, cmd, phase, files, typed, checked, blame>>
  BY DEF ProcessArg, Parsing
<1>2. Typed
  BY DEF DInv
<1>3. /\ h \in Item /\ rest \in Seq(Item) /\ Pending(items) = h.args \o Pending(rest)
      /\ h.args \in Seq(Argument) /\ Pending(rest) \in Seq(Argument)
      /\ ToSet(items) = {h} \cup ToSet(rest)
  BY <1>1, <1>2, ItemAtHand
<1>4. CASE ~Allowed(a)
  BY <1>1, <1>3, <1>4, FailKeeps
<1>5. CASE Allowed(a)
  <2>1. a \in Argument /\ Tail(h.args) \in Seq(Argument) /\ h.args = <<a>> \o Tail(h.args)
    BY <1>1, <1>3, HeadFirst
  <2>2. g \in Item /\ g.args = Tail(h.args) /\ g.kind = "directive"
    BY <1>1, <1>3, <2>1 DEF Item
  <2> HIDE DEF g, a, h, rest
  <2>3. IsConfig(cfg) /\ IsConfig(cfg')
    BY <1>1, <1>2, <1>5, ChangeTyped DEF Typed
  <2>4. items' = <<g>> \o rest
    BY <1>1, <1>5
  <2>5. <<g>> \in Seq(Item) /\ ToSet(<<g>>) = {g}
    BY <2>2 DEF ToSet
  <2>6. items' \in Seq(Item) /\ ToSet(items') = {g} \cup ToSet(rest)
    <3>1. \A u, v \in Seq(Item) : u \o v \in Seq(Item) /\ ToSet(u \o v) = ToSet(u) \cup ToSet(v)
      BY Elements, ConcatProperties
    <3>2. QED
      BY <1>3, <2>4, <2>5, <3>1
  <2>7. Through(ArgsOf, items') = Tail(h.args) \o Pending(rest)
    <3>1. \A x \in Item, v \in Seq(Item) : Through(ArgsOf, <<x>> \o v) = x.args \o Pending(v)
      BY <1>2, PendingFirst DEF Pending, Typed
    <3>2. QED
      BY <1>3, <2>2, <2>4, <3>1
  <2>8. <<a>> \in Seq(Argument)
    BY <2>1
  <2>9. /\ \A s : LastWord((<<a>> \o Tail(h.args)) \o Pending(rest), s, s \in cfg.on)
                    <=> LastWord(Tail(h.args) \o Pending(rest), s, s \in Change(cfg, a).on)
        /\ ToSet(cfg.libs) \cup LibsIn((<<a>> \o Tail(h.args)) \o Pending(rest))
             = ToSet(Change(cfg, a).libs) \cup LibsIn(Tail(h.args) \o Pending(rest))
    <3> DEFINE t == Tail(h.args)
               p == Pending(rest)
    <3>1. t \in Seq(Argument) /\ p \in Seq(Argument)
      BY <1>3, <2>1
    <3> HIDE DEF t, p
    <3>2. /\ \A s : LastWord((<<a>> \o t) \o p, s, s \in cfg.on) <=> LastWord(t \o p, s, s \in Change(cfg, a).on)
          /\ ToSet(cfg.libs) \cup LibsIn((<<a>> \o t) \o p) = ToSet(Change(cfg, a).libs) \cup LibsIn(t \o p)
      BY <1>5, <2>3, <2>8, <3>1, OneArgument
    <3>3. QED
      BY <3>2 DEF t, p
  <2>10. cfg' = Change(cfg, a)
    BY <1>1, <1>5
  <2>11. /\ \A s : LastWord(Pending(items), s, s \in cfg.on) <=> LastWord(Through(ArgsOf, items'), s, s \in cfg'.on)
         /\ ToSet(cfg.libs) \cup LibsIn(Pending(items)) = ToSet(cfg'.libs) \cup LibsIn(Through(ArgsOf, items'))
    <3>1. Pending(items) = (<<a>> \o Tail(h.args)) \o Pending(rest)
      BY <1>3, <2>1
    <3>2. QED
      BY <2>7, <2>9, <2>10, <3>1
  <2>12. (\A i \in ToSet(items') : Readable(i)) /\ \A i \in ToSet(items) : i.kind = "junk" => i \in ToSet(items')
    <3>1. \A i \in ToSet(rest) : Readable(i)
      BY <1>2, <1>3 DEF Typed
    <3>2. Readable(g)
      BY <2>2 DEF Readable
    <3>3. QED
      BY <1>1, <1>3, <2>6, <3>1, <3>2
  <2>13. UNCHANGED <<sources, args, cmd, phase, files, typed, checked, blame>>
    BY <1>1, <1>5
  <2>14. QED
    BY <1>1, <2>3, <2>6, <2>11, <2>12, <2>13, PassStep
<1>6. QED
  BY <1>4, <1>5

(* ParseArg preserves the invariant. *)
LEMMA ParseArgStep ==
  ASSUME DInv, ParseArg
  PROVE  DInv'
<1>1. /\ phase = "args" /\ args # <<>>
      /\ IF ~Known(Head(args)) THEN Fail(Junk) ELSE
           /\ cmd' = Take(Head(args)) /\ args' = Tail(args)
           /\ UNCHANGED <<sources, cfg, phase, files, items, typed, checked, blame>>
  BY DEF ParseArg
<1>2. Typed
  BY DEF DInv
<1>3. CASE ~Known(Head(args))
  BY <1>1, <1>3, JunkTyped, FailKeeps
<1>4. CASE Known(Head(args))
  <2>0. Paths' = Paths /\ Argument' = Argument
    BY <1>1, <1>4 DEF Paths, Argument
  <2>1. Paths' = Paths /\ Item' = Item
    BY <2>0 DEF Item
  <2>2. IsCommand(cmd') /\ IsSequence(args')
    BY <1>1, <1>2, <1>4, TakeTyped, SequenceShrinks DEF Typed
  <2>3. Typed'
    BY <1>1, <1>2, <1>4, <2>1, <2>2 DEF Typed
  <2>4. Unread' /\ Scanning' /\ Compiling'
    BY <1>1, <1>4 DEF DInv, Unread, Scanning, Compiling
  <2>5. QED
    BY <2>3, <2>4 DEF DInv
<1>5. QED
  BY <1>3, <1>4

(* What a pass begins with. *)
LEMMA PassBegins ==
  ASSUME Typed, NEW c, IsConfig(c), NEW p \in {"scan", "compile"}, NEW fs, IsSequence(fs),
         \A k \in DOMAIN fs : fs[k] \in DOMAIN sources, BeginPass(c, p, fs)
  PROVE  /\ fs \in Seq(Paths) /\ Typed'
         /\ cfg' = c /\ phase' = p /\ files' = fs /\ items' = LexFiles(c.on, fs)
         /\ typed' <=> <<"F", "typed">> \in c.on
         /\ UNCHANGED <<sources, args, cmd, checked, blame>>
         /\ Pending(items)' = IF NoDirectives \in c.on THEN <<>> ELSE Words(fs)
<1>1. /\ cfg' = c /\ phase' = p /\ files' = fs /\ items' = LexFiles(c.on, fs)
      /\ typed' = (<<"F", "typed">> \in c.on)
      /\ UNCHANGED <<sources, args, cmd, checked, blame>>
  BY DEF BeginPass
<1>2. fs \in Seq(Paths)
  <2>1. fs \in Seq(ToSet(fs))
    BY SequenceIsSeq
  <2>2. ToSet(fs) \subseteq Paths
    BY DEF ToSet, Paths
  <2>3. QED
    BY <2>1, <2>2, SeqMonotonic
<1>3. sources \in SourceTrees
  BY DEF Typed
<1>4. LexFiles(c.on, fs) \in Seq(Item) /\ \A i \in ToSet(LexFiles(c.on, fs)) : Readable(i)
  BY <1>2, <1>3, LexFilesIs, ReadableItems
<1>5. Paths' = Paths /\ Item' = Item /\ ArgsOf' = ArgsOf
  BY <1>1 DEF Paths, Item, Argument, ArgsOf
<1>6. Typed'
  BY <1>1, <1>2, <1>4, <1>5 DEF Typed
<1>7. Pending(items)' = Pending(LexFiles(c.on, fs))
  BY <1>1, <1>5 DEF Pending
<1>8. Pending(LexFiles(c.on, fs)) = IF NoDirectives \in c.on THEN <<>> ELSE Words(fs)
  BY <1>2, <1>3, WordsRead
<1>9. QED
  BY <1>1, <1>2, <1>6, <1>7, <1>8

(* Configure preserves the invariant. *)
LEMMA ConfigureStep ==
  ASSUME DInv, Configure
  PROVE  DInv'
<1> DEFINE c == [on |-> Configured, libs |-> cmd.libs, linker |-> cmd.linker \o cmd.compiler]
<1>1. phase = "args" /\ cfg.on = Defaults /\ Typed /\ IsCommand(cmd)
  BY DEF Configure, DInv, Unread, Typed
<1>2. Fail(Junk) \/ BeginPass(c, "scan", cmd.inputs)
  BY <1>1 DEF Configure, Configured
<1>3. CASE Fail(Junk)
  BY <1>3, JunkTyped, FailKeeps
<1>4. CASE BeginPass(c, "scan", cmd.inputs)
  <2>1. CASE \E k \in DOMAIN cmd.inputs : cmd.inputs[k] \notin DOMAIN sources
    <3>1. Fail(Junk)
      BY <1>4, <2>1 DEF BeginPass
    <3>2. QED
      BY <3>1, JunkTyped, FailKeeps
  <2>2. CASE \A k \in DOMAIN cmd.inputs : cmd.inputs[k] \in DOMAIN sources
    <3>1. IsConfig(c) /\ c.on = Configured /\ c.libs = cmd.libs /\ IsSequence(cmd.inputs)
      BY <1>1, FlagsAre DEF IsConfig, IsCommand
    <3> HIDE DEF c
    <3>2. /\ Typed' /\ cfg' = c /\ phase' = "scan" /\ files' = cmd.inputs
          /\ UNCHANGED <<sources, args, cmd, checked, blame>>
          /\ Pending(items)' = IF NoDirectives \in c.on THEN <<>> ELSE Words(cmd.inputs)
      BY <1>1, <1>4, <2>2, <3>1, PassBegins
    <3>3. \A s : s \in c.on <=> CommandWord(s)
      BY <1>1, <3>1, FlagsAre
    <3>4. Pending(items)' = InputWords
      BY <3>2, <3>3 DEF InputWords
    <3>5. InputWords' = InputWords /\ Requested' = Requested /\ \A s : CommandWord(s)' = CommandWord(s)
      BY <3>2, Fixed
    <3>6. Settled(InputWords, Pending(items), cfg.on)'
      <4>1. \A s : LastWord(InputWords, s, s \in c.on) <=> LastWord(InputWords, s, CommandWord(s))
        BY <3>3, LastWordIs
      <4>2. QED
        BY <3>2, <3>4, <3>5, <4>1 DEF Settled
    <3>7. Requested = ToSet(cmd.libs) \cup LibsIn(InputWords)
      BY DEF Requested, LibsIn
    <3>8. LibsIn(Pending(items))' = LibsIn(InputWords)
      BY <3>4 DEF LibsIn
    <3>9. Scanning'
      BY <3>1, <3>2, <3>5, <3>6, <3>7, <3>8 DEF Scanning
    <3>10. Unread' /\ Compiling'
      BY <3>2 DEF Unread, Compiling
    <3>11. QED
      BY <3>2, <3>9, <3>10 DEF DInv
  <2>3. QED
    BY <2>1, <2>2
<1>5. QED
  BY <1>2, <1>3, <1>4

(* EndCompile preserves the invariant. *)
LEMMA EndCompileStep ==
  ASSUME DInv, EndCompile
  PROVE  DInv'
<1>1. /\ phase = "compile" /\ items = <<>> /\ phase' = "generated"
      /\ checked' = (<<"F", "typed">> \in cfg.on)
      /\ UNCHANGED <<sources, args, cmd, cfg, files, items, typed, blame>>
  BY DEF EndCompile
<1>2. /\ Paths' = Paths /\ Item' = Item /\ ArgsOf' = ArgsOf
      /\ InputWords' = InputWords /\ Requested' = Requested
      /\ \A s : CommandWord(s)' = CommandWord(s)
      /\ \A f : LastIn(f)' = LastIn(f)
  BY <1>1, Fixed
<1>3. Typed' /\ Unread' /\ Scanning'
  BY <1>1, <1>2 DEF DInv, Typed, Unread, Scanning
<1>4. LibraryWords' = LibraryWords /\ Pending(items)' = Pending(items)
  BY <1>1, <1>2 DEF LibraryWords, LibraryFiles, Words, Pending
<1>5. Settled(InputWords \o LibraryWords, Pending(items), cfg.on)' <=> Settled(InputWords \o LibraryWords, Pending(items), cfg.on)
  BY <1>1, <1>2, <1>4 DEF Settled
<1>6. Judged' <=> Judged
  BY <1>1, <1>2 DEF Judged
<1>7. Compiling'
  BY <1>1, <1>2, <1>5, <1>6 DEF DInv, Compiling
<1>8. QED
  BY <1>3, <1>7 DEF DInv

(* The files of the second pass that are not inputs hold the words after. *)
LEMMA LibraryWordsLast ==
  ASSUME sources \in SourceTrees, NEW fs \in Seq(Paths), NEW ins \in Seq(Paths),
         Len(ins) <= Len(fs), \A k \in 1 .. Len(ins) : fs[k] = ins[k]
  PROVE  LET lib == SubSeq(fs, Len(ins) + 1, Len(fs))
         IN  lib \in Seq(Paths) /\ Words(fs) = Words(ins) \o Words(lib)
<1> DEFINE m == Len(ins)
           n == Len(fs)
           lib == SubSeq(fs, m + 1, n)
<1>1. m \in Nat /\ n \in Nat /\ m <= n
  BY LenProperties
<1>2. \A i \in 1 .. n : fs[i] \in Paths
  BY ElementOfSeq
<1>3. lib \in Seq(Paths)
  <2>1. m + 1 \in Int /\ n \in Int /\ \A i \in m + 1 .. n : fs[i] \in Paths
    BY SMTT(60), <1>1, <1>2
  <2> HIDE DEF m, n
  <2>2. QED
    BY <2>1, SubSeqProperties
<1>4. fs = ins \o lib
  <2>1. SubSeq(fs, 1, m) \o SubSeq(fs, m + 1, n) = SubSeq(fs, 1, n)
    <3>1. 1 \in 1 .. n + 1 /\ m \in 1 - 1 .. n /\ n \in m .. n
      BY <1>1
    <3> HIDE DEF m
    <3>2. QED
      BY <3>1, ConcatAdjacentSubSeq
  <2>2. SubSeq(fs, 1, n) = fs
    BY SubSeqFull
  <2>3. SubSeq(fs, 1, m) = ins
    <3> DEFINE u == SubSeq(fs, 1, m)
    <3>1. 1 \in Int /\ m \in Int /\ \A i \in 1 .. m : fs[i] \in Paths
      BY <1>1, <1>2
    <3>2. /\ u \in Seq(Paths) /\ Len(u) = IF 1 <= m THEN m - 1 + 1 ELSE 0
          /\ \A i \in 1 .. m - 1 + 1 : u[i] = fs[1 + i - 1]
      <4> HIDE DEF m
      <4>1. QED
        BY <3>1, SubSeqProperties
    <3> HIDE DEF u
    <3>3. Len(u) = m /\ \A i \in 1 .. m : u[i] = ins[i]
      BY <1>1, <3>2
    <3>4. u = ins
      BY <3>2, <3>3, SeqEqual
    <3>5. QED
      BY <3>4 DEF u
  <2>4. QED
    BY <2>1, <2>2, <2>3
<1> HIDE DEF lib
<1>5. Words(ins \o lib) = Words(ins) \o Words(lib)
  <2>1. ins \o lib \in Seq(Paths)
    BY <1>3, ConcatProperties
  <2>2. Through(WordsIn, ins \o lib) = Through(WordsIn, ins) \o Through(WordsIn, lib)
    <3>1. \A u, v \in Seq(Paths) : Through(WordsIn, u \o v) = Through(WordsIn, u) \o Through(WordsIn, v)
      <4>1. Gives(WordsIn, Paths, Argument)
        BY ReadTyped
      <4>2. QED
        BY <4>1, ThroughConcat
    <3>2. QED
      BY <1>3, <3>1
  <2>3. QED
    BY <1>3, <2>1, <2>2, WordsIs
<1>6. QED
  BY <1>3, <1>4, <1>5 DEF lib

(* The words of the inputs are arguments. *)
LEMMA WordsTyped ==
  ASSUME sources \in SourceTrees, cmd.inputs \in Seq(Paths)
  PROVE  InputWords \in Seq(Argument)
BY WordsIs, EmptySeq DEF InputWords

(* The second pass starts with the settings as the first has left them. *)
LEMMA SecondPass ==
  ASSUME DInv, phase = "scan", items = <<>>,
         NEW fs, IsSequence(fs), \A k \in DOMAIN fs : fs[k] \in DOMAIN sources,
         Extended(fs, cmd.inputs, {Libraries[l] : l \in ToSet(cfg.libs)}),
         BeginPass(cfg, "compile", fs)
  PROVE  DInv'
<1>1. Typed /\ files = cmd.inputs /\ Settled(InputWords, Pending(items), cfg.on)
      /\ Requested = ToSet(cfg.libs) \cup LibsIn(Pending(items))
  BY DEF DInv, Scanning
<1>2. Typed /\ sources \in SourceTrees /\ cmd.inputs \in Seq(Paths) /\ IsConfig(cfg)
  BY <1>1 DEF Typed
<1>3. Pending(items) = <<>>
  BY ThroughNone DEF Pending
<1>4. \A s \in Settings : s \in cfg.on <=> LastWord(InputWords, s, CommandWord(s))
  <2> SUFFICES ASSUME NEW s \in Settings PROVE s \in cfg.on <=> LastWord(InputWords, s, CommandWord(s))
    OBVIOUS
  <2>1. LastWord(<<>>, s, s \in cfg.on) = (s \in cfg.on)
    BY LastWordNone
  <2>2. LastWord(<<>>, s, s \in cfg.on) <=> LastWord(InputWords, s, CommandWord(s))
    BY <1>1, <1>3 DEF Settled
  <2>3. QED
    BY <2>1, <2>2
<1>5. Requested = ToSet(cfg.libs)
  <2>1. LibsIn(<<>>) = {}
    BY DEF LibsIn
  <2>2. QED
    BY <1>1, <1>3, <2>1
<1>6. /\ fs \in Seq(Paths) /\ Typed'
      /\ cfg' = cfg /\ phase' = "compile" /\ files' = fs /\ items' = LexFiles(cfg.on, fs)
      /\ typed' <=> <<"F", "typed">> \in cfg.on
      /\ UNCHANGED <<sources, args, cmd, checked, blame>>
      /\ Pending(items)' = IF NoDirectives \in cfg.on THEN <<>> ELSE Words(fs)
  BY <1>2, PassBegins
<1>7. /\ Paths' = Paths
      /\ InputWords' = InputWords /\ Requested' = Requested
      /\ \A s : CommandWord(s)' = CommandWord(s)
      /\ \A f : LastIn(f)' = LastIn(f)
  BY <1>6, Fixed
<1> DEFINE lib == SubSeq(fs, Len(cmd.inputs) + 1, Len(fs))
<1>8. lib \in Seq(Paths) /\ Words(fs) = Words(cmd.inputs) \o Words(lib)
  BY <1>2, <1>6, LibraryWordsLast DEF Extended
<1>9. LibraryFiles' = lib
  BY <1>6 DEF LibraryFiles
<1> HIDE DEF lib
<1>10. {<<"F", "typed">>, <<"F", "c-comments">>, NoDirectives} \subseteq Settings
  BY DEF NoDirectives, Settings, F, Features
<1>11. NoDirectives \in cfg.on <=> LastWord(InputWords, NoDirectives, CommandWord(NoDirectives))
  BY <1>4, <1>10
<1>12. LibraryWords' = IF NoDirectives \in cfg.on THEN <<>> ELSE Words(lib)
  <2>2. LibraryWords' = IF LastWord(InputWords, NoDirectives, CommandWord(NoDirectives)) THEN <<>> ELSE Words(LibraryFiles)'
    BY <1>7 DEF LibraryWords
  <2>3. Words(LibraryFiles)' = Words(lib)
    BY <1>6, <1>9 DEF Words
  <2>4. QED
    BY <1>11, <2>2, <2>3
<1>13. InputWords \in Seq(Argument) /\ Words(cmd.inputs) \in Seq(Argument) /\ Words(lib) \in Seq(Argument)
  BY <1>2, <1>8, WordsTyped, WordsIs
<1>14. ASSUME NEW s \in Settings
       PROVE  LastWord(Pending(items)', s, s \in cfg.on) <=> LastWord(InputWords \o LibraryWords', s, CommandWord(s))
  <2>1. CASE NoDirectives \in cfg.on
    <3>1. Pending(items)' = <<>> /\ InputWords \o LibraryWords' = InputWords
      BY <1>6, <1>12, <1>13, <2>1, ConcatEmptySeq
    <3>2. LastWord(<<>>, s, s \in cfg.on) = (s \in cfg.on)
      BY LastWordNone
    <3>3. QED
      BY <1>4, <3>1, <3>2
  <2>2. CASE NoDirectives \notin cfg.on
    <3>1. ~CommandWord(NoDirectives)
      <4>1. CommandWord(NoDirectives) => InputWords = <<>>
        BY DEF InputWords
      <4>2. LastWord(<<>>, NoDirectives, CommandWord(NoDirectives)) = CommandWord(NoDirectives)
        BY LastWordNone
      <4>3. QED
        BY <1>11, <2>2, <4>1, <4>2
    <3>2. InputWords = Words(cmd.inputs)
      BY <3>1 DEF InputWords
    <3>3. Pending(items)' = InputWords \o Words(lib) /\ LibraryWords' = Words(lib)
      BY <1>6, <1>8, <1>12, <2>2, <3>2
    <3>4. \A was : LastWord(InputWords \o Words(lib), s, was) = LastWord(Words(lib), s, LastWord(InputWords, s, was))
      <4>1. \A u, v \in Seq(Argument) : \A was : LastWord(u \o v, s, was) = LastWord(v, s, LastWord(u, s, was))
        BY LastWordConcat
      <4>2. QED
        BY <1>13, <4>1
    <3>5. LastWord(InputWords, s, s \in cfg.on) = LastWord(InputWords, s, CommandWord(s))
      <4>1. CommandWord(s) \in BOOLEAN
        BY DEF CommandWord
      <4>2. LastWord(InputWords, s, CommandWord(s)) \in BOOLEAN
        BY <4>1, LastWordBoolean
      <4>3. (s \in cfg.on) = LastWord(InputWords, s, CommandWord(s))
        BY <1>4, <4>2
      <4>4. LastWord(InputWords, s, LastWord(InputWords, s, CommandWord(s))) = LastWord(InputWords, s, CommandWord(s))
        BY LastWordTwice
      <4>5. QED
        BY <4>3, <4>4
    <3>6. LastWord(InputWords \o Words(lib), s, s \in cfg.on) = LastWord(InputWords \o Words(lib), s, CommandWord(s))
      BY <3>4, <3>5
    <3>7. QED
      BY <3>3, <3>6
  <2>3. QED
    BY <2>1, <2>2
<1>15. Settled(InputWords \o LibraryWords, Pending(items), cfg.on)'
  BY <1>6, <1>7, <1>14 DEF Settled
<1>16. typed' <=> LastIn("typed")'
  BY <1>4, <1>6, <1>7, <1>10 DEF LastIn
<1>17. Judged'
  <2> SUFFICES ASSUME NEW f \in ToSet(cmd.inputs), NEW j \in DOMAIN sources[f],
                      sources[f][j].needs \in Lexical, ~LastIn(sources[f][j].needs)
               PROVE  \E i \in ToSet(items') : i.kind = "junk"
    BY <1>6, <1>7 DEF Judged
  <2>1. <<"F", sources[f][j].needs>> \notin cfg.on
    BY <1>4, <1>10 DEF Lexical, LastIn
  <2>2. f \in ToSet(fs)
    BY DEF Extended
  <2>3. QED
    BY <1>2, <1>6, <2>1, <2>2, UnreadIsJunk
<1>18. Compiling'
  BY <1>2, <1>5, <1>6, <1>7, <1>15, <1>16, <1>17 DEF Compiling
<1>19. Unread' /\ Scanning'
  BY <1>6 DEF Unread, Scanning
<1>20. QED
  BY <1>6, <1>18, <1>19 DEF DInv

(* EndScan preserves the invariant: the second pass begins. *)
LEMMA EndScanStep ==
  ASSUME DInv, EndScan
  PROVE  DInv'
<1> DEFINE libs == ToSet(cfg.libs)
<1>1. phase = "scan" /\ items = <<>>
  BY DEF EndScan
<1>2. files = cmd.inputs /\ files \in Seq(Paths) /\ IsSequence(cfg.libs)
  BY <1>1 DEF DInv, Scanning, Typed, IsConfig
<1>3. \/ Fail(Junk)
      \/ \E order \in SetToSeqs(libs) : BeginPass(cfg, "compile", AddLibraries(cmd.inputs, order))
  BY DEF EndScan
<1>4. CASE Fail(Junk)
  BY <1>4, JunkTyped, FailKeeps
<1>5. ASSUME NEW order \in SetToSeqs(libs), BeginPass(cfg, "compile", AddLibraries(cmd.inputs, order))
      PROVE  DInv'
  <2> DEFINE fs == AddLibraries(cmd.inputs, order)
             P == Paths \cup {Libraries[l] : l \in libs}
             n == Cardinality(libs)
  <2>1. ToSet(order) = libs /\ DOMAIN order = 1 .. n /\ n \in Nat
    BY <1>2, FiniteElements, OrderIsAll
  <2>2. cmd.inputs \in Seq(P) /\ \A k \in 1 .. n : Libraries[order[k]] \in P
    <3>1. cmd.inputs \in Seq(P)
      BY <1>2, SeqMonotonic
    <3>2. \A k \in 1 .. n : order[k] \in libs
      BY <2>1 DEF ToSet
    <3>3. QED
      BY <3>1, <3>2
  <2> HIDE DEF P, n
  <2>3. fs \in Seq(P) /\ Extended(fs, cmd.inputs, {Libraries[l] : l \in ToSet(order)})
    BY <2>1, <2>2, LibrariesAdded
  <2> HIDE DEF fs
  <2>4. IsSequence(fs) /\ Extended(fs, cmd.inputs, {Libraries[l] : l \in ToSet(cfg.libs)})
    BY <2>1, <2>3, SeqIsSequence
  <2>5. BeginPass(cfg, "compile", fs)
    BY <1>5 DEF fs
  <2>6. CASE \E k \in DOMAIN fs : fs[k] \notin DOMAIN sources
    <3>1. Fail(Junk)
      BY <2>5, <2>6 DEF BeginPass
    <3>2. QED
      BY <3>1, JunkTyped, FailKeeps
  <2>7. CASE \A k \in DOMAIN fs : fs[k] \in DOMAIN sources
    BY <1>1, <2>4, <2>5, <2>7, SecondPass
  <2>8. QED
    BY <2>6, <2>7
<1>6. QED
  BY <1>3, <1>4, <1>5

-----------------------------------------------------------------------------
(* The invariant holds, and what the driver promises follows from it. *)

(* The invariant holds at first. *)
LEMMA DInvInit ==
  ASSUME Init
  PROVE  DInv
<1>1. /\ sources \in SourceTrees /\ args \in CommandLines /\ cmd = NoCommand
      /\ cfg = [on |-> Defaults, libs |-> <<>>, linker |-> <<>>]
      /\ phase = "args" /\ files = <<>> /\ items = <<>>
      /\ typed = FALSE /\ checked = FALSE /\ blame = Junk
  BY DEF Init
<1>2. IsSequence(args) /\ IsCommand(cmd) /\ IsConfig(cfg)
  BY <1>1, DriverAssumption, StartTyped, DefaultsAreSettings, EmptyIsSequence DEF IsConfig
<1>3. files \in Seq(Paths) /\ items \in Seq(Item) /\ ToSet(items) = {}
  BY <1>1, EmptySeq DEF ToSet
<1>4. Typed
  BY <1>1, <1>2, <1>3, JunkTyped DEF Typed
<1>5. QED
  BY <1>1, <1>4 DEF DInv, Unread, Scanning, Compiling

(* The invariant stays when nothing changes. *)
LEMMA DInvStays ==
  ASSUME DInv, UNCHANGED vars
  PROVE  DInv'
<1>1. UNCHANGED <<sources, args, cmd, cfg, phase, files, items, typed, checked, blame>>
  BY DEF vars
<1>2. /\ Paths' = Paths /\ Item' = Item /\ ArgsOf' = ArgsOf
      /\ InputWords' = InputWords /\ Requested' = Requested
      /\ \A s : CommandWord(s)' = CommandWord(s)
      /\ \A f : LastIn(f)' = LastIn(f)
  BY <1>1, Fixed
<1>3. Typed' /\ Unread'
  BY <1>1, <1>2 DEF DInv, Typed, Unread
<1>4. LibraryWords' = LibraryWords /\ Pending(items)' = Pending(items) /\ LibsIn(Pending(items))' = LibsIn(Pending(items))
  BY <1>1, <1>2 DEF LibraryWords, LibraryFiles, Words, Pending, LibsIn
<1>5. /\ Settled(InputWords \o LibraryWords, Pending(items), cfg.on)' <=> Settled(InputWords \o LibraryWords, Pending(items), cfg.on)
      /\ Settled(InputWords, Pending(items), cfg.on)' <=> Settled(InputWords, Pending(items), cfg.on)
  BY <1>1, <1>2, <1>4 DEF Settled
<1>6. Judged' <=> Judged
  BY <1>1, <1>2 DEF Judged
<1>7. Scanning'
  BY <1>1, <1>2, <1>4, <1>5 DEF DInv, Scanning
<1>8. Compiling'
  BY <1>1, <1>2, <1>5, <1>6 DEF DInv, Compiling
<1>9. QED
  BY <1>3, <1>7, <1>8 DEF DInv

(* Every step preserves the invariant. *)
LEMMA DInvStep ==
  ASSUME DInv, [Next]_vars
  PROVE  DInv'
BY ParseArgStep, ConfigureStep, ProcessArgStep, DirectiveEndStep, ParseCodeStep, EndScanStep, EndCompileStep,
   DInvStays DEF Next, Exited

(* The inductive invariant is one. *)
THEOREM DriverInvariant == Spec => []DInv
BY DInvInit, DInvStep, PTL DEF Spec

(* What the variables hold. *)
THEOREM DriverTypeCorrect == Spec => []TypeOK
<1>1. DInv => TypeOK
  BY DEF DInv, Typed, IsCommand, IsConfig, TypeOK
<1>2. QED
  BY <1>1, DriverInvariant, PTL

(* Whatever the sources and the command line, the second pass ends with     *)
(* each feature and warning as the last word about it says, in the order of *)
(* the command line, the inputs and the libraries (ApplyStd,                *)
(* SetupFlagGroups and ProcessArgs, called from main and the parser).       *)
THEOREM PassesAreOne == Spec => []TwoPassesAreOne
<1>1. DInv => TwoPassesAreOne
  <2> SUFFICES ASSUME DInv, phase = "generated", NEW s \in Settings
               PROVE  s \in cfg.on <=> LastWord(InputWords \o LibraryWords, s, CommandWord(s))
    BY DEF TwoPassesAreOne
  <2>1. Settled(InputWords \o LibraryWords, Pending(items), cfg.on) /\ items = <<>>
    BY DEF DInv, Compiling
  <2>2. Pending(items) = <<>>
    BY <2>1, ThroughNone DEF Pending
  <2>3. LastWord(<<>>, s, s \in cfg.on) = (s \in cfg.on)
    BY LastWordNone
  <2>4. LastWord(<<>>, s, s \in cfg.on) <=> LastWord(InputWords \o LibraryWords, s, CommandWord(s))
    BY <2>1, <2>2 DEF Settled
  <2>5. QED
    BY <2>3, <2>4
<1>2. QED
  BY <1>1, DriverInvariant, PTL

(* Every input, and every library that the command line or an input asks    *)
(* for, is compiled, in whatever order the map of libraries is walked       *)
(* (processInputFiles).                                                     *)
THEOREM AllRequestsCompiled == Spec => []RequestsCompiled
<1>1. DInv => RequestsCompiled
  BY DEF DInv, Compiling, Extended, RequestsCompiled
<1>2. QED
  BY <1>1, DriverInvariant, PTL

(* What libraries do not speak of is as the first pass left it. *)
LEMMA QuietIsLastIn ==
  ASSUME DInv, phase = "generated", NEW f, <<"F", f>> \in Settings, LibrariesQuiet(f)
  PROVE  <<"F", f>> \in cfg.on <=> LastIn(f)
<1> DEFINE s == <<"F", f>>
<1>1. /\ sources \in SourceTrees /\ cmd.inputs \in Seq(Paths) /\ files \in Seq(Paths)
      /\ Extended(files, cmd.inputs, {Libraries[l] : l \in Requested})
      /\ Settled(InputWords \o LibraryWords, Pending(items), cfg.on) /\ items = <<>>
  BY DEF DInv, Typed, Compiling
<1>2. s \in cfg.on <=> LastWord(InputWords \o LibraryWords, s, CommandWord(s))
  <2>1. Pending(items) = <<>>
    BY <1>1, ThroughNone DEF Pending
  <2>2. LastWord(<<>>, s, s \in cfg.on) = (s \in cfg.on)
    BY LastWordNone
  <2>3. LastWord(<<>>, s, s \in cfg.on) <=> LastWord(InputWords \o LibraryWords, s, CommandWord(s))
    BY <1>1, <2>1 DEF Settled
  <2>4. QED
    BY <2>2, <2>3
<1>3. InputWords \in Seq(Argument) /\ LibraryWords \in Seq(Argument)
  <2>1. LibraryFiles \in Seq(Paths)
    BY <1>1, LibraryWordsLast DEF Extended, LibraryFiles
  <2>2. Words(LibraryFiles) \in Seq(Argument)
    BY <1>1, <2>1, WordsIs
  <2>3. QED
    BY <1>1, <2>2, WordsTyped, EmptySeq DEF LibraryWords
<1>4. LastWord(InputWords \o LibraryWords, s, CommandWord(s)) = LastWord(LibraryWords, s, LastWord(InputWords, s, CommandWord(s)))
  <2>1. \A u, v \in Seq(Argument) : LastWord(u \o v, s, CommandWord(s)) = LastWord(v, s, LastWord(u, s, CommandWord(s)))
    BY LastWordConcat
  <2>2. QED
    BY <1>3, <2>1
<1>5. LastWord(LibraryWords, s, LastWord(InputWords, s, CommandWord(s))) = LastWord(InputWords, s, CommandWord(s))
  BY LastWordNone DEF LibrariesQuiet
<1>6. QED
  BY <1>2, <1>4, <1>5 DEF LastIn

(* Unless a library says something of types, the tree was parsed with them  *)
(* exactly when it is type checked (isTypedPass and main's recheck).        *)
THEOREM ParsedLikeChecked == Spec => []ParsedAsChecked
<1>1. DInv => ParsedAsChecked
  <2> SUFFICES ASSUME DInv, phase = "generated", LibrariesQuiet("typed")
               PROVE  typed <=> checked
    BY DEF ParsedAsChecked
  <2>1. <<"F", "typed">> \in Settings
    BY DEF Settings, F, Features
  <2>2. QED
    BY <2>1, QuietIsLastIn DEF DInv, Compiling
<1>2. QED
  BY <1>1, DriverInvariant, PTL

(* Unless a library says something of it, what an input needs to be read so *)
(* is on when the code is generated (the second readAndTokenizeFiles).      *)
THEOREM InputsAllowed == Spec => []CompiledAsAllowed
<1>1. DInv => CompiledAsAllowed
  <2> SUFFICES ASSUME DInv, phase = "generated", NEW f \in ToSet(cmd.inputs), NEW j \in DOMAIN sources[f],
                      sources[f][j].needs \in Lexical, LibrariesQuiet(sources[f][j].needs)
               PROVE  <<"F", sources[f][j].needs>> \in cfg.on
    BY DEF CompiledAsAllowed
  <2>1. <<"F", sources[f][j].needs>> \in Settings
    BY DEF Settings, F, Features, Lexical
  <2>2. Judged /\ items = <<>>
    BY DEF DInv, Compiling
  <2>3. LastIn(sources[f][j].needs)
    BY <2>2 DEF Judged, ToSet
  <2>4. QED
    BY <2>1, <2>3, QuietIsLastIn
<1>2. QED
  BY <1>1, DriverInvariant, PTL
=============================================================================
