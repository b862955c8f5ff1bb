-------------------------------- MODULE Driver -------------------------------
(***************************************************************************)
(* cmd/gbc: the command line, the configuration it makes, and the two      *)
(* passes over the source files.  The first pass is made for the           *)
(* directives in the files, which change the configuration and ask for     *)
(* libraries; the second lexes and parses everything again, libraries      *)
(* included, with the configuration the first has left.                    *)
(***************************************************************************)
EXTENDS Naturals, Sequences, FiniteSets, SequencesExt

CONSTANTS
  SourceTrees,   \* what the files may hold: for each path a sequence of items
  Libraries,     \* the path findLibrary finds for a library name
  CommandLines   \* sequences of arguments

-----------------------------------------------------------------------------
(* Settings: features and warnings, by their names on the command line. *)

Features == {"extrn", "asm", "b-esc", "c-esc", "b-ops", "c-ops", "c-comments", "typed",
             "short-decl", "bx-decl", "allow-uninitialized", "strict-decl", "no-directives",
             "continue", "float", "strict-types", "prom-types"}
Warnings == {"c-esc", "b-esc", "b-ops", "c-ops", "u-esc", "truncated-char", "long-char-const",
             "c-comments", "overflow", "pedantic", "unreachable-code", "implicit-decl", "extra",
             "float", "local-address", "debug-comp", "prom-types"}
F(names) == {"F"} \X names
W(names) == {"W"} \X names
Settings == F(Features) \cup W(Warnings)

Defaults ==
  F({"extrn", "asm", "c-esc", "c-ops", "c-comments", "typed", "short-decl", "bx-decl",
     "allow-uninitialized", "continue", "float"})
  \cup W({"b-esc", "b-ops", "u-esc", "truncated-char", "long-char-const", "overflow",
          "unreachable-code", "implicit-decl", "extra", "local-address", "prom-types"})

(* ApplyStd sets every feature, and the warnings about the other standard. *)
StdFeatures(std, pedantic) ==
  LET unless == IF pedantic THEN {} ELSE {"c-ops", "c-esc", "c-comments", "extrn", "asm"}
  IN  IF std = "B" THEN F({"allow-uninitialized", "b-ops", "b-esc"} \cup unless)
      ELSE F({"c-ops", "c-esc", "c-comments", "extrn", "asm", "typed", "short-decl", "bx-decl",
              "continue", "float", IF pedantic THEN "strict-decl" ELSE "allow-uninitialized"})
StdWarnings(std) == IF std = "B" THEN W({"c-ops", "c-esc", "c-comments", "float"})
                                 ELSE W({"b-ops", "b-esc"})
AllStdWarnings == StdWarnings("B") \cup StdWarnings("Bx")

ApplyStd(on, std, pedantic) ==
  StdFeatures(std, pedantic) \cup StdWarnings(std)
    \cup {s \in on : s[1] = "W" /\ s \notin AllStdWarnings}

-----------------------------------------------------------------------------
(***************************************************************************)
(* An argument, of the command line or of a `requires:' directive:         *)
(*   "on", "off"   -Fname, -Wname and -Fno-name, -Wno-name                 *)
(*   "lib"         -l                                                      *)
(*   "link"        -L, one linker argument                                 *)
(*   "compiler"    -C linker_args=, the linker arguments in it             *)
(*   "std", "pedantic", "file"   the command line's only                   *)
(* An item of a source file: a directive with its arguments, or code that  *)
(* is in error without a feature, or needs none: a declaration "int x;" in *)
(* a function needs typed, a // comment c-comments.                        *)
(***************************************************************************)
Arg(kind, value) == [kind |-> kind, value |-> value]
Directive(args) == [kind |-> "directive", args |-> args, needs |-> "nothing"]
Code(feature) == [kind |-> "code", args |-> <<>>, needs |-> feature]
Junk == [kind |-> "junk", args |-> <<>>, needs |-> "nothing"]

(* A file is a sequence of directives and code, a command line of arguments. *)
IsSequence(s) == Len(s) \in Nat /\ s = [k \in 1 .. Len(s) |-> s[k]]
IsItem(i) == \/ IsSequence(i.args) /\ i = Directive(i.args)
             \/ i.needs \in Features \cup {"nothing"} /\ i = Code(i.needs)

ASSUME DriverAssumption ==
  /\ \A t \in SourceTrees : /\ t = [p \in DOMAIN t |-> t[p]]
                            /\ \A p \in DOMAIN t : /\ IsSequence(t[p])
                                                  /\ \A j \in DOMAIN t[p] : IsItem(t[p][j])
  /\ \A c \in CommandLines : IsSequence(c)

(* Whether a feature is asked for while the text is cut into tokens. *)
Lexical == {"typed", "c-comments"}

VARIABLES
  sources,  \* the files
  args,     \* what is left of the command line
  cmd,      \* the variables of main the command line has set
  cfg,      \* the configuration: what is on, LibRequests and LinkerArgs
  phase,    \* "args", "scan" and "compile" (the passes), "generated" or "error"
  files,    \* the files of this pass
  items,    \* what is left of the tokens of this pass, as items
  typed,    \* the parser's isTypedPass
  checked,  \* whether the type checker ran
  blame     \* where an error was found: the item, if there is one

vars == <<sources, args, cmd, cfg, phase, files, items, typed, checked, blame>>

NoCommand == [std |-> "Bx", pedantic |-> FALSE, on |-> {}, off |-> {},
              libs |-> <<>>, linker |-> <<>>, compiler |-> <<>>, inputs |-> <<>>]

Init == /\ sources \in SourceTrees
        /\ args \in CommandLines
        /\ cmd = NoCommand
        /\ cfg = [on |-> Defaults, libs |-> <<>>, linker |-> <<>>]
        /\ phase = "args" /\ files = <<>> /\ items = <<>>
        /\ typed = FALSE /\ checked = FALSE /\ blame = Junk

(* util.Error, or an error returned to main: the process exits. *)
Fail(item) == /\ phase' = "error" /\ blame' = item
              /\ UNCHANGED <<sources, args, cmd, cfg, files, items, typed, checked>>

(* Bug: names of settings are not looked up. *)
KnownAny(a) == a.kind \in {"on", "off", "lib", "link", "compiler", "std", "pedantic", "file"}

(* FlagSet.Parse: one argument. *)
Known(a) == \/ a.kind \in {"on", "off"} /\ a.value \in Settings
            \/ a.kind \in {"lib", "link", "compiler", "std", "pedantic", "file"}

Take(a) == CASE a.kind = "on" -> [cmd EXCEPT !.on = @ \cup {a.value}]
             [] a.kind = "off" -> [cmd EXCEPT !.off = @ \cup {a.value}]
             [] a.kind = "lib" -> [cmd EXCEPT !.libs = Append(@, a.value)]
             [] a.kind = "link" -> [cmd EXCEPT !.linker = Append(@, a.value)]
             [] a.kind = "compiler" -> [cmd EXCEPT !.compiler = @ \o a.value]
             [] a.kind = "std" -> [cmd EXCEPT !.std = a.value]
             [] a.kind = "pedantic" -> [cmd EXCEPT !.pedantic = TRUE]
             [] a.kind = "file" -> [cmd EXCEPT !.inputs = Append(@, a.value)]

ParseArg ==
  /\ phase = "args" /\ args # <<>>
  /\ IF ~Known(Head(args)) THEN Fail(Junk) ELSE
     /\ cmd' = Take(Head(args)) /\ args' = Tail(args)
     /\ UNCHANGED <<sources, cfg, phase, files, items, typed, checked, blame>>

(* Bug: what is enabled is applied after what is disabled. *)
DisabledFirst(base) == (base \ cmd.off) \cup Defaults \cup cmd.on

(* The flag groups: what is enabled, then what is disabled.  The flags that
   enable start out as the defaults of SetupFlagGroups.                      *)
FlagGroups(base) == (base \cup Defaults \cup cmd.on) \ cmd.off

(* Bug: the lexer goes by the default features. *)
LexDefault(on, i) ==
  IF i.kind = "directive" /\ <<"F", "no-directives">> \notin on THEN <<i>>
  ELSE IF i.kind = "directive" THEN <<>>
  ELSE <<i>>

(* The tokens of a file under the settings on: a directive is a comment when
   directives are off, and code that needs a feature reads as junk without. *)
LexItem(on, i) ==
  IF i.kind = "directive" /\ <<"F", "no-directives">> \notin on THEN <<i>>
  ELSE IF i.kind = "directive" THEN
         IF <<"F", "c-comments">> \in on THEN <<>> ELSE <<Junk>>
  ELSE IF i.needs \in Lexical /\ <<"F", i.needs>> \notin on
       THEN <<[i EXCEPT !.kind = "junk"]>>
  ELSE <<i>>

LexFiles(on, fs) ==
  FlattenSeq([k \in DOMAIN fs |->
    FlattenSeq([j \in DOMAIN sources[fs[k]] |-> LexItem(on, sources[fs[k]][j])])])

(* Bug: the second parser is still told what the command line said of types. *)
TypedOnce(c, p, fs) ==
  IF \E k \in DOMAIN fs : fs[k] \notin DOMAIN sources THEN Fail(Junk) ELSE
  /\ cfg' = c /\ phase' = p /\ files' = fs
  /\ items' = LexFiles(c.on, fs)
  /\ typed' = IF p = "scan" THEN <<"F", "typed">> \in c.on ELSE typed
  /\ UNCHANGED <<sources, args, cmd, checked, blame>>

(* readAndTokenizeFiles and NewParser: a pass over the files fs. *)
BeginPass(c, p, fs) ==
  IF \E k \in DOMAIN fs : fs[k] \notin DOMAIN sources THEN Fail(Junk) ELSE
  /\ cfg' = c /\ phase' = p /\ files' = fs
  /\ items' = LexFiles(c.on, fs)
  /\ typed' = (<<"F", "typed">> \in c.on)
  /\ UNCHANGED <<sources, args, cmd, checked, blame>>

Configure ==
  /\ phase = "args" /\ args = <<>>
  /\ IF cmd.std \notin {"B", "Bx"} THEN Fail(Junk) ELSE
     LET pedantic == IF cmd.pedantic THEN W({"pedantic"}) ELSE {}
         std == ApplyStd(cfg.on \cup pedantic, cmd.std, cmd.pedantic)
     IN  BeginPass([on |-> FlagGroups(std), libs |-> cmd.libs,
                    linker |-> cmd.linker \o cmd.compiler],
                   "scan", cmd.inputs)

-----------------------------------------------------------------------------
(* The parser's loop over top-level items, in either pass. *)

Parsing == phase \in {"scan", "compile"} /\ items # <<>>
ThisItem == Head(items)

(* ProcessArgs: one argument of a directive changes the configuration. *)
Allowed(a) == \/ a.kind \in {"on", "off"} /\ a.value \in Settings
              \/ a.kind \in {"lib", "link", "compiler"}

Change(c, a) == CASE a.kind = "on" -> [c EXCEPT !.on = @ \cup {a.value}]
                  [] a.kind = "off" -> [c EXCEPT !.on = @ \ {a.value}]
                  [] a.kind = "lib" -> [c EXCEPT !.libs = Append(@, a.value)]
                  [] a.kind = "link" -> [c EXCEPT !.linker = Append(@, a.value)]
                  [] a.kind = "compiler" -> [c EXCEPT !.linker = @ \o a.value]

ProcessArg ==
  /\ Parsing /\ ThisItem.kind = "directive" /\ ThisItem.args # <<>>
  /\ IF ~Allowed(Head(ThisItem.args)) THEN Fail(ThisItem) ELSE
     /\ cfg' = Change(cfg, Head(ThisItem.args))
     /\ items' = <<[ThisItem EXCEPT !.args = Tail(@)]>> \o Tail(items)
     /\ UNCHANGED <<sources, args, cmd, phase, files, typed, checked, blame>>

DirectiveEnd ==
  /\ Parsing /\ ThisItem.kind = "directive" /\ ThisItem.args = <<>>
  /\ items' = Tail(items)
  /\ UNCHANGED <<sources, args, cmd, cfg, phase, files, typed, checked, blame>>

(* Code is refused when its words did not become the tokens it needs, or when
   the parser does not allow it: types by the pass, the rest as things stand. *)
Accepts(i) == /\ i.kind # "junk"
              /\ CASE i.needs \in {"nothing", "c-comments"} -> TRUE
                   [] i.needs = "typed" -> typed
                   [] OTHER -> <<"F", i.needs>> \in cfg.on

ParseCode ==
  /\ Parsing /\ ThisItem.kind \in {"code", "junk"}
  /\ IF ~Accepts(ThisItem) THEN Fail(ThisItem) ELSE
     /\ items' = Tail(items)
     /\ UNCHANGED <<sources, args, cmd, cfg, phase, files, typed, checked, blame>>

-----------------------------------------------------------------------------
(* Bug: a library is added although it is among the files already. *)
AddAgain(fs, libs) == fs \o [k \in DOMAIN libs |-> Libraries[libs[k]]]

(* The files of the second pass: libraries are taken from a map, in any order,
   and one that is found at the path of a file already there is left out.      *)
AddLibraries(fs, libs) ==
  FoldLeft(LAMBDA acc, l : IF \E k \in DOMAIN acc : acc[k] = Libraries[l] THEN acc
                           ELSE Append(acc, Libraries[l]), fs, libs)

EndScan ==
  /\ phase = "scan" /\ items = <<>>
  /\ LET libs == ToSet(cfg.libs)
     IN  IF \E l \in libs : l \notin DOMAIN Libraries THEN Fail(Junk) ELSE
         \E order \in SetToSeqs(libs) :
           LET fs == AddLibraries(cmd.inputs, order)
           IN  IF fs = <<>> THEN Fail(Junk) ELSE BeginPass(cfg, "compile", fs)

(* The type checker runs if types are on now; then code is generated. *)
EndCompile ==
  /\ phase = "compile" /\ items = <<>>
  /\ phase' = "generated"
  /\ checked' = (<<"F", "typed">> \in cfg.on)
  /\ UNCHANGED <<sources, args, cmd, cfg, files, items, typed, blame>>

Exited == phase \in {"generated", "error"} /\ UNCHANGED vars

Next == \/ ParseArg \/ Configure
        \/ ProcessArg \/ DirectiveEnd \/ ParseCode
        \/ EndScan \/ EndCompile
        \/ Exited

Spec == Init /\ [][Next]_vars

-----------------------------------------------------------------------------
(* Properties *)

Paths == DOMAIN sources
Argument == UNION {UNION {{a[k] : k \in DOMAIN a} : a \in {sources[p][j].args : j \in DOMAIN sources[p]}} : p \in Paths}
Item == [kind : {"directive", "code", "junk"}, args : Seq(Argument),
         needs : Features \cup {"nothing"}]

TypeOK ==
  /\ cmd.on \subseteq Settings /\ cmd.off \subseteq Settings
  /\ cfg.on \subseteq Settings
  /\ phase \in {"args", "scan", "compile", "generated", "error"}
  /\ files \in Seq(Paths)
  /\ items \in Seq(Item) /\ blame \in Item
  /\ typed \in BOOLEAN /\ checked \in BOOLEAN

NoDirectives == <<"F", "no-directives">>

(* The arguments of the directives of the files fs, in order. *)
Words(fs) ==
  FlattenSeq([k \in DOMAIN fs |->
    FlattenSeq([j \in DOMAIN sources[fs[k]] |-> sources[fs[k]][j].args])])

(* What the last word on s says, or else what it was. *)
LastWord(words, s, was) ==
  LET said == {k \in DOMAIN words : words[k].kind \in {"on", "off"} /\ words[k].value = s}
  IN  IF said = {} THEN was ELSE words[Max(said)].kind = "on"

CommandWord(s) ==
  /\ s \notin cmd.off
  /\ \/ s \in cmd.on \cup Defaults \cup ApplyStd(Defaults, cmd.std, cmd.pedantic)
     \/ s = <<"W", "pedantic">> /\ cmd.pedantic

InputWords == IF CommandWord(NoDirectives) THEN <<>> ELSE Words(cmd.inputs)
LibraryFiles == SubSeq(files, Len(cmd.inputs) + 1, Len(files))
LibraryWords ==
  IF LastWord(InputWords, NoDirectives, CommandWord(NoDirectives)) THEN <<>> ELSE Words(LibraryFiles)

(* Two passes amount to one: code is generated with the settings that the    *)
(* command line, then every directive once, in the order of the files and    *)
(* with those of libraries last, give; a directive may forbid the ones of    *)
(* libraries, but not those in the files it is read with (ApplyStd,          *)
(* SetupFlagGroups and ProcessArgs, called from main and twice from the      *)
(* parser).                                                                  *)
TwoPassesAreOne ==
  phase = "generated" =>
    \A s \in Settings :
      s \in cfg.on <=> LastWord(InputWords \o LibraryWords, s, CommandWord(s))

(* Every input file and every library that the command line or an input      *)
(* file asks for is compiled, each once, though libraries may have several   *)
(* names and may be among the inputs (processInputFiles).                    *)
Requested == ToSet(cmd.libs) \cup {InputWords[k].value : k \in {j \in DOMAIN InputWords : InputWords[j].kind = "lib"}}
RequestsCompiled ==
  phase = "generated" =>
    /\ ToSet(files) = ToSet(cmd.inputs) \cup {Libraries[l] : l \in Requested}
    /\ IsInjective(cmd.inputs) => IsInjective(files)

(* A tree is type checked exactly when it was parsed with types, unless a    *)
(* library turns types on or off at the last moment (isTypedPass, latched    *)
(* when the second pass begins, and main's recheck after it).                *)
LibrariesQuiet(name) ==
  \A k \in DOMAIN LibraryWords : LibraryWords[k].kind \in {"on", "off"} => LibraryWords[k].value # <<"F", name>>
ParsedAsChecked ==
  phase = "generated" /\ LibrariesQuiet("typed") => (typed <=> checked)

(* Nothing is compiled that the final settings would not have read so:       *)
(* input files are read again with what their directives say (the second     *)
(* readAndTokenizeFiles).                                                    *)
CompiledAsAllowed ==
  phase = "generated" =>
    \A f \in ToSet(cmd.inputs) : \A j \in DOMAIN sources[f] :
      LET need == sources[f][j].needs
      IN  need \in Lexical /\ LibrariesQuiet(need) => <<"F", need>> \in cfg.on

(* parser.go, line 413: "'continue' is a Bx extension, not available in      *)
(* -std=B".  So B has it only if a flag or a directive asks for it.          *)
ContinueIsBx ==
  phase = "generated" /\ cmd.std = "B" /\ <<"F", "continue">> \in cfg.on =>
    \/ <<"F", "continue">> \in cmd.on
    \/ Arg("on", <<"F", "continue">>) \in ToSet(Words(files))

(* docs/BX_SPEC.md, Inline Directives: they give fine-grained control of     *)
(* features.  So code is not refused for want of a feature that a directive  *)
(* before it in its file turns on.                                           *)
WordsBefore(f, j) == FlattenSeq([k \in 1 .. j - 1 |-> sources[f][k].args])
DirectivesTakeEffect ==
  phase = "error" /\ blame.needs # "nothing" =>
    \E f \in Paths : \E j \in DOMAIN sources[f] :
      /\ sources[f][j].needs = blame.needs
      /\ ~LastWord(WordsBefore(f, j), <<"F", blame.needs>>, FALSE)
=============================================================================
