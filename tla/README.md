# Verification of gbc

`gbc` compiles B, and the extension of B called Bx, through QBE or LLVM; `gtest`
runs a test suite through it and a reference compiler and compares the two. This
project models both programs in TLA+, checks the models with TLC on small
instances and proves some of the results with TLAPS for every instance. The
modules are written from the Go source; `PROJECT.json` maps each definition to
the lines it stands for, lists the runs, the mutants (a plausible bug for each
property, which TLC must catch), the hazards and the theorems.

Contents: 1 the system, 2 the modules, 3 the runs, 4 the proofs, 5 where the
program and its documents disagree, 6 what is not modelled, 7 the plan.

## 1. The system

`cmd/gbc/main.go` is a sequential pipeline of packages which share one mutable
`config.Config`. Any error goes through `util.Error`, which prints and exits, so
the first error is the last thing that happens.

    command line --> Config --> [ lexer --> parser ] scan pass: directives
                       ^                  |
                       +------------------+   directives change the Config
                       |                      and ask for libraries
                       +--> [ lexer --> parser ] second pass, libraries included
                               --> FoldConstants --> typeChecker (if typed)
                               --> codegen (IR) --> QBE or LLVM --> cc

| component | state it keeps | operations | what makes it right |
|---|---|---|---|
| command line, `pkg/cli` | flag variables, two flag groups | Parse, help | every argument lands in one flag; unknown ones are errors |
| configuration, `pkg/config` | features, warnings, target, libraries, linker arguments | NewConfig, ApplyStd, ProcessArgs, SetTarget | each setting has one value, given by standard, flags and directives in a known order |
| pipeline, `cmd/gbc` | the files and tokens of a pass | two passes, processInputFiles, assembleAndLink | what is compiled was read under the settings it is compiled with; each library once |
| lexer, `pkg/lexer`, `pkg/token` | position, line, column | Next | each text is one sequence of tokens, depending on features only; nothing but blanks and comments is passed over |
| parser, `pkg/parser` | position, current and previous token, type names, isTypedPass | one function for each construct, look-ahead with backtracking | the tree is the one the grammar gives; look-ahead leaves no trace; it ends |
| trees, `pkg/ast` | none | constructors, FoldConstants | folding computes what the program would |
| type checker, `pkg/typeChecker` | scopes, types of symbols and of nodes | Check | names resolve to the innermost declaration; what was declared stays so |
| code generator, statements, `pkg/codegen` | current function and block, label counter, break, continue and case targets | codegenStmt and its handlers | the blocks do what the source says, in order; every jump has its block |
| code generator, data | symbols, frame offsets, temporaries | collectGlobals, findByteArrays, codegenFuncDecl, codegenExpr, codegenLvalue, codegenGlobalVarDecl | objects do not overlap; every access has the width and place of what it accesses; the code computes what the source says |
| IR and back ends, `pkg/ir`, `qbe_backend.go`, `llvm_backend.go` | text under construction; in LLVM the types of the temporaries | Generate | the text means the IR, and the assembler behind it accepts it |
| diagnostics, `pkg/util` | source records | Error, Warn | - |
| test runner, `cmd/gtest` | channels, workers, temporary directory, report, golden files | run the suite, make golden files | each file gets one verdict, and the right one |

How they interact: function calls and the shared `Config` inside gbc, where a tree
is passed on from the parser to the checker, which leaves types on its nodes for the
code generator to read; in gtest a feeder and a pool of goroutines share two
channels, child processes, a directory and a report file with an interrupt handler,
and the report connects one invocation to the next.

What is hard here:

* *Lowering of control flow.* One recursive function with mutable context (the
  current block, which may be absent; targets saved on entry and restored by
  deferred functions; a result saying whether a statement terminates) has to
  agree with the meaning of nested loops, switches, labels and gotos.
* *Types that are guessed and change.* A name without a declared type gets one from
  what is assigned to it, after nodes that mention it were given theirs; widths of
  loads and stores come from nodes, sizes of places from declarations, and places
  are given by name over a whole function although scopes nest.
* *Two assemblers with types of their own.* The IR says the width of an instruction; QBE
  wants a class of every temporary, LLVM a type of every operand, and the back ends
  extend and cast by what they remember of what they wrote.
* *Look-ahead and leniency in the parser.* It reads on and goes back, at commas and
  in declarations; it takes nothing for an expression; operators begin like others.
* *A configuration that changes while it is read.* Directives take effect when
  the parser meets them, after the lexer has cut all files into tokens; every
  file is read twice; two components latch a feature that others read again.
* *Concurrency and failure in the test runner.* Results come from the feeder and
  the workers; nobody receives until all workers are gone; compilers time out;
  files change; the interrupt handler removes the directory under running tests;
  a report may be cut short or not be written at all; cached reference results feed later verdicts.

The hazards in `PROJECT.json` name the line where each of these bites.

## 2. The modules

### Statement lowering: Syntax, Semantics, Source, Lower, LowerRun

`Syntax` describes the statement trees of `pkg/ast` as flat tables: a function
body is a sequence of nodes with a kind, children, parent and label text. An
expression is one observable evaluation; a condition is a tree of `&&` and `||`
over atoms.

`Lower` is the code generator. The Go code recurses over the tree; the model has
an explicit stack of activations, and an action is the part of a Go function
between two recursive calls.

| code | model |
|---|---|
| `ctx.currentFunc`, `ctx.currentBlock`, `ctx.labelCount` | `ir.blocks`, `ir.cur` (0 for nil), `ir.labels` |
| `ctx.breakLabel`, `ctx.continueLabel`, `ctx.switchCaseLabels` | `brk`, `cont`, `cases` |
| the values deferred functions restore | fields `brk`, `cont`, `cases` of an activation, set where the code takes them: `While`, `Switch`, `SwitchBody` |
| result `terminates` | `ret` |
| startBlock, addInstr, newLabel | `StartBlock`, `AddInstr`, `NewLabels` |
| codegenStmt: Block, Return, Goto, Break, Continue, Label, Case and Default, expression | `BlockCall`, `BlockSkip`, `BlockReturn`; `ReturnStmt`; `Goto`; `Break`; `Continue`; `Label`; `CaseOrDefault`; `Landed`; `Expr` |
| codegenIf, codegenWhile | `If` .. `IfEnd`, `While` .. `WhileEnd` |
| codegenSwitch | `Switch`, `SwitchTest` for each comparison, `SwitchBody`, `SwitchEnd` |
| codegenLogicalCond | `CondAtom`, `CondLeft`, `CondRight`, `CondReturn` |
| end of codegenFuncDecl | `FuncEnd` |
| util.Error | `Fail` |

Labels are texts, as in the code: generated ones are `L0`, `L1`, ..., the entry is
`start`, and a label of the program keeps its own text. Nothing in the model keeps
these apart, since nothing in the code does.

`LowerRun` adds what becomes of the output: the back end refuses a function with
a jump to no block or with a block twice (`Assemble`; QBE and LLVM are not in the
repository and are modelled by the use made of them), and an accepted function
runs, with every condition and switch value chosen freely.

`Semantics` says what a body means without any reference to compilation, and
`Source` is the machine that runs it: at an observable point (an expression, an
atomic condition, a switch value, a return, the end) it goes to any point the
outcome allows. `Source` is the abstract specification. `LowerRun` implements it
(`SourceRefined`) under the mapping that takes a position in the code to the node
of the next observable instruction.

*Default cases.* The trees include `default` nodes, although the parser of this
repository never makes one (see the finding in section 5). The code generator is
modelled for all trees the ast package can build, which is its own interface.

### Types, frames, checker, values, back ends: Code, Types, Globals, Frames, Checker, Values, Target, QBE, LLVM, Machine, Meaning, Program

The other half of the compiler: what names, types and expressions become. A program
is one function between globals, with parameters and a flat list of items
(declarations, expressions, returns, blocks opened and closed), as statements'
control flow is `Lower`'s matter.

`Code` has the programs, trees and types; `Types` the sizes, alignments and IR types;
`Globals` what comes before the functions, the byte arrays of B and the values of globals;
`Frames` the frame of a function; `Checker` the type checker; `Values` the code
generator for expressions and local declarations. `QBE` and `LLVM` are the back ends:
instructions of the IR become instructions whose result and operands have types
(`Target`). `Machine` runs what a back end wrote, on a memory of bytes, and `Program` is
the composition, from the checker to that run. `Meaning` says what a
program means without any compiler: variables are objects of cells, a pointer is an
object and a cell, a name is that of the innermost declaration before it.

| code | model |
|---|---|
| getSizeof, getAlignof, ir.GetType, SizeOfType | `SizeOf`, `AlignOf`, `IRType`, `Bytes` |
| findAllAutosInFunc | `FindAuto` |
| the two loops over locals in codegenFuncDecl | `AddSize` and `Alloc`, `PlaceLocal` and `Placed` |
| collectGlobals of the type checker | `CollectGlobal`, `CollectFunction` |
| checkNode over globals, statements and returns | `CheckGlobal`, `CheckItem`, `CheckReturn` |
| enterScope, exitScope, addSymbol, findSymbol | `scopes`, `syms`, `bound` |
| types of nodes and symbols, shared by pointer in Go | `typ`, `cells`: a promoted type is a cell that a later assignment fills in |
| checkExpr's cases, areTypesCompatible, the promotions | `Assign`, `Binary`, `Ternary`, `Index`, `Member`, `Call`; `Compatible`; `Repoints`, `Learned` |
| a checker that recurses without end | `trouble` is "overflow" |
| findByteArrays | `FindBytes`, a pass over the assignments at a time |
| codegenGlobalVarDecl, codegenGlobalConst | `EvalGlobal` and `EmitGlobal` with the data, `InitValue` |
| evalConstExpr, FoldConstants | `EvalCall`, a call at a time, and `EvalConst`; `Fold` |
| codegenExpr, codegenLvalue | `Gen`, `Lvalue`, with `Name`, `MemberAddr`, `IndexAddr`, `AssignAt`, `MultiAssign`, `BinaryOp`, `LogicalOp`, `Arm` |
| genLoad, genStore and the widths | `Load`, `Store` |
| qbe_backend.go: genInstr and formatOp, genCall, genByteArithmetic, getCmpInstType | `QBEStep` and `QBEIns`, `QBECall`, `ByteArithmetic`, `CompareClass` |
| llvm_backend.go: genInstr, prepareArg, formatCast, genAdd, genPhi, genCall, genGlobals | `LLVMStep`, `Prepare`, `CastOp`, `LLVMAdd`, `LLVMPhi`, `LLVMCall`, `GlobalTypes` |
| tempTypes, tempIRTypes, the counter of temporaries | `types`, `irs`, `count` of a back end's state |
| what QBE and llc check (external) | `QBEAccepts`, `QBEHeader`; `LLVMAccepts`, `LLVMGlobal` |
| what their instructions do (external) | `RunLoad`, `RunStore`, `RunBlit`, `RunAlloc`, `RunOp`, `RunPhi`, `RunCall`, `RunLabel`, `RunJump`, `RunRet` |

`Globals` and `Frames` are proved about, so the recursive functions they depend on are
constants of theirs, which `MCProgram.cfg` gives the definitions of `Types` and `Program`:
`TypeSize` is `SizeOf`, `Flowing` is `FlowsIn` (what flows into names in an expression), and
`Simplified` is `Fold`. TLC checks what is assumed of them on every program.

The observable behaviour of a program is the calls it makes, with their arguments, of
the external function `f`, which returns its first argument.

### Lexer and parser: Tokens, Spelling, Lexer, Scanner, Grammar, Parser, Reading

`Tokens` has the tokens of pkg/token and the characters of the symbols, for all the
others. `Grammar` has the trees and the language they stand for, written apart from the
parser: how a tree is written (`Write`), and where a text of a tree that begins at a
position may end (`Ends`). `Spelling` says the same of tokens: their characters, the
symbols there are under the features that are on (`Lexicon`), where two tokens must have a
blank between them (`NeedBlank`), and what may stand there.

`Lexer` is Next with what it calls (`Skip` for blanks and comments, `WordAt`,
`NumberAt`, `LiteralAt`, `SymbolLength`, `Equal` for what begins with `=`,
`IsDirective`), under the features c-ops, b-ops, c-esc, b-esc, c-comments and
no-directives. A word or a number is one character of the model. The loops over
characters are recursive functions of the position, and go forward. `Scanner` is the lexer
at work on a file (`Tokenize`), with what its tokens must be.

`Parser` is every function of the untyped pass. A parse is a tree and the position
after it. util.Error exits, which is position 0, where nothing is ever found; -1 stands
for a loop that never ends. The functions of the parser call each other through `Rule`.
The look-aheads that go back (`Assignment`, `DeclarationAhead`,
`MultiAssignmentAhead`) read from the position they started at.

`Reading` puts `Scanner`, `Parser` and `Grammar` together: it writes a program in one of several styles, perhaps
with one token wrong (`Misspell`), or scribbles characters; then the file is read
(`Read`: all tokens, then the tree, as in main.go).

### The pipeline and its settings: Driver

`Driver` is main.go's action, with the command-line parser and the configuration.
`cmd` holds main's flag variables, `cfg` the configuration (what is on, library
requests, linker arguments), `items` what is left of the tokens of a pass. A file
is a sequence of items: directives with their arguments, and code that is in error
without some feature. `ParseArg` is one argument of FlagSet.Parse; `Configure` is
ApplyStd, the flag groups and the start of the first pass; `BeginPass` reads and
tokenises all files of a pass with the settings of that moment and makes a parser,
which latches `typed`; `ProcessArg` is one round of ProcessArgs' loop; `ParseCode`
accepts or refuses code; `EndScan` is processInputFiles (libraries in any order, as
from a map); `EndCompile` decides whether the type checker runs. The tables of
features, warnings, defaults and standards are complete.

Of the 17 features, six (extrn, asm, short-decl, bx-decl, strict-decl,
strict-types) are set and reported but read nowhere in the code, so that the model
has no use for them beyond their value.

### The test runner: Suite, Verdicts

`Suite` has the main goroutine (feeder, WaitGroup, report, exit), the workers with
the two compiling goroutines of each test, the interrupt handler, and the world
outside: files that are edited or vanish, compilers that accept or reject and take
their time, golden files, a user who invokes the suite again or makes golden files.

| code | model |
|---|---|
| `files`, the range loop, `seenHashes` | `todo`, `FeedResult`, `FeedTask`, `seen` |
| channels `tasks`, `resultsChan` with their capacity | `tasks`, `results`, `Capacity`, `closed`, `drained` |
| goroutines of `-j` | `flags.jobs`, `Pool`; `worker[w]`, from `Receive` to `Send` and `Quit` |
| testFile and its ways to test | `Mode`, `GiveUp`, `StartTest` |
| compileAndRun, executeCommand with its timeout | `Compile`, `Run`, in two goroutines with a reference compiler |
| compareRuntimeResults and the verdicts | `Compare`, `Verdict`, `Judge` |
| wg.Wait, close, the result loop | `WaitWorkers` |
| writeJSONReport: a report that cannot be made or opened; os.WriteFile, in two steps | `KeepReport`; `TruncateReport`, `WriteReport` |
| hasFailures of the results in memory, os.Exit, deferred RemoveAll | `Decided`, `StatusOf`, `Failures`, `Exit` |
| setupInterruptHandler | `Interrupt`, `HandlerExit` |
| handleGenerateGolden | `GenerateGolden` |

A binary's nine runs against different input are one outcome; two outcomes tell
agreement from disagreement. Three fields of the model are history, which the program
does not keep but properties speak of: the content a result is about (`hash`), the content
whose reference outcome it compares with (`of`, also in the report), and the way it was
tested (`mode`). `Slow`, `Interruptible`, `WritesFail` and `EditsDuring` say which failures
a configuration has. Printing, diffs, patience and colours are left out.

`Verdicts` is the abstract specification: files are decided one by one, each once,
and the exit code is a success only when all are decided and none failed.
`Suite` implements it (`VerdictsRefined`), its fairness included.

### MC modules

`MCLower` enumerates every body up to a size over a choice of statements,
`MCProgram` families of small programs, `MCReading` expressions, statements and
definitions with the styles they are written in, `MCDriver` files of up to two items
under a list of command lines, `MCSuite` small worlds. They define constants only.

## 3. The runs

Each passing property has a mutant in `PROJECT.json`: a version of one definition
with a likely bug, defined just before it, under which TLC finds the property
violated in the same run.

**mixed** (MCLowerMixed.cfg): every body of six families is lowered, assembled and
run.

| family | statements | size |
|---|---|---|
| Loops | expression, return, break, continue; block, if, if-else, while | 4 |
| Gotos | expression, goto, return; block, label, if, switch, case; labels a, b | 4 |
| Conds | expression; if, while; conditions of && and or of height 2 | 3 |
| Switches | expression, break; case, default, switch, while | 5 |
| Continues | break, continue; the same compounds | 4 |
| Behind | expression, goto; block, label; label a | 5 |

Size counts statements, the block of the body and of a switch aside. Four
statements hold a loop or switch inside another with a jump after the inner one
(the case in which a target is not restored), a label between code that
terminates and code that does not, and cases inside a loop inside a switch; five
hold a switch inside a switch with cases and a break of both, and a goto to a label in a
dropped block with a statement behind it. The invariants:

* `TypeOK`: types of the generator's state.
* `BlocksClosed`: every finished block ends in its only jump, branch or return.
* `ErrorsAreStrays`: compilation fails exactly for a break, continue or case with
  nothing around it to belong to, or a second default.
* `RejectedOnlyForLostEntries`: an assembler never refuses the output, unless a
  label was dropped with the dead code around it (section 5).
* `DroppedNeverRuns`: code dropped as unreachable is unreachable, unless a label, case
  or default is buried in what is dropped.
* `SourceRefined`: the running code implements the source.

**program** (MCProgram.cfg): programs of thirteen families are checked, laid out,
compiled by both back ends, and run unless the assembler refuses them. A family puts two to four statements out of a set, in every order and
with repetition, behind its declarations and before calls that show the variables.

| family | what it mixes |
|---|---|
| Mixed | an int, a byte, a variable without a type and a pointer, assigned to each other and through each other; `++`, `+=`, comparison |
| Plain | B's words: a vector, a parameter, pointers to both, `auto [2]`, a multiple assignment |
| Nested | blocks which declare names again, of another type, of a parameter or of a global |
| Structs | two structs with fields of two widths, by value and through a pointer, copied both ways |
| Arrays | arrays of words and of bytes, subscripts, pointers to elements, array literals |
| Logic | ternaries in ternaries, `&&` and `||` as values, calls and steps inside them, exchanges |
| Bytes1 | B strings that reach names through up to three assignments in any order |
| Initialised | globals initialised with numbers, computations, each other, and themselves |
| Found | names used before or without a declaration, redeclared, external or called |
| Guessed | types guessed from assignments, subscripts, members, calls and literals |
| Returns | results of six types with seven values |
| Pointers | pointers and numbers in place of each other: 0 and nil, sums, differences, comparisons, conditions, the address of a vector as a branch |
| Widths | an int, a byte, an int16, an int32 and a uint8 assigned, added, compared, passed and chosen |

Words have 8 bytes and stacks an alignment of 16, as on the default targets, so that all
widths differ and padding occurs; values are small, so that TLC's numbers hold them (a
word's upper four bytes are its sign, and a word read from other bytes is `Garbage`).
Bytes that were never written hold 170 (`Fills`), so that code that reads them does not
come out right by chance. The properties:

* `TypeOK`; `SlotsApart`, `OneSlotPerName`: locals do not overlap and stay in the frame,
  and a name has one place however many blocks declare it.
* `BoundLexically`: the checker finds the declaration that lexical scoping gives, or a
  symbol of its own for a name that had none.
* `DeclaredKept`: what was declared a pointer, array or struct is never retyped.
* `ByteArraysClosed`: findByteArrays finds the least set closed under assignment.
* `EndlessOnlyOnRings`: evalConstExpr ends unless initialisers form a ring of two or
  more names.
* `ValuesReady`: every operand has a value when it is read, at a phi also for the block
  the control comes from.
* `AccessInside`: a load or store never leaves the object it begins in.
* `RunsAsWritten`: the calls made are those of the program's meaning, through either back
  end.
* `RefusedOnlyForMisfits`: QBE and llc accept each instruction the back ends write,
  unless the instruction of the IR it was written for is of a kind that is known not to fit
  or it takes what such a one made (section 5); and each header and global, but for known ones.

`ValuesReady`, `AccessInside` and `RunsAsWritten` are about programs that have a meaning (every cell is written before it
is read, no pointer leaves its object) and are `Settled`; the conditions name what the
code is known to get wrong, listed in section 5, and apply to programs, never to the
compiler's steps: two declarations of a name in one function agree and are not in scope
together (`NamesApart`); no name got another width after nodes were typed with the old
one (`TypesKept`); operands the checker never visits are words (`AllChecked`,
`AllWords`); a variable of a named struct type is not assigned or passed as a value
(`StructsNotNamed`); `++` and `--` stand before operands without effects
(`StepsPlain`).

**parser** (MCReading.cfg): expressions (every kind over every kind, and all pairs of
operators in both groupings), statements of up to three nodes, declarations, and
programs of one or two definitions, each written in four styles: with and without
superfluous parentheses, with optional parts in two forms, and with as few blanks as
possible, block comments or line comments between tokens. The smaller ones also with any
one token missing, replaced or added. Besides, all scribbles of up to four characters
out of what follows `=`, of three out of one of each class, of five out of quotes and
comments, and directives, each under four sets of features.

* `TypeOK`: what codegen may rely on: shape of nodes, places where they are assigned to.
* `LexedAsWritten`: the tokens of a text are those it was written with, as close
  together as they may stand.
* `NothingSkipped`: between tokens there are only blanks and comments.
* `TokensAreLongest`: a symbol is the longest there is under the features that are on,
  but where the lexer is known to take a character too many (`TakesMore`, section 5).
* `RoundTrip`: what was written is what is read, keyword labels included, but for
  defaults, which become labels, and trees in which an else would change its if.
* `AcceptedIsGrammatical`: whatever is accepted, misspelt or not, is a text of the tree
  it gave, with each else at the nearest if. The grammar says where the parser is
  lenient: an expression missing before a semicolon or a brace (but no argument,
  initialiser of a declaration, or value of a case), a body missing before a closing
  brace, punctuation as a label.
* `EndsUnlessBracesLeft`: the parser ends for every text without a stray closing brace.
* `PanicsOnlyForWantOfValue`: it panics only for a text in which a declaration has an
  initialiser that is empty before a semicolon or a brace, and is in order up to there. That
  every error before such a place ends the compiler is what keeps arguments and values
  of cases, whose nodes are made the same way, from it.

Two operators are enough for rank and associativity, two definitions for what one
leaves behind, three statements for an if in a branch of an if with an else.

**passes** (MCDriverPasses.cfg): two files and a library with two names. A file
has up to two items (three files, so up to four in a pass), which is enough for two
directives to disagree, for code before, between and after them, and for a library
to have the last word; fourteen command lines cover each kind of argument and each
way to fail. `TwoPassesAreOne`: reading every directive twice comes to the same as
once, in the order of files. `RequestsCompiled`: each input and requested library
is compiled once. `ParsedAsChecked`: the latched kind of parse and the later
decision to type check agree, unless a library intervenes. `CompiledAsAllowed`:
nothing in an input was accepted that the final settings do not allow the lexer.

**peaceful** (MCSuitePeaceful.cfg): three files, the first two alike, two workers or `-j 0`,
two invocations with and without the reference compiler, `-cached` and a skipped file, in
worlds where the compilers agree on one content and on the other differ, both fail, or only
the reference fails, or where golden results agree with the target for one content and not for
the other. Between the invocations one edit may make files equal or different, swap what the
report knows, or remove a file; one compiler may be too slow; reports may not be written.
* `TypeOK`; `OneResultEach`: a file is always in exactly one place, and in the end in one
  result (with `-j 0`, in the channel).
* `NoSendBlocks`: the channels always have room, which the design needs since nothing is
  received before wg.Wait.
* `PathsUnique`: two compilations never write the same binary.
* `PassMeansAgreement`: whichever way a file was tested, a PASS rests on what the target
  showed of the content the file holds, and on its golden result, on what the reference
  showed of that content, or on what an earlier report says the reference showed of the
  content of then, which is another only after an edit. Both are the same outcome, but for
  one case, which run cache refutes: a reported reference that failed to compile passes any
  target that compiles. What a compiler shows of a content (`ShownBy`) includes a timeout and,
  once an interrupt has removed the directory, failing: in this code two failures are a PASS.
* `ZeroMeansAllTested`: exit code 0 means that each file was passed or skipped, by the results
  in memory, or, with `-j 0`, was queued. It means nothing for the report on the disk, which may
  be an older one or empty then, as writeJSONReport only logs its errors.

Two workers and two equal files are the least for a clash of paths, a third file makes the
channel longer than the pool, and a verdict may rest on an earlier report, hence two
invocations. The workers that `-j` starts are alike, and nothing temporal is checked, so the
run uses them as a symmetry. Interrupts under `PassMeansAgreement`, and reports that rest
on reports, are left to the proof, which has any number of invocations.

**fragile** (MCSuiteFragile.cfg): two files, two invocations, two workers, one edit at
any point, an interrupt at any point, a compiler that may be too slow, an unreadable file or
an unusable golden file, reports that may not be written. `OneResultEach`, `NoSendAfterClose`,
`VerdictsRefined`, and `Terminates`: an invocation ends.

**cache** (MCSuiteCache.cfg): a reference that failed to compile, taken from the report.
`CacheChangesNoVerdict` fails in both worlds of the run, also in each alone.

**unreachable**, **start**, **default**, **cache**, **std**, **directives** each refute a statement
of the repository; see section 5.

Bounds: `MaxInvocations` and `MaxEdits` bound the runs of the suite and changes of
files (while the suite runs only in fragile, where `EditsDuring` is set); sizes of bodies, programs and texts bound the inputs. Nothing else is cut: label
counters, blocks, temporaries and channels are as long as the input makes them.

Fairness (in `Suite`, for `Terminates` and the fairness of `Verdicts`): weak fairness
of the main goroutine, of each worker and of each compiling goroutine, because the Go
scheduler runs a goroutine that can run; a child process ends because executeCommand
gives it a context with a timeout; the interrupt handler goes on to exit once it has
started. Nothing is assumed of users: interrupts, edits and invocations need not
happen. Sequential parts (`Lower`, `Driver`, `Reading`, `Program`) have no fairness and
no liveness property; that the parser and evalConstExpr end is a safety property here,
as their loops are functions with a value for "never".

CHECK_DEADLOCK is off for `Suite`, where everything may stop after the last
invocation, and for `Program`, whose run ends. `LowerRun`, `Driver` and `Reading` have
an explicit stuttering step at their ends instead, so that getting stuck anywhere else is
an error.

## 4. The proofs

The assumptions are those named in the modules: the bodies are trees
(`ProgramsAssumption`) in which every node but the root is among the children of its
parent (`ParentsAssumption`) and conditions are where conditions belong
(`CondsAssumption`), source trees and command lines are made of sequences
(`DriverAssumption`), the files and workers are finite (`SuiteAssumption`), worlds
and flags have their types (`WorldsAssumption`), words have a size (`WordAssumption`),
frames are aligned to 8 or 16 (`AlignAssumption`), and the locals of a program have sizes
that are natural numbers (`SizeAssumption`; the code folds the size of a vector without
rejecting a negative one, which lies outside). What is declared is made of sequences, so is
what flows in an initialiser, and a name that is left after folding is folded to itself
(`InitAssumption`). Of the lexer: identifiers are no keywords
and no other characters (`NamesAssumption`), and texts are written for features under which
backslashes escape and comments and directives are read (`UsualAssumption`). No bound on
sizes is used.

`LowerRunProofs`, for any set of bodies:
* `AllBlocksClosed`: Spec => []BlocksClosed. The property is not inductive: whether
  startBlock leaves an open block behind depends on whether the current block was
  closed, which no conjunct of it says. The strengthening `IInv` adds four facts
  while lowering: the builder is `Good` (only the current block is open, and it is
  the last); after a statement that terminated (`ret`) there is no current block;
  an activation that waits for a condition (`Waits`) finds none either; and the
  activation under one of codegenLogicalCond is always one that waits, and under no
  other (`Links`), so that what is known on return is what the caller relies on.
* `TypeCorrect`: Spec => []TypeOK, from the same invariant.
* `ErrorsOnlyForStrays`: RunSpec => []ErrorsAreStrays. What decides about an error is a
  variable (is there a break target?), what the property speaks of is the text (is there
  a loop around it?), so the invariant `RInv` relates the two at every step: `Account`
  says that each activation but the last is called for by the one under it, for a child
  of its node (`Nested`), that what it has saved of `brk`, `cont` and `cases` is set
  exactly when its node lies in a loop or switch (`Saved`), that the targets now set
  are those for the place the first activation has reached (`Aimed`), and that each
  stray of the text is dropped or still to come (`Owed`). "Lies in" and "below" are
  recursive functions along the parents, `Enclosing` and `Subtree`; a first part of the
  module shows that they have values and unfolds them by one step (`ParentsFirst`, from
  induction stated on a set of numbers), which is all the rest uses. The proof corrected
  the model once: an activation used to save the targets when it was made, while
  the code takes them where the loop or switch sets its own.

* `DroppedIsDead`: RunSpec => [](GotosResolve(prog) => DroppedNeverRuns), where
  `GotosResolve` says that every goto has a label to go to. The property compares what the
  generator drops with where the source goes, so the first half of the proof is about the
  source alone: which places can be reached without passing an observable point, or from
  one, is closed under the steps of `SilentStep` and `Outcomes` (`EnterKept`,
  `LeaveKept`, `TruthKept`, `OutcomesKept`, `SettleKept`, `ReachedIs`), for any
  set of statements whose ends are said to be reached and that is closed in
  the way `Ended` says: an if ends when a branch does, a block when its last statement
  does, a loop when its condition or a break does. The second half is that the lowering
  computes such a set: the invariant `DInv` says that there is one, `T`, which the
  activations agree with (`Follows`; `Due` and `Won` are what an activation waits for, and
  `Placed` that the statement a block drops comes after one that does not end). When a
  label is dropped nothing more is claimed. The attempt refuted an earlier form of the
  property, which asked for labels only in the dropped statement itself: in
  `goto a; { a: x; } y;` the dropped block has the label, and the dropped y behind it, which
  has none, is reached as well.

`LabelProofs`, for any body whose labels are in order (`TextsInOrder`: each is defined
once, every goto is to one of them, and none is `start` or a text that `newLabel` makes):
* `RejectedForLost`: RunSpec => [](TextsInOrder(prog) => RejectedOnlyForLostEntries). The
  condition is what a backend needs of the function's own text; without its last part
  the property is false, as run start shows of a label `start`. The property speaks of the
  finished code, while a label is taken from the counter in one step, jumped to in
  others and placed in a later one, perhaps by another activation, perhaps never. So
  the invariant `JInv` says whose each label is. The labels an activation still has to
  place are a function of where it is: those `Ahead` of it, the end of an if it may skip
  (`Spare`), and the entries of the cases below it that are still to be lowered
  (`EntriesIn`). `Tidy`: no two activations own a label or a node in common, and none of
  the labels owned is placed. `CasesMapped`: each label in the map of cases,
  and in those saved to be restored, is the entry of one case of a switch whose body is
  being lowered. `Resolved`: every target in the code, every text, and every label that an
  activation, `brk` or `cont` still goes by is placed or owned, as long as no label, case
  or default was dropped. At the end nobody owns anything, hence each target is placed;
  labels differ at all times (`Distinct`), so there are as many as blocks. The proof
  reads what a step does to labels from what it does to the builder (`Grown`, `Builds`),
  and each step is one of three kinds: it calls for a child (`CallJumps`), returns
  (`ReturnJumps`), or goes on (`ResumeJumps`). Of the trees it needs that a node is a
  child only once, which `ParentsAssumption` now says.

`RefinementProofs`, for any body whose labels are in order (`TextsInOrder`, as above):
* `LoweredAsWritten`: RunSpec => (TextsInOrder(prog) => SourceRefined), the whole promise of
  lowering: every step of compiling, assembling and running is a step of `Source` or shows
  nothing. If a dropped label is needed the backend rejects the code, so
  nothing about dropped code is assumed. The hypothesis is the same as for the bodies of run
  mixed, whose texts are all in order.
  The mapping asks where a place of the code leads, while the code grows, so the invariant
  `FInv` gives meanings to labels: G[l] is the position of the source where
  the block l begins, and from there on every place of the block has a meaning too
  (`Means`), a position or the comparisons of a switch made so far (`Chain`). `Built` says
  that each instruction does at its place what the source does there (`Fits`: it
  evaluates, compares or returns at the observable point that the place settles at,
  or jumps to a label of the right meaning). While lowering, `Told` adds
  where the open end of the code stands (`Stands`: at `Focus`, the position that the
  first activation is at) and that every label an activation holds, and
  those that `brk`, `cont`, `cases` and the texts name, mean what they are for
  (`FrameMeans`, `RightIn`, `NamesMean`). A step that makes labels extends G (`Makes`,
  `Widens`); that G is right for jumps to blocks not yet there is what lets each handler
  be proved on its own. Once lowered (`Lowered`) the invariant is about code alone.
  Then `LeadsRight`: the code leads from each place to where the meaning of the place
  settles. `Settle` and `Leads` both follow silent steps until something shows, or for
  ever; a goto round a ring without an effect must be endless in both. Each is characterised by
  counting steps (`Goes`, `RunsOn`), `Distance` is how far a position of the source is
  from its observable point, and every jump in the code gets strictly nearer (`Nears`, `Weight`
  with the comparisons left), hence the code arrives exactly if the source does. To be
  reasoned about, `Settle` and `Leads` are functions of the steps left that return functions.

`LayoutProofs`, for any program, whatever its globals and assignments:
* `BytesFound`: GlobalsSpec => []ByteArraysClosed. `GlobalsSpec` is what the code generator
  does before the functions; `Program` takes these steps and adds the memory. That the
  passes end with the least closed set is not what any of them does: each walks over the
  assignments once and marks names that later ones of the same walk see. The invariant
  (`GlobalsInv`) says that what is marked is in every set closed under the
  assignments, which a pass keeps as each of its assignments does (`PassWithin`), and
  that a pass which adds nothing has seen every assignment with the same marks (`PassAdds`).
* `OnlyRingsAreEndless`: GlobalsSpec => []EndlessOnlyOnRings. The code stops at a name
  initialised with itself and otherwise goes on from name to name, with no limit; the
  property says which initialisers this is endless for. A call leads to one global, the
  same every time (`CallFollows`). If there are more calls than globals, two of them are at
  one global, by counting (`EndlessIsRing`), and those between them are a ring. Conversely
  the globals of a ring only lead to each other, none to itself (`RingIsRound`), so that
  each call is followed by another (`RingIsEndless`). What the invariant adds is that all
  globals before the one that is next were evaluated without trouble, thus no function is
  generated when there is a ring.

And for any function, whatever its locals, their order and their sizes:
* `PlacesApart`: FrameSpec => []SlotsApart, and `PlacePerName`: FrameSpec =>
  []OneSlotPerName. The code adds sizes up in one loop and hands out places in another;
  the invariant `FrameInv` says what connects them: the program is one of the given
  (`ProgramOK`), a name found is one declared before, once (`NamesOK`), each bound is the
  one before it and a size (`BoundsOK`), and each place begins at the bound before it
  (`SlotsOK`). That later places lie behind earlier ones, and that the last bound is
  within the frame, follows.

`SuiteProofs`, for any number of files, workers, invocations, edits and interrupts, and any
command lines:
* `SuiteTypeCorrect`, `ExactlyOneResult`, `NeverSendsOnClosed`, `SendsNeverBlock`,
  `ZeroVouchesForAll`. The invariant `SInv` is the conjunction of: types; `Knows`
  (what a worker at each place knows of its file); `Somewhere` and `OneKind` and
  `OnceThere` (each file is somewhere, in only one of the four kinds of places, and
  once in that kind); `Order` (what is closed, drained and gone as main proceeds).
  Room in the channels then follows by counting: entries are distinct files, and
  the file about to be sent is none of them. `ZeroVouchesForAll` strengthens its
  property by `CodeIsRight`: there is no code before main exits. At that moment the
  workers are gone and nothing is queued, or none were started (`Order`), so each file,
  being `Somewhere`, has a result (`Settles`). The report plays no part.
* `StepsAccountedFor`: every step of `Suite` is a step of `Verdicts` or shows nothing,
  if every invocation has workers (with `-j 0` main exits with files undecided). It
  rests on `SInv`, `CodeIsRight`, and on `Ended` (an exited run has a code, only an
  interrupt cancels); that a result decides its own file only follows from `OnceThere`
  before and after the step. The fairness of `Verdicts` is left to TLC.
* `PathsApart`: PathsUnique, as long as nobody edits a file while the suite runs
  (`~EditsDuring`). With an edit between the feeder's hash and the worker's (main.go:221) two tests can be of one
  content, and the property is false. The invariant `Apart` says that files queued or
  under test have different contents, all in `seenHashes`, and that a worker's hash is
  still that of its file.
* `PassesAgree`: PassMeansAgreement, under the same assumption alone; with any edits
  between invocations, interrupts, slow compilers and failed writes. It is false otherwise:
  a file edited under test is compared as two contents. The invariant `PInv` has four parts.
  `Tested`: each side of a test under way is still to compile, is a binary at its path that
  is what its compiler makes of the content (where `PathsApart` is needed: another test must
  not have replaced it), or is an outcome that the content shows. `Told` and `Vouched`: a
  verdict, and then the result, is a PASS only on such agreement. `Rests`: what the report
  says of a reference is what the content of then shows, which is still the file's unless it
  was edited; whether a report is written, kept or cut short, it stays so. `Kept`: only an
  interrupt removes the directory. That a fact about a result outlives the steps of others
  needs only what no step does (`Steps`: the compilers stay, edits are counted, nothing moves
  outside while the suite runs).

`DriverProofs`, for any source files, libraries and command lines:
* `PassesAreOne`, `AllRequestsCompiled`, `ParsedLikeChecked`, `InputsAllowed`,
  `DriverTypeCorrect`, all from `DriverInvariant`. What a setting becomes is the last of
  its words that is read, over items consumed one at a time, in two passes, the second
  of which reads all of the first again. The invariant speaks of the future: the words
  that the items still hold, applied to the settings as they stand, come to what all the
  words together come to (`Settled` in `Scanning` for the first pass, in `Compiling` for
  the second with the libraries' words behind); the libraries asked for and those still
  to be asked for are the ones requested; code that a feature must allow has it or is an
  item that will be refused (`Judged`). That reading the inputs' words twice changes
  nothing is `LastWordTwice`: the last word about a setting in w \o w \o v is that
  in w \o v. The libraries come in any order, so only a property of the order that all
  share is used (`Extended`).
* `Lists` has what this needs about folds and flattened sequences: `FlattenSeq` and
  `FoldFunction` are recursive inside, and unfold by one step here. A proof found
  two cases of `Accepts` that overlap on items the lexer cannot make; they are one now.

`LexerProofs`, about `ScanSpec` of `Scanner`: the lexer alone, on the text of any tokens
(of the features that programs are read with, in any of the four kinds of gaps), or on any
characters under any features. Every file of `Reading` before it is read is one that
`ScanSpec` begins with, misspelt and scribbled ones included.
* `SkipsNothing`: NothingSkipped. The invariant `ScanInv` says that what was found are
  the tokens of the characters; the work is in the functions. Each (`Skip`, `Behind`, the
  loop of Next, the list of tokens) is recursive from the end of the text, so it exists
  and has its equation by `FromEnd`, and what is proved of it is proved from the end
  (`Downward`). `SkipGap` and `LexemeFound`: from a position on there is a gap up to
  the token that is found (`IsGap` is recursive from the other side, so gaps are put
  together by `GapIs`); `Chained`: each token is looked for where the last one ended.
* `TakesLongest`: TokensAreLongest. `SizesAtMost` (matchThen and its callers) and
  `EqualsBest` (equal) compare what the code looks at with the table of symbols: no symbol
  of the lexicon that is written there is longer. The cases of `TakesMore` came out of
  `EqualsBest` as the only ones in which that fails.
* `ReadsAsWritten`: LexedAsWritten. A token stands `Apart` from the character behind it if
  no symbol begins with both, and no word or number goes on; then it is read back
  (`TokenRead`, for symbols by the lemmas above, for strings with an escaped quote and
  for directives character by character). `NeedBlank` says exactly when two tokens do not
  stand apart (`ApartNext`). What is between two tokens is passed over (`AcrossGap`,
  even if it looks like the end of a comment or the beginning of one, or like a quote),
  so the lexer finds from the end of each token what it finds at the next (`PlacedNext`),
  and from each on the rest of the text (`PlacedRest`).

Only model-checked: `Terminates` and the fairness of `VerdictsRefined` (liveness); in
`Program`, what is about the checker and the generated code rather than the globals and the
frame (`TypeOK`, `BoundLexically`, `DeclaredKept`, `ValuesReady`, `AccessInside`,
`RunsAsWritten`, `RefusedOnlyForMisfits`), and in `Reading` what is about the parser
(`TypeOK`, `RoundTrip`, `AcceptedIsGrammatical`, `EndsUnlessBracesLeft`,
`PanicsOnlyForWantOfValue`), as types, trees,
grammar and parser are recursive operators, and facts about them are by induction over data.

## 5. Where the program and its documents disagree

* *Unreachable code that runs* (run unreachable). codegenStmt drops what follows a
  terminating statement up to the next label, but looks only at the statement
  itself: `goto a; { a: f(); }` drops the block with the label, warns of code that
  will never be executed, and leaves a jump with no target.
* *A label called start* (run start). It collides with the compiler's entry block;
  the language reference uses this very label in its example of goto.
* *A default is a label* (run default). isLabelAhead (parser.go:295) takes any keyword
  before a colon for a label and comes before the keywords, so the case for
  `token.Default` at line 365 is dead. The statements after `default:`
  (docs/BX_SPEC.md:427) run only if the case above falls into them, and two switches
  with a default in one function define the label `default` twice.
* *A cached failure changes the verdict* (run cache). The report is read "to speed things up"
  (main.go:194 of gtest), and a reference compiler that failed leaves a result in it all the
  same. Without the reference compiler, a program that both reject then FAILs instead of
  PASSing (line 304), and one that only the target accepts PASSes instead of FAILing, as a
  reference without runs has nothing to differ from (line 408).
* *-std=B keeps Bx* (run std). Flag groups are applied after the standard, and their
  enabling flags start out as the defaults; so whatever is on by default stays on.
* *Directives that come too late* (run directives). Files are cut into tokens, and
  the parser decides on types, before any directive is processed; errors of this
  first pass are fatal.

Known to go wrong, and excluded by name from what the runs claim (`Settled` of `Program`,
`TakesMore` of `Scanner`, or outside the families). Files: PA parser.go, LX lexer.go,
CG codegen.go, CH codegen_helpers.go, TC typeChecker.go.

* Names: a local that is declared twice in a function has one slot, of the first one's
  size (CG:933); one named like a parameter shares the parameter's slot; a variable
  declared after an implicit use keeps the implicit symbol; a name that is called before
  it is declared becomes a local variable; an implicit variable has no address of its
  own (CG:598).
* Types: a node keeps the type it got first (TC:507, 253-272) while `x = x[0]` or a
  pointer assigned to a float retypes the symbol; operands of `&`, of `auto [n]` and of
  multiple assignments are never visited (TC:703); `x[0] = x` makes a type that contains
  itself, on which areTypesCompatible recurses without end (TC:550); GetType takes an
  alias for a word while getSizeof resolves it (ir.go:168, CG:200).
* Structs: a global of a named struct type gets a word for each element (CG:1290-1325);
  `a = b` of two such variables loads a word and copies from there (CH:56).
* Bytes: QBE's extensions are always by the sign (qbe_backend.go:641), although the IR
  asks for OpExtUB and a byte is a uint8 (docs/BX_SPEC.md:40): with b = 200 and x = 1,
  `x + b` is -55. LLVM's sums of bytes are cut to 8 bits and extended by the sign. A run
  that comes to one of these ends in the phase "astray" (`RunAstray`); the runs with
  bytes up to 127 go on.
* Refused by QBE, as a temporary would have the class b or h, or a w where an l is
  needed: a ternary, a sum or a call with a narrow result, a function that returns a byte.
* Refused by llc: 0 stored in or converted to a pointer where the number is not written
  `null` (only comparisons, returns and branches are); differences and products of
  pointers; a ternary of narrow values, of a variable's address, or of branches with
  different types; globals with addresses among numbers, and with the address of what is
  defined further down or of a function (llvm_backend.go:285 finds no type for it and
  writes "unknown*").
* In no family of programs, from reading alone: a condition that is an even number is
  written to LLVM as `br i1 2`, which is false (llvm_backend.go:467); an external variable
  that is assigned but never read is declared as a function (codegen_helpers.go:28); a
  cast to a wider integer has no operand type (codegen_helpers.go:651), and is written to
  QBE as `extsl`, which is no instruction (qbe_backend.go:641).
* Effects: prefix `++` and `--` evaluate their operand twice (CH:349, 368); an assignment
  does not convert; locals that are all of size 0 leave the frame without a pointer
  (CG:1071).
* The parser: a stray closing brace among the values of a global makes
  parseUntypedGlobalDefinition loop for ever (PA:625); `auto a = ;` and `a := ;` panic, as
  NewVarDecl dereferences the missing initialiser (PA:496, ast.go:278; the outcome `Panicked`
  of `Parser`); `a + ;` has a nil operand;
  `f(a, b = 1)` is rejected and `f(a, b = 1, 2)` has one argument, a multiple assignment
  (PA:1142-1208); the look-ahead at a comma reads the rest of a list twice, so nested
  calls cost time exponential in their depth; `:=` is an assignment operator in every
  expression; a global whose value starts with a parenthesis is taken for a function.
  From reading alone: `enum E { A = }` dereferences nil; look-ahead in structs and
  parameters restores all but one token (PA:1000); `int a = 1, b = 2;` is rejected and
  `int a = x, b = 2, c;` is a multiple assignment.
* The lexer: under b-ops `=<` and `=>` swallow a character, so that `a=<b` is read as
  `a=b` (LX:517); two dots are one; `.5.5` is one number; `%= ^= <<= >>=` do not need
  c-ops; a directive inside a function is an error.
* The test runner: a report that cannot be made or written is logged only, and the exit code
  may be 0 with an older report, or an empty one, on the disk (main.go:884-899 of gtest); the
  cached reference is not tied to the content it is of (main.go:297); once an interrupt has
  removed the directory, or on a timeout, two failed compilations are a PASS (main.go:364).
* Documents: `-Wno-type` (docs/BX_SPEC.md:536) names no warning and is an error; pointer
  arithmetic is not scaled, as docs/BX_SPEC.md:598 says and lines 82-88 deny;
  `[]int dynamic_array;` (docs/BX_SPEC.md:94) is rejected; main's FoldConstants
  (main.go:131) has no effect, as its root is a block, which it does not look into.

## 6. What is not modelled, and why

* Type checker: enumeration members, literals with named fields, typeof, the texts and
  conditions of warnings.
* Code generator: floats and the code of casts, struct literals, contents of strings,
  the value of sizeof, the complement, variadic functions, main's argument vector.
  Lines 1226-1252 of codegenLocalVarDecl, the initialisers of vectors, are never
  reached. Folding of `&`, `|`, `^`, shifts and the complement: bits of words.
* Parser: the pass with types, `__asm__` functions, nil and the word `type` as a name.
  Lexer: the letters of words, hexadecimals and exponents, the values of literals and
  numeric escapes, the words for types.
* SetTarget's tables, -I paths and findLibrary's search order: findLibrary is a given
  map from names to paths. `-Fname=false` on the command line.
* Back ends: floats, strings, bit operations and division, structs by value, variadic
  functions, alignments, programs of several functions, the layout of the text.
  Assembling and linking. QBE, LLVM, cc and the C library are outside the repository; what
  they accept and do is modelled as far as the back ends rely on it, in `LowerRun` for
  labels and in `QBE`, `LLVM` and `Machine` for types and values.
* Help pages, messages, diffs, colours: layout.
* gtest: two files with one base name share a golden file; the nine runs of a binary.
* lib/b: B programs, not part of the compiler.

## 7. Plan

Done, in this order because wrong code is the worst a compiler can do and wrong
verdicts the worst a test runner can: lowering of statements with its abstract
specification; the test runner with its own; the driver; frames, the type checker and
the code of expressions against a meaning of programs, through both back ends; the lexer and the untyped parser
against a grammar. Proved: lowering's blocks, jumps, errors, what it drops and that its code does what the source
does, globals and frames, the driver, the lexer, the test runner's safety and its refinement.

To do:
1. The typed pass of the parser: types, typed declarations, casts, members, literals of
   structs and arrays, added to `Grammar` and `Parser`.
2. `Lexer`: escapes and the values of literals, in characters.
3. Several functions in one program, and structs by value, in `Values` and the back ends.
4. Floats and casts in `Values`, with the checker's conversions.

Proofs to do: in `Program`, what the checker guarantees the generator, once its recursive
operators are written as recursive functions, and `RoundTrip`, once those of `Grammar` and
`Parser` are.
