-------------------------------- MODULE Suite --------------------------------
(***************************************************************************)
(* cmd/gtest: the test runner.  main feeds the files to test to a channel, *)
(* workers receive them, compile each with the reference and the target    *)
(* compiler in two goroutines, compare the two programs' runs and send a   *)
(* result; main collects the results, writes the report and exits.  An     *)
(* interrupt handler removes the temporary directory under their feet.     *)
(* The report outlives the process and feeds the next invocation.          *)
(***************************************************************************)
EXTENDS Naturals, Sequences, FiniteSets

CONSTANTS
  Files,           \* what the glob patterns matched
  Foreign,         \* those not named *.b
  Workers,         \* the goroutines there can be
  Hashes,          \* hashes of the contents of files
  Slow,            \* contents a compiler may not be done with before -timeout
  Worlds,          \* what the files hold, and what the compilers make of it
  Flags,           \* the command lines of the invocations
  MaxInvocations,  \* bound: the suite is run this often
  MaxEdits,        \* bound: files change this often
  EditsDuring,     \* whether they also change while the suite runs
  Interruptible,   \* whether the user may press Ctrl+C
  WritesFail       \* whether the disk may refuse a write

ASSUME SuiteAssumption ==
  /\ IsFiniteSet(Files) /\ Files # {} /\ Foreign \subseteq Files
  /\ Slow \subseteq Hashes /\ IsFiniteSet(Workers)
  /\ MaxInvocations \in Nat /\ MaxEdits \in Nat
  /\ EditsDuring \in BOOLEAN /\ Interruptible \in BOOLEAN /\ WritesFail \in BOOLEAN

(* What becomes of compiling and running a program: the compiler fails, or   *)
(* the runs end in one of some observable ways, or the binary is gone before *)
(* it runs.                                                                  *)
Outputs == {"one", "other"}
Outcomes == {"fails", "broken"} \cup Outputs

None == "none"
Unreadable == "unreadable"

WorldType == [content : [Files -> Hashes \cup {Unreadable}],
              reference : [Hashes -> {"fails"} \cup Outputs],
              target : [Hashes -> {"fails"} \cup Outputs],
              golden : [Files -> Outputs \cup {None, "garbled", "broken"}]]
FlagType == [found : BOOLEAN, cached : BOOLEAN, skip : SUBSET Files, jobs : SUBSET Workers]

ASSUME WorldsAssumption == Worlds \subseteq WorldType /\ Flags \subseteq FlagType

VARIABLES
  world,      \* the files, the compilers and the golden files
  report,     \* the report on the disk: for each file its status, its reference's
              \* outcome, and (history) the content that this is the outcome of
  flags,      \* refCompilerFound, -cached, -skip-files and -j of this invocation
  main,       \* where main is
  todo,       \* files not fed yet
  seen,       \* seenHashes
  tasks,      \* the channel of files, and whether it is closed
  closed,
  results,    \* resultsChan, and whether it is closed
  drained,
  worker,     \* the workers
  temp,       \* does the temporary directory exist?
  binaries,   \* what is at each path in it
  handler,    \* where the interrupt handler is
  code,       \* the exit code: success is 0, failure 1
  invoked, edited

svars == <<world, report, flags, main, todo, seen, tasks, closed, results, drained,
           worker, temp, binaries, handler, code, invoked, edited>>

Running == main # "exited"

-----------------------------------------------------------------------------

NoEntry == [status |-> None, ref |-> None, of |-> None]
Paths == {"", "ref", "target"} \X Hashes
NoBinaries == [p \in Paths |-> None]

Idle == [at |-> "idle", file |-> None, hash |-> None, mode |-> None, ref |-> None,
         of |-> None, target |-> None, status |-> None]

(* The goroutines that -j starts; the others are as good as gone. *)
Pool(jobs) == [w \in Workers |-> IF w \in jobs THEN Idle ELSE [Idle EXCEPT !.at = "gone"]]

Init ==
  /\ world \in Worlds
  /\ report = [f \in Files |-> NoEntry]
  /\ flags \in Flags
  /\ main = "feed" /\ todo = Files /\ seen = {}
  /\ tasks = <<>> /\ closed = FALSE /\ results = <<>> /\ drained = FALSE
  /\ worker = Pool(flags.jobs)
  /\ temp = TRUE /\ binaries = NoBinaries /\ handler = "waiting" /\ code = None
  /\ invoked = 1 /\ edited = 0

(* The next invocation: a new process, directory and set of channels; only
   the files and the report are what the last one left.                      *)
Invoke ==
  /\ ~Running /\ invoked < MaxInvocations
  /\ flags' \in Flags
  /\ main' = "feed" /\ todo' = Files /\ seen' = {}
  /\ tasks' = <<>> /\ closed' = FALSE /\ results' = <<>> /\ drained' = FALSE
  /\ worker' = Pool(flags'.jobs)
  /\ temp' = TRUE /\ binaries' = NoBinaries /\ handler' = "waiting" /\ code' = None
  /\ invoked' = invoked + 1
  /\ UNCHANGED <<world, report, edited>>

(* gtest -generate-golden f: the target's runs, when it compiles, become the
   file's golden result.  A timeout or an interrupt fails the compilation, or
   breaks the runs; an interrupt or the disk may cut the write short.        *)
GenerateGolden(f) ==
  /\ ~Running /\ invoked < MaxInvocations
  /\ invoked' = invoked + 1
  /\ LET h == world.content[f]
         compiles == h \in Hashes /\ world.target[h] # "fails"
         golden(g) == world' = [world EXCEPT !.golden[f] = g]
     IN  \/ (~compiles \/ h \in Slow \/ Interruptible \/ WritesFail) /\ world' = world
         \/ compiles /\ golden(world.target[h])
         \/ compiles /\ Interruptible /\ golden("broken")
         \/ compiles /\ (Interruptible \/ WritesFail) /\ golden("garbled")
  /\ UNCHANGED <<report, flags, main, todo, seen, tasks, closed, results, drained, worker,
                 temp, binaries, handler, code, edited>>

(* Someone edits or removes a file. *)
Edit(f) ==
  /\ edited < MaxEdits /\ edited' = edited + 1
  /\ Running => EditsDuring
  /\ \E h \in Hashes \cup {Unreadable} : world' = [world EXCEPT !.content[f] = h]
  /\ UNCHANGED <<report, flags, main, todo, seen, tasks, closed, results, drained, worker,
                 temp, binaries, handler, code, invoked>>

-----------------------------------------------------------------------------
(* main: the feeder *)

(* Bug: the channels have room for the workers only. *)
CapacityOfWorkers == Cardinality(Workers)

Capacity == Cardinality(Files)

(* A FileTestResult, with what it is about: hash is the content tested, of the
   content that the reference outcome is of, if a reference compiler made it.
   They are history: the program keeps hashes in the binaries' paths only.   *)
Result(f, status, r) ==
  [file |-> f, status |-> status, mode |-> r.mode, hash |-> r.hash,
   ref |-> r.ref, of |-> r.of, target |-> r.target]

SendResult(r) ==
  /\ Len(results) < Capacity
  /\ results' = Append(results, r)

(* Bug: no continue after a result, the file is queued as well. *)
FeedResultAndTask(f) ==
  /\ main = "feed" /\ f \in todo
  /\ f \in flags.skip \/ world.content[f] \in seen \cup {Unreadable}
  /\ SendResult(Result(f, "SKIP", Idle))
  /\ tasks' = Append(tasks, f)
  /\ todo' = todo \ {f}
  /\ UNCHANGED <<world, report, flags, main, seen, closed, drained, worker,
                 temp, binaries, handler, code, invoked, edited>>

(* A file to skip, one that cannot be read and one seen before get their
   result here; the others are queued.                                       *)
FeedResult(f) ==
  /\ main = "feed" /\ f \in todo
  /\ \/ f \in flags.skip /\ SendResult(Result(f, "SKIP", Idle))
     \/ /\ f \notin flags.skip /\ world.content[f] = Unreadable
        /\ SendResult(Result(f, "ERROR", Idle))
     \/ /\ f \notin flags.skip /\ world.content[f] \in seen
        /\ SendResult(Result(f, "SKIP", Idle))
  /\ todo' = todo \ {f}
  /\ UNCHANGED <<world, report, flags, main, seen, tasks, closed, drained, worker,
                 temp, binaries, handler, code, invoked, edited>>

FeedTask(f) ==
  /\ main = "feed" /\ f \in todo
  /\ f \notin flags.skip /\ world.content[f] \notin seen \cup {Unreadable}
  /\ Len(tasks) < Capacity
  /\ seen' = seen \cup {world.content[f]}
  /\ tasks' = Append(tasks, f)
  /\ todo' = todo \ {f}
  /\ UNCHANGED <<world, report, flags, main, closed, results, drained, worker,
                 temp, binaries, handler, code, invoked, edited>>

(* Bug: the channel of files is never closed. *)
CloseForgotten ==
  /\ main = "feed" /\ todo = {} /\ main' = "wait"
  /\ UNCHANGED <<world, report, flags, todo, seen, tasks, closed, results, drained, worker,
                 temp, binaries, handler, code, invoked, edited>>

CloseTasks ==
  /\ main = "feed" /\ todo = {}
  /\ closed' = TRUE /\ main' = "wait"
  /\ UNCHANGED <<world, report, flags, todo, seen, tasks, results, drained, worker,
                 temp, binaries, handler, code, invoked, edited>>

(* Bug: no wg.Wait. *)
WaitForNobody ==
  /\ main = "wait" /\ drained' = TRUE /\ main' = "report"
  /\ UNCHANGED <<world, report, flags, todo, seen, tasks, closed, results, worker,
                 temp, binaries, handler, code, invoked, edited>>

(* wg.Wait, then close(resultsChan) and the loop that empties it. *)
WaitWorkers ==
  /\ main = "wait" /\ \A w \in Workers : worker[w].at = "gone"
  /\ drained' = TRUE /\ main' = "report"
  /\ UNCHANGED <<world, report, flags, todo, seen, tasks, closed, results, worker,
                 temp, binaries, handler, code, invoked, edited>>

(* What the results say of a file. *)
Decided(f) == \E i \in DOMAIN results : results[i].file = f
ResultOf(f) == results[CHOOSE i \in DOMAIN results : results[i].file = f]
StatusOf(f) == IF Decided(f) THEN ResultOf(f).status ELSE None

Entry(f) ==
  IF Decided(f)
  THEN [status |-> ResultOf(f).status, ref |-> ResultOf(f).ref, of |-> ResultOf(f).of]
  ELSE NoEntry

(* json.MarshalIndent, os.MkdirAll or opening the file fails: this is logged,
   and the report is still the last one.                                     *)
KeepReport ==
  /\ main = "report" /\ WritesFail
  /\ main' = "exit"
  /\ UNCHANGED <<world, report, flags, todo, seen, tasks, closed, results, drained, worker,
                 temp, binaries, handler, code, invoked, edited>>

(* os.WriteFile truncates the last report, which cannot be parsed then, *)
TruncateReport ==
  /\ main = "report"
  /\ report' = [f \in Files |-> NoEntry] /\ main' = "write"
  /\ UNCHANGED <<world, flags, todo, seen, tasks, closed, results, drained, worker,
                 temp, binaries, handler, code, invoked, edited>>

(* and writes the new one; failing to do so is logged as well. *)
WriteReport ==
  /\ main = "write" /\ main' = "exit"
  /\ \/ report' = [f \in Files |-> Entry(f)]
     \/ WritesFail /\ UNCHANGED report
  /\ UNCHANGED <<world, flags, todo, seen, tasks, closed, results, drained, worker,
                 temp, binaries, handler, code, invoked, edited>>

(* Bug: a FAIL does not count as a failure. *)
FailuresErrorsOnly == {f \in Files : StatusOf(f) = "ERROR"}

(* Bug: an ERROR does not count as a failure. *)
FailuresFailsOnly == {f \in Files : StatusOf(f) = "FAIL"}

(* hasFailures looks at the results in memory, whatever became of the report.*)
Failures == {f \in Files : StatusOf(f) \in {"FAIL", "ERROR"}}

(* os.Exit(1) runs no deferred function; returning from main removes the
   temporary directory.                                                      *)
Exit ==
  /\ main = "exit" /\ main' = "exited"
  /\ IF Failures # {} THEN code' = "failure" /\ UNCHANGED <<temp, binaries>>
     ELSE code' = "success" /\ temp' = FALSE /\ binaries' = NoBinaries
  /\ UNCHANGED <<world, report, flags, todo, seen, tasks, closed, results, drained, worker,
                 handler, invoked, edited>>

-----------------------------------------------------------------------------
(* The workers *)

KeepMain == UNCHANGED <<world, report, flags, main, todo, seen, closed, drained, handler,
                        code, invoked, edited>>

Receive(w) ==
  /\ Running /\ worker[w].at = "idle" /\ tasks # <<>>
  /\ worker' = [worker EXCEPT ![w] = [Idle EXCEPT !.at = "hash", !.file = Head(tasks)]]
  /\ tasks' = Tail(tasks)
  /\ KeepMain /\ UNCHANGED <<results, temp, binaries>>

Quit(w) ==
  /\ Running /\ worker[w].at = "idle" /\ tasks = <<>> /\ closed
  /\ worker' = [worker EXCEPT ![w].at = "gone"]
  /\ KeepMain /\ UNCHANGED <<tasks, results, temp, binaries>>

(* testFile: what the file is tested against. *)
Mode(f) ==
  IF f \in Foreign \/ (flags.cached /\ world.golden[f] # None) THEN "golden"
  ELSE IF flags.found THEN "reference"
  ELSE IF world.golden[f] # None THEN "golden"
  ELSE "report"

(* The file cannot be read, nothing can be said of it, or its golden file is
   unusable.                                                                 *)
GiveUp(w) ==
  /\ Running /\ worker[w].at = "hash"
  /\ LET f == worker[w].file
         send(s) == worker' = [worker EXCEPT ![w] = [@ EXCEPT !.at = "send", !.status = s]]
     IN  \/ world.content[f] = Unreadable /\ send("ERROR")
         \/ /\ world.content[f] # Unreadable
            /\ \/ Mode(f) = "golden" /\ world.golden[f] = None /\ send("SKIP")
               \/ Mode(f) = "golden" /\ world.golden[f] = "garbled" /\ send("ERROR")
               \/ Mode(f) = "report" /\ report[f].ref = None /\ send("SKIP")
  /\ KeepMain /\ UNCHANGED <<tasks, results, temp, binaries>>

(* The outcome to compare with, which is not known before the reference has
   run, and the goroutines that run.                                         *)
StartTest(w) ==
  /\ Running /\ worker[w].at = "hash"
  /\ LET f == worker[w].file
         m == Mode(f)
         h == world.content[f]
     IN  /\ h # Unreadable
         /\ m = "golden" => world.golden[f] \notin {None, "garbled"}
         /\ m = "report" => report[f].ref # None
         /\ worker' = [worker EXCEPT ![w] =
              [@ EXCEPT !.at = "test", !.hash = h, !.mode = m,
                        !.ref = CASE m = "golden" -> world.golden[f]
                                  [] m = "report" -> report[f].ref
                                  [] m = "reference" -> "compile",
                        !.of = CASE m = "golden" -> None
                                 [] m = "report" -> report[f].of
                                 [] m = "reference" -> h,
                        !.target = "compile"]]
  /\ KeepMain /\ UNCHANGED <<tasks, results, temp, binaries>>

Side == {"ref", "target"}
(* Bug: both compilers write to one path. *)
PathOfHash(w, side) == <<"", worker[w].hash>>

Path(w, side) == <<IF worker[w].mode = "reference" THEN side ELSE "", worker[w].hash>>

(* compileAndRun.  The compiler reads the file as it is now; it fails when the
   file is gone or when it cannot write its output.  The timeout may kill it,
   or come as it ends: then it counts as failed, and its binary stays.       *)
Compiled(w, side) ==
  LET h == world.content[worker[w].file]
  IN  IF ~temp \/ h = Unreadable THEN "fails"
      ELSE IF side = "ref" THEN world.reference[h] ELSE world.target[h]

Compile(w, side) ==
  /\ Running /\ worker[w].at = "test" /\ worker[w][side] = "compile"
  /\ LET o == Compiled(w, side)
         fails == o = "fails" \/ world.content[worker[w].file] \in Slow
     IN  \/ /\ o # "fails"
            /\ binaries' = [binaries EXCEPT ![Path(w, side)] = o]
            /\ \/ worker' = [worker EXCEPT ![w][side] = "run"]
               \/ fails /\ worker' = [worker EXCEPT ![w][side] = "fails"]
         \/ fails /\ worker' = [worker EXCEPT ![w][side] = "fails"] /\ UNCHANGED binaries
  /\ KeepMain /\ UNCHANGED <<tasks, results, temp>>

(* The binary may be gone before os.Stat looks for it, or only before it runs. *)
Run(w, side) ==
  /\ Running /\ worker[w].at = "test" /\ worker[w][side] = "run"
  /\ \E o \in (IF temp THEN {binaries[Path(w, side)]} ELSE {"fails", "broken"}) :
       worker' = [worker EXCEPT ![w][side] = o]
  /\ KeepMain /\ UNCHANGED <<tasks, results, temp, binaries>>

(* Bug: any run of the target is as good as the reference's. *)
CompareNothing(ref, target) == "PASS"

(* compareRuntimeResults looks at the reference's runs only, and a reference
   that failed to compile has none.                                          *)
Compare(ref, target) == IF ref = "fails" \/ ref = target THEN "PASS" ELSE "FAIL"

Verdict(m, ref, target) ==
  IF m = "reference" /\ ref = "fails" THEN IF target = "fails" THEN "PASS" ELSE "FAIL"
  ELSE IF target = "fails" THEN "FAIL"
  ELSE Compare(ref, target)

(* Bug: the comparison does not wait for both goroutines. *)
JudgeEarly(w) ==
  /\ Running /\ worker[w].at = "test"
  /\ LET v == Verdict(worker[w].mode, worker[w].ref, worker[w].target)
     IN  worker' = [worker EXCEPT ![w] = [@ EXCEPT !.at = "send", !.status = v]]
  /\ KeepMain /\ UNCHANGED <<tasks, results, temp, binaries>>

Judge(w) ==
  /\ Running /\ worker[w].at = "test"
  /\ worker[w].ref \in Outcomes /\ worker[w].target \in Outcomes
  /\ LET v == Verdict(worker[w].mode, worker[w].ref, worker[w].target)
     IN  worker' = [worker EXCEPT ![w] = [@ EXCEPT !.at = "send", !.status = v]]
  /\ KeepMain /\ UNCHANGED <<tasks, results, temp, binaries>>

Send(w) ==
  /\ Running /\ worker[w].at = "send"
  /\ SendResult(Result(worker[w].file, worker[w].status, worker[w]))
  /\ worker' = [worker EXCEPT ![w] = Idle]
  /\ KeepMain /\ UNCHANGED <<tasks, temp, binaries>>

-----------------------------------------------------------------------------
(* The goroutine of setupInterruptHandler *)

Interrupt ==
  /\ Interruptible /\ Running /\ handler = "waiting"
  /\ handler' = "removed" /\ temp' = FALSE /\ binaries' = NoBinaries
  /\ UNCHANGED <<world, report, flags, main, todo, seen, tasks, closed, results, drained,
                 worker, code, invoked, edited>>

(* Bug: a cancelled run exits with 0. *)
HandlerExitZero ==
  /\ Running /\ handler = "removed"
  /\ main' = "exited" /\ code' = "success"
  /\ UNCHANGED <<world, report, flags, todo, seen, tasks, closed, results, drained, worker,
                 temp, binaries, handler, invoked, edited>>

HandlerExit ==
  /\ Running /\ handler = "removed"
  /\ main' = "exited" /\ code' = "failure"
  /\ UNCHANGED <<world, report, flags, todo, seen, tasks, closed, results, drained, worker,
                 temp, binaries, handler, invoked, edited>>

-----------------------------------------------------------------------------

Feed == CloseTasks \/ \E f \in Files : FeedResult(f) \/ FeedTask(f)
Collect == WaitWorkers \/ KeepReport \/ TruncateReport \/ WriteReport \/ Exit
Test(w, side) == Compile(w, side) \/ Run(w, side)
Work(w) == Receive(w) \/ Quit(w) \/ GiveUp(w) \/ StartTest(w) \/ Judge(w) \/ Send(w)

Next == \/ Feed \/ Collect
        \/ \E w \in Workers : Work(w) \/ \E side \in Side : Test(w, side)
        \/ Interrupt \/ HandlerExit
        \/ Invoke
        \/ \E f \in Files : GenerateGolden(f) \/ Edit(f)

(* Goroutines that can run do, and a compiler or a program that does not end *)
(* is killed by the timeout of its context.                                  *)
Fairness == /\ WF_svars(Feed) /\ WF_svars(Collect) /\ WF_svars(HandlerExit)
            /\ \A w \in Workers :
                 WF_svars(Work(w)) /\ \A side \in Side : WF_svars(Test(w, side))

Spec == Init /\ [][Next]_svars
FairSpec == Spec /\ Fairness

-----------------------------------------------------------------------------
(* Properties *)

Statuses == {"PASS", "FAIL", "SKIP", "ERROR"}
Modes == {"golden", "reference", "report"}
Verdicted == [file : Files, status : Statuses, mode : Modes \cup {None}, hash : Hashes \cup {None},
              ref : Outcomes \cup {None}, of : Hashes \cup {None}, target : Outcomes \cup {None}]
Holding == {"hash", "test", "send"}
Worker == [at : {"idle", "gone"} \cup Holding, file : Files \cup {None}, hash : Hashes \cup {None},
           mode : Modes \cup {None}, ref : Outcomes \cup {"compile", "run", None},
           of : Hashes \cup {None}, target : Outcomes \cup {"compile", "run", None},
           status : Statuses \cup {None}]
Entries == [status : Statuses \cup {None}, ref : Outcomes \cup {None}, of : Hashes \cup {None}]

TypeOK ==
  /\ world \in WorldType /\ flags \in FlagType
  /\ report \in [Files -> Entries]
  /\ main \in {"feed", "wait", "report", "write", "exit", "exited"}
  /\ todo \subseteq Files /\ seen \subseteq Hashes
  /\ tasks \in Seq(Files) /\ closed \in BOOLEAN
  /\ results \in Seq(Verdicted) /\ drained \in BOOLEAN
  /\ worker \in [Workers -> Worker]
  /\ temp \in BOOLEAN /\ binaries \in [Paths -> Outputs \cup {None}]
  /\ handler \in {"waiting", "removed"} /\ code \in {None, "success", "failure"}
  /\ invoked \in Nat /\ edited \in Nat

(* Where a file is: fed, queued, held by a worker or in a result. *)
Places(f) ==
  {<<"todo", g>> : g \in {f} \cap todo}
    \cup {<<"tasks", i>> : i \in {i \in DOMAIN tasks : tasks[i] = f}}
    \cup {<<"worker", w>> : w \in {w \in Workers : worker[w].at \in Holding /\ worker[w].file = f}}
    \cup {<<"results", i>> : i \in {i \in DOMAIN results : results[i].file = f}}

(* No file is lost and none gets two results, however feeder, workers and    *)
(* channels interleave (handleRunTestSuite).                                 *)
OneResultEach == \A f \in Files : \E p \in Places(f) : Places(f) = {p}

(* A send never blocks, although the results are only received when the      *)
(* workers are gone: both channels have room for every file (212-213).       *)
NoSendBlocks ==
  /\ todo # {} => Len(tasks) < Capacity /\ Len(results) < Capacity
  /\ (\E w \in Workers : worker[w].at \in Holding) => Len(results) < Capacity

(* Nothing is sent on a closed channel, which would panic: the feeder is     *)
(* done when tasks is closed, and every worker, with nothing left to         *)
(* receive, when resultsChan is.                                             *)
NoSendAfterClose ==
  /\ closed => todo = {}
  /\ drained => closed /\ \A w \in Workers : worker[w].at = "gone"
  /\ drained /\ flags.jobs # {} => tasks = <<>>

(* Two compilations under way never write the same binary: "Use the hash for
   a unique, deterministic binary name" (compileAndRun), which duplicates
   would break were they not skipped.                                        *)
Busy == {p \in Workers \X Side : /\ Running /\ worker[p[1]].at = "test"
                                /\ worker[p[1]][p[2]] \in {"compile", "run"}}
PathsUnique == \A p, q \in Busy : Path(p[1], p[2]) = Path(q[1], q[2]) => p = q

(* A zero exit code vouches for every file: it has a result and this is no
   failure (wg.Wait, hasFailures).  It says nothing of the report, which may be
   missing, empty or an older one (writeJSONReport).  With -j 0 there are no
   workers, and a zero exit leaves the files that were queued without a result.
                                                                             *)
ZeroMeansAllTested ==
  code = "success" =>
    \A f \in Files : \/ StatusOf(f) \in {"PASS", "SKIP"}
                     \/ flags.jobs = {} /\ (\E i \in DOMAIN tasks : tasks[i] = f)

(* What compiling and running a content shows, also when the timeout strikes
   and after an interrupt.                                                   *)
ShownBy(compiler, h, interrupted) ==
  {compiler[h]} \cup (IF h \in Slow THEN {"fails"} ELSE {})
                \cup (IF interrupted THEN {"fails", "broken"} ELSE {})

(* What a comparison rests on: what the target showed of the content that the
   file holds, and either the file's golden result, or what the reference
   compiler showed of that content, or what an earlier report says it showed of
   the content of then, which is the same unless someone edited the file.  The
   two are equal, except that a reference that the report says failed to
   compile passes any target that compiles.                                  *)
Agrees(r) ==
  /\ r.target \in ShownBy(world.target, r.hash, handler = "removed")
  /\ r.of # None => r.ref \in ShownBy(world.reference, r.of, Interruptible)
  /\ r.mode = "reference" => r.of = r.hash
  /\ r.of \notin {None, r.hash} => r.mode = "report" /\ edited > 0
  /\ \/ r.ref = r.target
     \/ r.mode = "report" /\ r.ref = "fails" /\ r.target # "fails"
  /\ Running => /\ r.hash = world.content[r.file]
                /\ r.mode = "golden" => r.ref = world.golden[r.file]

(* A PASS means such an agreement, whichever way the file is tested (testFile),
   with tests side by side in one directory, edits between the invocations,
   interrupts, slow compilers and reports that could not be written.         *)
PassMeansAgreement ==
  \A i \in DOMAIN results : results[i].status = "PASS" => Agrees(results[i])

(* An invocation ends: no channel, wait group or child process holds it up.  *)
Terminates == (main = "feed") ~> (main = "exited")

(* What the user sees: results one by one, then an exit code (Verdicts).     *)
Abstract == INSTANCE Verdicts WITH verdict <- [f \in Files |-> StatusOf(f)], exit <- code
VerdictsRefined == Abstract!Spec

(* "Check if there's cached results to speed things up" (handleRunTestSuite): a
   reference outcome from the report gives the verdict that it gave when it came
   from the compiler (testWithReferenceCompiler).                            *)
CacheChangesNoVerdict ==
  \A i \in DOMAIN results :
    LET r == results[i]
    IN  r.mode = "report" => r.status = Verdict("reference", r.ref, r.target)
=============================================================================
