----------------------------- MODULE SuiteProofs -----------------------------
(***************************************************************************)
(* Proofs about Suite, for any files, workers, contents and command lines. *)
(***************************************************************************)
EXTENDS Suite, TLAPS, FiniteSetTheorems, FunctionTheorems

(* The inductive invariant, in parts.  What each place of a worker knows: *)
Sound(r) ==
  /\ r.at \in Holding => r.file \in Files
  /\ r.at = "hash" => r.ref = None /\ r.of = None /\ r.target = None
  /\ r.at = "test" => r.hash \in Hashes
  /\ r.at = "send" => /\ r.status \in Statuses
                      /\ r.ref \in Outcomes \cup {None} /\ r.target \in Outcomes \cup {None}
Knows == \A w \in Workers : Sound(worker[w])

(* where a file is, *)
Queued(f) == \E i \in DOMAIN tasks : tasks[i] = f
Held(w, f) == worker[w].at \in Holding /\ worker[w].file = f

(* that it is in one place at least, *)
Somewhere == \A f \in Files : f \in todo \/ Queued(f) \/ Decided(f) \/ \E w \in Workers : Held(w, f)

(* in one kind of place, *)
OneKind ==
  \A f \in Files :
    /\ f \in todo => ~Queued(f) /\ ~Decided(f) /\ \A w \in Workers : ~Held(w, f)
    /\ Queued(f) => ~Decided(f) /\ \A w \in Workers : ~Held(w, f)
    /\ Decided(f) => \A w \in Workers : ~Held(w, f)

(* and once there; *)
OnceThere ==
  /\ \A i, j \in DOMAIN tasks : tasks[i] = tasks[j] => i = j
  /\ \A i, j \in DOMAIN results : results[i].file = results[j].file => i = j
  /\ \A v, w \in Workers : \A f \in Files : Held(v, f) /\ Held(w, f) => v = w

(* and how far main and the workers are. *)
Order ==
  /\ main = "feed" => ~closed /\ ~drained
  /\ main = "wait" => closed /\ ~drained
  /\ main \in {"report", "write", "exit"} => drained
  /\ closed => todo = {}
  /\ drained => closed /\ \A w \in Workers : worker[w].at = "gone"
  /\ (\E w \in flags.jobs : worker[w].at = "gone") => closed /\ tasks = <<>>

SInv == TypeOK /\ Knows /\ Somewhere /\ OneKind /\ OnceThere /\ Order

-----------------------------------------------------------------------------
(* Lemmas about the channels *)

(* A sequence holds what it held and the element appended. *)
LEMMA AppendHolds ==
  ASSUME NEW S, NEW s \in Seq(S), NEW x \in S
  PROVE  /\ Append(s, x) \in Seq(S) /\ Len(Append(s, x)) = Len(s) + 1
         /\ DOMAIN Append(s, x) = DOMAIN s \cup {Len(s) + 1} /\ Len(s) + 1 \notin DOMAIN s
         /\ Append(s, x)[Len(s) + 1] = x
         /\ \A i \in DOMAIN s : Append(s, x)[i] = s[i]
OBVIOUS

(* The tail holds what is behind the head. *)
LEMMA TailHolds ==
  ASSUME NEW S, NEW s \in Seq(S), s # <<>>
  PROVE  /\ Tail(s) \in Seq(S) /\ Len(s) \in Nat \ {0} /\ DOMAIN Tail(s) = 1 .. Len(s) - 1
         /\ DOMAIN s = 1 .. Len(s) /\ Head(s) = s[1] /\ Head(s) \in S
         /\ \A i \in 1 .. Len(s) - 1 : Tail(s)[i] = s[i + 1]
OBVIOUS

-----------------------------------------------------------------------------
(* Types *)

LEMMA PoolIs ==
  ASSUME NEW jobs
  PROVE  /\ Pool(jobs) \in [Workers -> Worker]
         /\ \A w \in Workers : Sound(Pool(jobs)[w]) /\ Pool(jobs)[w].at \in {"idle", "gone"}
         /\ \A w \in Workers \cap jobs : Pool(jobs)[w].at = "idle"
<1> DEFINE gone == [Idle EXCEPT !.at = "gone"]
<1>1. Idle \in Worker /\ Sound(Idle) /\ Idle.at = "idle"
  BY DEF Idle, Worker, Sound, Holding
<1>2. gone \in Worker /\ Sound(gone) /\ gone.at = "gone"
  BY DEF Idle, Worker, Sound, Holding
<1> HIDE DEF gone
<1>3. Pool(jobs) = [w \in Workers |-> IF w \in jobs THEN Idle ELSE gone]
  BY DEF Pool, gone
<1> QED BY <1>1, <1>2, <1>3

LEMMA InitTypes == Init => TypeOK /\ Knows
<1> SUFFICES ASSUME Init PROVE TypeOK /\ Knows
  OBVIOUS
<1>1. world \in WorldType /\ flags \in FlagType
  BY WorldsAssumption DEF Init
<1>3. worker \in [Workers -> Worker] /\ Knows
  BY PoolIs DEF Init, Knows
<1>4. binaries \in [Paths -> Outputs \cup {None}]
  BY DEF Init, NoBinaries
<1>5. report \in [Files -> Entries]
  BY DEF Init, NoEntry, Entries
<1>6. tasks \in Seq(Files) /\ results \in Seq(Verdicted)
  BY DEF Init
<1> QED BY <1>1, <1>3, <1>4, <1>5, <1>6 DEF Init, TypeOK

(* A worker's step that leaves it a sound record keeps the workers' types. *)
LEMMA WorkerTypes ==
  ASSUME TypeOK, Knows, NEW w \in Workers, NEW r \in Worker, Sound(r),
         worker' = [worker EXCEPT ![w] = r]
  PROVE  worker' \in [Workers -> Worker] /\ Knows'
BY DEF TypeOK, Knows, Sound

LEMMA MainTypes ==
  ASSUME TypeOK, Knows, Feed \/ Collect
  PROVE  TypeOK' /\ Knows'
<1>1. ASSUME NEW f \in Files, NEW s \in Statuses
      PROVE  Result(f, s, Idle) \in Verdicted
  BY <1>1 DEF Result, Verdicted, Idle
<1>2. ASSUME NEW f \in Files, FeedResult(f)
      PROVE  TypeOK' /\ Knows'
  <2>1. Result(f, "SKIP", Idle) \in Verdicted /\ Result(f, "ERROR", Idle) \in Verdicted
    BY <1>1 DEF Statuses
  <2>2. SendResult(Result(f, "SKIP", Idle)) \/ SendResult(Result(f, "ERROR", Idle))
    BY <1>2 DEF FeedResult
  <2>3. results' \in Seq(Verdicted)
    <3>1. PICK r \in Verdicted : results' = Append(results, r)
      BY <2>1, <2>2 DEF SendResult
    <3>2. results \in Seq(Verdicted)
      BY DEF TypeOK
    <3> QED BY <3>1, <3>2, AppendHolds
  <2> QED BY <2>3, <1>2 DEF FeedResult, TypeOK, Knows
<1>3. ASSUME NEW f \in Files, FeedTask(f)
      PROVE  TypeOK' /\ Knows'
  <2>1. tasks' \in Seq(Files)
    BY <1>3 DEF FeedTask, TypeOK
  <2>2. seen' \subseteq Hashes
    BY <1>3 DEF FeedTask, TypeOK, WorldType
  <2> QED BY <2>1, <2>2, <1>3 DEF FeedTask, TypeOK, Knows
<1>4. CASE CloseTasks
  BY <1>4 DEF CloseTasks, TypeOK, Knows
<1>5. CASE WaitWorkers
  BY <1>5 DEF WaitWorkers, TypeOK, Knows
<1>6. CASE KeepReport \/ TruncateReport
  BY <1>6 DEF KeepReport, TruncateReport, TypeOK, Knows, NoEntry, Entries
<1>7. CASE WriteReport
  <2>1. ASSUME NEW f \in Files
        PROVE  Entry(f) \in Entries
    <3>1. \A i \in DOMAIN results : results[i] \in Verdicted
      BY DEF TypeOK
    <3> QED BY <3>1 DEF Entry, NoEntry, Verdicted, Entries, Decided, ResultOf
  <2> QED BY <2>1, <1>7 DEF WriteReport, TypeOK, Knows
<1>8. CASE Exit
  <2>1. NoBinaries \in [Paths -> Outputs \cup {None}]
    BY DEF NoBinaries
  <2> QED BY <2>1, <1>8 DEF Exit, TypeOK, Knows
<1> QED BY <1>2, <1>3, <1>4, <1>5, <1>6, <1>7, <1>8 DEF Feed, Collect

LEMMA OutsideTypes ==
  ASSUME TypeOK, Knows,
         Interrupt \/ HandlerExit \/ Invoke \/ \E f \in Files : GenerateGolden(f) \/ Edit(f)
  PROVE  TypeOK' /\ Knows'
<1>1. NoBinaries \in [Paths -> Outputs \cup {None}]
  BY DEF NoBinaries
<1>2. CASE Interrupt
  BY <1>1, <1>2 DEF Interrupt, TypeOK, Knows
<1>3. CASE HandlerExit
  BY <1>3 DEF HandlerExit, TypeOK, Knows
<1>4. CASE Invoke
  <2>1. worker' = Pool(flags'.jobs)
    BY <1>4 DEF Invoke
  <2>2. worker' \in [Workers -> Worker] /\ Knows'
    BY <2>1, PoolIs DEF Knows
  <2>3. flags' \in FlagType
    BY <1>4, WorldsAssumption DEF Invoke
  <2>4. <<>> \in Seq(Files) /\ <<>> \in Seq(Verdicted)
    OBVIOUS
  <2>5. /\ world' = world /\ report' = report /\ edited' = edited /\ invoked' = invoked + 1
        /\ main' = "feed" /\ todo' = Files /\ seen' = {} /\ tasks' = <<>> /\ closed' = FALSE
        /\ results' = <<>> /\ drained' = FALSE /\ temp' = TRUE /\ binaries' = NoBinaries
        /\ handler' = "waiting" /\ code' = None
    BY <1>4 DEF Invoke
  <2>6. /\ binaries' \in [Paths -> Outputs \cup {None}] /\ tasks' \in Seq(Files)
        /\ results' \in Seq(Verdicted) /\ worker' \in [Workers -> Worker]
    BY <1>1, <2>2, <2>4, <2>5
  <2>7. world' \in WorldType /\ invoked' \in Nat /\ edited' \in Nat
        /\ report' \in [Files -> Entries]
    BY <2>5 DEF TypeOK
  <2> QED BY <2>2, <2>3, <2>5, <2>6, <2>7 DEF TypeOK
<1>5. ASSUME NEW f \in Files, GenerateGolden(f)
      PROVE  TypeOK' /\ Knows'
  <2>1. world.content[f] \in Hashes \cup {Unreadable} /\ world.target \in [Hashes -> {"fails"} \cup Outputs]
    BY DEF TypeOK, WorldType
  <2>2. ASSUME NEW g \in Outputs \cup {"garbled", "broken"}
        PROVE  [world EXCEPT !.golden[f] = g] \in WorldType
    BY DEF TypeOK, WorldType
  <2>3. world' \in WorldType
    <3>1. world' = world \/ \E g \in Outputs \cup {"garbled", "broken"} :
                              world' = [world EXCEPT !.golden[f] = g]
      BY <1>5, <2>1 DEF GenerateGolden
    <3> QED BY <2>2, <3>1 DEF TypeOK
  <2> QED BY <1>5, <2>3 DEF GenerateGolden, TypeOK, Knows
<1>6. ASSUME NEW f \in Files, Edit(f)
      PROVE  TypeOK' /\ Knows'
  <2>1. PICK h \in Hashes \cup {Unreadable} : world' = [world EXCEPT !.content[f] = h]
    BY <1>6 DEF Edit
  <2>2. world' \in WorldType
    BY <2>1 DEF TypeOK, WorldType
  <2> QED BY <1>6, <2>2 DEF Edit, TypeOK, Knows
<1> QED BY <1>2, <1>3, <1>4, <1>5, <1>6

(* A worker's record with some fields replaced is still one. *)
LEMMA Settles ==
  ASSUME NEW r \in Worker, NEW s \in Statuses,
         r.file \in Files, r.ref \in Outcomes \cup {None}, r.target \in Outcomes \cup {None}
  PROVE  LET n == [r EXCEPT !.at = "send", !.status = s]
         IN  n \in Worker /\ Sound(n) /\ n.at = "send" /\ n.file = r.file
<1> DEFINE n == [[r EXCEPT !.at = "send"] EXCEPT !.status = s]
<1>1. n \in Worker /\ n.at = "send" /\ n.file = r.file /\ n.ref = r.ref /\ n.target = r.target /\ n.status = s
  BY DEF Worker, Holding
<1>2. Sound(n)
  BY <1>1 DEF Sound, Holding
<1>3. [r EXCEPT !.at = "send", !.status = s] = n
  OBVIOUS
<1> QED BY <1>1, <1>2, <1>3

LEMMA Fresh ==
  ASSUME NEW f \in Files
  PROVE  LET n == [Idle EXCEPT !.at = "hash", !.file = f]
         IN  n \in Worker /\ Sound(n) /\ n.at = "hash" /\ n.file = f
<1> DEFINE n == [[Idle EXCEPT !.at = "hash"] EXCEPT !.file = f]
<1>1. Idle \in Worker /\ Idle.ref = None /\ Idle.of = None /\ Idle.target = None
  BY DEF Idle, Worker
<1>2. n \in Worker /\ n.at = "hash" /\ n.file = f /\ n.ref = None /\ n.of = None /\ n.target = None
  BY <1>1 DEF Worker, Holding
<1>3. Sound(n)
  BY <1>2 DEF Sound, Holding
<1>4. [Idle EXCEPT !.at = "hash", !.file = f] = n
  OBVIOUS
<1> QED BY <1>2, <1>3, <1>4

LEMMA SideChanges ==
  ASSUME NEW r \in Worker, Sound(r), r.at = "test", NEW side \in Side,
         NEW o \in Outcomes \cup {"compile", "run", None}
  PROVE  LET n == [r EXCEPT ![side] = o]
         IN  n \in Worker /\ Sound(n) /\ n.at = "test" /\ n.file = r.file
<1>1. CASE side = "ref"
  BY <1>1 DEF Worker, Sound, Holding
<1>2. CASE side = "target"
  BY <1>2 DEF Worker, Sound, Holding
<1> QED BY <1>1, <1>2 DEF Side

Begun(r, h, m, o, p) ==
  [r EXCEPT !.at = "test", !.hash = h, !.mode = m, !.ref = o, !.of = p, !.target = "compile"]

LEMMA Started ==
  ASSUME NEW r \in Worker, r.file \in Files, NEW h \in Hashes,
         NEW m \in {"golden", "reference", "report"},
         NEW o \in Outcomes \cup {"compile", None}, NEW p \in Hashes \cup {None}
  PROVE  LET n == Begun(r, h, m, o, p)
         IN  n \in Worker /\ Sound(n) /\ n.at = "test" /\ n.file = r.file
<1> DEFINE n == [[[[[[r EXCEPT !.at = "test"] EXCEPT !.hash = h] EXCEPT !.mode = m]
                    EXCEPT !.ref = o] EXCEPT !.of = p] EXCEPT !.target = "compile"]
<1>1. n \in Worker /\ n.at = "test" /\ n.file = r.file /\ n.hash = h
  BY DEF Worker, Holding, Modes
<1>2. Sound(n)
  BY <1>1 DEF Sound, Holding
<1>3. Begun(r, h, m, o, p) = n
  BY DEF Begun
<1> HIDE DEF n
<1> QED BY <1>1, <1>2, <1>3

(* A step of a test under way: the worker goes on holding its file. *)
Steady(w) ==
  \E n \in Worker : /\ worker[w].at \in Holding /\ n.at \in Holding /\ n.file = worker[w].file
                    /\ Sound(n) /\ worker' = [worker EXCEPT ![w] = n]

LEMMA SteadySteps ==
  ASSUME TypeOK, Knows, NEW w \in Workers,
         GiveUp(w) \/ StartTest(w) \/ Judge(w) \/ \E side \in Side : Test(w, side)
  PROVE  Steady(w)
<1> DEFINE r == worker[w]
<1>1. r \in Worker /\ Sound(r)
  BY DEF TypeOK, Knows
<1> HIDE DEF r
<1>2. CASE GiveUp(w)
  <2>1. PICK s \in Statuses : worker' = [worker EXCEPT ![w] = [@ EXCEPT !.at = "send", !.status = s]]
    BY <1>2 DEF GiveUp, Statuses
  <2> DEFINE n == [r EXCEPT !.at = "send", !.status = s]
  <2>2. worker' = [worker EXCEPT ![w] = n]
    BY <2>1 DEF r
  <2>3. /\ r.at = "hash" /\ r.file \in Files
        /\ r.ref \in Outcomes \cup {None} /\ r.target \in Outcomes \cup {None}
    BY <1>1, <1>2 DEF GiveUp, r, Sound, Holding
  <2>4. n \in Worker /\ Sound(n) /\ n.at = "send" /\ n.file = r.file
    BY <1>1, <2>3, Settles
  <2> HIDE DEF n
  <2> QED BY <2>2, <2>3, <2>4 DEF Steady, Holding, r
<1>3. CASE StartTest(w)
  <2> DEFINE f == r.file
             h == world.content[f]
             m == Mode(f)
             o == CASE m = "golden" -> world.golden[f]
                    [] m = "report" -> report[f].ref
                    [] m = "reference" -> "compile"
             p == CASE m = "golden" -> None
                    [] m = "report" -> report[f].of
                    [] m = "reference" -> h
             n == Begun(r, h, m, o, p)
  <2>1. r.at = "hash" /\ f \in Files
    BY <1>1, <1>3 DEF StartTest, r, Sound, Holding
  <2>2. h \in Hashes
    BY <1>3, <2>1 DEF StartTest, r, TypeOK, WorldType
  <2>3. m \in {"golden", "reference", "report"}
    BY DEF Mode
  <2>4. o \in Outcomes \cup {"compile", None} /\ p \in Hashes \cup {None}
    <3>1. m = "golden" => world.golden[f] \in Outcomes
      BY <1>3, <2>1 DEF StartTest, r, TypeOK, WorldType, Outcomes
    <3>2. report[f].ref \in Outcomes \cup {None} /\ report[f].of \in Hashes \cup {None}
      BY <2>1 DEF TypeOK, Entries
    <3> QED BY <2>2, <2>3, <3>1, <3>2
  <2>5. worker' = [worker EXCEPT ![w] = n]
    BY <1>3 DEF StartTest, r, Begun
  <2>6. n \in Worker /\ Sound(n) /\ n.at = "test" /\ n.file = r.file
    <3> HIDE DEF h, m, o, p
    <3> QED BY <1>1, <2>1, <2>2, <2>3, <2>4, Started
  <2> HIDE DEF n, h, m, o, p
  <2> QED BY <2>1, <2>5, <2>6 DEF Steady, Holding, r
<1>4. CASE Judge(w)
  <2> DEFINE s == Verdict(worker[w].mode, worker[w].ref, worker[w].target)
             n == [r EXCEPT !.at = "send", !.status = s]
  <2>1. s \in Statuses
    BY DEF Verdict, Compare, Statuses
  <2>2. worker' = [worker EXCEPT ![w] = n]
    BY <1>4 DEF Judge, r
  <2>3. /\ r.at = "test" /\ r.file \in Files
        /\ r.ref \in Outcomes \cup {None} /\ r.target \in Outcomes \cup {None}
    BY <1>1, <1>4 DEF Judge, r, Sound, Holding
  <2>4. n \in Worker /\ Sound(n) /\ n.at = "send" /\ n.file = r.file
    <3> HIDE DEF s
    <3> QED BY <1>1, <2>1, <2>3, Settles
  <2> HIDE DEF n
  <2> QED BY <2>2, <2>3, <2>4 DEF Steady, Holding, r
<1>5. ASSUME NEW side \in Side, Test(w, side)
      PROVE  Steady(w)
  <2>1. r.at = "test"
    BY <1>5 DEF Test, Compile, Run, r
  <2>2. PICK o \in Outcomes \cup {"compile", "run", None} : worker' = [worker EXCEPT ![w][side] = o]
    <3>1. CASE Compile(w, side)
      BY <3>1 DEF Compile, Outcomes
    <3>2. CASE Run(w, side)
      <4>1. Path(w, side) \in Paths
        BY <1>1, <2>1, <1>5 DEF Path, Paths, Side, Sound, r
      <4>2. binaries[Path(w, side)] \in Outcomes \cup {None}
        BY <4>1 DEF TypeOK, Outcomes
      <4> QED BY <3>2, <4>2 DEF Run, Outcomes
    <3> QED BY <1>5, <3>1, <3>2 DEF Test
  <2> DEFINE n == [r EXCEPT ![side] = o]
  <2>3. worker' = [worker EXCEPT ![w] = n]
    BY <2>2 DEF r
  <2>4. n \in Worker /\ Sound(n) /\ n.at = "test" /\ n.file = r.file
    BY <1>1, <2>1, SideChanges
  <2> HIDE DEF n
  <2> QED BY <2>1, <2>3, <2>4 DEF Steady, Holding, r
<1> QED BY <1>2, <1>3, <1>4, <1>5

LEMMA SteadyTypes ==
  ASSUME TypeOK, Knows, NEW w \in Workers, Steady(w)
  PROVE  worker' \in [Workers -> Worker] /\ Knows'
BY WorkerTypes DEF Steady

LEMMA WorkTypes ==
  ASSUME TypeOK, Knows, NEW w \in Workers, Work(w) \/ \E side \in Side : Test(w, side)
  PROVE  TypeOK' /\ Knows'
<1> DEFINE r == worker[w]
<1>1. r \in Worker /\ Sound(r)
  BY DEF TypeOK, Knows
<1>2. CASE Receive(w)
  <2> DEFINE n == [Idle EXCEPT !.at = "hash", !.file = Head(tasks)]
  <2>1. Head(tasks) \in Files /\ tasks' \in Seq(Files)
    BY <1>2, TailHolds DEF Receive, TypeOK
  <2>2. n \in Worker /\ Sound(n) /\ worker' = [worker EXCEPT ![w] = n]
    BY <1>2, <2>1, Fresh DEF Receive
  <2> HIDE DEF n
  <2>3. worker' \in [Workers -> Worker] /\ Knows'
    BY <2>2, WorkerTypes
  <2> QED BY <1>2, <2>1, <2>3 DEF Receive, KeepMain, TypeOK
<1>3. CASE Quit(w)
  <2> DEFINE n == [r EXCEPT !.at = "gone"]
  <2>0. worker' = [worker EXCEPT ![w] = n]
    BY <1>3 DEF Quit, TypeOK
  <2>1. n \in Worker /\ Sound(n)
    BY <1>1 DEF Worker, Sound, Holding
  <2> HIDE DEF n
  <2>2. worker' \in [Workers -> Worker] /\ Knows'
    BY <2>0, <2>1, WorkerTypes
  <2> QED BY <1>3, <2>2 DEF Quit, KeepMain, TypeOK
<1>4. CASE Send(w)
  <2>1. Idle \in Worker /\ Sound(Idle)
    BY DEF Idle, Worker, Sound, Holding
  <2>2. worker' \in [Workers -> Worker] /\ Knows'
    BY <1>4, <2>1, WorkerTypes DEF Send
  <2>3. Result(r.file, r.status, r) \in Verdicted
    BY <1>1, <1>4 DEF Send, Result, Verdicted, Sound, Holding, Worker
  <2>4. results' \in Seq(Verdicted)
    BY <1>4, <2>3, AppendHolds DEF Send, SendResult, TypeOK
  <2> QED BY <1>4, <2>2, <2>4 DEF Send, KeepMain, TypeOK
<1>5. CASE GiveUp(w) \/ StartTest(w) \/ Judge(w)
  <2>1. worker' \in [Workers -> Worker] /\ Knows'
    BY <1>5, SteadySteps, SteadyTypes
  <2> QED BY <1>5, <2>1 DEF GiveUp, StartTest, Judge, KeepMain, TypeOK
<1>6. ASSUME NEW side \in Side, Test(w, side)
      PROVE  TypeOK' /\ Knows'
  <2>1. worker' \in [Workers -> Worker] /\ Knows'
    BY <1>6, SteadySteps, SteadyTypes
  <2>2. binaries' \in [Paths -> Outputs \cup {None}]
    <3>1. CASE Compile(w, side)
      <4>1. r.at = "test" /\ r.file \in Files
        BY <1>1, <3>1 DEF Compile, Sound, Holding
      <4>2. Compiled(w, side) \in {"fails"} \cup Outputs
        BY <4>1 DEF Compiled, TypeOK, WorldType
      <4> QED BY <3>1, <4>2 DEF Compile, TypeOK
    <3>2. CASE Run(w, side)
      BY <3>2 DEF Run, TypeOK
    <3> QED BY <1>6, <3>1, <3>2 DEF Test
  <2> QED BY <1>6, <2>1, <2>2 DEF Test, Compile, Run, KeepMain, TypeOK
<1> QED BY <1>2, <1>3, <1>4, <1>5, <1>6 DEF Work
-----------------------------------------------------------------------------
(* Where the files are *)

LEMMA SentAppends ==
  ASSUME TypeOK, NEW r \in Verdicted, results' = Append(results, r)
  PROVE  /\ \A g : Decided(g)' <=> Decided(g) \/ g = r.file
         /\ OnceThere /\ ~Decided(r.file) =>
              \A i, j \in DOMAIN results' : results'[i].file = results'[j].file => i = j
<1>1. results \in Seq(Verdicted)
  BY DEF TypeOK
<1> DEFINE n == Len(results) + 1
<1>2. /\ DOMAIN results' = DOMAIN results \cup {n} /\ n \notin DOMAIN results
      /\ results'[n] = r /\ \A i \in DOMAIN results : results'[i] = results[i]
  BY <1>1, AppendHolds
<1> HIDE DEF n
<1> QED BY <1>2 DEF Decided, OnceThere

LEMMA QueuedAppends ==
  ASSUME TypeOK, NEW f \in Files, tasks' = Append(tasks, f)
  PROVE  /\ \A g : Queued(g)' <=> Queued(g) \/ g = f
         /\ OnceThere /\ ~Queued(f) => \A i, j \in DOMAIN tasks' : tasks'[i] = tasks'[j] => i = j
<1>1. tasks \in Seq(Files)
  BY DEF TypeOK
<1> DEFINE n == Len(tasks) + 1
<1>2. /\ DOMAIN tasks' = DOMAIN tasks \cup {n} /\ n \notin DOMAIN tasks
      /\ tasks'[n] = f /\ \A i \in DOMAIN tasks : tasks'[i] = tasks[i]
  BY <1>1, AppendHolds
<1> HIDE DEF n
<1> QED BY <1>2 DEF Queued, OnceThere

LEMMA QueuedShrinks ==
  ASSUME TypeOK, OnceThere, tasks # <<>>, tasks' = Tail(tasks)
  PROVE  /\ \A g : Queued(g)' <=> Queued(g) /\ g # Head(tasks)
         /\ \A i, j \in DOMAIN tasks' : tasks'[i] = tasks'[j] => i = j
         /\ Head(tasks) \in Files /\ Queued(Head(tasks))
<1> DEFINE n == Len(tasks)
<1>1. /\ n \in Nat \ {0} /\ DOMAIN tasks' = 1 .. n - 1 /\ DOMAIN tasks = 1 .. n
      /\ Head(tasks) = tasks[1] /\ Head(tasks) \in Files
      /\ \A i \in 1 .. n - 1 : tasks'[i] = tasks[i + 1]
  BY TailHolds DEF TypeOK
<1> HIDE DEF n
<1>2. \A i, j \in 1 .. n : tasks[i] = tasks[j] => i = j
  BY <1>1 DEF OnceThere
<1>3. \A i, j \in 1 .. n - 1 : tasks'[i] = tasks'[j] => i = j
  <2> SUFFICES ASSUME NEW i \in 1 .. n - 1, NEW j \in 1 .. n - 1, tasks'[i] = tasks'[j]
               PROVE  i = j
    OBVIOUS
  <2>1. tasks[i + 1] = tasks[j + 1] /\ i + 1 \in 1 .. n /\ j + 1 \in 1 .. n
    BY <1>1
  <2>2. i + 1 = j + 1
    BY <1>2, <2>1
  <2> QED BY <1>1, <2>2
<1>4. ASSUME NEW g
      PROVE  Queued(g)' <=> Queued(g) /\ g # Head(tasks)
  <2>1. ASSUME Queued(g)'
        PROVE  Queued(g) /\ g # Head(tasks)
    <3>1. PICK i \in 1 .. n - 1 : tasks[i + 1] = g
      BY <1>1, <2>1 DEF Queued
    <3>2. i + 1 \in 1 .. n /\ 1 \in 1 .. n /\ i + 1 # 1
      BY <1>1
    <3> QED BY <1>1, <1>2, <3>1, <3>2 DEF Queued
  <2>2. ASSUME Queued(g), g # Head(tasks)
        PROVE  Queued(g)'
    <3>1. PICK i \in 1 .. n : tasks[i] = g
      BY <1>1, <2>2 DEF Queued
    <3>2. i - 1 \in 1 .. n - 1 /\ (i - 1) + 1 = i
      BY <1>1, <2>2, <3>1
    <3>3. tasks'[i - 1] = g
      BY <1>1, <3>1, <3>2
    <3> QED BY <1>1, <3>2, <3>3 DEF Queued
  <2> QED BY <2>1, <2>2
<1>5. Queued(Head(tasks))
  BY <1>1 DEF Queued
<1> QED BY <1>1, <1>3, <1>4, <1>5

LEMMA HeldChanges ==
  ASSUME TypeOK, NEW w \in Workers, NEW n, worker' = [worker EXCEPT ![w] = n]
  PROVE  /\ \A v \in Workers : v # w => \A g : Held(v, g)' <=> Held(v, g)
         /\ \A g : Held(w, g)' <=> n.at \in Holding /\ n.file = g
BY DEF TypeOK, Held

(* Files, tasks and results that stay put, with workers that hold what they
   held, are where they were.                                               *)
LEMMA NothingMoves ==
  ASSUME Somewhere, OneKind, OnceThere, todo' = todo, tasks' = tasks, results' = results,
         \A v \in Workers : \A g : Held(v, g)' <=> Held(v, g)
  PROVE  Somewhere' /\ OneKind' /\ OnceThere'
BY DEF Somewhere, OneKind, OnceThere, Queued, Decided

LEMMA FeedMoves ==
  ASSUME TypeOK, Somewhere, OneKind, OnceThere, NEW f \in Files, FeedResult(f) \/ FeedTask(f)
  PROVE  Somewhere' /\ OneKind' /\ OnceThere'
<1>1. \A v \in Workers : \A g : Held(v, g)' <=> Held(v, g)
  BY DEF FeedResult, FeedTask, Held
<1>2. f \in todo /\ todo' = todo \ {f} /\ ~Queued(f) /\ ~Decided(f) /\ \A w \in Workers : ~Held(w, f)
  BY DEF FeedResult, FeedTask, OneKind
<1>3. CASE FeedResult(f)
  <2>1. PICK s \in Statuses : results' = Append(results, Result(f, s, Idle))
    BY <1>3 DEF FeedResult, SendResult, Statuses
  <2> DEFINE r == Result(f, s, Idle)
  <2>2. r \in Verdicted /\ r.file = f
    BY DEF Result, Verdicted, Idle
  <2> HIDE DEF r
  <2>3. \A g : Queued(g)' <=> Queued(g)
    BY <1>3 DEF FeedResult, Queued
  <2>4. /\ \A g : Decided(g)' <=> Decided(g) \/ g = f
        /\ \A i, j \in DOMAIN results' : results'[i].file = results'[j].file => i = j
    BY <1>2, <2>1, <2>2, SentAppends DEF r
  <2>5. OnceThere'
    BY <1>1, <1>3, <2>4 DEF OnceThere, FeedResult
  <2> QED BY <1>1, <1>2, <2>3, <2>4, <2>5 DEF Somewhere, OneKind
<1>4. CASE FeedTask(f)
  <2>1. \A g : Decided(g)' <=> Decided(g)
    BY <1>4 DEF FeedTask, Decided
  <2>2. /\ \A g : Queued(g)' <=> Queued(g) \/ g = f
        /\ \A i, j \in DOMAIN tasks' : tasks'[i] = tasks'[j] => i = j
    BY <1>2, <1>4, QueuedAppends DEF FeedTask
  <2>3. OnceThere'
    BY <1>1, <1>4, <2>2 DEF OnceThere, FeedTask
  <2> QED BY <1>1, <1>2, <2>1, <2>2, <2>3 DEF Somewhere, OneKind
<1> QED BY <1>3, <1>4

LEMMA WorkMoves ==
  ASSUME TypeOK, Knows, Somewhere, OneKind, OnceThere, NEW w \in Workers,
         Work(w) \/ \E side \in Side : Test(w, side)
  PROVE  Somewhere' /\ OneKind' /\ OnceThere'
<1>1. todo' = todo
  BY DEF Work, Test, Receive, Quit, GiveUp, StartTest, Judge, Send, Compile, Run, KeepMain
<1>2. CASE Receive(w)
  <2> DEFINE f == Head(tasks)
             n == [Idle EXCEPT !.at = "hash", !.file = f]
  <2>1. /\ \A g : Queued(g)' <=> Queued(g) /\ g # f
        /\ \A i, j \in DOMAIN tasks' : tasks'[i] = tasks'[j] => i = j
        /\ f \in Files /\ Queued(f)
    BY <1>2, QueuedShrinks DEF Receive
  <2>2. \A g : Decided(g)' <=> Decided(g)
    BY <1>2 DEF Receive, Decided
  <2>3. n.at = "hash" /\ n.file = f /\ worker' = [worker EXCEPT ![w] = n]
    BY <1>2, <2>1, Fresh DEF Receive
  <2> HIDE DEF f, n
  <2>4. /\ \A v \in Workers : v # w => \A g : Held(v, g)' <=> Held(v, g)
        /\ \A g : Held(w, g)' <=> g = f
    BY <2>3, HeldChanges DEF Holding
  <2>5. \A g : ~Held(w, g)
    BY <1>2 DEF Receive, Held, Holding
  <2>6. OnceThere'
    <3>1. \A v \in Workers : ~Held(v, f)
      BY <2>1 DEF OneKind
    <3> QED BY <1>2, <2>1, <2>4, <3>1 DEF OnceThere, Receive
  <2>7. Somewhere'
    BY <1>1, <2>1, <2>2, <2>4, <2>5 DEF Somewhere
  <2>8. OneKind'
    BY <1>1, <2>1, <2>2, <2>4, <2>5 DEF OneKind
  <2> QED BY <2>6, <2>7, <2>8
<1>3. CASE Quit(w)
  <2>1. \A v \in Workers : \A g : Held(v, g)' <=> Held(v, g)
    BY <1>3 DEF Quit, Held, Holding, TypeOK, Worker
  <2> QED BY <1>1, <1>3, <2>1, NothingMoves DEF Quit
<1>4. CASE Send(w)
  <2> DEFINE f == worker[w].file
             r == Result(f, worker[w].status, worker[w])
  <2>1. f \in Files /\ Held(w, f) /\ r \in Verdicted /\ r.file = f
    BY <1>4 DEF Send, Knows, Sound, Holding, Held, Result, Verdicted, TypeOK, Worker
  <2>2. ~Decided(f) /\ f \notin todo /\ ~Queued(f)
    BY <2>1 DEF OneKind
  <2>3. results' = Append(results, r)
    BY <1>4 DEF Send, SendResult
  <2> HIDE DEF r
  <2>4. /\ \A g : Decided(g)' <=> Decided(g) \/ g = f
        /\ \A i, j \in DOMAIN results' : results'[i].file = results'[j].file => i = j
    BY <2>1, <2>2, <2>3, SentAppends
  <2>5. /\ \A v \in Workers : v # w => \A g : Held(v, g)' <=> Held(v, g)
        /\ \A g : ~Held(w, g)'
    <3>1. worker' = [worker EXCEPT ![w] = Idle]
      BY <1>4 DEF Send
    <3>2. Idle.at \notin Holding
      BY DEF Idle, Holding
    <3> QED BY <3>1, <3>2, HeldChanges
  <2>6. \A g : Queued(g)' <=> Queued(g)
    BY <1>4 DEF Send, Queued
  <2>7. \A g : Held(w, g) => g = f
    BY DEF Held
  <2>8. \A v \in Workers : v # w => ~Held(v, f)
    BY <2>1 DEF OnceThere
  <2> HIDE DEF f
  <2>9. OnceThere'
    BY <1>4, <2>4, <2>5 DEF OnceThere, Send
  <2>10. Somewhere'
    BY <1>1, <2>4, <2>5, <2>6, <2>7 DEF Somewhere
  <2>11. OneKind'
    BY <1>1, <2>2, <2>4, <2>5, <2>6, <2>8 DEF OneKind
  <2> QED BY <2>9, <2>10, <2>11
<1>5. CASE GiveUp(w) \/ StartTest(w) \/ Judge(w) \/ \E side \in Side : Test(w, side)
  <2>1. PICK n \in Worker : /\ worker[w].at \in Holding /\ n.at \in Holding
                             /\ n.file = worker[w].file /\ worker' = [worker EXCEPT ![w] = n]
    BY <1>5, SteadySteps DEF Steady
  <2>2. \A v \in Workers : \A g : Held(v, g)' <=> Held(v, g)
    BY <2>1, HeldChanges DEF Held
  <2>3. tasks' = tasks /\ results' = results
    BY <1>5 DEF GiveUp, StartTest, Judge, Test, Compile, Run
  <2> QED BY <1>1, <2>2, <2>3, NothingMoves
<1> QED BY <1>2, <1>3, <1>4, <1>5 DEF Work
LEMMA StartsSomewhere ==
  ASSUME todo = Files, tasks = <<>>, results = <<>>, worker = Pool(flags.jobs)
  PROVE  Somewhere /\ OneKind /\ OnceThere
<1>1. \A w \in Workers : \A f : ~Held(w, f)
  BY PoolIs DEF Held, Holding
<1>2. DOMAIN tasks = {} /\ DOMAIN results = {}
  OBVIOUS
<1> QED BY <1>1, <1>2 DEF Somewhere, OneKind, OnceThere, Queued, Decided

LEMMA OtherMoves ==
  ASSUME TypeOK, Somewhere, OneKind, OnceThere,
         CloseTasks \/ Collect \/ Interrupt \/ HandlerExit \/ Invoke
           \/ \E f \in Files : GenerateGolden(f) \/ Edit(f)
  PROVE  Somewhere' /\ OneKind' /\ OnceThere'
<1>1. CASE Invoke
  <2>1. todo' = Files /\ tasks' = <<>> /\ results' = <<>> /\ worker' = Pool(flags'.jobs)
    BY <1>1 DEF Invoke
  <2>2. \A w \in Workers : \A f : ~Held(w, f)'
    BY <2>1, PoolIs DEF Held, Holding
  <2>3. DOMAIN tasks' = {} /\ DOMAIN results' = {}
    BY <2>1
  <2> QED BY <2>1, <2>2, <2>3 DEF Somewhere, OneKind, OnceThere, Queued, Decided
<1>2. CASE CloseTasks \/ Collect \/ Interrupt \/ HandlerExit \/ \E f \in Files : GenerateGolden(f) \/ Edit(f)
  <2>1. UNCHANGED <<todo, tasks, results, worker>>
    BY <1>2 DEF CloseTasks, Collect, WaitWorkers, KeepReport, TruncateReport, WriteReport, Exit, Interrupt,
               HandlerExit, GenerateGolden, Edit
  <2> QED BY <2>1, NothingMoves DEF Held
<1> QED BY <1>1, <1>2

-----------------------------------------------------------------------------
(* How far main and the workers are *)

LEMMA MainOrder ==
  ASSUME TypeOK, Order, Feed \/ Collect \/ Interrupt \/ HandlerExit \/ Invoke
                         \/ \E f \in Files : GenerateGolden(f) \/ Edit(f)
  PROVE  Order'
<1>1. CASE Feed
  BY <1>1 DEF Feed, FeedResult, FeedTask, CloseTasks, Order
<1>2. CASE Collect
  BY <1>2 DEF Collect, WaitWorkers, KeepReport, TruncateReport, WriteReport, Exit, Order
<1>3. CASE Interrupt \/ HandlerExit \/ \E f \in Files : GenerateGolden(f) \/ Edit(f)
  BY <1>3 DEF Interrupt, HandlerExit, GenerateGolden, Edit, Order
<1>4. CASE Invoke
  <2>1. flags'.jobs \subseteq Workers
    BY <1>4, WorldsAssumption DEF Invoke, FlagType
  <2>2. \A w \in flags'.jobs : worker'[w].at = "idle"
    BY <1>4, <2>1, PoolIs DEF Invoke
  <2> QED BY <1>4, <2>2 DEF Invoke, Order
<1> QED BY <1>1, <1>2, <1>3, <1>4

LEMMA WorkOrder ==
  ASSUME TypeOK, Knows, Order, NEW w \in Workers, Work(w) \/ \E side \in Side : Test(w, side)
  PROVE  Order'
<1>1. main' = main /\ closed' = closed /\ drained' = drained /\ todo' = todo /\ flags' = flags
  BY DEF Work, Test, Receive, Quit, GiveUp, StartTest, Judge, Send, Compile, Run, KeepMain
<1>2. worker[w].at # "gone"
  BY DEF Work, Test, Receive, Quit, GiveUp, StartTest, Judge, Send, Compile, Run
<1>3. ~drained
  BY <1>2 DEF Order
<1>4. CASE Quit(w)
  BY <1>1, <1>3, <1>4 DEF Quit, Order
<1>5. CASE Receive(w)
  <2>1. tasks # <<>>
    BY <1>5 DEF Receive
  <2>2. flags.jobs \subseteq Workers /\ \A v \in flags.jobs : worker[v].at # "gone"
    BY <2>1 DEF Order, TypeOK, FlagType
  <2>3. \A v \in flags.jobs : worker'[v].at # "gone"
    BY <1>5, <2>2, Fresh, TailHolds DEF Receive, TypeOK
  <2> QED BY <1>1, <1>3, <2>3 DEF Order
<1>6. ASSUME tasks' = tasks, NEW n, worker' = [worker EXCEPT ![w] = n], n.at # "gone"
      PROVE  Order'
  BY <1>1, <1>2, <1>3, <1>6 DEF Order, TypeOK, FlagType
<1>7. CASE Send(w)
  <2>1. Idle.at # "gone"
    BY DEF Idle
  <2> QED BY <1>6, <1>7, <2>1 DEF Send
<1>8. CASE GiveUp(w) \/ StartTest(w) \/ Judge(w) \/ \E side \in Side : Test(w, side)
  <2>1. PICK n \in Worker : n.at \in Holding /\ worker' = [worker EXCEPT ![w] = n]
    BY <1>8, SteadySteps DEF Steady
  <2>2. tasks' = tasks
    BY <1>8 DEF GiveUp, StartTest, Judge, Test, Compile, Run
  <2> QED BY <1>6, <2>1, <2>2 DEF Holding
<1> QED BY <1>4, <1>5, <1>7, <1>8 DEF Work

-----------------------------------------------------------------------------
(* The three facts of the invariant *)

LEMMA SuiteInit == Init => SInv
<1> SUFFICES ASSUME Init PROVE SInv
  OBVIOUS
<1>1. TypeOK /\ Knows
  BY InitTypes
<1>2. Somewhere /\ OneKind /\ OnceThere
  BY StartsSomewhere DEF Init
<1>3. flags.jobs \subseteq Workers
  BY <1>1 DEF TypeOK, FlagType
<1>4. \A w \in flags.jobs : worker[w].at = "idle"
  BY <1>3, PoolIs DEF Init
<1>5. Order
  BY <1>4 DEF Init, Order
<1> QED BY <1>1, <1>2, <1>5 DEF SInv

LEMMA SuiteNext == SInv /\ [Next]_svars => SInv'
<1> SUFFICES ASSUME SInv, [Next]_svars PROVE SInv'
  OBVIOUS
<1> USE DEF SInv
<1>1. CASE UNCHANGED svars
  BY <1>1 DEF svars, TypeOK, Knows, Somewhere, OneKind, OnceThere, Order, Queued, Decided, Held
<1>2. CASE Feed
  <2>1. TypeOK' /\ Knows' /\ Order'
    BY <1>2, MainTypes, MainOrder
  <2>2. Somewhere' /\ OneKind' /\ OnceThere'
    BY <1>2, FeedMoves, OtherMoves DEF Feed
  <2> QED BY <2>1, <2>2
<1>3. CASE Collect
  BY <1>3, MainTypes, MainOrder, OtherMoves
<1>4. ASSUME NEW w \in Workers, Work(w) \/ \E side \in Side : Test(w, side)
      PROVE  SInv'
  BY <1>4, WorkTypes, WorkMoves, WorkOrder
<1>5. CASE Interrupt \/ HandlerExit \/ Invoke \/ \E f \in Files : GenerateGolden(f) \/ Edit(f)
  BY <1>5, OutsideTypes, MainOrder, OtherMoves
<1> QED BY <1>1, <1>2, <1>3, <1>4, <1>5 DEF Next

LEMMA SuiteInv == Spec => []SInv
BY SuiteInit, SuiteNext, PTL DEF Spec

-----------------------------------------------------------------------------
(* Theorems *)

(* gtest's state keeps the types of its declarations.                        *)
THEOREM SuiteTypeCorrect == Spec => []TypeOK
BY SuiteInv, PTL DEF SInv

(* However the feeder, any number of workers and the two channels interleave, *)
(* with edits and interrupts at any time, a file is in exactly one place: not *)
(* fed yet, queued, held by one worker, or in one result.                     *)
THEOREM ExactlyOneResult == Spec => []OneResultEach
<1>1. SInv => OneResultEach
  <2> SUFFICES ASSUME SInv, NEW f \in Files PROVE \E p \in Places(f) : Places(f) = {p}
    BY DEF OneResultEach
  <2>1. CASE f \in todo
    <3>1. Places(f) = {<<"todo", f>>}
      BY <2>1 DEF SInv, OneKind, Places, Queued, Decided, Held
    <3> QED BY <3>1
  <2>2. CASE Queued(f)
    <3>1. PICK i \in DOMAIN tasks : tasks[i] = f
      BY <2>2 DEF Queued
    <3>2. Places(f) = {<<"tasks", i>>}
      BY <2>2, <3>1 DEF SInv, OneKind, OnceThere, Places, Decided, Held
    <3> QED BY <3>2
  <2>3. ASSUME NEW w \in Workers, Held(w, f)
        PROVE  \E p \in Places(f) : Places(f) = {p}
    <3>1. Places(f) = {<<"worker", w>>}
      BY <2>3 DEF SInv, OneKind, OnceThere, Places, Queued, Decided, Held
    <3> QED BY <3>1
  <2>4. CASE Decided(f)
    <3>1. PICK i \in DOMAIN results : results[i].file = f
      BY <2>4 DEF Decided
    <3>2. Places(f) = {<<"results", i>>}
      BY <2>4, <3>1 DEF SInv, OneKind, OnceThere, Places, Queued, Held
    <3> QED BY <3>2
  <2> QED BY <2>1, <2>2, <2>3, <2>4 DEF SInv, Somewhere
<1> QED BY <1>1, SuiteInv, PTL

(* Nothing is ever sent on a channel that is closed.                         *)
THEOREM NeverSendsOnClosed == Spec => []NoSendAfterClose
<1>1. SInv => NoSendAfterClose
  BY DEF SInv, Order, TypeOK, FlagType, NoSendAfterClose
<1> QED BY <1>1, SuiteInv, PTL
(* A sequence of different files that lacks one is shorter than Files. *)
LEMMA Room ==
  ASSUME NEW n \in Nat, NEW m \in [1 .. n -> Files], \A i, j \in 1 .. n : m[i] = m[j] => i = j,
         NEW g \in Files, \A i \in 1 .. n : m[i] # g
  PROVE  n < Capacity
<1> DEFINE T == Files \ {g}
<1>1. m \in Injection(1 .. n, T)
  <2>1. m \in [1 .. n -> T]
    OBVIOUS
  <2> QED BY <2>1, Fun_IsInj
<1>2. IsFiniteSet(T) /\ Cardinality(T) = Cardinality(Files) - 1
  BY FS_RemoveElement, SuiteAssumption
<1>3. Cardinality(1 .. n) <= Cardinality(T)
  BY <1>1, <1>2, FS_Injection
<1>4. Cardinality(1 .. n) = n
  BY FS_Interval
<1>5. Cardinality(Files) \in Nat
  BY FS_CardinalityType, SuiteAssumption
<1> QED BY <1>2, <1>3, <1>4, <1>5 DEF Capacity

(* The channels of handleRunTestSuite never block a sender, whatever the      *)
(* number of workers: while a file is not in a channel, it has room.          *)
THEOREM SendsNeverBlock == Spec => []NoSendBlocks
<1>1. SInv => NoSendBlocks
  <2> SUFFICES ASSUME SInv PROVE NoSendBlocks
    OBVIOUS
  <2>1. ASSUME NEW g \in Files, ~Decided(g)
        PROVE  Len(results) < Capacity
    <3>1. results \in Seq(Verdicted)
      BY DEF SInv, TypeOK
    <3> DEFINE n == Len(results)
               m == [i \in 1 .. n |-> results[i].file]
    <3>2. n \in Nat /\ DOMAIN results = 1 .. n /\ \A i \in 1 .. n : results[i] \in Verdicted
      BY <3>1
    <3>3. \A i \in 1 .. n : results[i].file \in Files
      BY <3>2 DEF Verdicted
    <3> HIDE DEF n
    <3>4. /\ m \in [1 .. n -> Files] /\ \A i \in 1 .. n : m[i] # g
          /\ \A i, j \in 1 .. n : m[i] = m[j] => i = j
      BY <2>1, <3>2, <3>3 DEF SInv, OnceThere, Decided
    <3> HIDE DEF m
    <3>5. n < Capacity
      BY <3>2, <3>4, Room
    <3> QED BY <3>5 DEF n
  <2>2. ASSUME NEW g \in Files, ~Queued(g)
        PROVE  Len(tasks) < Capacity
    <3>1. tasks \in Seq(Files)
      BY DEF SInv, TypeOK
    <3> DEFINE n == Len(tasks)
    <3>2. n \in Nat /\ DOMAIN tasks = 1 .. n /\ tasks \in [1 .. n -> Files]
      BY <3>1
    <3> HIDE DEF n
    <3>3. /\ \A i \in 1 .. n : tasks[i] # g
          /\ \A i, j \in 1 .. n : tasks[i] = tasks[j] => i = j
      BY <2>2, <3>2 DEF SInv, OnceThere, Queued
    <3>4. n < Capacity
      BY <3>2, <3>3, Room
    <3> QED BY <3>4 DEF n
  <2>3. ASSUME todo # {}
        PROVE  Len(tasks) < Capacity /\ Len(results) < Capacity
    <3>1. PICK g \in Files : g \in todo
      BY <2>3 DEF SInv, TypeOK
    <3>2. ~Decided(g) /\ ~Queued(g)
      BY <3>1 DEF SInv, OneKind
    <3> QED BY <3>2, <2>1, <2>2
  <2>4. ASSUME NEW w \in Workers, worker[w].at \in Holding
        PROVE  Len(results) < Capacity
    <3>1. worker[w].file \in Files /\ Held(w, worker[w].file)
      BY <2>4 DEF SInv, Knows, Sound, Held
    <3>2. ~Decided(worker[w].file)
      BY <3>1 DEF SInv, OneKind
    <3> QED BY <3>1, <3>2, <2>1
  <2> QED BY <2>3, <2>4 DEF NoSendBlocks
<1> QED BY <1>1, SuiteInv, PTL

-----------------------------------------------------------------------------
(* The exit code *)

(* Nobody has an exit code before main exits. *)
CodeIsRight ==
  /\ main # "exited" => code = None
  /\ ZeroMeansAllTested

LEMMA CodeIsRightNext == SInv /\ CodeIsRight /\ [Next]_svars => CodeIsRight'
<1> SUFFICES ASSUME SInv, CodeIsRight, [Next]_svars PROVE CodeIsRight'
  OBVIOUS
<1> USE DEF CodeIsRight, ZeroMeansAllTested
<1>1. ASSUME results' = results, tasks' = tasks, code' = code, flags' = flags,
             main' # "exited" => main # "exited"
      PROVE  CodeIsRight'
  BY <1>1 DEF StatusOf, Decided, ResultOf, None
<1>2. CASE UNCHANGED svars
  BY <1>1, <1>2 DEF svars
<1>3. CASE Feed
  BY <1>3 DEF Feed, FeedResult, FeedTask, CloseTasks, None
<1>4. CASE WaitWorkers \/ KeepReport \/ TruncateReport \/ WriteReport
  BY <1>1, <1>4 DEF WaitWorkers, KeepReport, TruncateReport, WriteReport
<1>5. CASE Exit
  <2>1. CASE Failures # {}
    BY <1>5, <2>1 DEF Exit
  <2>2. ASSUME Failures = {}, NEW f \in Files
        PROVE  StatusOf(f) \in {"PASS", "SKIP"} \/ (flags.jobs = {} /\ Queued(f))
    <3>1. drained /\ closed /\ todo = {} /\ \A w \in Workers : worker[w].at = "gone"
      BY <1>5 DEF Exit, SInv, Order
    <3>2. flags.jobs # {} => tasks = <<>>
      BY <3>1 DEF SInv, Order, TypeOK, FlagType
    <3>3. Decided(f) \/ (flags.jobs = {} /\ Queued(f))
      <4>1. Decided(f) \/ Queued(f)
        BY <3>1 DEF SInv, Somewhere, Held, Holding
      <4>2. tasks = <<>> => ~Queued(f)
        BY DEF Queued
      <4> QED BY <3>2, <4>1, <4>2
    <3>4. ASSUME Decided(f)
          PROVE  StatusOf(f) \in Statuses
      <4>1. PICK i \in DOMAIN results : results[i] = ResultOf(f)
        BY <3>4 DEF Decided, ResultOf
      <4>2. results[i] \in Verdicted
        BY DEF SInv, TypeOK
      <4> QED BY <3>4, <4>1, <4>2 DEF StatusOf, Verdicted
    <3> QED BY <2>2, <3>3, <3>4 DEF Failures, Statuses
  <2>3. \A f \in Files : StatusOf(f)' = StatusOf(f) /\ (Queued(f)' <=> Queued(f))
    BY <1>5 DEF Exit, StatusOf, Decided, ResultOf, Queued
  <2>4. CASE Failures = {}
    <3>1. main' = "exited" /\ \A f \in Files : StatusOf(f)' \in {"PASS", "SKIP"} \/ (flags'.jobs = {} /\ Queued(f)')
      BY <1>5, <2>2, <2>3, <2>4 DEF Exit
    <3> QED BY <3>1 DEF Queued
  <2> QED BY <2>1, <2>4, <1>5 DEF Exit
<1>6. ASSUME NEW w \in Workers, Work(w) \/ \E side \in Side : Test(w, side)
      PROVE  CodeIsRight'
  <2>1. main' = main /\ code' = code /\ main # "exited"
    BY <1>6 DEF Work, Test, Receive, Quit, GiveUp, StartTest, Judge, Send, Compile, Run, KeepMain, Running
  <2> QED BY <2>1 DEF None
<1>7. CASE Interrupt
  BY <1>1, <1>7 DEF Interrupt
<1>8. CASE HandlerExit
  BY <1>8 DEF HandlerExit
<1>9. CASE Invoke
  BY <1>9 DEF Invoke, None
<1>10. ASSUME NEW f \in Files, GenerateGolden(f) \/ Edit(f)
       PROVE  CodeIsRight'
  BY <1>1, <1>10 DEF GenerateGolden, Edit
<1> QED BY <1>2, <1>3, <1>4, <1>5, <1>6, <1>7, <1>8, <1>9, <1>10 DEF Next, Collect

(* gtest exits with 0 only when every file has a result in memory and none is *)
(* a failure, whatever became of the report; with -j 0, when each file without *)
(* a result is still in the channel.                                          *)
THEOREM ZeroVouchesForAll == Spec => []ZeroMeansAllTested
<1>1. Init => CodeIsRight
  BY DEF Init, CodeIsRight, ZeroMeansAllTested, None
<1>2. SInv /\ CodeIsRight /\ [Next]_svars => CodeIsRight'
  BY CodeIsRightNext
<1>3. CodeIsRight => ZeroMeansAllTested
  BY DEF CodeIsRight
<1> QED BY <1>1, <1>2, <1>3, SuiteInv, PTL DEF Spec

-----------------------------------------------------------------------------
(* Suite implements Verdicts, step by step: the safety half of VerdictsRefined. *)

(* What the user sees of the files. *)
Seen == [f \in Files |-> StatusOf(f)]

(* An exited run has an exit code, only a user's interrupt cancels, and the
   command line is one of those there are.                                   *)
Ended ==
  /\ main = "exited" => code # None
  /\ handler = "removed" => Interruptible
  /\ flags \in Flags

VInv == SInv /\ CodeIsRight /\ Ended

-----------------------------------------------------------------------------
(* The statuses *)

(* A file's status is that of its one result. *)
LEMMA StatusIs ==
  ASSUME OnceThere, NEW i \in DOMAIN results
  PROVE  StatusOf(results[i].file) = results[i].status
BY DEF StatusOf, Decided, ResultOf, OnceThere

LEMMA StatusNone ==
  ASSUME NEW f, ~Decided(f)
  PROVE  StatusOf(f) = None
BY DEF StatusOf, Decided

(* A result decides its file and no other. *)
LEMMA ResultDecides ==
  ASSUME SInv, OnceThere', NEW r \in Verdicted, ~Decided(r.file), results' = Append(results, r)
  PROVE  Seen[r.file] = None /\ Seen' = [Seen EXCEPT ![r.file] = r.status]
<1>1. PICK n : n = Len(results) + 1
  OBVIOUS
<1>2. results \in Seq(Verdicted)
  BY DEF SInv, TypeOK
<1>3. /\ DOMAIN results' = DOMAIN results \cup {n} /\ results'[n] = r
      /\ \A i \in DOMAIN results : results'[i] = results[i]
  BY <1>1, <1>2, AppendHolds
<1>4. r.file \in Files
  BY DEF Verdicted
<1>5. StatusOf(r.file) = None
  BY StatusNone
<1>6. StatusOf(r.file)' = r.status
  BY <1>3 DEF StatusOf, Decided, ResultOf, OnceThere
<1>7. ASSUME NEW g \in Files, g # r.file
      PROVE  StatusOf(g)' = StatusOf(g)
  <2>1. CASE Decided(g)
    <3>1. PICK i \in DOMAIN results : results[i].file = g
      BY <2>1 DEF Decided
    <3>2. StatusOf(g) = results[i].status
      BY <3>1, StatusIs DEF SInv
    <3>3. i \in DOMAIN results' /\ results'[i] = results[i]
      BY <1>3
    <3>4. StatusOf(g)' = results[i].status
      BY <3>1, <3>3 DEF StatusOf, Decided, ResultOf, OnceThere
    <3> QED BY <3>2, <3>4
  <2>2. CASE ~Decided(g)
    <3>1. ~\E i \in DOMAIN results' : results'[i].file = g
      BY <1>3, <1>7, <2>2 DEF Decided
    <3> QED BY <2>2, <3>1, StatusNone DEF StatusOf, Decided
  <2> QED BY <2>1, <2>2
<1> QED BY <1>4, <1>5, <1>6, <1>7 DEF Seen

(* Before an exit, a result is a decision. *)
LEMMA SentIsDecided ==
  ASSUME SInv, OnceThere', code = None, code' = code, NEW r \in Verdicted, ~Decided(r.file),
         results' = Append(results, r)
  PROVE  Abstract!Decide(r.file) /\ r.file \in Files
<1>1. Seen[r.file] = None /\ Seen' = [Seen EXCEPT ![r.file] = r.status]
  BY ResultDecides
<1>2. r.file \in Files /\ r.status \in {"PASS", "FAIL", "SKIP", "ERROR"}
  BY DEF Verdicted, Statuses
<1> QED BY <1>1, <1>2 DEF Abstract!Decide, Seen, None

-----------------------------------------------------------------------------
(* The steps *)

(* Steps that send no result and do not end the run show nothing. *)
LEMMA NothingSeen ==
  ASSUME results' = results, code' = code
  PROVE  UNCHANGED Abstract!vars
BY DEF Abstract!vars, StatusOf, Decided, ResultOf

LEMMA FeedDecides ==
  ASSUME VInv, OnceThere', NEW f \in Files, FeedResult(f)
  PROVE  \E g \in Files : Abstract!Decide(g)
<1>1. f \in todo /\ code = None /\ code' = code
  BY DEF FeedResult, VInv, CodeIsRight
<1>2. ~Decided(f)
  BY <1>1 DEF VInv, SInv, OneKind
<1>3. PICK s \in {"SKIP", "ERROR"} : results' = Append(results, Result(f, s, Idle))
  BY DEF FeedResult, SendResult
<1>4. PICK r \in Verdicted : r = Result(f, s, Idle)
  BY DEF Result, Verdicted, Statuses, Idle
<1>5. r.file = f
  BY <1>4 DEF Result
<1> QED BY <1>1, <1>2, <1>3, <1>4, <1>5, SentIsDecided DEF VInv

LEMMA SendDecides ==
  ASSUME VInv, OnceThere', NEW w \in Workers, Send(w)
  PROVE  \E g \in Files : Abstract!Decide(g)
<1>1. worker[w].at = "send" /\ code = None /\ code' = code
  BY DEF Send, Running, KeepMain, VInv, CodeIsRight
<1>2. results' = Append(results, Result(worker[w].file, worker[w].status, worker[w]))
  BY DEF Send, SendResult
<1>3. Result(worker[w].file, worker[w].status, worker[w]) \in Verdicted
  <2>1. worker[w] \in Worker /\ Sound(worker[w])
    BY DEF VInv, SInv, TypeOK, Knows
  <2> QED BY <1>1, <2>1 DEF Worker, Sound, Holding, Result, Verdicted
<1>4. PICK r \in Verdicted : r = Result(worker[w].file, worker[w].status, worker[w])
  BY <1>3
<1>5. r.file = worker[w].file /\ r.file \in Files
  BY <1>4 DEF Result, Verdicted, Idle
<1>6. ~Decided(r.file)
  BY <1>1, <1>5 DEF VInv, SInv, OneKind, Held, Holding
<1> QED BY <1>1, <1>2, <1>4, <1>6, SentIsDecided DEF VInv

(* main exits when every file is decided, with the code they call for. *)
LEMMA ExitFinishes ==
  ASSUME VInv, \A fl \in Flags : fl.jobs # {}, Exit
  PROVE  Abstract!Finish
<1>1. /\ main = "exit" /\ code = None /\ results' = results
      /\ code' = IF Failures # {} THEN "failure" ELSE "success"
  BY DEF Exit, VInv, CodeIsRight
<1>2. drained /\ closed /\ todo = {} /\ tasks = <<>> /\ \A w \in Workers : worker[w].at = "gone"
  <2>1. flags.jobs \subseteq Workers /\ flags.jobs # {}
    BY DEF VInv, Ended, SInv, TypeOK, FlagType
  <2> QED BY <1>1, <2>1 DEF VInv, SInv, Order
<1>3. DOMAIN tasks = {}
  BY <1>2
<1>4. \A f \in Files : Decided(f)
  BY <1>2, <1>3 DEF VInv, SInv, Somewhere, Queued, Held, Holding
<1>5. ASSUME NEW f \in Files
      PROVE  StatusOf(f) \in Statuses
  <2>1. PICK i \in DOMAIN results : results[i].file = f
    BY <1>4 DEF Decided
  <2>2. results[i] \in Verdicted
    BY DEF VInv, SInv, TypeOK
  <2>3. StatusOf(f) = results[i].status
    BY <2>1, StatusIs DEF VInv, SInv
  <2> QED BY <2>2, <2>3 DEF Verdicted
<1>6. (Failures # {}) <=> \E f \in Files : Seen[f] \in {"FAIL", "ERROR"}
  BY <1>5 DEF Failures, Seen
<1>7. \A f \in Files : Seen[f] # "none"
  BY <1>5 DEF Seen, Statuses
<1>8. Seen' = Seen
  BY <1>1 DEF Seen, StatusOf, Decided, ResultOf
<1> QED BY <1>1, <1>6, <1>7, <1>8 DEF Abstract!Finish, Seen, None

LEMMA InvokeInvokes ==
  ASSUME VInv, Invoke
  PROVE  Abstract!Invoke
<1>1. code # None /\ code' = None /\ results' = <<>>
  BY DEF Invoke, Running, VInv, Ended
<1>2. DOMAIN results' = {}
  BY <1>1
<1>3. \A f \in Files : StatusOf(f)' = None
  BY <1>2 DEF StatusOf, Decided
<1> QED BY <1>1, <1>3 DEF Abstract!Invoke, Abstract!Undecided, None

LEMMA StepsAreVisible ==
  ASSUME \A fl \in Flags : fl.jobs # {}
  PROVE  VInv /\ OnceThere' /\ [Next]_svars => [Abstract!Next]_(Abstract!vars)
<1> SUFFICES ASSUME VInv, OnceThere', [Next]_svars PROVE Abstract!Next \/ UNCHANGED Abstract!vars
  OBVIOUS
<1>1. CASE UNCHANGED svars
  BY <1>1, NothingSeen DEF svars
<1>2. CASE \E f \in Files : FeedResult(f)
  BY <1>2, FeedDecides DEF Abstract!Next, Abstract!Step
<1>3. CASE \E w \in Workers : Send(w)
  BY <1>3, SendDecides DEF Abstract!Next, Abstract!Step
<1>4. CASE Exit
  BY <1>4, ExitFinishes DEF Abstract!Next, Abstract!Step
<1>5. CASE HandlerExit
  <2>1. Abstract!Cancel
    BY <1>5, NothingSeen DEF HandlerExit, Running, VInv, CodeIsRight, Ended, Abstract!Cancel, StatusOf, Decided, ResultOf, None
  <2> QED BY <2>1 DEF Abstract!Next
<1>6. CASE Invoke
  BY <1>6, InvokeInvokes DEF Abstract!Next
<1>7. CASE CloseTasks \/ WaitWorkers \/ KeepReport \/ TruncateReport \/ WriteReport \/ Interrupt
             \/ \E f \in Files : FeedTask(f) \/ GenerateGolden(f) \/ Edit(f)
  BY <1>7, NothingSeen DEF CloseTasks, WaitWorkers, KeepReport, TruncateReport, WriteReport, Interrupt, FeedTask,
                           GenerateGolden, Edit
<1>8. CASE \E w \in Workers : \/ Receive(w) \/ Quit(w) \/ GiveUp(w) \/ StartTest(w) \/ Judge(w)
                              \/ \E side \in Side : Test(w, side)
  BY <1>8, NothingSeen DEF Receive, Quit, GiveUp, StartTest, Judge, Test, Compile, Run, KeepMain
<1> QED BY <1>1, <1>2, <1>3, <1>4, <1>5, <1>6, <1>7, <1>8 DEF Next, Feed, Collect, Work

LEMMA EndedNext == VInv /\ [Next]_svars => Ended'
<1> SUFFICES ASSUME VInv, [Next]_svars PROVE Ended'
  OBVIOUS
<1> USE DEF VInv, Ended, None
<1>1. CASE UNCHANGED svars \/ Feed
  BY <1>1 DEF svars, Feed, FeedResult, FeedTask, CloseTasks
<1>2. CASE Collect
  BY <1>2 DEF Collect, WaitWorkers, KeepReport, TruncateReport, WriteReport, Exit
<1>3. CASE \E w \in Workers : Work(w) \/ \E side \in Side : Test(w, side)
  BY <1>3 DEF Work, Test, Receive, Quit, GiveUp, StartTest, Judge, Send, Compile, Run, KeepMain
<1>4. CASE Interrupt \/ HandlerExit \/ Invoke
  BY <1>4 DEF Interrupt, HandlerExit, Invoke, Running
<1>5. CASE \E f \in Files : GenerateGolden(f) \/ Edit(f)
  BY <1>5 DEF GenerateGolden, Edit
<1> QED BY <1>1, <1>2, <1>3, <1>4, <1>5 DEF Next

(* Every step of gtest is one its user can account for: it decides an        *)
(* undecided file, exits with the code that the decided files call for, is   *)
(* cancelled with a failure, starts anew, or shows nothing.  With -j 0  *)
(* main exits with files undecided.                                          *)
THEOREM StepsAccountedFor ==
  ASSUME \A fl \in Flags : fl.jobs # {}
  PROVE  Spec => Abstract!Init /\ [][Abstract!Next]_(Abstract!vars)
<1>1. Init => Abstract!Init
  <2> SUFFICES ASSUME Init PROVE Abstract!Init
    OBVIOUS
  <2>1. DOMAIN results = {}
    BY DEF Init
  <2>2. \A f \in Files : StatusOf(f) = None
    BY <2>1 DEF StatusOf, Decided
  <2> QED BY <2>2 DEF Init, Abstract!Init, Abstract!Undecided, None
<1>2. Init => CodeIsRight /\ Ended
  BY DEF Init, CodeIsRight, Ended, ZeroMeansAllTested, None
<1>3. SInv /\ CodeIsRight /\ Ended /\ [Next]_svars => CodeIsRight' /\ Ended'
  BY CodeIsRightNext, EndedNext DEF VInv
<1>4. SInv /\ SInv' /\ CodeIsRight /\ Ended /\ [Next]_svars => [Abstract!Next]_(Abstract!vars)
  BY StepsAreVisible DEF VInv, SInv
<1> QED BY <1>1, <1>2, <1>3, <1>4, SuiteInv, PTL DEF Spec

-----------------------------------------------------------------------------
(***************************************************************************)
(* What holds as long as nobody edits the files while the suite runs.       *)
(***************************************************************************)
(* A file that was queued and has no result yet. *)
Tasked(f) == Queued(f) \/ \E w \in Workers : Held(w, f)

(* The files under test have different contents, all of them seen; *)
Distinct ==
  /\ \A f \in Files : Tasked(f) => world.content[f] \in seen
  /\ \A f, g \in Files : Tasked(f) /\ Tasked(g) /\ world.content[f] = world.content[g] => f = g

(* a worker's hash is that of the file still, and only a test with the
   reference compiler has it compile or run.                                 *)
HashKept(r) ==
  r.at = "test" => /\ r.hash = world.content[r.file] /\ r.hash # Unreadable
                   /\ r.ref \in {"compile", "run"} => r.mode = "reference"
Hashed == \A w \in Workers : HashKept(worker[w])

-----------------------------------------------------------------------------
(* Distinct files under test *)

(* With fewer files under test they stay distinct. *)
LEMMA FewerTasked ==
  ASSUME Distinct, world'.content = world.content, seen \subseteq seen',
         \A f \in Files : Tasked(f)' => Tasked(f)
  PROVE  Distinct'
BY DEF Distinct

(* Where nothing is queued or received, the same files are under test. *)
LEMMA SameTasked ==
  ASSUME tasks' = tasks, \A v \in Workers : \A g : Held(v, g)' <=> Held(v, g)
  PROVE  \A f \in Files : Tasked(f)' <=> Tasked(f)
BY DEF Tasked, Queued

(* The feeder queues a file only if its content was not seen. *)
LEMMA FeedDistinct ==
  ASSUME SInv, Distinct, NEW f \in Files, FeedResult(f) \/ FeedTask(f)
  PROVE  Distinct'
<1>1. \A v \in Workers : \A g : Held(v, g)' <=> Held(v, g)
  BY DEF FeedResult, FeedTask, Held
<1>2. CASE FeedResult(f)
  <2>1. \A g \in Files : Tasked(g)' <=> Tasked(g)
    BY <1>1, <1>2, SameTasked DEF FeedResult
  <2> QED BY <1>2, <2>1, FewerTasked DEF FeedResult
<1>3. CASE FeedTask(f)
  <2>1. \A g : Queued(g)' <=> Queued(g) \/ g = f
    BY <1>3, QueuedAppends DEF FeedTask, SInv
  <2>2. \A g \in Files : Tasked(g)' <=> Tasked(g) \/ g = f
    BY <1>1, <2>1 DEF Tasked
  <2>3. world' = world /\ world.content[f] \notin seen /\ seen' = seen \cup {world.content[f]}
    BY <1>3 DEF FeedTask
  <2> QED BY <2>2, <2>3 DEF Distinct
<1> QED BY <1>2, <1>3

(* A worker's steps put no file under test that was not. *)
LEMMA WorkTasked ==
  ASSUME SInv, NEW w \in Workers, Work(w) \/ \E side \in Side : Test(w, side)
  PROVE  \A f \in Files : Tasked(f)' => Tasked(f)
<1> USE DEF SInv
<1>1. CASE Receive(w)
  <2> DEFINE f == Head(tasks)
             n == [Idle EXCEPT !.at = "hash", !.file = f]
  <2>1. (\A g : Queued(g)' <=> Queued(g) /\ g # f) /\ f \in Files /\ Queued(f)
    BY <1>1, QueuedShrinks DEF Receive
  <2>2. n.at = "hash" /\ n.file = f /\ worker' = [worker EXCEPT ![w] = n]
    BY <1>1, <2>1, Fresh DEF Receive
  <2> HIDE DEF f, n
  <2>3. /\ \A v \in Workers : v # w => \A g : Held(v, g)' <=> Held(v, g)
        /\ \A g : Held(w, g)' <=> g = f
    BY <2>2, HeldChanges DEF Holding
  <2> QED BY <2>1, <2>3 DEF Tasked
<1>2. CASE Quit(w)
  <2>1. \A v \in Workers : \A g : Held(v, g)' <=> Held(v, g)
    BY <1>2 DEF Quit, Held, Holding, TypeOK, Worker
  <2> QED BY <1>2, <2>1, SameTasked DEF Quit
<1>3. CASE Send(w)
  <2>1. worker' = [worker EXCEPT ![w] = Idle] /\ Idle.at \notin Holding /\ tasks' = tasks
    BY <1>3 DEF Send, Idle, Holding
  <2>2. /\ \A v \in Workers : v # w => \A g : Held(v, g)' <=> Held(v, g)
        /\ \A g : ~Held(w, g)'
    BY <2>1, HeldChanges
  <2> QED BY <2>1, <2>2 DEF Tasked, Queued
<1>4. CASE GiveUp(w) \/ StartTest(w) \/ Judge(w) \/ \E side \in Side : Test(w, side)
  <2>1. PICK n \in Worker : /\ worker[w].at \in Holding /\ n.at \in Holding
                             /\ n.file = worker[w].file /\ worker' = [worker EXCEPT ![w] = n]
    BY <1>4, SteadySteps DEF Steady
  <2>2. \A v \in Workers : \A g : Held(v, g)' <=> Held(v, g)
    BY <2>1, HeldChanges DEF Held
  <2>3. tasks' = tasks
    BY <1>4 DEF GiveUp, StartTest, Judge, Test, Compile, Run
  <2> QED BY <2>2, <2>3, SameTasked
<1> QED BY <1>1, <1>2, <1>3, <1>4 DEF Work

-----------------------------------------------------------------------------
(* Hashes of the files under test *)

(* What one worker does leaves the others' records. *)
LEMMA HashedBy ==
  ASSUME TypeOK, Hashed, NEW w \in Workers, NEW r, worker' = [worker EXCEPT ![w] = r],
         HashKept(r), world'.content = world.content
  PROVE  Hashed'
BY DEF Hashed, HashKept, TypeOK

LEMMA WorkHashed ==
  ASSUME SInv, Hashed, NEW w \in Workers, Work(w) \/ \E side \in Side : Test(w, side)
  PROVE  Hashed'
<1> DEFINE r == worker[w]
<1>1. r \in Worker /\ Sound(r) /\ HashKept(r) /\ world' = world
  BY DEF SInv, TypeOK, Knows, Hashed, Work, Test, Receive, Quit, GiveUp, StartTest, Judge, Send,
         Compile, Run, KeepMain
<1>2. ASSUME NEW n, worker' = [worker EXCEPT ![w] = n], HashKept(n)
      PROVE  Hashed'
  BY <1>1, <1>2, HashedBy DEF SInv
<1> HIDE DEF r
<1>3. CASE Receive(w)
  <2> DEFINE n == [Idle EXCEPT !.at = "hash", !.file = Head(tasks)]
  <2>1. n.at = "hash" /\ worker' = [worker EXCEPT ![w] = n]
    BY <1>3, Fresh, TailHolds DEF Receive, SInv, TypeOK
  <2> HIDE DEF n
  <2> QED BY <1>2, <2>1 DEF HashKept
<1>4. CASE Quit(w)
  <2> DEFINE n == [r EXCEPT !.at = "gone"]
  <2>1. n.at = "gone" /\ worker' = [worker EXCEPT ![w] = n]
    BY <1>1, <1>4 DEF Quit, Worker, r
  <2> HIDE DEF n
  <2> QED BY <1>2, <2>1 DEF HashKept
<1>5. CASE Send(w)
  <2>1. Idle.at = "idle" /\ worker' = [worker EXCEPT ![w] = Idle]
    BY <1>5 DEF Send, Idle
  <2> QED BY <1>2, <2>1 DEF HashKept
<1>6. CASE GiveUp(w) \/ Judge(w)
  <2>1. PICK s : worker' = [worker EXCEPT ![w] = [@ EXCEPT !.at = "send", !.status = s]]
    BY <1>6 DEF GiveUp, Judge
  <2> DEFINE n == [r EXCEPT !.at = "send", !.status = s]
  <2>2. n.at = "send" /\ worker' = [worker EXCEPT ![w] = n]
    BY <1>1, <2>1 DEF Worker, r
  <2> HIDE DEF n
  <2> QED BY <1>2, <2>2 DEF HashKept
<1>7. CASE StartTest(w)
  <2> DEFINE f == r.file
             h == world.content[f]
             m == Mode(f)
             o == CASE m = "golden" -> world.golden[f]
                    [] m = "report" -> report[f].ref
                    [] m = "reference" -> "compile"
             p == CASE m = "golden" -> None
                    [] m = "report" -> report[f].of
                    [] m = "reference" -> h
             n == Begun(r, h, m, o, p)
  <2>1. f \in Files
    BY <1>1, <1>7 DEF StartTest, r, Sound, Holding
  <2>2. m \in {"golden", "reference", "report"}
    BY DEF Mode
  <2>3. o \in {"compile", "run"} => m = "reference"
    <3>1. world.golden[f] \in Outputs \cup {None, "garbled", "broken"}
      BY <2>1 DEF SInv, TypeOK, WorldType
    <3>2. report[f].ref \in Outcomes \cup {None}
      BY <2>1 DEF SInv, TypeOK, Entries
    <3> QED BY <2>2, <3>1, <3>2 DEF Outcomes, Outputs, None
  <2>4. worker' = [worker EXCEPT ![w] = n]
    BY <1>7 DEF StartTest, r, Begun
  <2>5. n.file = f /\ n.hash = h /\ n.mode = m /\ n.ref = o
    <3> HIDE DEF h, m, o, p
    <3> QED BY <1>1 DEF Begun, Worker
  <2> HIDE DEF n, h, m, o, p
  <2>6. h # Unreadable
    BY <1>7 DEF StartTest, r, h, f
  <2>7. HashKept(n)
    BY <2>3, <2>5, <2>6 DEF HashKept, h
  <2> QED BY <1>2, <2>4, <2>7
<1>8. ASSUME NEW side \in Side, Test(w, side)
      PROVE  Hashed'
  <2>1. r.at = "test" /\ r[side] \in {"compile", "run"}
    BY <1>8 DEF Test, Compile, Run, r
  <2>2. PICK o : worker' = [worker EXCEPT ![w][side] = o]
    BY <1>8 DEF Test, Compile, Run
  <2> DEFINE n == [r EXCEPT ![side] = o]
  <2>3. worker' = [worker EXCEPT ![w] = n]
    BY <2>2 DEF r
  <2>4. n.file = r.file /\ n.hash = r.hash /\ n.mode = r.mode /\ (side = "target" => n.ref = r.ref)
    BY <1>1 DEF Worker, Side
  <2> HIDE DEF n
  <2>5. HashKept(n)
    BY <1>1, <2>1, <2>4 DEF HashKept, Side
  <2> QED BY <1>2, <2>3, <2>5
<1> QED BY <1>3, <1>4, <1>5, <1>6, <1>7, <1>8 DEF Work

-----------------------------------------------------------------------------
(* Paths *)

Apart == Running => Distinct /\ Hashed

(* Two tests under way of one content are one test, and only a test with the
   reference compiler uses both sides, with a path for each.                 *)
LEMMA ApartPaths ==
  ASSUME SInv, Apart
  PROVE  PathsUnique
<1> SUFFICES ASSUME NEW p \in Busy, NEW q \in Busy, Path(p[1], p[2]) = Path(q[1], q[2])
             PROVE  p = q
  BY DEF PathsUnique
<1> DEFINE v == p[1]
           w == q[1]
           f == worker[v].file
           g == worker[w].file
<1>1. /\ v \in Workers /\ w \in Workers /\ p[2] \in Side /\ q[2] \in Side
      /\ p = <<v, p[2]>> /\ q = <<w, q[2]>>
      /\ worker[v].at = "test" /\ worker[v][p[2]] \in {"compile", "run"}
      /\ worker[w].at = "test" /\ worker[w][q[2]] \in {"compile", "run"}
      /\ Distinct /\ Hashed
  BY DEF Busy, Apart
<1> HIDE DEF v, w
<1>2. worker[v].hash = worker[w].hash
      /\ (IF worker[v].mode = "reference" THEN p[2] ELSE "") = (IF worker[w].mode = "reference" THEN q[2] ELSE "")
  BY DEF Path, v, w
<1>3. f \in Files /\ g \in Files /\ Held(v, f) /\ Held(w, g)
  BY <1>1 DEF SInv, Knows, Sound, Held, Holding
<1>4. world.content[f] = world.content[g]
  BY <1>1, <1>2 DEF Hashed, HashKept
<1>5. f = g
  BY <1>1, <1>3, <1>4 DEF Distinct, Tasked
<1>6. v = w
  BY <1>1, <1>3, <1>5 DEF SInv, OnceThere
<1>7. p[2] = q[2]
  BY <1>1, <1>2, <1>6 DEF Hashed, HashKept, Side
<1> QED BY <1>1, <1>6, <1>7

LEMMA ApartInit == Init => Apart
<1> SUFFICES ASSUME Init PROVE Distinct /\ Hashed
  BY DEF Apart
<1>1. \A w \in Workers : worker[w].at \in {"idle", "gone"}
  BY PoolIs DEF Init
<1>2. DOMAIN tasks = {}
  BY DEF Init
<1> QED BY <1>1, <1>2 DEF Distinct, Tasked, Queued, Held, Holding, Hashed, HashKept

(* What others than the feeder and the workers do. *)
LEMMA OtherApart ==
  ASSUME ~EditsDuring, SInv, Apart,
         CloseTasks \/ Collect \/ Interrupt \/ HandlerExit \/ Invoke
           \/ \E f \in Files : GenerateGolden(f) \/ Edit(f)
  PROVE  Apart'
<1>1. CASE Invoke
  <2>1. tasks' = <<>> /\ worker' = Pool(flags'.jobs)
    BY <1>1 DEF Invoke
  <2>2. \A w \in Workers : worker'[w].at \in {"idle", "gone"}
    BY <2>1, PoolIs
  <2>3. DOMAIN tasks' = {}
    BY <2>1
  <2> QED BY <2>2, <2>3 DEF Apart, Distinct, Tasked, Queued, Held, Holding, Hashed, HashKept
<1>2. CASE CloseTasks \/ Collect \/ Interrupt
  <2>1. Running /\ UNCHANGED <<world, tasks, worker, seen>>
    BY <1>2 DEF CloseTasks, Collect, WaitWorkers, KeepReport, TruncateReport, WriteReport, Exit, Interrupt,
               Running
  <2>2. \A f \in Files : Tasked(f)' <=> Tasked(f)
    BY <2>1, SameTasked DEF Held
  <2>3. Distinct'
    BY <2>1, <2>2, FewerTasked DEF Apart
  <2>4. Hashed'
    BY <2>1 DEF Apart, Hashed, HashKept
  <2> QED BY <2>3, <2>4 DEF Apart
<1>3. CASE HandlerExit \/ \E f \in Files : GenerateGolden(f) \/ Edit(f)
  <2>1. ~Running'
    BY <1>3 DEF HandlerExit, GenerateGolden, Edit, Running
  <2> QED BY <2>1 DEF Apart
<1> QED BY <1>1, <1>2, <1>3

LEMMA ApartNext == ASSUME ~EditsDuring PROVE SInv /\ Apart /\ [Next]_svars => Apart'
<1> SUFFICES ASSUME SInv, Apart, [Next]_svars PROVE Apart'
  OBVIOUS
<1>1. CASE UNCHANGED svars
  BY <1>1 DEF svars, Apart, Running, Distinct, Tasked, Queued, Held, Hashed, HashKept
<1>2. ASSUME NEW f \in Files, FeedResult(f) \/ FeedTask(f)
      PROVE  Apart'
  <2>1. worker' = worker /\ world' = world /\ Running
    BY <1>2 DEF FeedResult, FeedTask, Running
  <2>2. Distinct'
    BY <1>2, <2>1, FeedDistinct DEF Apart
  <2>3. Hashed'
    BY <2>1 DEF Apart, Hashed, HashKept
  <2> QED BY <2>2, <2>3 DEF Apart
<1>3. ASSUME NEW w \in Workers, Work(w) \/ \E side \in Side : Test(w, side)
      PROVE  Apart'
  <2>1. world' = world /\ seen' = seen /\ Running
    BY <1>3 DEF Work, Test, Receive, Quit, GiveUp, StartTest, Judge, Send, Compile, Run, KeepMain
  <2>2. \A f \in Files : Tasked(f)' => Tasked(f)
    BY <1>3, WorkTasked
  <2>3. Distinct'
    BY <2>1, <2>2, FewerTasked DEF Apart
  <2>4. Hashed'
    BY <1>3, <2>1, WorkHashed DEF Apart
  <2> QED BY <2>3, <2>4 DEF Apart
<1>4. CASE CloseTasks \/ Collect \/ Interrupt \/ HandlerExit \/ Invoke
             \/ \E f \in Files : GenerateGolden(f) \/ Edit(f)
  BY <1>4, OtherApart
<1> QED BY <1>1, <1>2, <1>3, <1>4 DEF Next, Feed

(* As long as nobody edits a file while the suite runs, two compilations never
   write the same binary, although paths are made of hashes only: the feeder
   queues each content once, with any number of files, workers, invocations
   and edits between them.                                                   *)
THEOREM PathsApart == ASSUME ~EditsDuring PROVE Spec => []PathsUnique
<1>1. Init => Apart
  BY ApartInit
<1>2. SInv /\ Apart /\ [Next]_svars => Apart'
  BY ApartNext
<1>3. SInv /\ Apart => PathsUnique
  BY ApartPaths
<1> QED BY <1>1, <1>2, <1>3, SuiteInv, PTL DEF Spec

-----------------------------------------------------------------------------
(* What a pass means *)

(* A reference outcome is what the reference compiler showed of a content,
   which is the file's still if no file was ever edited.                     *)
Rests(f, ref, of) ==
  of # None => /\ of \in Hashes
               /\ ref \in ShownBy(world.reference, of, Interruptible)
               /\ edited = 0 => of = world.content[f]
Vouched(r) == Rests(r.file, r.ref, r.of) /\ (r.status = "PASS" => Agrees(r))

(* One side of a test under way: a binary that is to run is what its compiler
   made, and what came of it is what the content shows.                      *)
Compiler(side) == IF side = "ref" THEN world.reference ELSE world.target
Shows(side, h) == ShownBy(Compiler(side), h, handler = "removed")
Side1(w, side) ==
  /\ worker[w][side] \in {"compile", "run"} \cup Shows(side, worker[w].hash)
  /\ worker[w][side] = "run" /\ temp => binaries[Path(w, side)] = Compiler(side)[worker[w].hash]

(* A test under way compares with the file's golden result, with what a report
   says, or with what the reference compiler shows of the file.              *)
Tested(w) ==
  worker[w].at = "test" =>
    /\ worker[w].mode \in Modes
    /\ worker[w].mode = "golden" =>
         worker[w].of = None /\ worker[w].ref = world.golden[worker[w].file]
    /\ worker[w].mode = "report" => Rests(worker[w].file, worker[w].ref, worker[w].of)
    /\ worker[w].mode = "reference" => worker[w].of = worker[w].hash /\ Side1(w, "ref")
    /\ Side1(w, "target")
Told(w) == worker[w].at = "send" => Vouched(worker[w])

(* Only an interrupt takes the directory away under a test. *)
Kept == /\ Running => temp \/ handler = "removed"
        /\ handler = "removed" => Interruptible

PInv ==
  /\ Kept
  /\ Running => \A w \in Workers : Tested(w) /\ Told(w)
  /\ \A i \in DOMAIN results : Vouched(results[i])
  /\ \A f \in Files : Rests(f, report[f].ref, report[f].of)

(* What no step but a new invocation changes: the compilers do what they did,
   an edit is counted, and nothing but the suite moves while it runs.        *)
Steps ==
  /\ world'.reference = world.reference /\ world'.target = world.target
  /\ handler = "removed" => handler' = "removed"
  /\ edited' \in Nat
  /\ \/ edited' = edited /\ world'.content = world.content
     \/ edited' > edited
  /\ Running' => Running /\ world' = world

LEMMA AllSteps ==
  ASSUME ~EditsDuring, SInv, [Next]_svars, ~Invoke
  PROVE  Steps
<1> USE DEF Steps, Running
<1>0. edited \in Nat /\ world \in WorldType
  BY DEF SInv, TypeOK
<1>1. CASE UNCHANGED svars
  BY <1>0, <1>1 DEF svars
<1>2. CASE Feed \/ Collect
  BY <1>0, <1>2 DEF Feed, Collect, FeedResult, FeedTask, CloseTasks, WaitWorkers, KeepReport,
                    TruncateReport, WriteReport, Exit
<1>3. CASE \E w \in Workers : Work(w) \/ \E side \in Side : Test(w, side)
  BY <1>0, <1>3 DEF Work, Test, Receive, Quit, GiveUp, StartTest, Judge, Send, Compile, Run, KeepMain
<1>4. CASE Interrupt \/ HandlerExit
  BY <1>0, <1>4 DEF Interrupt, HandlerExit
<1>5. ASSUME NEW f \in Files, GenerateGolden(f)
      PROVE  Steps
  <2>1. edited' = edited /\ handler' = handler /\ ~Running /\ ~Running'
    BY <1>5 DEF GenerateGolden
  <2>2. world' = world \/ \E g : world' = [world EXCEPT !.golden[f] = g]
    BY <1>5 DEF GenerateGolden
  <2>3. /\ world'.reference = world.reference /\ world'.target = world.target
        /\ world'.content = world.content
    BY <1>0, <2>2 DEF WorldType
  <2> QED BY <1>0, <2>1, <2>3
<1>6. ASSUME NEW f \in Files, Edit(f)
      PROVE  Steps
  <2>1. edited' = edited + 1 /\ handler' = handler /\ ~Running /\ ~Running'
    BY <1>6 DEF Edit
  <2>2. PICK h : world' = [world EXCEPT !.content[f] = h]
    BY <1>6 DEF Edit
  <2>3. world'.reference = world.reference /\ world'.target = world.target
    BY <1>0, <2>2 DEF WorldType
  <2> QED BY <1>0, <2>1, <2>3
<1> QED BY <1>1, <1>2, <1>3, <1>4, <1>5, <1>6 DEF Next

(* What is vouched for stays so. *)
LEMMA RestsStays ==
  ASSUME Steps, edited \in Nat, NEW f, NEW ref, NEW of, Rests(f, ref, of)
  PROVE  Rests(f, ref, of)'
<1>1. edited' = 0 => edited = 0 /\ world'.content = world.content
  BY DEF Steps
<1>2. world'.reference = world.reference
  BY DEF Steps
<1> QED BY <1>1, <1>2 DEF Rests, ShownBy

LEMMA VouchedStays ==
  ASSUME Steps, edited \in Nat, NEW r, Vouched(r)
  PROVE  Vouched(r)'
<1>1. Rests(r.file, r.ref, r.of)'
  BY RestsStays DEF Vouched
<1>2. ASSUME Agrees(r)
      PROVE  Agrees(r)'
  <2>1. ShownBy(world.target, r.hash, handler = "removed") \subseteq ShownBy(world.target, r.hash, handler = "removed")'
    BY DEF Steps, ShownBy
  <2>2. ShownBy(world.reference, r.of, Interruptible)' = ShownBy(world.reference, r.of, Interruptible)
    BY DEF Steps, ShownBy
  <2>3. edited > 0 => edited' > 0
    BY DEF Steps
  <2>4. Running' => Running /\ world' = world
    BY DEF Steps
  <2> QED BY <1>2, <2>1, <2>2, <2>3, <2>4 DEF Agrees
<1> QED BY <1>1, <1>2 DEF Vouched

(* A test that stays as it is, with its binaries. *)
LEMMA TestStays ==
  ASSUME Steps, SInv, PInv, Running', NEW w \in Workers, worker'[w] = worker[w],
         \A side \in Side : temp' /\ worker[w].at = "test" /\ worker[w][side] = "run"
                              => temp /\ binaries'[Path(w, side)] = binaries[Path(w, side)]
  PROVE  Tested(w)' /\ Told(w)'
<1> DEFINE r == worker[w]
<1>1. Running /\ world' = world /\ edited \in Nat /\ Tested(w) /\ Told(w) /\ worker'[w] = r
  BY DEF Steps, SInv, TypeOK, PInv
<1>2. \A side : Path(w, side)' = Path(w, side) /\ Compiler(side)' = Compiler(side)
  BY <1>1 DEF Path, Compiler
<1>3. \A side : Shows(side, r.hash) \subseteq Shows(side, r.hash)'
  BY <1>1, <1>2 DEF Shows, ShownBy, Steps
<1>4. ASSUME NEW side \in Side, r.at = "test", Side1(w, side)
      PROVE  Side1(w, side)'
  <2>1. worker'[w][side] \in {"compile", "run"} \cup Shows(side, worker[w].hash)'
    BY <1>1, <1>3, <1>4 DEF Side1
  <2>2. worker'[w][side] = "run" /\ temp' => binaries'[Path(w, side)] = Compiler(side)[r.hash]
    BY <1>1, <1>4 DEF Side1
  <2> QED BY <1>1, <1>2, <2>1, <2>2 DEF Side1
<1>5. r.mode = "report" /\ r.at = "test" => Rests(r.file, r.ref, r.of)'
  BY <1>1, RestsStays DEF Tested
<1>6. Told(w)'
  <2>1. r.at = "send" => Vouched(r)'
    BY <1>1, VouchedStays DEF Told
  <2> QED BY <1>1, <2>1 DEF Told
<1>7. Tested(w)'
  BY <1>1, <1>4, <1>5 DEF Tested, Side
<1> QED BY <1>6, <1>7

(* The results and the report, when nothing is added to them. *)
LEMMA ResultsStay ==
  ASSUME Steps, SInv, PInv, results' = results
  PROVE  \A i \in DOMAIN results' : Vouched(results[i])'
<1> SUFFICES ASSUME NEW i \in DOMAIN results PROVE Vouched(results[i])'
  OBVIOUS
<1>1. PICK r : r = results[i]
  OBVIOUS
<1>2. Vouched(r) /\ edited \in Nat /\ results'[i] = r
  BY <1>1 DEF PInv, SInv, TypeOK
<1>3. Vouched(r)'
  BY <1>2, VouchedStays
<1> QED BY <1>2, <1>3, <1>1

LEMMA ReportStays ==
  ASSUME Steps, SInv, PInv, report' = report
  PROVE  \A f \in Files : Rests(f, report[f].ref, report[f].of)'
<1> SUFFICES ASSUME NEW f \in Files PROVE Rests(f, report[f].ref, report[f].of)'
  OBVIOUS
<1>1. PICK ref, of : ref = report[f].ref /\ of = report[f].of
  OBVIOUS
<1>2. Rests(f, ref, of) /\ edited \in Nat /\ report'[f].ref = ref /\ report'[f].of = of
  BY <1>1 DEF PInv, SInv, TypeOK
<1>3. Rests(f, ref, of)'
  BY <1>2, RestsStays
<1> QED BY <1>2, <1>3

(* The results, when one is added that is right. *)
LEMMA ResultsGrow ==
  ASSUME Steps, SInv, PInv, NEW r \in Verdicted, results' = Append(results, r), Vouched(r)
  PROVE  \A i \in DOMAIN results' : Vouched(results[i])'
<1>1. results \in Seq(Verdicted) /\ edited \in Nat
  BY DEF SInv, TypeOK
<1>2. PICK n : n = Len(results) + 1
  OBVIOUS
<1>3. /\ DOMAIN results' = DOMAIN results \cup {n} /\ results'[n] = r
      /\ \A i \in DOMAIN results : results'[i] = results[i]
  BY <1>1, <1>2, AppendHolds
<1>4. ASSUME NEW i \in DOMAIN results'
      PROVE  Vouched(results[i])'
  <2>1. PICK q : q = results'[i]
    OBVIOUS
  <2>2. Vouched(q)
    BY <1>3, <2>1 DEF PInv
  <2>3. Vouched(q)'
    BY <1>1, <2>2, VouchedStays
  <2> QED BY <2>1, <2>3
<1> QED BY <1>4

LEMMA PassInit == Init => PInv
<1> SUFFICES ASSUME Init PROVE PInv
  OBVIOUS
<1>1. \A w \in Workers : worker[w].at \in {"idle", "gone"}
  BY PoolIs DEF Init
<1>2. DOMAIN results = {}
  BY DEF Init
<1>3. \A f \in Files : report[f].of = None
  BY DEF Init, NoEntry
<1>4. Kept
  BY DEF Init, Kept
<1> QED BY <1>1, <1>2, <1>3, <1>4 DEF PInv, Tested, Told, Rests

(* A result without a pass or a reference vouches for nothing. *)
LEMMA FeedPass ==
  ASSUME Steps, SInv, PInv, NEW f \in Files, FeedResult(f) \/ FeedTask(f)
  PROVE  PInv'
<1>1. /\ worker' = worker /\ binaries' = binaries /\ report' = report
      /\ handler' = handler /\ main' = main /\ temp' = temp
  BY DEF FeedResult, FeedTask
<1>2. Running' => \A w \in Workers : Tested(w)' /\ Told(w)'
  BY <1>1, TestStays
<1>3. Kept' /\ \A g \in Files : Rests(g, report[g].ref, report[g].of)'
  BY <1>1, ReportStays DEF PInv, Kept, Running
<1>4. \A i \in DOMAIN results' : Vouched(results[i])'
  <2>1. CASE FeedTask(f)
    BY <2>1, ResultsStay DEF FeedTask
  <2>2. CASE FeedResult(f)
    <3>1. PICK s \in {"SKIP", "ERROR"} : results' = Append(results, Result(f, s, Idle))
      BY <2>2 DEF FeedResult, SendResult
    <3>2. PICK r \in Verdicted : r = Result(f, s, Idle)
      BY DEF Result, Verdicted, Statuses, Idle
    <3>3. Vouched(r)
      BY <3>2 DEF Vouched, Rests, Result, Idle
    <3> QED BY <3>1, <3>2, <3>3, ResultsGrow
  <2> QED BY <2>1, <2>2
<1> QED BY <1>2, <1>3, <1>4 DEF PInv

(* What compiling gives: what the compiler makes of the content that was
   hashed, while the directory is there, and a failure then.                 *)
LEMMA CompiledIsMade ==
  ASSUME SInv, Apart, PInv, Running, NEW w \in Workers, worker[w].at = "test", NEW side \in Side
  PROVE  LET h == worker[w].hash
         IN  /\ h \in Hashes /\ worker[w].file \in Files /\ h = world.content[worker[w].file]
             /\ Compiled(w, side) = IF temp THEN Compiler(side)[h] ELSE "fails"
             /\ Compiler(side)[h] \in {"fails"} \cup Outputs
             /\ temp \/ handler = "removed"
<1> DEFINE h == worker[w].hash
<1>1. h \in Hashes /\ worker[w].file \in Files /\ h = world.content[worker[w].file] /\ h # Unreadable
  BY DEF SInv, Knows, Sound, Holding, Apart, Hashed, HashKept
<1>2. Compiled(w, side) = IF temp THEN Compiler(side)[h] ELSE "fails"
  BY <1>1 DEF Compiled, Compiler
<1>3. Compiler(side)[h] \in {"fails"} \cup Outputs
  BY <1>1 DEF Compiler, SInv, TypeOK, WorldType
<1>4. temp \/ handler = "removed"
  BY DEF PInv, Kept
<1> QED BY <1>1, <1>2, <1>3, <1>4

(* Steps of a worker that touch no binary leave the others' tests. *)
LEMMA OthersStay ==
  ASSUME Steps, SInv, PInv, Running', NEW w \in Workers, NEW r, worker' = [worker EXCEPT ![w] = r],
         binaries' = binaries, temp' = temp
  PROVE  \A v \in Workers : v # w => Tested(v)' /\ Told(v)'
<1> SUFFICES ASSUME NEW v \in Workers, v # w PROVE Tested(v)' /\ Told(v)'
  OBVIOUS
<1>1. worker'[v] = worker[v]
  BY DEF SInv, TypeOK
<1> QED BY <1>1, TestStays

(* A test whose side has come to something it may come to. *)
LEMMA SideComes ==
  ASSUME Steps, SInv, Apart, PInv, Running, Running', NEW w \in Workers, NEW side \in Side,
         worker[w].at = "test", worker[w][side] \in {"compile", "run"},
         handler' = handler, temp' = temp, NEW o,
         worker' = [worker EXCEPT ![w] = [worker[w] EXCEPT ![side] = o]],
         o \in {"run"} \cup Shows(side, worker[w].hash),
         o = "run" /\ temp => binaries'[Path(w, side)] = Compiler(side)[worker[w].hash],
         \A t \in Side : t # side /\ worker[w][t] = "run"
                           => binaries'[Path(w, t)] = binaries[Path(w, t)]
  PROVE  Tested(w)' /\ Told(w)'
<1> DEFINE r == worker[w]
           n == [r EXCEPT ![side] = o]
<1>1. r \in Worker /\ r.at = "test" /\ Running /\ world' = world /\ edited \in Nat /\ Tested(w)
  BY DEF SInv, TypeOK, PInv, Steps
<1>2. side = "ref" => r.mode = "reference"
  BY <1>1 DEF Apart, Hashed, HashKept
<1>3. /\ worker'[w] = n /\ n.at = r.at /\ n.file = r.file /\ n.hash = r.hash /\ n.mode = r.mode
      /\ n.of = r.of /\ n[side] = o /\ \A t \in Side : t # side => n[t] = r[t]
  BY <1>1 DEF Worker, Side, SInv, TypeOK
<1> HIDE DEF n
<1>4. \A t \in Side : /\ Path(w, t)' = Path(w, t) /\ Compiler(t)' = Compiler(t)
                      /\ Shows(t, r.hash)' = Shows(t, r.hash)
  BY <1>1, <1>3 DEF Path, Compiler, Shows, ShownBy
<1>5. Side1(w, side)'
  <2>1. n[side] \in {"compile", "run"} \cup Shows(side, r.hash)'
    BY <1>3, <1>4
  <2>2. n[side] = "run" /\ temp' => binaries'[Path(w, side)'] = Compiler(side)'[r.hash]
    BY <1>3, <1>4
  <2> QED BY <1>3, <2>1, <2>2 DEF Side1
<1>6. ASSUME NEW t \in Side, t # side, Side1(w, t)
      PROVE  Side1(w, t)'
  <2>1. n[t] \in {"compile", "run"} \cup Shows(t, r.hash)'
    BY <1>3, <1>4, <1>6 DEF Side1
  <2>2. n[t] = "run" /\ temp' => binaries'[Path(w, t)'] = Compiler(t)'[r.hash]
    BY <1>3, <1>4, <1>6 DEF Side1
  <2> QED BY <1>3, <2>1, <2>2 DEF Side1
<1>7. ASSUME r.mode = "report"
      PROVE  Rests(r.file, r.ref, r.of)'
  <2>1. PICK f, ref, of : f = r.file /\ ref = r.ref /\ of = r.of
    OBVIOUS
  <2>2. Rests(f, ref, of)'
    BY <1>1, <1>7, <2>1, RestsStays DEF Tested
  <2>3. worker'[w].file = f /\ worker'[w].ref = ref /\ worker'[w].of = of
    BY <1>2, <1>3, <1>7, <2>1 DEF Side
  <2> QED BY <2>2, <2>3 DEF Rests
<1>8. r.mode = "reference" => Side1(w, "ref")'
  BY <1>1, <1>5, <1>6 DEF Tested, Side
<1>9. Side1(w, "target")'
  BY <1>1, <1>5, <1>6 DEF Tested, Side
<1>10. r.mode # "reference" => n.ref = r.ref
  BY <1>2, <1>3 DEF Side
<1>11. Tested(w)'
  BY <1>1, <1>3, <1>7, <1>8, <1>9, <1>10 DEF Tested
<1>12. Told(w)'
  BY <1>1, <1>3 DEF Told
<1> QED BY <1>11, <1>12

(* Compiling: the binary at the path is what the compiler made, and no other
   test has that path.                                                       *)
LEMMA CompilePass ==
  ASSUME Steps, SInv, Apart, PInv, NEW w \in Workers, NEW side \in Side, Compile(w, side)
  PROVE  \A v \in Workers : Tested(v)' /\ Told(v)'
<1> DEFINE h == worker[w].hash
           m == Compiler(side)[h]
<1>1. /\ Running /\ Running' /\ worker[w].at = "test" /\ worker[w][side] = "compile"
      /\ world' = world /\ handler' = handler /\ temp' = temp
  BY DEF Compile, KeepMain, Running
<1>2. /\ h \in Hashes /\ h = world.content[worker[w].file]
      /\ Compiled(w, side) = IF temp THEN m ELSE "fails"
      /\ temp \/ handler = "removed"
  BY <1>1, CompiledIsMade
<1>3. PICK o \in {"run", "fails"} :
        /\ worker' = [worker EXCEPT ![w] = [worker[w] EXCEPT ![side] = o]]
        /\ binaries' = binaries \/ binaries' = [binaries EXCEPT ![Path(w, side)] = Compiled(w, side)]
        /\ o = "run" => /\ Compiled(w, side) # "fails"
                        /\ binaries' = [binaries EXCEPT ![Path(w, side)] = Compiled(w, side)]
        /\ o = "fails" => Compiled(w, side) = "fails" \/ h \in Slow
  BY <1>2 DEF Compile
<1>4. o \in {"run"} \cup Shows(side, h)
  BY <1>2, <1>3 DEF Shows, ShownBy
<1>5. Path(w, side) \in Paths /\ binaries \in [Paths -> Outputs \cup {None}]
  BY <1>2 DEF Path, Paths, Side, SInv, TypeOK
<1>6. o = "run" /\ temp => binaries'[Path(w, side)] = m
  BY <1>2, <1>3, <1>5
<1>7. ASSUME NEW v \in Workers, NEW t \in Side, <<v, t>> # <<w, side>>,
             worker[v].at = "test", worker[v][t] = "run"
      PROVE  binaries'[Path(v, t)] = binaries[Path(v, t)]
  <2>1. <<v, t>> \in Busy /\ <<w, side>> \in Busy
    BY <1>1, <1>7 DEF Busy
  <2>2. Path(v, t) # Path(w, side)
    BY <1>7, <2>1, ApartPaths DEF PathsUnique
  <2>3. Path(v, t) \in Paths
    BY <1>7 DEF Path, Paths, Side, SInv, Knows, Sound
  <2> QED BY <1>3, <1>5, <2>2, <2>3
<1>8. Tested(w)' /\ Told(w)'
  BY <1>1, <1>3, <1>4, <1>6, <1>7, SideComes
<1>9. ASSUME NEW v \in Workers, v # w
      PROVE  Tested(v)' /\ Told(v)'
  <2>1. worker'[v] = worker[v]
    BY <1>3, <1>9 DEF SInv, TypeOK
  <2> QED BY <1>1, <1>7, <1>9, <2>1, TestStays
<1> QED BY <1>8, <1>9

(* Running: the outcome is what the binary at the path does, or what is left
   to see after an interrupt.                                                *)
LEMMA RunPass ==
  ASSUME Steps, SInv, Apart, PInv, NEW w \in Workers, NEW side \in Side, Run(w, side)
  PROVE  \A v \in Workers : Tested(v)' /\ Told(v)'
<1> DEFINE h == worker[w].hash
           m == Compiler(side)[h]
<1>1. /\ Running /\ Running' /\ worker[w].at = "test" /\ worker[w][side] = "run"
      /\ world' = world /\ handler' = handler /\ temp' = temp /\ binaries' = binaries
  BY DEF Run, KeepMain, Running
<1>2. side = "ref" => worker[w].mode = "reference"
  BY <1>1 DEF Apart, Hashed, HashKept
<1>3. temp => binaries[Path(w, side)] = m
  BY <1>1, <1>2 DEF PInv, Tested, Side1, Side
<1>4. temp \/ handler = "removed"
  BY <1>1, CompiledIsMade
<1>5. PICK o : /\ worker' = [worker EXCEPT ![w] = [worker[w] EXCEPT ![side] = o]]
               /\ o \in IF temp THEN {m} ELSE {"fails", "broken"}
  BY <1>3 DEF Run
<1>6. o \in Shows(side, h)
  BY <1>4, <1>5 DEF Shows, ShownBy
<1>7. o # "run"
  BY <1>1, <1>5, CompiledIsMade DEF Outputs
<1>8. Tested(w)' /\ Told(w)'
  BY <1>1, <1>5, <1>6, <1>7, SideComes
<1>9. \A v \in Workers : v # w => Tested(v)' /\ Told(v)'
  BY <1>1, <1>5, OthersStay
<1> QED BY <1>8, <1>9

(* Starting: what is compared with, and where it is from. *)
LEMMA StartPass ==
  ASSUME Steps, SInv, PInv, NEW w \in Workers, StartTest(w)
  PROVE  \A v \in Workers : Tested(v)' /\ Told(v)'
<1> DEFINE r == worker[w]
           f == r.file
           h == world.content[f]
           m == Mode(f)
           o == CASE m = "golden" -> world.golden[f]
                  [] m = "report" -> report[f].ref
                  [] m = "reference" -> "compile"
           p == CASE m = "golden" -> None
                  [] m = "report" -> report[f].of
                  [] m = "reference" -> h
           n == Begun(r, h, m, o, p)
<1>1. /\ r \in Worker /\ f \in Files /\ edited \in Nat /\ Running'
      /\ world' = world /\ binaries' = binaries /\ temp' = temp
  BY DEF SInv, TypeOK, Knows, StartTest, KeepMain, Sound, Holding, Running
<1>2. m \in Modes
  BY DEF Mode, Modes
<1>3. worker' = [worker EXCEPT ![w] = n]
  BY DEF StartTest, Begun
<1>4. /\ n.at = "test" /\ n.file = f /\ n.hash = h /\ n.mode = m /\ n.ref = o /\ n.of = p
      /\ n.target = "compile"
  <2> HIDE DEF h, m, o, p
  <2> QED BY <1>1 DEF Begun, Worker
<1>5. m = "golden" => p = None /\ o = world.golden[f]
  OBVIOUS
<1>6. m = "report" => Rests(f, o, p)
  BY <1>1 DEF PInv
<1>7. m = "reference" => o = "compile" /\ p = h
  OBVIOUS
<1>8. worker'[w] = n
  BY <1>3 DEF SInv, TypeOK
<1> HIDE DEF n, m, o, p, h
<1>9. \A v \in Workers : v # w => Tested(v)' /\ Told(v)'
  BY <1>1, <1>3, OthersStay
<1>10. Told(w)'
  BY <1>4, <1>8 DEF Told
<1>11. Side1(w, "target")' /\ (m = "reference" => Side1(w, "ref")')
  BY <1>4, <1>7, <1>8 DEF Side1
<1>12. ASSUME m = "report"
       PROVE  Rests(worker[w].file, worker[w].ref, worker[w].of)'
  <2>1. PICK g, ref, of : g = f /\ ref = o /\ of = p
    OBVIOUS
  <2>2. Rests(g, ref, of)'
    BY <1>1, <1>6, <1>12, <2>1, RestsStays
  <2>3. worker'[w].file = g /\ worker'[w].ref = ref /\ worker'[w].of = of
    BY <1>4, <1>8, <2>1
  <2> QED BY <2>2, <2>3 DEF Rests
<1>13. Tested(w)'
  BY <1>1, <1>2, <1>4, <1>5, <1>7, <1>8, <1>11, <1>12 DEF Tested
<1> QED BY <1>9, <1>10, <1>13

(* Judging: a pass is given for equal outcomes, or against a report that says
   the reference compiler failed.                                            *)
LEMMA JudgePass ==
  ASSUME Steps, SInv, Apart, PInv, NEW w \in Workers, Judge(w)
  PROVE  \A v \in Workers : Tested(v)' /\ Told(v)'
<1> DEFINE r == worker[w]
           f == r.file
           h == r.hash
           s == Verdict(r.mode, r.ref, r.target)
           n == [r EXCEPT !.at = "send", !.status = s]
<1>1. /\ Running /\ Running' /\ r \in Worker /\ r.at = "test" /\ r.ref \in Outcomes /\ r.target \in Outcomes
      /\ world' = world /\ binaries' = binaries /\ temp' = temp /\ edited \in Nat /\ Tested(w)
  BY DEF Judge, KeepMain, SInv, TypeOK, Running, PInv
<1>2. f \in Files /\ h \in Hashes /\ h = world.content[f] /\ None \notin Outcomes
  BY <1>1, CompiledIsMade DEF Side, Outcomes, Outputs, None
<1>3. worker' = [worker EXCEPT ![w] = n]
  BY DEF Judge
<1>4. /\ worker'[w] = n /\ n.at = "send" /\ n.file = f /\ n.status = s /\ n.mode = r.mode
      /\ n.hash = h /\ n.ref = r.ref /\ n.of = r.of /\ n.target = r.target
  BY <1>1, <1>3 DEF SInv, TypeOK, Worker
<1>5. r.target \in ShownBy(world.target, h, handler = "removed")
  BY <1>1 DEF Tested, Side1, Shows, Compiler, Outcomes, Outputs
<1>6. r.mode = "reference" => /\ r.of = h /\ r.ref \in ShownBy(world.reference, h, handler = "removed")
  BY <1>1 DEF Tested, Side1, Shows, Compiler, Outcomes, Outputs
<1>7. ShownBy(world.reference, h, handler = "removed") \subseteq ShownBy(world.reference, h, Interruptible)
  BY DEF ShownBy, PInv, Kept
<1>8. r.mode = "golden" => r.of = None /\ r.ref = world.golden[f] /\ r.ref # "fails"
  <2>1. world.golden[f] \in Outputs \cup {None, "garbled", "broken"}
    BY <1>2 DEF SInv, TypeOK, WorldType
  <2> QED BY <1>1, <2>1 DEF Tested, Outputs, None
<1>9. r.mode = "report" => Rests(f, r.ref, r.of)
  BY <1>1 DEF Tested
<1>10. r.mode \in Modes
  BY <1>1 DEF Tested
<1>11. Rests(f, r.ref, r.of)
  BY <1>2, <1>6, <1>7, <1>8, <1>9, <1>10 DEF Rests, Modes
<1>12. s = "PASS" => \/ r.ref = r.target
                     \/ r.mode = "report" /\ r.ref = "fails" /\ r.target # "fails"
  BY <1>8, <1>10 DEF Verdict, Compare, Modes
<1>13. r.of \notin {None, h} => r.mode = "report" /\ edited > 0
  <2>1. edited # 0 => edited > 0
    BY <1>1
  <2> QED BY <1>2, <1>6, <1>8, <1>9, <1>10, <2>1 DEF Rests, Modes
<1> HIDE DEF n, s
<1>14. s = "PASS" => Agrees(n)
  BY <1>2, <1>4, <1>5, <1>6, <1>8, <1>11, <1>12, <1>13 DEF Agrees, Rests
<1>15. Vouched(n)
  BY <1>4, <1>11, <1>14 DEF Vouched
<1>16. \A v \in Workers : v # w => Tested(v)' /\ Told(v)'
  BY <1>1, <1>3, OthersStay
<1>17. Told(w)'
  BY <1>1, <1>4, <1>15, VouchedStays DEF Told
<1>18. Tested(w)'
  BY <1>4 DEF Tested
<1> QED BY <1>16, <1>17, <1>18

(* Giving up passes nothing. *)
LEMMA GiveUpPass ==
  ASSUME Steps, SInv, PInv, NEW w \in Workers, GiveUp(w), worker[w].of = None
  PROVE  \A v \in Workers : Tested(v)' /\ Told(v)'
<1> DEFINE r == worker[w]
<1>1. r \in Worker /\ Running' /\ binaries' = binaries /\ temp' = temp
  BY DEF GiveUp, KeepMain, SInv, TypeOK, Running
<1>2. PICK s \in {"SKIP", "ERROR"} : worker' = [worker EXCEPT ![w] = [@ EXCEPT !.at = "send", !.status = s]]
  BY DEF GiveUp
<1> DEFINE n == [r EXCEPT !.at = "send", !.status = s]
<1>3. worker' = [worker EXCEPT ![w] = n]
  BY <1>2
<1>4. worker'[w] = n /\ n.at = "send" /\ n.status = s /\ n.of = None
  BY <1>1, <1>3 DEF SInv, TypeOK, Worker
<1> HIDE DEF n
<1>5. \A v \in Workers : v # w => Tested(v)' /\ Told(v)'
  BY <1>1, <1>3, OthersStay
<1>6. Told(w)' /\ Tested(w)'
  BY <1>4 DEF Told, Tested, Vouched, Rests
<1> QED BY <1>5, <1>6

(* A worker that receives, sends or quits is in no test and decides nothing. *)
LEMMA FreePass ==
  ASSUME Steps, SInv, PInv, NEW w \in Workers, Receive(w) \/ Quit(w) \/ Send(w)
  PROVE  \A v \in Workers : Tested(v)' /\ Told(v)'
<1>1. Running' /\ binaries' = binaries /\ temp' = temp
  BY DEF Receive, Quit, Send, KeepMain, Running
<1>2. \E n : worker' = [worker EXCEPT ![w] = n] /\ n.at \in {"hash", "gone", "idle"}
  <2>1. CASE Receive(w)
    <3> DEFINE n == [Idle EXCEPT !.at = "hash", !.file = Head(tasks)]
    <3>1. n.at = "hash" /\ worker' = [worker EXCEPT ![w] = n]
      BY <2>1, Fresh, TailHolds DEF Receive, SInv, TypeOK
    <3> HIDE DEF n
    <3> QED BY <3>1
  <2>2. CASE Quit(w)
    <3> DEFINE n == [worker[w] EXCEPT !.at = "gone"]
    <3>1. n.at = "gone" /\ worker' = [worker EXCEPT ![w] = n]
      BY <2>2 DEF Quit, SInv, TypeOK, Worker
    <3> HIDE DEF n
    <3> QED BY <3>1
  <2>3. CASE Send(w)
    <3>1. Idle.at = "idle" /\ worker' = [worker EXCEPT ![w] = Idle]
      BY <2>3 DEF Send, Idle
    <3> QED BY <3>1
  <2> QED BY <2>1, <2>2, <2>3
<1>3. PICK n : worker' = [worker EXCEPT ![w] = n] /\ n.at \in {"hash", "gone", "idle"}
  BY <1>2
<1>4. \A v \in Workers : v # w => Tested(v)' /\ Told(v)'
  BY <1>1, <1>3, OthersStay
<1>5. worker'[w].at \in {"hash", "gone", "idle"}
  BY <1>3 DEF SInv, TypeOK
<1>6. Told(w)' /\ Tested(w)'
  BY <1>5 DEF Told, Tested
<1> QED BY <1>4, <1>6

LEMMA WorkPass ==
  ASSUME Steps, SInv, Apart, PInv, NEW w \in Workers, Work(w) \/ \E side \in Side : Test(w, side)
  PROVE  PInv'
<1>1. report' = report /\ handler' = handler /\ main' = main /\ temp' = temp
  BY DEF Work, Test, Receive, Quit, GiveUp, StartTest, Judge, Send, Compile, Run, KeepMain
<1>2. \A v \in Workers : Tested(v)' /\ Told(v)'
  <2>1. GiveUp(w) => worker[w].of = None
    BY DEF GiveUp, SInv, Knows, Sound
  <2> QED BY <2>1, CompilePass, RunPass, StartPass, JudgePass, GiveUpPass, FreePass DEF Work, Test
<1>3. Kept' /\ \A f \in Files : Rests(f, report[f].ref, report[f].of)'
  BY <1>1, ReportStays DEF PInv, Kept, Running
<1>4. \A i \in DOMAIN results' : Vouched(results[i])'
  <2>1. CASE Send(w)
    <3>1. results' = Append(results, Result(worker[w].file, worker[w].status, worker[w]))
      BY <2>1 DEF Send, SendResult
    <3>2. Result(worker[w].file, worker[w].status, worker[w]) \in Verdicted
      BY <2>1 DEF Send, SInv, TypeOK, Worker, Knows, Sound, Holding, Result, Verdicted
    <3>3. PICK r \in Verdicted : r = Result(worker[w].file, worker[w].status, worker[w])
      BY <3>2
    <3>4. /\ r.file = worker[w].file /\ r.status = worker[w].status /\ r.mode = worker[w].mode
          /\ r.hash = worker[w].hash /\ r.ref = worker[w].ref /\ r.of = worker[w].of
          /\ r.target = worker[w].target
      BY <3>3 DEF Result
    <3>5. Vouched(worker[w])
      BY <2>1 DEF Send, PInv, Told
    <3>6. Vouched(r)
      BY <3>4, <3>5 DEF Vouched, Agrees
    <3> QED BY <3>1, <3>3, <3>6, ResultsGrow
  <2>2. CASE Receive(w) \/ Quit(w) \/ GiveUp(w) \/ StartTest(w) \/ Judge(w) \/ \E side \in Side : Test(w, side)
    <3>1. results' = results
      BY <2>2 DEF Test, Receive, Quit, GiveUp, StartTest, Judge, Compile, Run
    <3> QED BY <3>1, ResultsStay
  <2> QED BY <2>1, <2>2 DEF Work
<1> QED BY <1>2, <1>3, <1>4 DEF PInv

(* main's other steps: the report says what the results say, is empty, or is
   the last one.                                                             *)
LEMMA CollectPass ==
  ASSUME Steps, SInv, PInv, CloseTasks \/ Collect
  PROVE  PInv'
<1>1. worker' = worker /\ results' = results /\ handler' = handler
  BY DEF CloseTasks, Collect, WaitWorkers, KeepReport, TruncateReport, WriteReport, Exit
<1>2. \A i \in DOMAIN results' : Vouched(results[i])'
  BY <1>1, ResultsStay
<1>3. Running' => temp' = temp /\ binaries' = binaries /\ Running
  BY DEF CloseTasks, Collect, WaitWorkers, KeepReport, TruncateReport, WriteReport, Exit, Running
<1>4. Kept' /\ (Running' => \A w \in Workers : Tested(w)' /\ Told(w)')
  BY <1>1, <1>3, TestStays DEF PInv, Kept
<1>5. ASSUME NEW f \in Files
      PROVE  Rests(f, report[f].ref, report[f].of)'
  <2>1. CASE report' = report
    BY <2>1, ReportStays
  <2>2. CASE TruncateReport
    <3>1. report'[f].of = None
      BY <2>2 DEF TruncateReport, NoEntry
    <3> QED BY <3>1 DEF Rests
  <2>3. CASE WriteReport /\ report' # report
    <3>1. report'[f] = Entry(f)
      BY <2>3 DEF WriteReport
    <3>2. CASE Decided(f)
      <4>1. PICK i \in DOMAIN results : results[i].file = f /\ ResultOf(f) = results[i]
        BY <3>2 DEF Decided, ResultOf
      <4>2. Vouched(results[i])' /\ results'[i] = results[i]
        BY <1>1, <1>2, <4>1
      <4>3. Rests(f, results[i].ref, results[i].of)'
        BY <4>1, <4>2 DEF Vouched, Rests, ShownBy
      <4>4. report'[f].ref = results[i].ref /\ report'[f].of = results[i].of
        BY <3>1, <3>2, <4>1 DEF Entry
      <4> QED BY <4>2, <4>3, <4>4 DEF Rests
    <3>3. CASE ~Decided(f)
      <4>1. report'[f].of = None
        BY <3>1, <3>3 DEF Entry, NoEntry
      <4> QED BY <4>1 DEF Rests
    <3> QED BY <3>2, <3>3
  <2> QED BY <2>1, <2>2, <2>3 DEF CloseTasks, Collect, WaitWorkers, KeepReport, Exit
<1> QED BY <1>2, <1>4, <1>5 DEF PInv

(* A new invocation has the report, and nothing else of the last one. *)
LEMMA InvokePass ==
  ASSUME SInv, PInv, Invoke
  PROVE  PInv'
<1>1. /\ world' = world /\ report' = report /\ edited' = edited /\ results' = <<>>
      /\ handler' = "waiting" /\ temp' = TRUE /\ worker' = Pool(flags'.jobs)
  BY DEF Invoke
<1>2. \A w \in Workers : worker'[w].at \in {"idle", "gone"}
  BY <1>1, PoolIs
<1>3. DOMAIN results' = {}
  BY <1>1
<1>4. \A f \in Files : Rests(f, report[f].ref, report[f].of)'
  BY <1>1 DEF PInv, Rests, ShownBy
<1> QED BY <1>1, <1>2, <1>3, <1>4 DEF PInv, Kept, Tested, Told

(* The interrupt, and what happens between invocations. *)
LEMMA OutsidePass ==
  ASSUME ~EditsDuring, Steps, SInv, PInv,
         Interrupt \/ HandlerExit \/ \E f \in Files : GenerateGolden(f) \/ Edit(f)
  PROVE  PInv'
<1>1. results' = results /\ report' = report /\ worker' = worker
  BY DEF Interrupt, HandlerExit, GenerateGolden, Edit
<1>2. /\ \A i \in DOMAIN results' : Vouched(results[i])'
      /\ \A f \in Files : Rests(f, report[f].ref, report[f].of)'
  BY <1>1, ResultsStay, ReportStays
<1>3. CASE Interrupt
  <2>1. temp' = FALSE /\ handler' = "removed" /\ Interruptible
    BY <1>3 DEF Interrupt
  <2>2. Running' => \A w \in Workers : Tested(w)' /\ Told(w)'
    BY <1>1, <2>1, TestStays
  <2> QED BY <1>2, <2>1, <2>2 DEF PInv, Kept
<1>4. CASE HandlerExit \/ \E f \in Files : GenerateGolden(f) \/ Edit(f)
  <2>1. ~Running' /\ handler' = handler
    BY <1>4 DEF HandlerExit, GenerateGolden, Edit, Running
  <2> QED BY <1>2, <2>1 DEF PInv, Kept
<1> QED BY <1>3, <1>4

LEMMA PassNext ==
  ASSUME ~EditsDuring
  PROVE  SInv /\ Apart /\ PInv /\ [Next]_svars => PInv'
<1> SUFFICES ASSUME SInv, Apart, PInv, [Next]_svars PROVE PInv'
  OBVIOUS
<1>1. CASE Invoke
  BY <1>1, InvokePass
<1>2. ASSUME ~Invoke
      PROVE  PInv'
  <2>0. Steps
    BY <1>2, AllSteps
  <2>1. CASE UNCHANGED svars
    <3>1. /\ report' = report /\ results' = results /\ worker' = worker
          /\ binaries' = binaries /\ handler' = handler /\ temp' = temp /\ main' = main
      BY <2>1 DEF svars
    <3>2. Running' => \A w \in Workers : Tested(w)' /\ Told(w)'
      BY <2>0, <3>1, TestStays
    <3> QED BY <2>0, <3>1, <3>2, ResultsStay, ReportStays DEF PInv, Kept, Running
  <2>2. CASE \E f \in Files : FeedResult(f) \/ FeedTask(f)
    BY <2>0, <2>2, FeedPass
  <2>3. CASE CloseTasks \/ Collect
    BY <2>0, <2>3, CollectPass
  <2>4. CASE \E w \in Workers : Work(w) \/ \E side \in Side : Test(w, side)
    BY <2>0, <2>4, WorkPass
  <2>5. CASE Interrupt \/ HandlerExit \/ \E f \in Files : GenerateGolden(f) \/ Edit(f)
    BY <2>0, <2>5, OutsidePass
  <2> QED BY <1>2, <2>1, <2>2, <2>3, <2>4, <2>5 DEF Next, Feed
<1> QED BY <1>1, <1>2

(* A file that passes was compared with the right thing: its golden result, or
   what the reference compiler shows of the content tested, or what it showed of
   the content of an earlier invocation, which only an edit makes another; and
   the target showed the same, unless the report says that the reference failed
   to compile (testFile, compareRuntimeResults).  With any number of files,
   workers, invocations and edits between them, with interrupts, slow compilers
   and reports that could not be written.                                    *)
THEOREM PassesAgree ==
  ASSUME ~EditsDuring
  PROVE  Spec => []PassMeansAgreement
<1>1. Init => Apart /\ PInv
  BY ApartInit, PassInit
<1>2. SInv /\ Apart /\ PInv /\ [Next]_svars => Apart' /\ PInv'
  BY ApartNext, PassNext
<1>3. PInv => PassMeansAgreement
  BY DEF PInv, PassMeansAgreement, Vouched
<1> QED BY <1>1, <1>2, <1>3, SuiteInv, PTL DEF Spec
=============================================================================
