-------------------------- MODULE CommandRunsProofs --------------------------
(***************************************************************************)
(* Theorems about CommandRuns, for every value of its constants. From one  *)
(* inductive invariant, IInv: the type invariant, and the three invariants *)
(* that tie session_, busy_, the bundle and the worker threads together.   *)
(*                                                                         *)
(* The second part is about the journal. CommandRuns implements            *)
(* SerialExecutor: the initial state maps to an initial state, and every   *)
(* step of the window or of a worker maps to one step of the executor or   *)
(* leaves its variables as they are. The line of a bundle tells what the   *)
(* lines of its steps tell. A run without a directory of its own starts    *)
(* where the last one on record ended. These need IInv and three more:     *)
(* RecordInv relates runs and journal, StepsInv the steps of bundles and   *)
(* journal, CwdInv the stored directories and journal.                     *)
(***************************************************************************)
EXTENDS CommandRuns, SequenceTheorems, TLAPS

\* What every run record satisfies, whatever the window does: a request names a
\* server, a started run has a directory, and ids above `accepted' are free.
RunShape ==
  \A r \in RunIds :
    /\ run[r].phase = "accepted" => run[r].server \in Servers /\ run[r].step = 0
    /\ Started(r) => run[r].server \in Servers /\ run[r].dir \in Dirs
    /\ r > accepted => run[r].phase = "unused"

\* What waits has been accepted and not been started, in the order of its ids.
QueueShape ==
  /\ \A i \in DOMAIN run_queue : run[run_queue[i]].phase = "accepted"
  /\ \A i, j \in DOMAIN run_queue : i < j => run_queue[i] < run_queue[j]

\* Only the run of session_ is in the hands of a worker, and its completion is
\* the only one that can be posted.
SessionShape ==
  /\ \A r \in RunIds : Working(r) => session = r
  /\ session # None => Started(session)
  /\ events = IF session # None /\ run[session].phase \in {"posted", "gone"}
              THEN <<session>> ELSE <<>>

\* An active bundle knows its server, and the ids of its steps to come are free.
BundleShape ==
  bundle.active =>
    /\ bundle.server \in Servers
    /\ bundle.base + bundle.size <= accepted
    /\ \A r \in RunIds :
         r > bundle.base + bundle.index /\ r <= bundle.base + bundle.size /\ r # session
           => run[r].phase = "unused"

IInv ==
  /\ TypeOK
  /\ RunShape
  /\ Open => QueueShape /\ SessionShape /\ BusyIffWork /\ StepMatchesBundle /\ BundleShape

-----------------------------------------------------------------------------
\* The value NewRun makes is a run that is waiting to be started.
LEMMA NewRunType ==
  ASSUME NEW k \in Nat, NEW s \in Servers, NEW d \in WorkDirs \cup {NoDir}
  PROVE  /\ NewRun(k, s, d) \in Run
         /\ NewRun(k, s, d).phase = "accepted"
         /\ NewRun(k, s, d).server = s
         /\ NewRun(k, s, d).step = k
         /\ NewRun(k, s, d).dir = d
BY RunsAssumption DEF NewRun, Run, Phases, Statuses

\* A started run names its server and a directory in the run record.
LEMMA StartedType ==
  ASSUME NEW job \in Run, NEW cwds \in [Servers -> Dirs], job.server \in Servers
  PROVE  LET j == [job EXCEPT !.phase = "spawned",
                              !.dir = IF job.dir = NoDir THEN cwds[job.server] ELSE job.dir]
         IN /\ j \in Run
            /\ j.phase = "spawned"
            /\ j.server = job.server
            /\ j.step = job.step
            /\ j.dir \in Dirs
BY DEF Run, Phases

\* What start_ssh_run leaves of the runs when no worker holds one: the new run
\* is the only one in flight.
LEMMA StartKeeps ==
  ASSUME TypeOK, RunShape,
         NEW r \in RunIds, NEW job \in Run, NEW cwds \in [Servers -> Dirs],
         job.server \in Servers,
         \A q \in RunIds : ~Working(q),
         accepted' \in accepted .. MaxRuns, r <= accepted',
         events' = <<>>,
         StartSshRun(r, job, cwds)
  PROVE  /\ run' \in [RunIds -> Run] /\ session' = r /\ busy_server_id' \in Servers
         /\ run'[r].phase = "spawned" /\ run'[r].step = job.step
         /\ \A q \in RunIds \ {r} : run'[q] = run[q]
         /\ RunShape' /\ SessionShape'
<1> DEFINE j == [job EXCEPT !.phase = "spawned",
                            !.dir = IF job.dir = NoDir THEN cwds[job.server] ELSE job.dir]
<1>1. /\ j \in Run /\ j.phase = "spawned" /\ j.server = job.server /\ j.step = job.step
      /\ j.dir \in Dirs
  BY StartedType
<1>2. /\ session' = r /\ busy_server_id' = job.server /\ run' = [run EXCEPT ![r] = j]
  BY DEF StartSshRun
<1>3. run \in [RunIds -> Run]
  BY DEF TypeOK
<1> HIDE DEF j
<1>4. run'[r] = j /\ \A q \in RunIds \ {r} : run'[q] = run[q]
  BY <1>2, <1>3
<1>5. run' \in [RunIds -> Run]
  BY <1>1, <1>2, <1>3
<1>6. RunShape'
  BY <1>1, <1>4 DEF RunShape, Started, TypeOK, RunIds
<1>7. SessionShape'
  <2>1. \A q \in RunIds : Working(q)' => session' = q
    BY <1>2, <1>4 DEF Working
  <2>2. Started(session)'
    BY <1>1, <1>2, <1>4 DEF Started
  <2>3. run'[session'].phase \notin {"posted", "gone"}
    BY <1>1, <1>2, <1>4
  <2> QED
    BY <2>1, <2>2, <2>3 DEF SessionShape
<1> QED
  BY <1>1, <1>2, <1>4, <1>5, <1>6, <1>7

\* What stays of a bundle that has ended.
LEMMA RetiredType ==
  ASSUME NEW b \in Bundle
  PROVE  /\ Retired(b) \in Bundle
         /\ ~Retired(b).active /\ ~Retired(b).waiting /\ ~Retired(b).cancel
BY DEF Bundle, Retired

\* A bundle's line in the journal is an entry.
LEMMA BundleEntryType ==
  ASSUME NEW b \in Bundle, NEW status \in Statuses
  PROVE  BundleEntry(b, status) \in Entry
BY DEF Bundle, BundleEntry, Entry

\* set_busy(false) with no bundle active and no run in flight.
LEMMA IdleKeeps ==
  ASSUME IInv, Open, app' = app, accepted' = accepted, events' = <<>>,
         \A q \in RunIds : ~Working(q),
         run_queue' \in {run_queue, <<>>},
         bundle' \in Bundle, ~bundle'.active, ~bundle'.waiting, ~bundle'.cancel,
         remote_cwd' \in [Servers -> Dirs],
         journal' \in Seq(Entry),
         SetIdle
  PROVE  IInv'
<1> USE DEF SetIdle
<1>1. TypeOK'
  <2>1. run_queue' \in Seq(RunIds) /\ events' \in Seq(RunIds)
    <3>1. run_queue \in Seq(RunIds) /\ <<>> \in Seq(RunIds)
      BY DEF IInv, TypeOK
    <3> QED
      BY <3>1
  <2>2. session' \in RunIds \cup {None} /\ accepted' \in 0 .. MaxRuns /\ run' \in [RunIds -> Run]
    BY DEF IInv, TypeOK
  <2> QED
    BY <2>1, <2>2 DEF IInv, TypeOK
<1>2. RunShape'
  BY DEF IInv, RunShape, Started
<1>3. QueueShape'
  BY DEF IInv, QueueShape, Open
<1>4. SessionShape'
  BY DEF IInv, SessionShape, Working
<1>5. BusyIffWork' /\ StepMatchesBundle' /\ BundleShape'
  BY DEF BusyIffWork, StepMatchesBundle, BundleShape, None
<1> QED
  BY <1>1, <1>2, <1>3, <1>4, <1>5 DEF IInv

\* pump_run_queue with no bundle active and no run in flight.
LEMMA PumpKeeps ==
  ASSUME IInv, Open, app' = app, accepted' = accepted, events' = <<>>,
         \A q \in RunIds : ~Working(q),
         bundle' \in Bundle, ~bundle'.active, ~bundle'.waiting, ~bundle'.cancel,
         NEW cwds \in [Servers -> Dirs], remote_cwd' \in [Servers -> Dirs],
         journal' \in Seq(Entry),
         PumpRunQueue(cwds)
  PROVE  IInv'
<1>1. CASE run_queue = <<>>
  <2>1. SetIdle /\ run_queue' = run_queue
    BY <1>1 DEF PumpRunQueue
  <2> QED
    BY <2>1, IdleKeeps
<1>2. CASE run_queue # <<>>
  <2> DEFINE r == Head(run_queue)
  <2>1. /\ run_queue' = Tail(run_queue) /\ busy' = TRUE
        /\ StartSshRun(r, run[r], cwds)
    BY <1>2 DEF PumpRunQueue
  <2>2. /\ TypeOK /\ RunShape /\ QueueShape /\ run_queue \in Seq(RunIds)
        /\ run \in [RunIds -> Run] /\ accepted \in 0 .. MaxRuns
    BY DEF IInv, TypeOK
  <2>3. r \in RunIds /\ r = run_queue[1] /\ 1 \in DOMAIN run_queue
    BY <1>2, <2>2
  <2>4. /\ run[r].phase = "accepted" /\ run[r].server \in Servers /\ run[r].step = 0
        /\ run[r] \in Run /\ r <= accepted
    BY <2>2, <2>3 DEF QueueShape, RunShape, RunIds
  <2>5. accepted' \in accepted .. MaxRuns /\ r <= accepted'
    BY <2>2, <2>4
  <2> HIDE DEF r
  <2>6. /\ run' \in [RunIds -> Run] /\ session' = r /\ busy_server_id' \in Servers
        /\ run'[r].step = 0
        /\ \A q \in RunIds \ {r} : run'[q] = run[q]
        /\ RunShape' /\ SessionShape'
    BY <2>1, <2>2, <2>3, <2>4, <2>5, StartKeeps
  <2>7. TypeOK'
    <3>1. run_queue' \in Seq(RunIds)
      BY <1>2, <2>1, <2>2
    <3>2. worker_running' = TRUE
      BY <2>1 DEF StartSshRun
    <3> QED
      BY <2>1, <2>2, <2>3, <2>6, <3>1, <3>2 DEF TypeOK
  <2>8. QueueShape'
    <3>1. \A i \in DOMAIN run_queue' : i + 1 \in DOMAIN run_queue /\ run_queue'[i] = run_queue[i + 1]
                                     /\ i \in Nat \ {0}
      BY <1>2, <2>1, <2>2
    <3>2. \A i \in DOMAIN run_queue' : run_queue'[i] \in RunIds /\ r < run_queue'[i]
      BY <2>2, <2>3, <3>1 DEF QueueShape
    <3>3. \A i \in DOMAIN run_queue' : run'[run_queue'[i]] = run[run_queue[i + 1]]
      BY <2>3, <2>6, <3>1, <3>2 DEF RunIds
    <3> QED
      BY <2>2, <3>1, <3>3 DEF QueueShape
  <2>9. BusyIffWork' /\ StepMatchesBundle' /\ BundleShape'
    BY <2>1, <2>3, <2>6 DEF BusyIffWork, StepMatchesBundle, BundleShape, None, RunIds
  <2> QED
    BY <2>6, <2>7, <2>8, <2>9 DEF IInv
<1> QED
  BY <1>1, <1>2

\* BundleController::finish with no run in flight.
LEMMA FinishKeeps ==
  ASSUME IInv, Open, app' = app, accepted' = accepted, events' = <<>>,
         \A q \in RunIds : ~Working(q),
         NEW cwds \in [Servers -> Dirs], remote_cwd' \in [Servers -> Dirs],
         NEW b \in Bundle, NEW status \in Statuses,
         FinishBundle(b, status, cwds)
  PROVE  IInv'
<1>1. /\ bundle' \in Bundle /\ ~bundle'.active /\ ~bundle'.waiting /\ ~bundle'.cancel
  BY RetiredType DEF FinishBundle
<1>2. journal' \in Seq(Entry)
  <2>1. journal' = Append(journal, BundleEntry(b, status)) /\ BundleEntry(b, status) \in Entry
    BY BundleEntryType DEF FinishBundle
  <2> QED
    BY <2>1 DEF IInv, TypeOK
<1>3. CASE PumpRunQueue(cwds)
  BY <1>1, <1>2, <1>3, PumpKeeps
<1>4. CASE SetIdle /\ run_queue' = run_queue
  BY <1>1, <1>2, <1>4, IdleKeeps
<1> QED
  BY <1>3, <1>4 DEF FinishBundle

\* The id of the step at index of a bundle of that size.
LEMMA StepIdInBundle ==
  ASSUME NEW base \in Nat, NEW index \in Nat, NEW size \in Nat, NEW taken \in Nat,
         NEW max \in Nat, index < size, base + size <= taken, taken <= max
  PROVE  /\ base + index + 1 \in 1 .. max /\ base + index + 1 <= taken
         /\ base + index + 1 <= base + size /\ base + index + 1 > base + index
  OBVIOUS

\* run_step with a step left, its id free, and no run in flight.
LEMMA RunStepKeeps ==
  ASSUME IInv, Open, app' = app, events' = <<>>, busy' = TRUE,
         \A q \in RunIds : ~Working(q),
         NEW cwds \in [Servers -> Dirs], remote_cwd' \in [Servers -> Dirs],
         NEW b \in Bundle, b.active, ~b.cancel, ~b.waiting, b.server \in Servers,
         accepted' \in accepted .. MaxRuns, b.base + b.size <= accepted',
         \A q \in RunIds : q > b.base + b.index /\ q <= b.base + b.size
                             => run[q].phase = "unused",
         RunStep(b, cwds)
  PROVE  IInv'
<1> DEFINE r == b.base + b.index + 1
<1>1. /\ b.index < b.size /\ bundle' = b /\ run_queue' = run_queue /\ journal' = journal
  BY DEF RunStep
<1>2. PICK d \in WorkDirs \cup {NoDir} : StartSshRun(r, NewRun(b.index + 1, b.server, d), cwds)
  BY DEF RunStep
<1>3. /\ b.base \in Nat /\ b.index \in Nat /\ b.size \in Nat
      /\ accepted \in Nat /\ accepted' \in Nat /\ MaxRuns \in Nat
  BY RunsAssumption DEF Bundle, IInv, TypeOK
<1>4. r \in RunIds /\ r <= accepted' /\ r <= b.base + b.size /\ r > b.base + b.index
  <2>1. accepted' <= MaxRuns
    OBVIOUS
  <2> QED
    BY <1>1, <1>3, <2>1, StepIdInBundle DEF RunIds
<1>5. run[r].phase = "unused"
  BY <1>4
<1>6. /\ NewRun(b.index + 1, b.server, d) \in Run
      /\ NewRun(b.index + 1, b.server, d).server \in Servers
      /\ NewRun(b.index + 1, b.server, d).step = b.index + 1
  BY <1>3, NewRunType
<1>7. TypeOK /\ RunShape /\ QueueShape
  BY DEF IInv
<1> HIDE DEF r
<1>8. /\ run' \in [RunIds -> Run] /\ session' = r /\ busy_server_id' \in Servers
      /\ run'[r].step = b.index + 1
      /\ \A q \in RunIds \ {r} : run'[q] = run[q]
      /\ RunShape' /\ SessionShape'
  BY <1>2, <1>4, <1>6, <1>7, StartKeeps
<1>9. TypeOK'
  <2>1. worker_running' = TRUE
    BY <1>2 DEF StartSshRun
  <2>2. accepted' \in 0 .. MaxRuns /\ events' \in Seq(RunIds)
    BY <1>3
  <2> QED
    BY <1>1, <1>4, <1>7, <1>8, <2>1, <2>2 DEF TypeOK
<1>10. QueueShape'
  <2>1. \A i \in DOMAIN run_queue : run_queue[i] \in RunIds \ {r}
    BY <1>5, <1>7 DEF TypeOK, QueueShape
  <2> QED
    BY <1>1, <1>7, <1>8, <2>1 DEF QueueShape
<1>11. BusyIffWork' /\ StepMatchesBundle'
  BY <1>1, <1>3, <1>4, <1>8 DEF BusyIffWork, StepMatchesBundle, None, RunIds, r
<1>12. BundleShape'
  <2> SUFFICES ASSUME NEW q \in RunIds, q > b.base + b.index, q <= b.base + b.size, q # r
               PROVE  run'[q].phase = "unused"
    BY <1>1, <1>8 DEF BundleShape
  <2> QED
    BY <1>8
<1> QED
  BY <1>8, <1>9, <1>10, <1>11, <1>12 DEF IInv

\* A worker moves its own run on: it keeps its server and its step, has a
\* directory, and posts at most one completion, after its work.
LEMMA WorkerMove ==
  ASSUME IInv, NEW r \in RunIds, NEW job \in Run,
         run' = [run EXCEPT ![r] = job], Started(r),
         job.phase \notin {"unused", "accepted"},
         job.server = run[r].server, job.step = run[r].step, job.dir \in Dirs,
         UNCHANGED <<app, busy, busy_server_id, run_queue, session, remote_cwd, bundle, accepted>>,
         worker_running' \in BOOLEAN, journal' \in Seq(Entry),
         \/ /\ Working(r) /\ job.phase \notin {"posted", "gone"} /\ events' = events
         \/ /\ Working(r) /\ job.phase = "posted"
            /\ events' = IF Open THEN Append(events, r) ELSE events
         \/ /\ run[r].phase = "posted" /\ job.phase = "gone" /\ events' = events
  PROVE  IInv'
<1>1. /\ run \in [RunIds -> Run] /\ run'[r] = job /\ events \in Seq(RunIds)
      /\ \A q \in RunIds \ {r} : run'[q] = run[q]
  BY DEF IInv, TypeOK
<1>2. TypeOK'
  <2>1. run' \in [RunIds -> Run]
    BY <1>1
  <2>2. events' \in Seq(RunIds)
    BY <1>1
  <2> QED
    BY <2>1, <2>2 DEF IInv, TypeOK
<1>3. RunShape'
  BY <1>1 DEF IInv, RunShape, Started
<1>4. ASSUME Open
      PROVE  QueueShape' /\ SessionShape' /\ BusyIffWork' /\ StepMatchesBundle' /\ BundleShape'
  <2>1. TypeOK /\ QueueShape /\ SessionShape /\ BusyIffWork /\ StepMatchesBundle /\ BundleShape
    BY <1>4 DEF IInv
  <2>2. QueueShape'
    BY <1>1, <2>1 DEF QueueShape, TypeOK, Started
  <2>3. SessionShape'
    <3>1. \A q \in RunIds : Working(q)' => session' = q
      BY <1>1, <2>1 DEF SessionShape, Working
    <3>2. session' # None => Started(session)'
      BY <1>1, <2>1 DEF SessionShape, Started, TypeOK, None
    <3>3. CASE Working(r)
      <4>1. session = r /\ r # None /\ events = <<>>
        BY <2>1, <3>3 DEF SessionShape, Working, None, RunIds
      <4> QED
        BY <1>1, <1>4, <3>1, <3>2, <3>3, <4>1 DEF SessionShape, Working
    <3>4. CASE run[r].phase = "posted" /\ job.phase = "gone"
      <4>1. events' = events
        BY <3>4 DEF Working
      <4>2. session # None => session \in RunIds
        BY <2>1 DEF TypeOK
      <4>3. session # None => (run'[session].phase \in {"posted", "gone"}
                                <=> run[session].phase \in {"posted", "gone"})
        BY <1>1, <3>4, <4>2
      <4> QED
        BY <2>1, <3>1, <3>2, <4>1, <4>3 DEF SessionShape
    <3> QED
      BY <3>3, <3>4
  <2>4. BusyIffWork' /\ StepMatchesBundle'
    BY <1>1, <2>1 DEF BusyIffWork, StepMatchesBundle, Open, TypeOK, None
  <2>5. BundleShape'
    BY <1>1, <2>1 DEF BundleShape, Started
  <2> QED
    BY <2>2, <2>3, <2>4, <2>5
<1> QED
  BY <1>2, <1>3, <1>4 DEF IInv, Open

-----------------------------------------------------------------------------
\* Every step of a worker thread preserves the invariant.
LEMMA WorkerKeeps ==
  ASSUME IInv, NEW r \in RunIds, WorkerStep(r) \/ RemoteEnds(r)
  PROVE  IInv'
<1>1. run \in [RunIds -> Run] /\ run[r] \in Run /\ journal \in Seq(Entry) /\ worker_running \in BOOLEAN
  BY DEF IInv, TypeOK
<1>2. Started(r) => run[r].dir \in Dirs
  BY DEF IInv, RunShape
<1> USE DEF InPhase, WorkerSets, guiVars, Started, Working
<1>3. CASE BeginRun(r)
  <2> DEFINE job == [run[r] EXCEPT !.phase = "connecting", !.cancel = FALSE]
  <2>1. /\ job \in Run /\ job.phase = "connecting" /\ job.server = run[r].server
        /\ job.step = run[r].step /\ job.dir = run[r].dir
    BY <1>1 DEF Run, Phases
  <2>2. run' = [run EXCEPT ![r] = job] /\ run[r].phase = "spawned"
    BY <1>3 DEF BeginRun
  <2> HIDE DEF job
  <2> QED
    BY <1>1, <1>2, <1>3, <2>1, <2>2, WorkerMove DEF BeginRun
<1>4. CASE Connect(r)
  <2> DEFINE job == [run[r] EXCEPT !.phase = "looping"]
  <2>1. /\ job \in Run /\ job.phase = "looping" /\ job.server = run[r].server
        /\ job.step = run[r].step /\ job.dir = run[r].dir
    BY <1>1 DEF Run, Phases
  <2>2. run' = [run EXCEPT ![r] = job] /\ run[r].phase = "connecting"
    BY <1>4 DEF Connect
  <2> HIDE DEF job
  <2> QED
    BY <1>1, <1>2, <1>4, <2>1, <2>2, WorkerMove DEF Connect
<1>5. CASE ConnectFails(r)
  <2> DEFINE job == [run[r] EXCEPT !.phase = "ended", !.status = "error"]
  <2>1. /\ job \in Run /\ job.phase = "ended" /\ job.server = run[r].server
        /\ job.step = run[r].step /\ job.dir = run[r].dir
    BY <1>1 DEF Run, Phases, Statuses
  <2>2. run' = [run EXCEPT ![r] = job] /\ run[r].phase = "connecting"
    BY <1>5 DEF ConnectFails
  <2> HIDE DEF job
  <2> QED
    BY <1>1, <1>2, <1>5, <2>1, <2>2, WorkerMove DEF ConnectFails
<1>6. CASE LoopCancelled(r) \/ RemoteEnds(r)
  <2>1. PICK status \in Outcomes \cup {"cancelled"}, d \in Dirs :
          WorkerSets(r, [run[r] EXCEPT !.phase = "ended", !.status = status, !.dir = d])
    BY <1>6 DEF LoopCancelled, RemoteEnds
  <2> DEFINE job == [run[r] EXCEPT !.phase = "ended", !.status = status, !.dir = d]
  <2>2. status \in Statuses
    BY RunsAssumption DEF Statuses
  <2>3. /\ job \in Run /\ job.phase = "ended" /\ job.server = run[r].server
        /\ job.step = run[r].step /\ job.dir = d
    BY <1>1, <2>2 DEF Run, Phases
  <2>4. run' = [run EXCEPT ![r] = job] /\ run[r].phase = "looping"
    BY <1>6, <2>1 DEF LoopCancelled, RemoteEnds
  <2>5. UNCHANGED <<app, busy, busy_server_id, run_queue, session, remote_cwd, bundle,
                    accepted, worker_running, journal, events>>
    BY <2>1
  <2> HIDE DEF job
  <2> QED
    BY <1>1, <2>3, <2>4, <2>5, WorkerMove
<1>7. CASE AppendJournal(r)
  <2> DEFINE job   == [run[r] EXCEPT !.phase = "journaled"]
             entry == [kind |-> "command", run |-> r, step |-> run[r].step,
                       server |-> run[r].server, dir |-> run[r].dir, status |-> run[r].status]
  <2>1. /\ job \in Run /\ job.phase = "journaled" /\ job.server = run[r].server
        /\ job.step = run[r].step /\ job.dir = run[r].dir
    BY <1>1 DEF Run, Phases
  <2>2. entry \in Entry
    BY <1>1 DEF Run, Entry, RunIds
  <2>3. run' = [run EXCEPT ![r] = job] /\ run[r].phase = "ended" /\ journal' = Append(journal, entry)
    BY <1>7 DEF AppendJournal
  <2> HIDE DEF job, entry
  <2>4. journal' \in Seq(Entry)
    BY <1>1, <2>2, <2>3
  <2> QED
    BY <1>1, <1>2, <1>7, <2>1, <2>3, <2>4, WorkerMove DEF AppendJournal
<1>8. CASE PostCompletion(r)
  <2> DEFINE job == [run[r] EXCEPT !.phase = "posted"]
  <2>1. /\ job \in Run /\ job.phase = "posted" /\ job.server = run[r].server
        /\ job.step = run[r].step /\ job.dir = run[r].dir
    BY <1>1 DEF Run, Phases
  <2>2. run' = [run EXCEPT ![r] = job] /\ run[r].phase = "journaled"
    BY <1>8 DEF PostCompletion
  <2> HIDE DEF job
  <2> QED
    BY <1>1, <1>2, <1>8, <2>1, <2>2, WorkerMove DEF PostCompletion
<1>9. CASE ThreadExit(r)
  <2> DEFINE job == [run[r] EXCEPT !.phase = "gone", !.cancel = FALSE]
  <2>1. /\ job \in Run /\ job.phase = "gone" /\ job.server = run[r].server
        /\ job.step = run[r].step /\ job.dir = run[r].dir
    BY <1>1 DEF Run, Phases
  <2>2. run' = [run EXCEPT ![r] = job] /\ run[r].phase = "posted"
    BY <1>1, <1>9 DEF ThreadExit
  <2> HIDE DEF job
  <2> QED
    BY <1>1, <1>2, <1>9, <2>1, <2>2, WorkerMove DEF ThreadExit
<1> QED
  BY <1>3, <1>4, <1>5, <1>6, <1>7, <1>8, <1>9 DEF WorkerStep

\* Requests that join the queue behind a busy window: n fresh ids, in order.
LEMMA QueueUpKeeps ==
  ASSUME IInv, Open, busy,
         UNCHANGED <<app, busy, busy_server_id, session, remote_cwd, bundle,
                     worker_running, events, journal>>,
         NEW n \in Nat, accepted' = accepted + n, accepted + n <= MaxRuns,
         run' \in [RunIds -> Run],
         \A q \in RunIds : q <= accepted \/ q > accepted + n => run'[q] = run[q],
         \A q \in RunIds : q > accepted /\ q <= accepted + n =>
            run'[q].phase = "accepted" /\ run'[q].server \in Servers /\ run'[q].step = 0,
         run_queue' \in Seq(RunIds),
         Len(run_queue') = Len(run_queue) + n,
         \A i \in Nat : 1 <= i /\ i <= Len(run_queue) => run_queue'[i] = run_queue[i],
         \A i \in Nat : i > Len(run_queue) /\ i <= Len(run_queue) + n
                          => run_queue'[i] = accepted + (i - Len(run_queue))
  PROVE  IInv'
<1> DEFINE m == Len(run_queue)
<1>1. /\ TypeOK /\ RunShape /\ QueueShape /\ SessionShape /\ BusyIffWork
      /\ StepMatchesBundle /\ BundleShape
  BY DEF IInv
<1>2. /\ accepted \in Nat /\ MaxRuns \in Nat /\ accepted + n \in 0 .. MaxRuns
      /\ run_queue \in Seq(RunIds) /\ m \in Nat /\ session \in RunIds \cup {None}
      /\ DOMAIN run_queue = 1 .. m /\ DOMAIN run_queue' = 1 .. m + n
      /\ RunIds \subseteq Nat
  BY <1>1, RunsAssumption DEF TypeOK, RunIds
<1>3. TypeOK'
  BY <1>1, <1>2 DEF TypeOK
<1>4. \A q \in RunIds : q > accepted => run[q].phase = "unused"
  BY <1>1 DEF RunShape
<1>5. \A q \in RunIds : run[q].phase # "unused" => q <= accepted /\ run'[q] = run[q]
  BY <1>2, <1>4
<1>6. \A q \in RunIds : run'[q] = run[q] \/ (run'[q].phase = "accepted" /\ run[q].phase = "unused")
  BY <1>2, <1>4
<1>7. RunShape'
  <2> SUFFICES ASSUME NEW q \in RunIds
               PROVE  /\ run'[q].phase = "accepted" => run'[q].server \in Servers /\ run'[q].step = 0
                      /\ Started(q)' => run'[q].server \in Servers /\ run'[q].dir \in Dirs
                      /\ q > accepted' => run'[q].phase = "unused"
    BY DEF RunShape
  <2>1. CASE q <= accepted \/ q > accepted + n
    <3>1. run'[q] = run[q]
      BY <2>1
    <3>2. q > accepted' => q > accepted
      BY <1>2
    <3> QED
      BY <1>1, <3>1, <3>2 DEF RunShape, Started
  <2>2. CASE q > accepted /\ q <= accepted + n
    BY <1>2, <2>2 DEF Started
  <2> QED
    BY <1>2, <2>1, <2>2
<1> HIDE DEF m
<1>8. QueueShape'
  <2>1. \A i \in 1 .. m :
          /\ run_queue[i] \in RunIds /\ run_queue[i] <= accepted /\ run_queue'[i] = run_queue[i]
          /\ run'[run_queue[i]].phase = "accepted"
    <3> SUFFICES ASSUME NEW i \in 1 .. m
                 PROVE  /\ run_queue[i] \in RunIds /\ run_queue[i] <= accepted
                        /\ run_queue'[i] = run_queue[i]
                        /\ run'[run_queue[i]].phase = "accepted"
      OBVIOUS
    <3>1. run_queue[i] \in RunIds
      BY <1>2
    <3>2. run[run_queue[i]].phase = "accepted"
      BY <1>1, <1>2 DEF QueueShape
    <3>3. run_queue'[i] = run_queue[i]
      BY <1>2 DEF m
    <3> QED
      BY <1>5, <3>1, <3>2, <3>3
  <2>2. \A i \in 1 .. m + n : i > m =>
          /\ run_queue'[i] = accepted + (i - m)
          /\ run_queue'[i] > accepted /\ run_queue'[i] <= accepted + n
          /\ run_queue'[i] \in RunIds
    <3> SUFFICES ASSUME NEW i \in 1 .. m + n, i > m
                 PROVE  /\ run_queue'[i] = accepted + (i - m)
                        /\ run_queue'[i] > accepted /\ run_queue'[i] <= accepted + n
                        /\ run_queue'[i] \in RunIds
      OBVIOUS
    <3>1. run_queue'[i] = accepted + (i - m)
      BY <1>2 DEF m
    <3> QED
      BY <1>2, <3>1 DEF RunIds
  <2>3. \A i \in 1 .. m + n : run'[run_queue'[i]].phase = "accepted"
    BY <1>2, <2>1, <2>2
  <2>4. ASSUME NEW i \in 1 .. m + n, NEW k \in 1 .. m + n, i < k
        PROVE  run_queue'[i] < run_queue'[k]
    <3>1. CASE k <= m
      <4>1. i \in DOMAIN run_queue /\ k \in DOMAIN run_queue
        BY <1>2, <2>4, <3>1
      <4>2. run_queue[i] < run_queue[k]
        BY <1>1, <2>4, <4>1 DEF QueueShape
      <4> QED
        BY <1>2, <2>1, <4>1, <4>2
    <3>2. CASE i <= m /\ k > m
      <4> i \in 1 .. m
        BY <1>2, <3>2
      <4>1. run_queue'[i] = run_queue[i] /\ run_queue[i] <= accepted /\ run_queue[i] \in Nat
        <5>1. run_queue[i] \in RunIds /\ run_queue'[i] = run_queue[i] /\ run_queue[i] <= accepted
          BY <2>1
        <5> QED
          BY <1>2, <5>1
      <4>2. run_queue'[k] > accepted /\ run_queue'[k] \in Nat
        BY <1>2, <2>2, <3>2
      <4> QED
        BY <1>2, <4>1, <4>2
    <3>3. CASE i > m
      <4>1. run_queue'[i] = accepted + (i - m) /\ run_queue'[k] = accepted + (k - m)
        BY <1>2, <2>2, <2>4, <3>3
      <4> QED
        BY <1>2, <2>4, <4>1
    <3> QED
      BY <1>2, <2>4, <3>1, <3>2, <3>3
  <2> QED
    BY <1>2, <2>3, <2>4 DEF QueueShape
<1>9. session # None => session \in RunIds /\ run'[session] = run[session]
  BY <1>1, <1>2, <1>5 DEF SessionShape, Started
<1>10. SessionShape'
  <2>1. \A q \in RunIds : Working(q)' => Working(q)
    BY <1>6 DEF Working
  <2> QED
    BY <1>1, <1>9, <2>1 DEF SessionShape, Started
<1>11. BusyIffWork' /\ StepMatchesBundle'
  BY <1>1, <1>9 DEF BusyIffWork, StepMatchesBundle, Open
<1>12. BundleShape'
  <2>1. bundle \in Bundle /\ bundle' = bundle /\ session' = session
    BY <1>1 DEF TypeOK
  <2> SUFFICES ASSUME bundle.active
               PROVE  /\ bundle.server \in Servers
                      /\ bundle.base + bundle.size <= accepted'
                      /\ \A q \in RunIds :
                           q > bundle.base + bundle.index /\ q <= bundle.base + bundle.size
                             /\ q # session => run'[q].phase = "unused"
    BY <2>1 DEF BundleShape
  <2>2. /\ bundle.base \in Nat /\ bundle.size \in Nat /\ bundle.index \in Nat
    BY <2>1 DEF Bundle
  <2>3. bundle.server \in Servers /\ bundle.base + bundle.size <= accepted
    BY <1>1 DEF BundleShape
  <2>4. ASSUME NEW q \in RunIds, q > bundle.base + bundle.index,
               q <= bundle.base + bundle.size, q # session
        PROVE  run'[q].phase = "unused"
    <3>1. run[q].phase = "unused"
      BY <1>1, <2>4 DEF BundleShape
    <3>2. q <= accepted
      BY <1>2, <2>2, <2>3, <2>4
    <3> QED
      BY <3>1, <3>2
  <2> QED
    BY <1>2, <2>2, <2>3, <2>4
<1> QED
  BY <1>3, <1>7, <1>8, <1>10, <1>11, <1>12 DEF IInv
-----------------------------------------------------------------------------
\* No worker holds a run while the window is open and idle, or pauses.
LEMMA NoRunInFlight ==
  ASSUME IInv, Open, session = None
  PROVE  /\ \A q \in RunIds : ~Working(q)
         /\ events = <<>>
BY DEF IInv, SessionShape, None, RunIds

\* A start while nothing is in flight, outside any bundle.
LEMMA RunCommandKeeps ==
  ASSUME IInv, NEW s \in Servers, NEW d \in WorkDirs \cup {NoDir}, RunCommand(s, d)
  PROVE  IInv'
<1> DEFINE job == NewRun(0, s, d)
           r   == accepted + 1
<1>1. /\ Open /\ accepted \in Nat /\ MaxRuns \in Nat /\ r \in RunIds
      /\ accepted' = accepted + 1 /\ accepted + 1 <= MaxRuns
      /\ UNCHANGED <<app, remote_cwd, bundle, events, journal>>
  BY RunsAssumption DEF RunCommand, IInv, TypeOK, RunIds
<1>2. job \in Run /\ job.phase = "accepted" /\ job.server = s /\ job.step = 0
  BY NewRunType
<1>3. /\ TypeOK /\ RunShape /\ QueueShape /\ SessionShape /\ BusyIffWork
      /\ StepMatchesBundle /\ BundleShape
      /\ run \in [RunIds -> Run] /\ run_queue \in Seq(RunIds)
  BY <1>1 DEF IInv, TypeOK
<1> HIDE DEF job
<1>4. CASE busy /\ run_queue' = Append(run_queue, r)
  <2>1. /\ run' = [run EXCEPT ![r] = job]
        /\ UNCHANGED <<busy, busy_server_id, session, worker_running>>
    BY <1>4 DEF RunCommand, job
  <2>2. /\ run' \in [RunIds -> Run] /\ run'[r] = job
        /\ \A q \in RunIds \ {r} : run'[q] = run[q]
    BY <1>1, <1>2, <1>3, <2>1
  <2>3. /\ run_queue' \in Seq(RunIds) /\ Len(run_queue') = Len(run_queue) + 1
        /\ \A i \in 1 .. Len(run_queue) : run_queue'[i] = run_queue[i]
        /\ run_queue'[Len(run_queue) + 1] = r
        /\ Len(run_queue) \in Nat
    BY <1>1, <1>3, <1>4
  <2>4. \A i \in Nat : 1 <= i /\ i <= Len(run_queue) => run_queue'[i] = run_queue[i]
    BY <2>3
  <2>5. \A i \in Nat : i > Len(run_queue) /\ i <= Len(run_queue) + 1
                         => run_queue'[i] = accepted + (i - Len(run_queue))
    <3> SUFFICES ASSUME NEW i \in Nat, i > Len(run_queue), i <= Len(run_queue) + 1
                 PROVE  run_queue'[i] = accepted + (i - Len(run_queue))
      OBVIOUS
    <3>1. i = Len(run_queue) + 1
      BY <2>3
    <3> QED
      BY <1>1, <2>3, <3>1
  <2>6. \A q \in RunIds : q <= accepted \/ q > accepted + 1 => run'[q] = run[q]
    BY <1>1, <2>2
  <2>7. \A q \in RunIds : q > accepted /\ q <= accepted + 1 =>
           run'[q].phase = "accepted" /\ run'[q].server \in Servers /\ run'[q].step = 0
    <3> SUFFICES ASSUME NEW q \in RunIds, q > accepted, q <= accepted + 1
                 PROVE  run'[q].phase = "accepted" /\ run'[q].server \in Servers /\ run'[q].step = 0
      OBVIOUS
    <3>1. q = r
      BY <1>1 DEF RunIds
    <3> QED
      BY <1>2, <2>2, <3>1
  <2> QED
    BY <1>1, <1>4, <2>1, <2>2, <2>3, <2>4, <2>5, <2>6, <2>7, QueueUpKeeps
<1>5. CASE ~busy /\ busy' = TRUE /\ StartSshRun(r, job, remote_cwd) /\ run_queue' = run_queue
  <2>1. session = None /\ ~bundle.active /\ ~bundle.waiting /\ ~bundle.cancel
    BY <1>1, <1>3, <1>5 DEF BusyIffWork, StepMatchesBundle
  <2>2. (\A q \in RunIds : ~Working(q)) /\ events' = <<>>
    BY <1>1, <2>1, NoRunInFlight
  <2>3. remote_cwd \in [Servers -> Dirs] /\ accepted' \in accepted .. MaxRuns /\ r <= accepted'
    BY <1>1, <1>3 DEF TypeOK
  <2>4. /\ run' \in [RunIds -> Run] /\ session' = r /\ busy_server_id' \in Servers
        /\ run'[r].step = 0
        /\ \A q \in RunIds \ {r} : run'[q] = run[q]
        /\ RunShape' /\ SessionShape'
    BY <1>1, <1>2, <1>3, <1>5, <2>2, <2>3, StartKeeps
  <2>5. run[r].phase = "unused"
    BY <1>1, <1>3 DEF RunShape
  <2> HIDE DEF r
  <2>6. TypeOK'
    <3>1. worker_running' = TRUE
      BY <1>5 DEF StartSshRun
    <3>2. accepted' \in 0 .. MaxRuns /\ events' \in Seq(RunIds) /\ run_queue' \in Seq(RunIds)
      BY <1>1, <1>3, <1>5, <2>2
    <3> QED
      BY <1>1, <1>3, <1>5, <2>4, <3>1, <3>2 DEF TypeOK
  <2>7. QueueShape'
    BY <1>3, <1>5, <2>4, <2>5 DEF QueueShape
  <2>8. BusyIffWork' /\ StepMatchesBundle' /\ BundleShape'
    BY <1>1, <1>5, <2>1, <2>4 DEF BusyIffWork, StepMatchesBundle, BundleShape, None, RunIds
  <2> QED
    BY <2>4, <2>6, <2>7, <2>8 DEF IInv
<1> QED
  BY <1>4, <1>5 DEF RunCommand, job

\* A bundle starts its first step, or joins the queue command by command.
LEMMA StartBundleKeeps ==
  ASSUME IInv, NEW s \in Servers, NEW n \in 1 .. MaxSteps, NEW pause \in BOOLEAN,
         StartBundle(s, n, pause)
  PROVE  IInv'
<1>1. /\ Open /\ accepted \in Nat /\ MaxRuns \in Nat /\ MaxSteps \in Nat /\ n \in Nat /\ n >= 1
      /\ accepted' = accepted + n /\ accepted + n <= MaxRuns
      /\ UNCHANGED <<app, remote_cwd, events>>
  BY RunsAssumption DEF StartBundle, IInv, TypeOK
<1>2. /\ TypeOK /\ RunShape /\ QueueShape /\ SessionShape /\ BusyIffWork
      /\ StepMatchesBundle /\ BundleShape
      /\ run \in [RunIds -> Run] /\ run_queue \in Seq(RunIds)
  BY <1>1 DEF IInv, TypeOK
<1>3. CASE busy /\ run_queue' = run_queue \o [i \in 1 .. n |-> accepted + i]
  <2>1. PICK dir \in [1 .. n -> WorkDirs \cup {NoDir}] :
          run' = [r \in RunIds |-> IF r \in accepted + 1 .. accepted + n
                                    THEN NewRun(0, s, dir[r - accepted]) ELSE run[r]]
    BY <1>3 DEF StartBundle
  <2>2. UNCHANGED <<busy, busy_server_id, session, bundle, worker_running, journal>>
    BY <1>3 DEF StartBundle
  <2>3. \A q \in RunIds : q <= accepted \/ q > accepted + n => run'[q] = run[q]
    BY <1>1, <2>1 DEF RunIds
  <2>4. \A q \in RunIds : q > accepted /\ q <= accepted + n =>
          /\ run'[q] \in Run
          /\ run'[q].phase = "accepted" /\ run'[q].server \in Servers /\ run'[q].step = 0
    <3> SUFFICES ASSUME NEW q \in RunIds, q > accepted, q <= accepted + n
                 PROVE  /\ run'[q] \in Run
                        /\ run'[q].phase = "accepted" /\ run'[q].server \in Servers
                        /\ run'[q].step = 0
      OBVIOUS
    <3>1. q \in accepted + 1 .. accepted + n /\ q - accepted \in 1 .. n
      BY <1>1 DEF RunIds
    <3>2. run'[q] = NewRun(0, s, dir[q - accepted]) /\ dir[q - accepted] \in WorkDirs \cup {NoDir}
      BY <2>1, <3>1
    <3> QED
      BY <3>2, NewRunType
  <2>5. run' \in [RunIds -> Run]
    <3>1. \A q \in RunIds : run'[q] \in Run
      BY <1>1, <1>2, <2>3, <2>4 DEF RunIds
    <3>2. run' = [r \in RunIds |-> run'[r]]
      BY <2>1
    <3> QED
      BY <3>1, <3>2
  <2> DEFINE fresh == [i \in 1 .. n |-> accepted + i]
  <2>6. fresh \in Seq(RunIds) /\ Len(fresh) = n /\ \A i \in 1 .. n : fresh[i] = accepted + i
    BY <1>1 DEF RunIds
  <2> HIDE DEF fresh
  <2>7. run_queue' = run_queue \o fresh
    BY <1>3 DEF fresh
  <2>8. /\ run_queue' \in Seq(RunIds) /\ Len(run_queue') = Len(run_queue) + n
        /\ Len(run_queue) \in Nat
        /\ \A i \in 1 .. Len(run_queue) : run_queue'[i] = run_queue[i]
        /\ \A i \in 1 .. n : run_queue'[Len(run_queue) + i] = fresh[i]
    <3>1. /\ run_queue \o fresh \in Seq(RunIds)
          /\ Len(run_queue \o fresh) = Len(run_queue) + Len(fresh)
          /\ \A i \in 1 .. Len(run_queue) + Len(fresh) : (run_queue \o fresh)[i] =
               IF i <= Len(run_queue) THEN run_queue[i] ELSE fresh[i - Len(run_queue)]
      BY <1>2, <2>6, ConcatProperties
    <3>2. Len(run_queue) \in Nat
      BY <1>2
    <3>3. \A i \in 1 .. Len(run_queue) : run_queue'[i] = run_queue[i]
      BY <1>1, <2>6, <2>7, <3>1, <3>2
    <3>4. \A i \in 1 .. n : run_queue'[Len(run_queue) + i] = fresh[i]
      BY <1>1, <2>6, <2>7, <3>1, <3>2
    <3> QED
      BY <2>6, <2>7, <3>1, <3>2, <3>3, <3>4
  <2>9. \A i \in Nat : 1 <= i /\ i <= Len(run_queue) => run_queue'[i] = run_queue[i]
    BY <2>8
  <2>10. \A i \in Nat : i > Len(run_queue) /\ i <= Len(run_queue) + n
                          => run_queue'[i] = accepted + (i - Len(run_queue))
    <3> SUFFICES ASSUME NEW i \in Nat, i > Len(run_queue), i <= Len(run_queue) + n
                 PROVE  run_queue'[i] = accepted + (i - Len(run_queue))
      OBVIOUS
    <3>1. i - Len(run_queue) \in 1 .. n /\ Len(run_queue) + (i - Len(run_queue)) = i
      BY <1>1, <2>8
    <3> QED
      BY <2>6, <2>8, <3>1
  <2> QED
    BY <1>1, <1>3, <2>2, <2>3, <2>4, <2>5, <2>8, <2>9, <2>10, QueueUpKeeps
<1>4. CASE ~busy /\ busy' = TRUE
           /\ RunStep([active |-> TRUE, cancel |-> FALSE, waiting |-> FALSE, index |-> 0,
                       size |-> n, pause |-> pause, base |-> accepted, server |-> s],
                      remote_cwd)
  <2> DEFINE b == [active |-> TRUE, cancel |-> FALSE, waiting |-> FALSE, index |-> 0,
                   size |-> n, pause |-> pause, base |-> accepted, server |-> s]
  <2>1. /\ b \in Bundle /\ b.active /\ ~b.cancel /\ ~b.waiting /\ b.server \in Servers
        /\ b.base = accepted /\ b.size = n /\ b.index = 0
    BY <1>1 DEF Bundle
  <2>2. RunStep(b, remote_cwd)
    BY <1>4
  <2> HIDE DEF b
  <2>3. session = None
    BY <1>1, <1>2, <1>4 DEF BusyIffWork
  <2>4. (\A q \in RunIds : ~Working(q)) /\ events' = <<>>
    BY <1>1, <2>3, NoRunInFlight
  <2>5. \A q \in RunIds : q > b.base + b.index /\ q <= b.base + b.size => run[q].phase = "unused"
    BY <1>1, <1>2, <2>1 DEF RunShape, RunIds
  <2>6. remote_cwd \in [Servers -> Dirs] /\ remote_cwd' \in [Servers -> Dirs]
        /\ accepted' \in accepted .. MaxRuns /\ b.base + b.size <= accepted'
    BY <1>1, <1>2, <2>1 DEF TypeOK
  <2> QED
    BY <1>1, <1>4, <2>1, <2>2, <2>4, <2>5, <2>6, RunStepKeeps
<1> QED
  BY <1>3, <1>4 DEF StartBundle

\* Stop empties the queue and asks the run in flight to end, or ends a bundle
\* that pauses.
LEMMA StopKeeps ==
  ASSUME IInv, Stop
  PROVE  IInv'
<1>1. /\ Open /\ busy /\ run_queue' = <<>>
      /\ UNCHANGED <<app, remote_cwd, events, accepted>>
  BY DEF Stop
<1>2. /\ TypeOK /\ RunShape /\ QueueShape /\ SessionShape /\ BusyIffWork
      /\ StepMatchesBundle /\ BundleShape
      /\ run \in [RunIds -> Run] /\ bundle \in Bundle /\ session \in RunIds \cup {None}
  BY <1>1 DEF IInv, TypeOK
<1>3. run_queue' \in Seq(RunIds) /\ QueueShape'
  BY <1>1 DEF QueueShape
<1>4. CASE session # None /\ UNCHANGED <<busy, busy_server_id, session, worker_running, journal>>
  <2> DEFINE job == [run[session] EXCEPT !.cancel = TRUE]
             b   == IF bundle.active
                    THEN [bundle EXCEPT !.cancel = TRUE, !.waiting = FALSE] ELSE bundle
  <2>1. session \in RunIds /\ run[session] \in Run
    BY <1>2, <1>4
  <2>2. run' = [run EXCEPT ![session] = job] /\ bundle' = b
    BY <1>1, <1>2, <1>4, <2>1 DEF Stop
  <2>3. /\ job \in Run /\ job.phase = run[session].phase /\ job.server = run[session].server
        /\ job.step = run[session].step /\ job.dir = run[session].dir
    BY <2>1 DEF Run
  <2>4. /\ b \in Bundle /\ b.active = bundle.active /\ b.waiting = FALSE
        /\ b.cancel = bundle.active /\ b.base = bundle.base /\ b.index = bundle.index
        /\ b.size = bundle.size /\ b.server = bundle.server
    <3>1. bundle.waiting = FALSE /\ (bundle.cancel => bundle.active)
      BY <1>1, <1>2, <1>4 DEF StepMatchesBundle, Bundle
    <3>2. CASE bundle.active
      BY <1>2, <3>1, <3>2 DEF Bundle
    <3>3. CASE ~bundle.active
      BY <1>2, <3>1, <3>3 DEF Bundle
    <3> QED
      BY <3>2, <3>3
  <2> HIDE DEF job, b
  <2>5. /\ run' \in [RunIds -> Run] /\ run'[session] = job
        /\ \A q \in RunIds \ {session} : run'[q] = run[q]
    BY <1>2, <2>1, <2>2, <2>3
  <2>6. \A q \in RunIds : /\ run'[q].phase = run[q].phase /\ run'[q].server = run[q].server
                          /\ run'[q].step = run[q].step /\ run'[q].dir = run[q].dir
    BY <2>3, <2>5
  <2>7. TypeOK'
    BY <1>1, <1>2, <1>3, <1>4, <2>2, <2>4, <2>5 DEF TypeOK
  <2>8. RunShape' /\ SessionShape'
    BY <1>1, <1>2, <1>4, <2>1, <2>6 DEF RunShape, SessionShape, Started, Working
  <2>9. BusyIffWork'
    BY <1>1, <1>2, <1>4 DEF BusyIffWork, Open
  <2>10. StepMatchesBundle'
    BY <1>1, <1>2, <1>4, <2>1, <2>2, <2>4, <2>6 DEF StepMatchesBundle, Open
  <2>11. BundleShape'
    BY <1>1, <1>2, <1>4, <2>2, <2>4, <2>6 DEF BundleShape
  <2> QED
    BY <1>3, <2>7, <2>8, <2>9, <2>10, <2>11 DEF IInv
<1>5. CASE /\ session = None /\ SetIdle /\ bundle' = Retired(bundle)
           /\ journal' = Append(journal, BundleEntry(bundle, "cancelled"))
  <2>1. /\ bundle' \in Bundle /\ ~bundle'.active /\ ~bundle'.waiting /\ ~bundle'.cancel
    BY <1>2, <1>5, RetiredType
  <2>2. journal' \in Seq(Entry)
    <3>1. BundleEntry(bundle, "cancelled") \in Entry
      BY <1>2, BundleEntryType DEF Statuses
    <3> QED
      BY <1>2, <1>5, <3>1 DEF TypeOK
  <2>3. (\A q \in RunIds : ~Working(q)) /\ events' = <<>>
    BY <1>1, <1>5, NoRunInFlight
  <2>4. remote_cwd' \in [Servers -> Dirs]
    BY <1>1, <1>2 DEF TypeOK
  <2> QED
    BY <1>1, <1>5, <2>1, <2>2, <2>3, <2>4, IdleKeeps
<1> QED
  BY <1>4, <1>5 DEF Stop

\* The pause of a bundle is over: its next step starts.
LEMMA BundleTickKeeps ==
  ASSUME IInv, BundleTick
  PROVE  IInv'
<1> DEFINE b == [bundle EXCEPT !.waiting = FALSE]
<1>1. /\ Open /\ busy /\ bundle.active /\ bundle.waiting /\ RunStep(b, remote_cwd)
      /\ UNCHANGED <<app, busy, remote_cwd, events, accepted>>
  BY DEF BundleTick
<1>2. /\ TypeOK /\ RunShape /\ SessionShape /\ StepMatchesBundle /\ BundleShape
      /\ bundle \in Bundle
  BY <1>1 DEF IInv, TypeOK
<1>3. /\ b \in Bundle /\ b.active /\ ~b.waiting /\ ~b.cancel
      /\ b.base = bundle.base /\ b.index = bundle.index
      /\ b.size = bundle.size /\ b.server = bundle.server
  BY <1>1, <1>2 DEF Bundle, StepMatchesBundle
<1> HIDE DEF b
<1>4. session = None
  BY <1>1, <1>2 DEF StepMatchesBundle
<1>5. (\A q \in RunIds : ~Working(q)) /\ events' = <<>>
  BY <1>1, <1>4, NoRunInFlight
<1>6. /\ remote_cwd \in [Servers -> Dirs] /\ remote_cwd' \in [Servers -> Dirs]
      /\ accepted' \in accepted .. MaxRuns /\ b.base + b.size <= accepted'
      /\ b.server \in Servers
  BY <1>1, <1>2, <1>3, RunsAssumption DEF TypeOK, BundleShape
<1>7. \A q \in RunIds : q > b.base + b.index /\ q <= b.base + b.size => run[q].phase = "unused"
  BY <1>1, <1>2, <1>3, <1>4 DEF BundleShape, None, RunIds
<1>8. busy' = TRUE
  BY <1>1, <1>2 DEF TypeOK
<1> QED
  BY <1>1, <1>3, <1>5, <1>6, <1>7, <1>8, RunStepKeeps

\* A bundle schedules its pause: nothing is in flight until it is over.
LEMMA PauseKeeps ==
  ASSUME IInv, Open, app' = app, accepted' = accepted, events' = <<>>,
         \A q \in RunIds : ~Working(q), busy,
         remote_cwd' \in [Servers -> Dirs],
         NEW b \in Bundle, b.active, ~b.cancel, b.server \in Servers,
         b.index < b.size, b.base + b.size <= accepted,
         \A q \in RunIds : q > b.base + b.index /\ q <= b.base + b.size
                             => run[q].phase = "unused",
         bundle' = [b EXCEPT !.waiting = TRUE], session' = None,
         UNCHANGED <<busy, busy_server_id, run_queue, worker_running, run, journal>>
  PROVE  IInv'
<1>1. /\ bundle' \in Bundle /\ bundle'.active /\ ~bundle'.cancel /\ bundle'.waiting
      /\ bundle'.index = b.index /\ bundle'.size = b.size /\ bundle'.base = b.base
      /\ bundle'.server = b.server
  BY DEF Bundle
<1>2. TypeOK /\ RunShape /\ QueueShape
  BY DEF IInv
<1>3. TypeOK'
  <2>1. events' \in Seq(RunIds) /\ session' \in RunIds \cup {None}
    OBVIOUS
  <2> QED
    BY <1>1, <1>2, <2>1 DEF TypeOK
<1>4. RunShape' /\ QueueShape'
  BY <1>2 DEF RunShape, QueueShape, Started
<1>5. SessionShape'
  BY DEF SessionShape, Working
<1>6. BusyIffWork' /\ StepMatchesBundle' /\ BundleShape'
  BY <1>1 DEF BusyIffWork, StepMatchesBundle, BundleShape
<1> QED
  BY <1>3, <1>4, <1>5, <1>6 DEF IInv

\* The closure of a run that has ended: its bundle goes on, pauses or ends, or
\* the queue is pumped.
LEMMA CompletionKeeps ==
  ASSUME IInv, Completion
  PROVE  IInv'
<1> DEFINE r    == Head(events)
           job  == run[r]
           cwds == [remote_cwd EXCEPT ![job.server] = job.dir]
           next == [bundle EXCEPT !.index = @ + 1]
<1>1. /\ Open /\ events # <<>> /\ events' = Tail(events) /\ remote_cwd' = cwds
      /\ UNCHANGED <<app, accepted>>
  BY DEF Completion
<1>2. /\ TypeOK /\ RunShape /\ QueueShape /\ SessionShape /\ BusyIffWork
      /\ StepMatchesBundle /\ BundleShape
      /\ run \in [RunIds -> Run] /\ bundle \in Bundle /\ session \in RunIds \cup {None}
      /\ accepted \in Nat
  BY <1>1 DEF IInv, TypeOK
<1>3. /\ session # None /\ session \in RunIds /\ events = <<session>>
      /\ run[session].phase \in {"posted", "gone"}
  BY <1>1, <1>2 DEF SessionShape
<1>4. r = session /\ events' = <<>>
  BY <1>1, <1>3
<1>5. /\ \A q \in RunIds : ~Working(q)
      /\ busy /\ ~bundle.waiting
  BY <1>1, <1>2, <1>3 DEF SessionShape, Working, BusyIffWork, StepMatchesBundle
<1>6. job \in Run /\ job.server \in Servers /\ job.dir \in Dirs /\ job.status \in Statuses
  BY <1>2, <1>3, <1>4 DEF RunShape, Started, Run
<1>7. cwds \in [Servers -> Dirs]
  BY <1>2, <1>6 DEF TypeOK
<1>8. remote_cwd' \in [Servers -> Dirs]
  BY <1>1, <1>7
<1> HIDE DEF cwds
<1>9. CASE ~bundle.active /\ PumpRunQueue(cwds) /\ UNCHANGED <<bundle, journal>>
  <2>1. /\ bundle' \in Bundle /\ ~bundle'.active /\ ~bundle'.waiting /\ ~bundle'.cancel
        /\ journal' \in Seq(Entry)
    BY <1>1, <1>2, <1>5, <1>9 DEF StepMatchesBundle, TypeOK
  <2> QED
    BY <1>1, <1>4, <1>5, <1>7, <1>8, <1>9, <2>1, PumpKeeps
<1>10. CASE bundle.active /\ OnStepDone(job.status, cwds)
  <2>1. /\ next \in Bundle /\ next.active /\ next.cancel = bundle.cancel /\ ~next.waiting
        /\ next.base = bundle.base /\ next.index = bundle.index + 1
        /\ next.size = bundle.size /\ next.server = bundle.server
        /\ next.pause = bundle.pause
    BY <1>2, <1>5, <1>10 DEF Bundle
  <2>2. /\ bundle.base \in Nat /\ bundle.index \in Nat /\ bundle.size \in Nat
        /\ bundle.server \in Servers /\ bundle.base + bundle.size <= accepted
        /\ session = bundle.base + bundle.index + 1
    BY <1>1, <1>2, <1>3, <1>10 DEF Bundle, BundleShape, StepMatchesBundle
  <2>3. \A q \in RunIds : q > next.base + next.index /\ q <= next.base + next.size
                            => run[q].phase = "unused"
    <3> SUFFICES ASSUME NEW q \in RunIds, q > next.base + next.index, q <= next.base + next.size
                 PROVE  run[q].phase = "unused"
      OBVIOUS
    <3>1. q > bundle.base + bundle.index /\ q <= bundle.base + bundle.size /\ q # session
      BY <2>1, <2>2 DEF RunIds
    <3> QED
      BY <1>2, <1>10, <3>1 DEF BundleShape
  <2> HIDE DEF next
  <2>4. CASE \E b \in {bundle, next}, status \in Statuses : FinishBundle(b, status, cwds)
    BY <1>1, <1>2, <1>4, <1>5, <1>7, <1>8, <2>1, <2>4, FinishKeeps
  <2>5. CASE ~bundle.cancel /\ next.index < next.size /\ NextStep(next, cwds)
    <3>1. CASE RunStep(next, cwds) /\ busy' = busy
      <4>1. busy' = TRUE /\ accepted' \in accepted .. MaxRuns
              /\ next.base + next.size <= accepted' /\ next.server \in Servers /\ ~next.cancel
        BY <1>1, <1>2, <1>5, <2>1, <2>2, <2>5, <3>1, RunsAssumption DEF TypeOK
      <4> QED
        BY <1>1, <1>4, <1>5, <1>7, <1>8, <2>1, <2>3, <3>1, <4>1, RunStepKeeps
    <3>2. CASE /\ bundle' = [next EXCEPT !.waiting = TRUE] /\ session' = None
               /\ UNCHANGED <<busy, busy_server_id, run_queue, worker_running, run, journal>>
      <4>1. next.base + next.size <= accepted /\ next.server \in Servers /\ ~next.cancel
        BY <2>1, <2>2, <2>5
      <4> QED
        BY <1>1, <1>4, <1>5, <1>8, <2>1, <2>3, <2>5, <3>2, <4>1, PauseKeeps
    <3> QED
      BY <2>5, <3>1, <3>2 DEF NextStep
  <2> QED
    BY <1>6, <1>10, <2>4, <2>5 DEF OnStepDone, next, Statuses
<1> QED
  BY <1>9, <1>10 DEF Completion, cwds

\* The buttons and the ticks that start nothing.
LEMMA WindowKeeps ==
  ASSUME IInv, (\E s \in Servers : ResetCwd(s)) \/ Close \/ CloseWaitEnds
  PROVE  IInv'
<1>1. TypeOK /\ RunShape /\ run \in [RunIds -> Run] /\ bundle \in Bundle
  BY DEF IInv, TypeOK
<1>2. CASE \E s \in Servers : ResetCwd(s)
  <2>1. PICK s \in Servers : ResetCwd(s)
    BY <1>2
  <2>2. remote_cwd' \in [Servers -> Dirs]
    BY <1>1, <2>1, RunsAssumption DEF ResetCwd, TypeOK
  <2>3. TypeOK'
    BY <1>1, <2>1, <2>2 DEF ResetCwd, TypeOK
  <2> QED
    BY <2>1, <2>3 DEF IInv, ResetCwd, RunShape, QueueShape, SessionShape, BusyIffWork,
                      StepMatchesBundle, BundleShape, Open, Started, Working
<1>3. CASE Close
  <2>1. /\ Open /\ app' = "closing" /\ run_queue' = <<>>
        /\ bundle' = [bundle EXCEPT !.cancel = TRUE, !.waiting = FALSE]
        /\ UNCHANGED <<busy, busy_server_id, session, remote_cwd, worker_running,
                       events, accepted, journal>>
    BY <1>3 DEF Close
  <2>2. session \in RunIds \cup {None}
    BY <1>1 DEF TypeOK
  <2>3. run' = run \/ (session \in RunIds /\ run' = [run EXCEPT ![session].cancel = TRUE])
    BY <1>3, <2>2 DEF Close
  <2>4. /\ run' \in [RunIds -> Run]
        /\ \A q \in RunIds : /\ run'[q].phase = run[q].phase /\ run'[q].server = run[q].server
                             /\ run'[q].step = run[q].step /\ run'[q].dir = run[q].dir
    <3>1. CASE run' = run
      BY <1>1, <3>1
    <3>2. CASE session \in RunIds /\ run' = [run EXCEPT ![session].cancel = TRUE]
      <4> DEFINE job == [run[session] EXCEPT !.cancel = TRUE]
      <4>1. /\ job \in Run /\ job.phase = run[session].phase /\ job.server = run[session].server
            /\ job.step = run[session].step /\ job.dir = run[session].dir
        BY <1>1, <3>2 DEF Run
      <4>2. run' = [run EXCEPT ![session] = job]
        BY <1>1, <3>2
      <4> HIDE DEF job
      <4> QED
        BY <1>1, <3>2, <4>1, <4>2
    <3> QED
      BY <2>3, <3>1, <3>2
  <2>5. bundle' \in Bundle /\ run_queue' \in Seq(RunIds)
    <3>1. bundle' \in Bundle
      BY <1>1, <2>1 DEF Bundle
    <3>2. <<>> \in Seq(RunIds)
      OBVIOUS
    <3> QED
      BY <2>1, <3>1, <3>2
  <2>6. TypeOK'
    BY <1>1, <2>1, <2>4, <2>5 DEF TypeOK
  <2>7. RunShape'
    BY <1>1, <2>1, <2>4 DEF RunShape, Started
  <2> QED
    BY <2>1, <2>6, <2>7 DEF IInv, Open
<1>4. CASE CloseWaitEnds
  <2>1. /\ app' = "exited"
        /\ UNCHANGED <<busy, busy_server_id, run_queue, session, remote_cwd, bundle,
                       worker_running, events, run, accepted, journal>>
    BY <1>4 DEF CloseWaitEnds, guiVars
  <2>2. TypeOK'
    BY <1>1, <2>1 DEF TypeOK
  <2> QED
    BY <1>1, <2>1, <2>2 DEF IInv, Open, RunShape, Started
<1> QED
  BY <1>2, <1>3, <1>4

-----------------------------------------------------------------------------
\* A fresh window satisfies the invariant.
LEMMA InitHolds ==
  ASSUME Init
  PROVE  IInv
<1> USE RunsAssumption DEF Init
<1>1. TypeOK
  <2>1. run_queue \in Seq(RunIds) /\ events \in Seq(RunIds) /\ journal \in Seq(Entry)
    OBVIOUS
  <2>2. bundle \in Bundle
    BY DEF Bundle
  <2>3. run \in [RunIds -> Run]
    BY DEF Run, Phases, Statuses
  <2>4. /\ session \in RunIds \cup {None} /\ accepted \in 0 .. MaxRuns
        /\ remote_cwd \in [Servers -> Dirs] /\ busy_server_id \in Servers \cup {NoServer}
    OBVIOUS
  <2> QED
    BY <2>1, <2>2, <2>3, <2>4 DEF TypeOK
<1>2. RunShape /\ QueueShape /\ SessionShape
  BY DEF RunShape, QueueShape, SessionShape, Started, Working
<1>3. BusyIffWork /\ StepMatchesBundle /\ BundleShape
  BY DEF BusyIffWork, StepMatchesBundle, BundleShape
<1> QED
  BY <1>1, <1>2, <1>3 DEF IInv

\* The invariant refers to no other variable: a stuttering step keeps it.
LEMMA StutterKeeps ==
  ASSUME IInv, UNCHANGED vars
  PROVE  IInv'
<1>1. TypeOK'
  BY DEF IInv, TypeOK, vars, guiVars
<1> QED
  BY <1>1 DEF IInv, vars, guiVars, RunShape, QueueShape, SessionShape, BusyIffWork,
              StepMatchesBundle, BundleShape, Open, Started, Working

\* The inductive invariant holds in every state of every behaviour of the
\* window and its workers.
THEOREM Invariance == Spec => []IInv
<1>1. Init => IInv
  BY InitHolds
<1>2. IInv /\ [Next]_vars => IInv'
  <2> SUFFICES ASSUME IInv, [Next]_vars
               PROVE  IInv'
    OBVIOUS
  <2>1. CASE \E s \in Servers, d \in WorkDirs \cup {NoDir} : RunCommand(s, d)
    BY <2>1, RunCommandKeeps
  <2>2. CASE \E s \in Servers, n \in 1 .. MaxSteps, pause \in BOOLEAN : StartBundle(s, n, pause)
    BY <2>2, StartBundleKeeps
  <2>3. CASE Stop
    BY <2>3, StopKeeps
  <2>4. CASE BundleTick
    BY <2>4, BundleTickKeeps
  <2>5. CASE Completion
    BY <2>5, CompletionKeeps
  <2>6. CASE (\E s \in Servers : ResetCwd(s)) \/ Close \/ CloseWaitEnds
    BY <2>6, WindowKeeps
  <2>7. CASE \E r \in RunIds : WorkerStep(r) \/ RemoteEnds(r)
    BY <2>7, WorkerKeeps
  <2>8. CASE UNCHANGED vars
    BY <2>8, StutterKeeps
  <2> QED
    BY <2>1, <2>2, <2>3, <2>4, <2>5, <2>6, <2>7, <2>8 DEF Next, User, Exited
<1> QED
  BY <1>1, <1>2, PTL DEF Spec

\* Every variable of the window, of the bundle and of the runs keeps its type,
\* whatever the number of servers, directories, requests and steps.
THEOREM TypeCorrect == Spec => []TypeOK
<1>1. IInv => TypeOK
  BY DEF IInv
<1> QED
  BY <1>1, Invariance, PTL

\* session_ is the session of the only run between its start and the handling
\* of its completion: runs never overlap, and Stop reaches the one in flight.
THEOREM RunsAreSerial == Spec => []SerialRuns
<1>1. IInv => SerialRuns
  <2> SUFFICES ASSUME IInv, Open, NEW r \in RunIds
               PROVE  (Working(r) \/ Posted(r)) <=> session = r
    BY DEF SerialRuns
  <2>1. SessionShape /\ run \in [RunIds -> Run] /\ r # None /\ session \in RunIds \cup {None}
    BY RunsAssumption DEF IInv, TypeOK, RunIds, None
  <2>2. CASE session = r
    <3>1. Started(r) /\ run[r].phase \in Phases
      BY <2>1, <2>2 DEF SessionShape, Run
    <3>2. Working(r) \/ events = <<r>>
      BY <2>1, <2>2, <3>1 DEF SessionShape, Started, Working, Phases
    <3>3. events = <<r>> => Posted(r)
      BY DEF Posted
    <3> QED
      BY <2>2, <3>2, <3>3
  <2>3. CASE session # r
    <3>1. ~Working(r)
      BY <2>1, <2>3 DEF SessionShape
    <3>2. events = <<>> \/ events = <<session>>
      BY <2>1 DEF SessionShape
    <3>3. ~Posted(r)
      BY <2>3, <3>2 DEF Posted
    <3> QED
      BY <2>3, <3>1, <3>3
  <2> QED
    BY <2>2, <2>3
<1> QED
  BY <1>1, Invariance, PTL

\* The window is busy exactly while a run or the pause of a bundle will end it.
THEOREM BusyIsCorrect == Spec => []BusyIffWork
<1>1. IInv => BusyIffWork
  BY DEF IInv, BusyIffWork
<1> QED
  BY <1>1, Invariance, PTL

\* The run in flight is the current step of the active bundle, or there is none:
\* the early returns of on_done, run_step and pump_run_queue are dead code.
THEOREM StepsMatch == Spec => []StepMatchesBundle
<1>1. IInv => StepMatchesBundle
  BY DEF IInv, StepMatchesBundle
<1> QED
  BY <1>1, Invariance, PTL

\* Once Stop has reached a bundle, no step of the window starts another run
\* while it is active: the run in flight is its last.
THEOREM StopIsFinal == Spec => StopEndsBundle
<1> DEFINE Stays == session' \in {session, None} /\ bundle'.index = bundle.index
<1>1. ASSUME IInv, [Next]_vars, Open, bundle.active, bundle.cancel
      PROVE  Stays
  <2>1. /\ busy /\ bundle \in Bundle /\ ~bundle.waiting
    BY <1>1 DEF IInv, TypeOK, StepMatchesBundle
  <2>2. Retired(bundle).index = bundle.index
    BY <2>1 DEF Bundle, Retired
  <2>3. CASE User
    <3>1. CASE \E s \in Servers, d \in WorkDirs \cup {NoDir} : RunCommand(s, d)
      BY <2>1, <3>1 DEF RunCommand
    <3>2. CASE \E s \in Servers, n \in 1 .. MaxSteps, pause \in BOOLEAN : StartBundle(s, n, pause)
      BY <2>1, <3>2 DEF StartBundle
    <3>3. CASE \E s \in Servers : ResetCwd(s)
      BY <3>3 DEF ResetCwd
    <3>4. CASE Stop
      <4>1. session' \in {session, None}
        BY <3>4 DEF Stop, SetIdle
      <4>2. \/ bundle' = [bundle EXCEPT !.cancel = TRUE, !.waiting = FALSE]
            \/ bundle' = bundle
            \/ bundle' = Retired(bundle)
        BY <3>4 DEF Stop
      <4>3. bundle'.index = bundle.index
        BY <2>1, <2>2, <4>2 DEF Bundle
      <4> QED
        BY <4>1, <4>3
    <3>5. CASE Close
      <4>1. session' = session /\ bundle' = [bundle EXCEPT !.cancel = TRUE, !.waiting = FALSE]
        BY <3>5 DEF Close
      <4> QED
        BY <2>1, <4>1 DEF Bundle
    <3> QED
      BY <2>3, <3>1, <3>2, <3>3, <3>4, <3>5 DEF User
  <2>4. CASE BundleTick
    BY <2>1, <2>4 DEF BundleTick
  <2>5. CASE Completion
    <3>1. PICK status, cwds : OnStepDone(status, cwds)
      BY <1>1, <2>5 DEF Completion
    <3>2. FinishBundle(bundle, "cancelled", cwds)
      BY <1>1, <3>1 DEF OnStepDone
    <3>3. SetIdle /\ bundle' = Retired(bundle)
      BY <3>2 DEF FinishBundle
    <3> QED
      BY <2>2, <3>3 DEF SetIdle
  <2>6. CASE CloseWaitEnds \/ (\E r \in RunIds : WorkerStep(r) \/ RemoteEnds(r))
    BY <2>6 DEF CloseWaitEnds, WorkerStep, RemoteEnds, BeginRun, Connect, ConnectFails,
                LoopCancelled, AppendJournal, PostCompletion, ThreadExit, WorkerSets, guiVars
  <2>7. CASE UNCHANGED vars
    BY <2>7 DEF vars, guiVars
  <2> QED
    BY <1>1, <2>3, <2>4, <2>5, <2>6, <2>7 DEF Next, Exited
<1>2. IInv /\ [Next]_vars => [Open /\ bundle.active /\ bundle.cancel => Stays]_vars
  BY <1>1
<1> QED
  BY <1>2, Invariance, PTL DEF Spec, StopEndsBundle

(***************************************************************************)
(* The runs and the lines of the journal                                   *)
(***************************************************************************)

\* The worker of run r has written its line.
Done(r) == run[r].phase \in {"journaled", "posted", "gone"}

OnRecord(r) == \E i \in DOMAIN journal : RunEntryAt(i, r)

\* The runs on record are those whose worker has come that far, and while a worker is at
\* work session_ is its session, even when the window is closing.
RecordInv ==
  /\ \A r \in RunIds : Done(r) <=> OnRecord(r)
  /\ \A r \in RunIds : Working(r) => session = r

\* A step of the executor, or none.
Maps == (Executor!Next \/ UNCHANGED Executor!vars) /\ RecordInv'

\* The journal stays, or gets the line of a bundle.
NoRunRecorded ==
  journal' = journal \/ \E e \in Entry : e.kind = "bundle" /\ journal' = Append(journal, e)

LEMMA ExecutedIsOnRecord ==
  ASSUME NEW r
  PROVE  r \in Executor!Executed <=> OnRecord(r)
  <1> DEFINE Lines == {k \in DOMAIN journal : journal[k].kind = "command"}
             Line(i) == [at |-> i, request |-> journal[i].run]
  <1>1. \A i : Line(i).request = journal[i].run
    OBVIOUS
  <1>2. RecordedRuns = {Line(i) : i \in Lines}
    BY DEF RecordedRuns
  <1>3. r \in Executor!Executed <=> \E line \in RecordedRuns : line.request = r
    BY DEF Executor!Executed
  <1>4. OnRecord(r) <=> \E i \in Lines : journal[i].run = r
    BY DEF OnRecord, RunEntryAt
  <1> HIDE DEF Lines, Line
  <1>5. QED
    BY <1>1, <1>2, <1>3, <1>4

\* What is appended leaves the lines before it.
LEMMA Appended ==
  ASSUME TypeOK, NEW e \in Entry, journal' = Append(journal, e)
  PROVE  /\ DOMAIN journal = 1 .. Len(journal) /\ Len(journal) \in Nat
         /\ DOMAIN journal' = 1 .. Len(journal) + 1
         /\ \A i \in DOMAIN journal : journal'[i] = journal[i]
         /\ journal'[Len(journal) + 1] = e
  BY AppendProperties, LenProperties DEF TypeOK

\* The executor does not see the line of a bundle.
LEMMA BundleLineUnseen ==
  ASSUME TypeOK, NoRunRecorded
  PROVE  RecordedRuns' = RecordedRuns /\ \A r : OnRecord(r)' <=> OnRecord(r)
  <1>1. CASE journal' = journal
    BY <1>1 DEF RecordedRuns, OnRecord, RunEntryAt
  <1>2. ASSUME NEW e \in Entry, e.kind = "bundle", journal' = Append(journal, e)
        PROVE  RecordedRuns' = RecordedRuns /\ \A r : OnRecord(r)' <=> OnRecord(r)
    <2> DEFINE Lines  == {k \in DOMAIN journal : journal[k].kind = "command"}
               Lines2 == {k \in DOMAIN journal' : journal'[k].kind = "command"}
    <2>1. Lines2 = Lines /\ \A i \in Lines : journal'[i] = journal[i]
      BY <1>2, Appended
    <2>2. RecordedRuns = {[at |-> i, request |-> journal[i].run] : i \in Lines}
      BY DEF RecordedRuns
    <2>3. RecordedRuns' = {[at |-> i, request |-> journal'[i].run] : i \in Lines2}
      BY DEF RecordedRuns
    <2>4. \A r : OnRecord(r) <=> \E i \in Lines : journal[i].run = r
      BY DEF OnRecord, RunEntryAt
    <2>5. \A r : OnRecord(r)' <=> \E i \in Lines2 : journal'[i].run = r
      BY DEF OnRecord, RunEntryAt
    <2> HIDE DEF Lines, Lines2
    <2>6. QED
      BY <2>1, <2>2, <2>3, <2>4, <2>5
  <1>3. QED
    BY <1>1, <1>2 DEF NoRunRecorded

\* A line of a run is behind all others.
LEMMA RunLineSeen ==
  ASSUME TypeOK, NEW e \in Entry, e.kind = "command", journal' = Append(journal, e)
  PROVE  /\ RecordedRuns' = RecordedRuns \cup {[at |-> Len(journal) + 1, request |-> e.run]}
         /\ \A line \in RecordedRuns : line.at < Len(journal) + 1
         /\ \A r : OnRecord(r)' <=> OnRecord(r) \/ r = e.run
  <1> DEFINE n == Len(journal) + 1
             Lines  == {k \in DOMAIN journal : journal[k].kind = "command"}
             Lines2 == {k \in DOMAIN journal' : journal'[k].kind = "command"}
  <1>1. /\ Lines2 = Lines \cup {n} /\ \A i \in Lines : journal'[i] = journal[i] /\ i < n
        /\ journal'[n] = e
    BY Appended
  <1>2. RecordedRuns = {[at |-> i, request |-> journal[i].run] : i \in Lines}
    BY DEF RecordedRuns
  <1>3. RecordedRuns' = {[at |-> i, request |-> journal'[i].run] : i \in Lines2}
    BY DEF RecordedRuns
  <1>4. \A r : OnRecord(r) <=> \E i \in Lines : journal[i].run = r
    BY DEF OnRecord, RunEntryAt
  <1>5. \A r : OnRecord(r)' <=> \E i \in Lines2 : journal'[i].run = r
    BY DEF OnRecord, RunEntryAt
  <1> HIDE DEF Lines, Lines2, n
  <1>6. RecordedRuns' = RecordedRuns \cup {[at |-> n, request |-> e.run]}
    BY <1>1, <1>2, <1>3
  <1>7. \A line \in RecordedRuns : line.at < n
    BY <1>1, <1>2
  <1>8. \A r : OnRecord(r)' <=> OnRecord(r) \/ r = e.run
    BY <1>1, <1>4, <1>5
  <1>9. QED
    BY <1>6, <1>7, <1>8 DEF n
-----------------------------------------------------------------------------
(* What the handlers of the window are made of                              *)

\* Before a handler starts a run, pauses or rests: no worker is at work, and the run of
\* session_ is on record. The handler writes no line but that of a bundle.
Between ==
  /\ IInv /\ RecordInv /\ Open /\ app' = app
  /\ \A q \in RunIds : ~Working(q)
  /\ session = None \/ (session \in RunIds /\ Done(session))
  /\ NoRunRecorded

LEMMA BetweenIsFree == Between => Executor!Free
  BY ExecutedIsOnRecord DEF Between, RecordInv, Executor!Free

\* Where neither the phases of the runs nor session_ change, runs and journal still agree.
LEMMA RecordStays ==
  ASSUME TypeOK, RecordInv, NoRunRecorded, session' = session,
         \A q \in RunIds : run'[q].phase = run[q].phase
  PROVE  RecordInv'
  BY BundleLineUnseen DEF RecordInv, Done, Working

\* start_ssh_run: the executor begins the request at the front, or one that never waited.
LEMMA StartMaps ==
  ASSUME Between, NEW r \in RunIds, NEW job \in Run, job.server \in Servers,
         NEW cwds \in [Servers -> Dirs], StartSshRun(r, job, cwds),
         \/ run[r].phase = "unused" /\ run_queue' = run_queue
         \/ run_queue # <<>> /\ r = Head(run_queue) /\ run_queue' = Tail(run_queue)
  PROVE  Maps
  <1>1. /\ TypeOK /\ RecordInv /\ QueueShape /\ Open /\ run \in [RunIds -> Run]
        /\ run_queue \in Seq(RunIds)
    BY DEF Between, IInv, TypeOK
  <1>2. session' = r /\ run'[r].phase = "spawned" /\ \A q \in RunIds \ {r} : run'[q] = run[q]
    BY <1>1, StartedType DEF StartSshRun
  <1>3. run[r].phase \in {"unused", "accepted"}
    BY <1>1, HeadTailProperties DEF QueueShape
  <1>4. ~OnRecord(r)
    BY <1>1, <1>3 DEF RecordInv, Done
  <1>5. RecordedRuns' = RecordedRuns /\ \A q : OnRecord(q)' <=> OnRecord(q)
    BY <1>1, BundleLineUnseen DEF Between
  <1>6. RecordInv'
    BY <1>1, <1>2, <1>4, <1>5 DEF Between, RecordInv, Done, Working
  <1>7. run[r].phase = "unused" => r \notin Executor!Elements(run_queue)
    BY <1>1 DEF QueueShape, Executor!Elements
  <1>8. Executor!Begin(r)
    BY <1>2, <1>4, <1>5, <1>7, BetweenIsFree, ExecutedIsOnRecord
    DEF Executor!Begin, Between, Open
  <1>9. QED
    BY <1>6, <1>8 DEF Maps, Executor!Next

\* set_busy(false), or a bundle that pauses: the executor rests.
LEMMA RestMaps ==
  ASSUME Between, session' = None, run' = run, run_queue' = run_queue
  PROVE  Maps
  <1>1. RecordedRuns' = RecordedRuns /\ \A q : OnRecord(q)' <=> OnRecord(q)
    BY BundleLineUnseen DEF Between, IInv
  <1>2. RecordInv'
    BY <1>1 DEF Between, RecordInv, Done, Working
  <1>3. Executor!Rest
    BY <1>1, BetweenIsFree DEF Executor!Rest, Between, Open
  <1>4. QED
    BY <1>2, <1>3 DEF Maps, Executor!Next

\* pump_run_queue: the executor goes on with the front of the queue, or rests.
LEMMA PumpMaps ==
  ASSUME Between, NEW cwds \in [Servers -> Dirs], PumpRunQueue(cwds)
  PROVE  Maps
  <1>1. CASE run_queue = <<>> /\ SetIdle /\ UNCHANGED run_queue
    BY <1>1, RestMaps DEF SetIdle
  <1>2. CASE /\ run_queue # <<>> /\ run_queue' = Tail(run_queue)
             /\ StartSshRun(Head(run_queue), run[Head(run_queue)], cwds)
    <2> DEFINE r == Head(run_queue)
    <2>1. r \in RunIds /\ run_queue # <<>> /\ run[r].phase = "accepted"
      BY <1>2, HeadTailProperties DEF Between, IInv, TypeOK, QueueShape
    <2>2. run[r] \in Run /\ run[r].server \in Servers
      BY <2>1 DEF Between, IInv, TypeOK, RunShape
    <2>3. QED
      BY <1>2, <2>1, <2>2, StartMaps
  <1>3. QED
    BY <1>1, <1>2 DEF PumpRunQueue

\* A bundle ends: its line is written, and the window goes on or rests.
LEMMA FinishMaps ==
  ASSUME IInv, RecordInv, Open, app' = app, \A q \in RunIds : ~Working(q),
         session = None \/ (session \in RunIds /\ Done(session)),
         NEW cwds \in [Servers -> Dirs], NEW b \in Bundle, NEW status \in Statuses,
         FinishBundle(b, status, cwds)
  PROVE  Maps
  <1>1. Between
    <2>1. BundleEntry(b, status) \in Entry /\ BundleEntry(b, status).kind = "bundle"
      BY BundleEntryType DEF BundleEntry
    <2>2. journal' = Append(journal, BundleEntry(b, status))
      BY DEF FinishBundle
    <2>3. QED
      BY <2>1, <2>2 DEF Between, NoRunRecorded
  <1>2. CASE PumpRunQueue(cwds)
    BY <1>1, <1>2, PumpMaps
  <1>3. CASE SetIdle /\ UNCHANGED run_queue
    BY <1>1, <1>3, RestMaps DEF SetIdle
  <1>4. QED
    BY <1>2, <1>3 DEF FinishBundle

\* run_step: the next step of a bundle never waits.
LEMMA RunStepMaps ==
  ASSUME IInv, RecordInv, Open, app' = app, \A q \in RunIds : ~Working(q),
         session = None \/ (session \in RunIds /\ Done(session)),
         NEW cwds \in [Servers -> Dirs], NEW b \in Bundle, b.server \in Servers,
         b.base + b.index + 1 \in RunIds, run[b.base + b.index + 1].phase = "unused",
         RunStep(b, cwds)
  PROVE  Maps
  <1> DEFINE r == b.base + b.index + 1
  <1>1. PICK d \in WorkDirs \cup {NoDir} : StartSshRun(r, NewRun(b.index + 1, b.server, d), cwds)
    BY DEF RunStep
  <1>2. b.index + 1 \in Nat
    BY DEF Bundle
  <1>3. NewRun(b.index + 1, b.server, d) \in Run /\ NewRun(b.index + 1, b.server, d).server = b.server
    BY <1>2, NewRunType
  <1>4. Between /\ run_queue' = run_queue
    BY DEF RunStep, Between, NoRunRecorded
  <1> HIDE DEF r
  <1>5. QED
    BY <1>1, <1>3, <1>4, StartMaps DEF r
-----------------------------------------------------------------------------
(* The handlers of the window                                               *)

\* Requests join the queue behind a busy window.
LEMMA SubmitMaps ==
  ASSUME IInv, RecordInv, Open, app' = app, journal' = journal, session' = session,
         NEW n \in 1 .. MaxSteps + 1, NEW batch \in [1 .. n -> RunIds],
         \A i, j \in 1 .. n : i # j => batch[i] # batch[j],
         \A i \in 1 .. n : batch[i] > accepted,
         run_queue' = run_queue \o batch,
         \A q \in RunIds : q <= accepted => run'[q] = run[q],
         \A q \in RunIds : q > accepted => run'[q].phase \in {"unused", "accepted"}
  PROVE  Maps
  <1>1. /\ TypeOK /\ accepted \in Nat
        /\ \A q \in RunIds : q > accepted => run[q].phase = "unused"
    BY RunsAssumption DEF IInv, TypeOK, RunShape
  <1>2. RecordedRuns' = RecordedRuns /\ \A q : OnRecord(q)' <=> OnRecord(q)
    BY DEF RecordedRuns, OnRecord, RunEntryAt
  <1>3. RecordInv'
    <2>1. \A q \in RunIds : (Done(q)' <=> Done(q)) /\ (Working(q)' <=> Working(q))
      BY <1>1 DEF Done, Working, RunIds
    <2>2. QED
      BY <1>2, <2>1 DEF RecordInv
  <1>4. \A i \in 1 .. n : batch[i] \in Executor!Fresh
    <2> SUFFICES ASSUME NEW i \in 1 .. n PROVE batch[i] \in Executor!Fresh
      OBVIOUS
    <2>1. batch[i] \in RunIds /\ run[batch[i]].phase = "unused"
      BY <1>1
    <2>2. batch[i] \notin Executor!Elements(run_queue) /\ batch[i] # session
      BY <2>1 DEF IInv, QueueShape, SessionShape, Started, Executor!Elements, None, RunIds
    <2>3. batch[i] \notin Executor!Executed
      BY <2>1, ExecutedIsOnRecord DEF RecordInv, Done
    <2>4. QED
      BY <2>1, <2>2, <2>3 DEF Executor!Fresh
  <1>5. batch \in Executor!Batches
    BY <1>4 DEF Executor!Batches
  <1>6. Executor!Submit
    BY <1>2, <1>5 DEF Executor!Submit, Open
  <1>7. QED
    BY <1>3, <1>6 DEF Maps, Executor!Next

LEMMA RunCommandMaps ==
  ASSUME IInv, RecordInv, NEW s \in Servers, NEW d \in WorkDirs \cup {NoDir}, RunCommand(s, d)
  PROVE  Maps
  <1> DEFINE r == accepted + 1
  <1>1. /\ Open /\ app' = app /\ journal' = journal /\ accepted \in Nat /\ r \in RunIds
        /\ TypeOK /\ run \in [RunIds -> Run] /\ run_queue \in Seq(RunIds)
    <2>1. Open /\ app' = app /\ journal' = journal /\ accepted < MaxRuns
      BY DEF RunCommand
    <2>2. TypeOK
      BY DEF IInv
    <2>3. /\ accepted \in Nat /\ MaxRuns \in Nat
          /\ run \in [RunIds -> Run] /\ run_queue \in Seq(RunIds)
      BY <2>2, RunsAssumption DEF TypeOK
    <2>4. QED
      BY <2>1, <2>2, <2>3 DEF RunIds
  <1>2. run[r].phase = "unused"
    BY <1>1 DEF IInv, RunShape
  <1>3. NewRun(0, s, d) \in Run /\ NewRun(0, s, d).server = s /\ NewRun(0, s, d).phase = "accepted"
    BY NewRunType
  <1> HIDE DEF r
  <1>4. CASE /\ run_queue' = Append(run_queue, r) /\ run' = [run EXCEPT ![r] = NewRun(0, s, d)]
             /\ session' = session
    <2>1. run_queue' = run_queue \o <<r>>
      BY <1>1, <1>4, AppendIsConcat
    <2>2. /\ <<r>> \in [1 .. 1 -> RunIds] /\ 1 \in 1 .. MaxSteps + 1
          /\ \A i, j \in 1 .. 1 : i # j => <<r>>[i] # <<r>>[j]
          /\ \A i \in 1 .. 1 : <<r>>[i] > accepted
      BY <1>1, RunsAssumption DEF r
    <2>3. /\ \A q \in RunIds : q <= accepted => run'[q] = run[q]
          /\ \A q \in RunIds : q > accepted => run'[q].phase \in {"unused", "accepted"}
      <3>1. run'[r].phase = "accepted" /\ \A q \in RunIds \ {r} : run'[q] = run[q]
        BY <1>1, <1>3, <1>4
      <3>2. ~(r <= accepted)
        BY <1>1 DEF r
      <3>3. \A q \in RunIds : q > accepted => run[q].phase = "unused"
        BY <1>1 DEF IInv, RunShape
      <3>4. QED
        BY <3>1, <3>2, <3>3
    <2>4. QED
      BY <1>1, <1>4, <2>1, <2>2, <2>3, SubmitMaps
  <1>5. CASE ~busy /\ StartSshRun(r, NewRun(0, s, d), remote_cwd) /\ UNCHANGED run_queue
    <2>1. session = None /\ remote_cwd \in [Servers -> Dirs]
      BY <1>1, <1>5 DEF IInv, BusyIffWork, TypeOK
    <2>2. Between
      BY <1>1, <2>1, NoRunInFlight DEF Between, NoRunRecorded
    <2>3. QED
      BY <1>1, <1>2, <1>3, <1>5, <2>1, <2>2, StartMaps
  <1>6. QED
    BY <1>4, <1>5 DEF RunCommand, r

LEMMA StartBundleMaps ==
  ASSUME IInv, RecordInv, NEW s \in Servers, NEW n \in 1 .. MaxSteps, NEW pause \in BOOLEAN,
         StartBundle(s, n, pause)
  PROVE  Maps
  <1> DEFINE batch == [i \in 1 .. n |-> accepted + i]
             b == [active |-> TRUE, cancel |-> FALSE, waiting |-> FALSE, index |-> 0,
                   size |-> n, pause |-> pause, base |-> accepted, server |-> s]
  <1>1. /\ Open /\ app' = app /\ accepted \in Nat /\ n \in Nat \ {0} /\ MaxRuns \in Nat
        /\ accepted + n <= MaxRuns /\ MaxSteps \in Nat
        /\ TypeOK /\ run \in [RunIds -> Run]
        /\ \A q \in RunIds : q > accepted => run[q].phase = "unused"
    <2>1. Open /\ app' = app /\ accepted + n <= MaxRuns
      BY DEF StartBundle
    <2>2. TypeOK /\ RunShape
      BY DEF IInv
    <2>3. accepted \in Nat /\ n \in Nat \ {0} /\ MaxRuns \in Nat /\ MaxSteps \in Nat
      BY <2>2, RunsAssumption DEF TypeOK
    <2>4. run \in [RunIds -> Run] /\ \A q \in RunIds : q > accepted => run[q].phase = "unused"
      BY <2>2 DEF TypeOK, RunShape
    <2>5. QED
      BY <2>1, <2>2, <2>3, <2>4
  <1>2. ASSUME busy, run_queue' = run_queue \o batch, UNCHANGED <<session, journal>>,
               NEW dir \in [1 .. n -> WorkDirs \cup {NoDir}],
               run' = [r \in RunIds |-> IF r \in accepted + 1 .. accepted + n
                                          THEN NewRun(0, s, dir[r - accepted]) ELSE run[r]]
        PROVE  Maps
    <2>1. /\ batch \in [1 .. n -> RunIds] /\ n \in 1 .. MaxSteps + 1
          /\ \A i, j \in 1 .. n : i # j => batch[i] # batch[j]
          /\ \A i \in 1 .. n : batch[i] > accepted
      BY <1>1 DEF RunIds
    <2>2. \A q \in RunIds : q <= accepted => run'[q] = run[q]
      BY <1>1, <1>2 DEF RunIds
    <2>3. \A q \in RunIds : q > accepted => run'[q].phase \in {"unused", "accepted"}
      BY <1>1, <1>2 DEF NewRun
    <2> HIDE DEF batch
    <2>4. QED
      BY <1>1, <1>2, <2>1, <2>2, <2>3, SubmitMaps
  <1>3. CASE ~busy /\ RunStep(b, remote_cwd)
    <2>1. session = None /\ remote_cwd \in [Servers -> Dirs] /\ \A q \in RunIds : ~Working(q)
      BY <1>1, <1>3, NoRunInFlight DEF IInv, BusyIffWork, TypeOK
    <2>2. b \in Bundle /\ b.server \in Servers /\ b.base + b.index + 1 = accepted + 1
      BY <1>1 DEF Bundle
    <2>3. accepted + 1 \in RunIds /\ run[accepted + 1].phase = "unused"
      BY <1>1 DEF RunIds
    <2> HIDE DEF b
    <2>4. QED
      BY <1>1, <1>3, <2>1, <2>2, <2>3, RunStepMaps
  <1>4. QED
    BY <1>2, <1>3 DEF StartBundle

\* Stop and closing drop what waits.
LEMMA DropMaps ==
  ASSUME IInv, RecordInv, Open, session' = session, run_queue' = <<>>, journal' = journal,
         \A q \in RunIds : run'[q].phase = run[q].phase
  PROVE  Maps
  <1>1. RecordInv'
    BY RecordStays DEF IInv, NoRunRecorded
  <1>2. RecordedRuns' = RecordedRuns
    BY DEF RecordedRuns
  <1>3. Executor!Drop
    BY <1>2 DEF Executor!Drop
  <1>4. QED
    BY <1>1, <1>3 DEF Maps, Executor!Next

\* Setting a cancel flag changes no phase.
LEMMA CancelKeepsPhases ==
  ASSUME TypeOK, NEW r \in RunIds, run' = [run EXCEPT ![r].cancel = TRUE]
  PROVE  \A q \in RunIds : run'[q].phase = run[q].phase
  BY DEF TypeOK, Run

LEMMA StopMaps == IInv /\ RecordInv /\ Stop => Maps
  <1> SUFFICES ASSUME IInv, RecordInv, Stop PROVE Maps
    OBVIOUS
  <1>1. TypeOK /\ bundle \in Bundle /\ session \in RunIds \cup {None}
    BY DEF IInv, TypeOK
  <1>2. CASE session # None /\ run' = [run EXCEPT ![session].cancel = TRUE]
             /\ UNCHANGED <<session, journal>>
    BY <1>1, <1>2, CancelKeepsPhases, DropMaps DEF Stop
  <1>3. CASE session = None /\ journal' = Append(journal, BundleEntry(bundle, "cancelled")) /\ SetIdle
    <2>1. /\ BundleEntry(bundle, "cancelled") \in Entry
          /\ BundleEntry(bundle, "cancelled").kind = "bundle"
      BY <1>1, BundleEntryType DEF BundleEntry, Statuses
    <2>2. NoRunRecorded /\ run' = run /\ session' = session
      BY <1>3, <2>1 DEF NoRunRecorded, SetIdle
    <2>3. RecordInv' /\ RecordedRuns' = RecordedRuns
      BY <1>1, <2>2, RecordStays, BundleLineUnseen
    <2>4. Executor!Drop
      BY <2>2, <2>3 DEF Stop, Executor!Drop, Open
    <2>5. QED
      BY <2>3, <2>4 DEF Maps, Executor!Next
  <1>4. QED
    BY <1>2, <1>3 DEF Stop

LEMMA BundleTickMaps == IInv /\ RecordInv /\ BundleTick => Maps
  <1> SUFFICES ASSUME IInv, RecordInv, BundleTick PROVE Maps
    OBVIOUS
  <1> DEFINE b == [bundle EXCEPT !.waiting = FALSE]
  <1>1. /\ Open /\ app' = app /\ bundle.active /\ bundle.waiting /\ RunStep(b, remote_cwd)
        /\ bundle \in Bundle /\ remote_cwd \in [Servers -> Dirs]
    BY DEF BundleTick, IInv, TypeOK
  <1>2. session = None /\ bundle.index < bundle.size
    BY <1>1 DEF IInv, StepMatchesBundle
  <1>3. /\ b \in Bundle /\ b.server \in Servers
        /\ b.base + b.index + 1 \in RunIds /\ run[b.base + b.index + 1].phase = "unused"
    <2>1. /\ b \in Bundle /\ b.base = bundle.base /\ b.index = bundle.index
          /\ b.server = bundle.server
      BY <1>1 DEF Bundle
    <2>2. /\ bundle.server \in Servers /\ bundle.base + bundle.size <= accepted
          /\ accepted \in 0 .. MaxRuns /\ MaxRuns \in Nat
          /\ bundle.base \in Nat /\ bundle.index \in Nat /\ bundle.size \in Nat
      BY <1>1, RunsAssumption DEF IInv, TypeOK, BundleShape, Bundle
    <2>3. bundle.base + bundle.index + 1 \in RunIds /\ bundle.base + bundle.index + 1 # session
      BY <1>2, <2>2 DEF RunIds, None
    <2>4. run[bundle.base + bundle.index + 1].phase = "unused"
      BY <1>1, <1>2, <2>2, <2>3 DEF IInv, BundleShape
    <2> HIDE DEF b
    <2>5. QED
      BY <2>1, <2>2, <2>3, <2>4
  <1> HIDE DEF b
  <1>4. QED
    BY <1>1, <1>2, <1>3, NoRunInFlight, RunStepMaps

\* The completion of the run on record: its bundle goes on, pauses or ends, or the
\* queue is pumped.
LEMMA CompletionMaps == IInv /\ RecordInv /\ Completion => Maps
  <1> SUFFICES ASSUME IInv, RecordInv, Completion PROVE Maps
    OBVIOUS
  <1> DEFINE job  == run[Head(events)]
             cwds == [remote_cwd EXCEPT ![job.server] = job.dir]
             next == [bundle EXCEPT !.index = @ + 1]
  <1>1. /\ Open /\ app' = app /\ events # <<>>
        /\ run \in [RunIds -> Run] /\ bundle \in Bundle /\ session \in RunIds \cup {None}
    BY DEF Completion, IInv, TypeOK
  <1>2. /\ session \in RunIds /\ events = <<session>> /\ run[session].phase \in {"posted", "gone"}
    BY <1>1 DEF IInv, SessionShape
  <1>3. Done(session) /\ \A q \in RunIds : ~Working(q)
    BY <1>1, <1>2 DEF IInv, SessionShape, Done, Working
  <1>4. job \in Run /\ job.server \in Servers /\ job.dir \in Dirs /\ job.status \in Statuses
    BY <1>1, <1>2 DEF IInv, RunShape, Started, Run
  <1>5. cwds \in [Servers -> Dirs]
    BY <1>4 DEF IInv, TypeOK
  <1>6. \/ ~bundle.active /\ PumpRunQueue(cwds) /\ UNCHANGED <<bundle, journal>>
        \/ bundle.active /\ OnStepDone(job.status, cwds)
    BY DEF Completion
  <1> HIDE DEF cwds, job
  <1>7. CASE PumpRunQueue(cwds) /\ UNCHANGED <<bundle, journal>>
    <2>1. Between
      BY <1>1, <1>2, <1>3, <1>7 DEF Between, NoRunRecorded
    <2>2. QED
      BY <1>5, <1>7, <2>1, PumpMaps
  <1>8. CASE bundle.active /\ OnStepDone(job.status, cwds)
    <2>1. /\ next \in Bundle /\ next.base = bundle.base /\ next.index = bundle.index + 1
          /\ next.size = bundle.size /\ next.server = bundle.server
      BY <1>1 DEF Bundle
    <2> HIDE DEF next
    <2>2. CASE \E b \in {bundle, next}, status \in Statuses : FinishBundle(b, status, cwds)
      BY <1>1, <1>2, <1>3, <1>5, <2>1, <2>2, FinishMaps
    <2>3. CASE next.index < next.size /\ RunStep(next, cwds)
      <3>1. /\ bundle.server \in Servers /\ bundle.base + bundle.size <= accepted
            /\ accepted \in 0 .. MaxRuns /\ MaxRuns \in Nat
            /\ bundle.base \in Nat /\ bundle.index \in Nat /\ bundle.size \in Nat
            /\ session = bundle.base + bundle.index + 1
        BY <1>1, <1>2, <1>8, RunsAssumption DEF IInv, TypeOK, BundleShape, StepMatchesBundle,
           Bundle, None, RunIds
      <3>2. /\ next.base + next.index + 1 \in RunIds
            /\ run[next.base + next.index + 1].phase = "unused"
        <4>1. /\ bundle.base + bundle.index + 2 \in RunIds
              /\ bundle.base + bundle.index + 2 <= bundle.base + bundle.size
          BY <2>1, <2>3, <3>1 DEF RunIds
        <4>2. run[bundle.base + bundle.index + 2].phase = "unused"
          BY <1>1, <1>8, <3>1, <4>1 DEF IInv, BundleShape
        <4>3. next.base + next.index + 1 = bundle.base + bundle.index + 2
          BY <2>1, <3>1
        <4>4. QED
          BY <4>1, <4>2, <4>3
      <3>3. QED
        BY <1>1, <1>2, <1>3, <1>5, <2>1, <2>3, <3>1, <3>2, RunStepMaps
    <2>4. CASE session' = None /\ UNCHANGED <<run_queue, run, journal>>
      <3>1. Between
        BY <1>1, <1>2, <1>3, <2>4 DEF Between, NoRunRecorded
      <3>2. QED
        BY <2>4, <3>1, RestMaps
    <2>5. QED
      BY <1>4, <1>8, <2>2, <2>3, <2>4 DEF OnStepDone, NextStep, next, Statuses
  <1>9. QED
    BY <1>6, <1>7, <1>8

\* What starts and ends nothing, and closing.
LEMMA WindowMaps ==
  ASSUME IInv, RecordInv, (\E s \in Servers : ResetCwd(s)) \/ Close \/ CloseWaitEnds \/ UNCHANGED vars
  PROVE  Maps
  <1>1. ASSUME UNCHANGED <<run_queue, session, run, journal>>, Open' = Open PROVE Maps
    <2>1. RecordedRuns' = RecordedRuns /\ \A q : OnRecord(q)' <=> OnRecord(q)
      BY <1>1 DEF RecordedRuns, OnRecord, RunEntryAt
    <2>2. RecordInv'
      BY <1>1, <2>1 DEF RecordInv, Done, Working
    <2>3. UNCHANGED Executor!vars
      BY <1>1, <2>1 DEF Executor!vars
    <2>4. QED
      BY <2>2, <2>3 DEF Maps
  <1>2. CASE Close
    <2>1. TypeOK /\ session \in RunIds \cup {None}
      BY DEF IInv, TypeOK
    <2>2. \A q \in RunIds : run'[q].phase = run[q].phase
      BY <1>2, <2>1, CancelKeepsPhases DEF Close
    <2>3. QED
      BY <1>2, <2>2, DropMaps DEF Close
  <1>3. CASE \E s \in Servers : ResetCwd(s)
    BY <1>1, <1>3 DEF ResetCwd, Open
  <1>4. CASE CloseWaitEnds
    BY <1>1, <1>4 DEF CloseWaitEnds, guiVars, Open
  <1>5. CASE UNCHANGED vars
    BY <1>1, <1>5 DEF vars, guiVars, Open
  <1>6. QED
    BY <1>2, <1>3, <1>4, <1>5

-----------------------------------------------------------------------------
(* The workers                                                              *)

\* A step of the worker of r that moves it on before its line or after it.
LEMMA MoveMaps ==
  ASSUME IInv, RecordInv, NEW r \in RunIds, run' \in [RunIds -> Run],
         \A q \in RunIds \ {r} : run'[q] = run[q],
         Done(r)' <=> Done(r), Working(r)' => Working(r),
         UNCHANGED <<app, run_queue, session, journal>>
  PROVE  Maps
  <1>1. RecordedRuns' = RecordedRuns /\ \A q : OnRecord(q)' <=> OnRecord(q)
    BY DEF RecordedRuns, OnRecord, RunEntryAt
  <1>2. \A q \in RunIds : (Done(q)' <=> Done(q)) /\ (Working(q)' => Working(q))
    BY DEF Done, Working
  <1>3. RecordInv'
    BY <1>1, <1>2 DEF RecordInv
  <1>4. UNCHANGED Executor!vars
    BY <1>1 DEF Executor!vars, Open
  <1>5. QED
    BY <1>3, <1>4 DEF Maps

\* The worker of r writes its line: the executor's record grows by r.
LEMMA AppendJournalMaps ==
  ASSUME IInv, RecordInv, NEW r \in RunIds, AppendJournal(r)
  PROVE  Maps
  <1> DEFINE e == [kind |-> "command", run |-> r, step |-> run[r].step, server |-> run[r].server,
                   dir |-> run[r].dir, status |-> run[r].status]
  <1>1. TypeOK /\ run \in [RunIds -> Run] /\ run[r].phase = "ended" /\ r \in Nat
    BY DEF IInv, TypeOK, AppendJournal, InPhase, RunIds
  <1>2. e \in Entry /\ e.kind = "command" /\ e.run = r /\ journal' = Append(journal, e)
    BY <1>1 DEF AppendJournal, Entry, Run
  <1>3. run'[r].phase = "journaled" /\ \A q \in RunIds \ {r} : run'[q] = run[q]
    BY <1>1 DEF AppendJournal, Run
  <1>4. UNCHANGED <<app, run_queue, session>>
    BY DEF AppendJournal, guiVars
  <1> HIDE DEF e
  <1>5. /\ RecordedRuns' = RecordedRuns \cup {[at |-> Len(journal) + 1, request |-> r]}
        /\ \A line \in RecordedRuns : line.at < Len(journal) + 1
        /\ \A q : OnRecord(q)' <=> OnRecord(q) \/ q = r
    BY <1>1, <1>2, RunLineSeen
  <1>6. session = r /\ ~OnRecord(r)
    BY <1>1 DEF RecordInv, Working, Done
  <1>7. RecordInv'
    BY <1>1, <1>3, <1>4, <1>5, <1>6 DEF RecordInv, Done, Working
  <1>8. ~Executor!Free
    BY <1>6, ExecutedIsOnRecord DEF Executor!Free, None, RunIds
  <1>9. Executor!Record
    <2> DEFINE line == [at |-> Len(journal) + 1, request |-> r]
    <2>1. line.at = Len(journal) + 1 /\ line.request = session
      BY <1>6
    <2>2. line \in RecordedRuns' /\ RecordedRuns' = RecordedRuns \cup {line}
      BY <1>5
    <2>3. \A before \in RecordedRuns : before.at < line.at
      BY <1>5
    <2> HIDE DEF line
    <2>4. QED
      BY <1>4, <1>8, <2>1, <2>2, <2>3 DEF Executor!Record, Open
  <1>10. QED
    BY <1>7, <1>9 DEF Maps, Executor!Next

LEMMA WorkerMaps ==
  ASSUME IInv, RecordInv, NEW r \in RunIds, WorkerStep(r) \/ RemoteEnds(r), TypeOK'
  PROVE  Maps
  <1>1. run \in [RunIds -> Run] /\ run' \in [RunIds -> Run]
    BY DEF IInv, TypeOK
  <1>2. ASSUME NEW job, WorkerSets(r, job), job.phase \in {"connecting", "looping", "ended"},
               run[r].phase \in {"spawned", "connecting", "looping"}
        PROVE  Maps
    <2>1. run'[r] = job /\ \A q \in RunIds \ {r} : run'[q] = run[q]
      BY <1>1, <1>2 DEF WorkerSets
    <2>2. QED
      BY <1>1, <1>2, <2>1, MoveMaps DEF WorkerSets, guiVars, Done, Working
  <1>3. CASE BeginRun(r) \/ Connect(r) \/ ConnectFails(r) \/ LoopCancelled(r) \/ RemoteEnds(r)
    <2>1. PICK job : /\ WorkerSets(r, job) /\ job.phase \in {"connecting", "looping", "ended"}
                     /\ run[r].phase \in {"spawned", "connecting", "looping"}
      BY <1>1, <1>3 DEF BeginRun, Connect, ConnectFails, LoopCancelled, RemoteEnds, InPhase, Run
    <2>2. QED
      BY <1>2, <2>1
  <1>4. CASE AppendJournal(r)
    BY <1>4, AppendJournalMaps
  <1>5. CASE PostCompletion(r) \/ ThreadExit(r)
    <2>1. /\ run'[r].phase \in {"posted", "gone"} /\ run[r].phase \in {"journaled", "posted"}
          /\ \A q \in RunIds \ {r} : run'[q] = run[q]
      BY <1>1, <1>5 DEF PostCompletion, ThreadExit, InPhase, Run
    <2>2. UNCHANGED <<app, run_queue, session, journal>>
      BY <1>5 DEF PostCompletion, ThreadExit, guiVars
    <2>3. QED
      BY <1>1, <2>1, <2>2, MoveMaps DEF Done, Working
  <1>6. QED
    BY <1>3, <1>4, <1>5 DEF WorkerStep

-----------------------------------------------------------------------------
(* The theorem                                                              *)

LEMMA InitMaps == Init => Executor!Init /\ RecordInv
  BY DEF Init, Executor!Init, RecordedRuns, RecordInv, OnRecord, Done, Working, RunEntryAt, Open

LEMMA NextMaps == IInv /\ RecordInv /\ IInv' /\ [Next]_vars => Maps
  <1> SUFFICES ASSUME IInv, RecordInv, IInv', [Next]_vars PROVE Maps
    OBVIOUS
  <1>1. ASSUME NEW r \in RunIds, WorkerStep(r) \/ RemoteEnds(r) PROVE Maps
    BY <1>1, WorkerMaps DEF IInv
  <1>2. CASE User
    BY <1>2, RunCommandMaps, StartBundleMaps, StopMaps, WindowMaps DEF User
  <1>3. QED
    BY <1>1, <1>2, BundleTickMaps, CompletionMaps, WindowMaps DEF Next, Exited

\* Threads, sessions, bundles and flags together do what SerialExecutor promises: requests
\* are executed one at a time, what waits is served from the front or dropped as a whole,
\* and each executed request is on record once, before the next one begins
\* (RunController, BundleController, SSHSession::run, Journal::append).
THEOREM RunsSerially == Spec => ExecutesSerially
  <1>1. IInv /\ RecordInv /\ IInv' /\ [Next]_vars => [Executor!Next]_Executor!vars /\ RecordInv'
    BY NextMaps DEF Maps
  <1>2. QED
    BY <1>1, InitMaps, Invariance, PTL DEF Spec, ExecutesSerially, Executor!Spec
-----------------------------------------------------------------------------
(* The lines of bundles                                                     *)

\* A line of a run tells of a run that has come that far what the run ended with, and no
\* run has two.
LinesTruthful ==
  /\ \A i \in DOMAIN journal, r \in Nat : RunEntryAt(i, r) =>
       /\ r \in RunIds /\ Done(r)
       /\ journal[i].status = run[r].status
       /\ journal[i].server = run[r].server /\ journal[i].dir = run[r].dir
  /\ \A i, k \in DOMAIN journal, r \in RunIds : RunEntryAt(i, r) /\ RunEntryAt(k, r) => i = k

\* How many steps of the active bundle are on record.
Reported == IF session # None /\ Done(session) THEN bundle.index + 1 ELSE bundle.index

\* Line e is of the run r.
IsOf(e, r) == e.kind = "command" /\ e.run = r

\* They are the last lines of the journal, and all but that of the run of session_ are ok.
BundleOnRecord ==
  Open /\ bundle.active =>
    /\ Reported <= Len(journal)
    /\ \A j \in 1 .. Reported : IsOf(journal[Len(journal) - Reported + j], bundle.base + j)
    /\ \A j \in 1 .. bundle.index : journal[Len(journal) - Reported + j].status = "ok"

\* The steps of a bundle that has its line have theirs, or are never run: no worker has
\* one in hand, and the active bundle has other steps.
BundlesOver ==
  \A i \in DOMAIN journal : journal[i].kind = "bundle" =>
    LET b == journal[i]
    IN /\ b.step > 0 /\ b.run + b.step <= accepted
       /\ \A r \in RunIds : r > b.run /\ r <= b.run + b.step => run[r].phase = "unused" \/ Done(r)
       /\ Open /\ bundle.active => b.run + b.step <= bundle.base

LinesInv == LinesTruthful /\ BundlesOver /\ BundleEntryTruthful

-----------------------------------------------------------------------------
\* What every step does to the runs: what is on record stays as it is, and an id that
\* was left out is only ever used by the active bundle.
RunsGoOn ==
  /\ accepted' \in Nat /\ accepted' >= accepted
  /\ \A q \in RunIds : Done(q) =>
       /\ Done(q)'
       /\ run'[q].status = run[q].status /\ run'[q].server = run[q].server /\ run'[q].dir = run[q].dir
  /\ \A q \in RunIds : run[q].phase = "unused" /\ q <= accepted =>
       run'[q].phase = "unused" \/ (Open /\ bundle.active /\ q > bundle.base)

\* ... and to the bundle: it goes on, ends, or another one begins with ids of its own.
BundleGoesOn ==
  Open' /\ bundle'.active =>
    \/ Open /\ bundle.active /\ bundle'.base = bundle.base
    \/ bundle'.base = accepted

\* A run moves that is not on record.
LEMMA OneMoves ==
  ASSUME TypeOK, accepted' \in Nat, accepted' >= accepted,
         NEW r \in RunIds, \A q \in RunIds \ {r} : run'[q] = run[q], ~Done(r),
         run[r].phase = "unused" => r > accepted \/ (Open /\ bundle.active /\ r > bundle.base)
  PROVE  RunsGoOn
  <1>1. accepted \in Nat /\ r \in Nat
    BY RunsAssumption DEF TypeOK, RunIds
  <1>2. QED
    BY <1>1 DEF RunsGoOn, Done

\* A bundle that is over stays so.
LEMMA OverStays ==
  ASSUME TypeOK, LinesInv, RunsGoOn, BundleGoesOn,
         NEW i \in DOMAIN journal, journal[i].kind = "bundle"
  PROVE  LET b == journal[i]
         IN /\ b.step > 0 /\ b.run + b.step <= accepted'
            /\ \A r \in RunIds : r > b.run /\ r <= b.run + b.step
                 => run'[r].phase = "unused" \/ Done(r)'
            /\ Open' /\ bundle'.active => b.run + b.step <= bundle'.base
  <1> DEFINE b == journal[i]
  <1>1. b.run \in Nat /\ b.step \in Nat /\ accepted \in Nat /\ bundle.base \in Nat
    <2>1. journal \in Seq(Entry) /\ accepted \in 0 .. MaxRuns /\ bundle \in Bundle
      BY DEF TypeOK
    <2>2. b \in Entry
      BY <2>1, ElementOfSeq, LenProperties
    <2> HIDE DEF b
    <2>3. QED
      BY <2>1, <2>2, RunsAssumption DEF Entry, Bundle
  <1>2. /\ b.step > 0 /\ b.run + b.step <= accepted
        /\ \A r \in RunIds : r > b.run /\ r <= b.run + b.step => run[r].phase = "unused" \/ Done(r)
        /\ Open /\ bundle.active => b.run + b.step <= bundle.base
    BY DEF LinesInv, BundlesOver
  <1> HIDE DEF b
  <1>3. b.run + b.step <= accepted'
    BY <1>1, <1>2 DEF RunsGoOn
  <1>4. ASSUME NEW r \in RunIds, r > b.run, r <= b.run + b.step
        PROVE  run'[r].phase = "unused" \/ Done(r)'
    BY <1>1, <1>2, <1>4 DEF RunsGoOn, RunIds
  <1>5. Open' /\ bundle'.active => b.run + b.step <= bundle'.base
    BY <1>1, <1>2 DEF BundleGoesOn
  <1>6. QED
    BY <1>2, <1>3, <1>4, <1>5 DEF b

\* The lines that are there stay truthful.
LEMMA OldLines ==
  ASSUME TypeOK, LinesInv, RunsGoOn, BundleGoesOn, journal' = journal
  PROVE  LinesInv'
  <1>1. LinesTruthful'
    BY DEF LinesInv, LinesTruthful, RunsGoOn, RunEntryAt
  <1>2. BundlesOver'
    BY OverStays DEF BundlesOver
  <1>3. BundleEntryTruthful'
    BY DEF LinesInv, BundleEntryTruthful, RunEntryAt
  <1>4. QED
    BY <1>1, <1>2, <1>3 DEF LinesInv

\* What BundleEntryTruthful says of line i.
Tells(lines, i) ==
  LET b == lines[i]
  IN \E k \in 0 .. b.step :
       /\ k < i
       /\ \A j \in 1 .. k : IsOf(lines[i - k + j - 1], b.run + j)
       /\ \A j \in 1 .. k - 1 : lines[i - k + j - 1].status = "ok"
       /\ \A p \in DOMAIN lines \ (i - k .. i - 1) :
            \A j \in 1 .. b.step : ~IsOf(lines[p], b.run + j)
       /\ b.status = "ok" => k = b.step /\ lines[i - 1].status = "ok"
       /\ b.status \notin {"ok", "cancelled"} => k > 0 /\ lines[i - 1].status = b.status

LEMMA LinesTell ==
  /\ BundleEntryTruthful <=> \A i \in DOMAIN journal : journal[i].kind = "bundle" => Tells(journal, i)
  /\ BundleEntryTruthful' <=> \A i \in DOMAIN journal' : journal'[i].kind = "bundle" => Tells(journal', i)
  <1>1. BundleEntryTruthful => \A i \in DOMAIN journal : journal[i].kind = "bundle" => Tells(journal, i)
    BY Zenon DEF BundleEntryTruthful, Tells, RunEntryAt, IsOf
  <1>2. (\A i \in DOMAIN journal : journal[i].kind = "bundle" => Tells(journal, i)) => BundleEntryTruthful
    BY Zenon DEF BundleEntryTruthful, Tells, RunEntryAt, IsOf
  <1>3. BundleEntryTruthful' => \A i \in DOMAIN journal' : journal'[i].kind = "bundle" => Tells(journal', i)
    BY Zenon DEF BundleEntryTruthful, Tells, RunEntryAt, IsOf
  <1>4. (\A i \in DOMAIN journal' : journal'[i].kind = "bundle" => Tells(journal', i)) => BundleEntryTruthful'
    BY Zenon DEF BundleEntryTruthful, Tells, RunEntryAt, IsOf
  <1>5. QED
    BY <1>1, <1>2, <1>3, <1>4

\* A line that tells the truth about its bundle goes on doing so when a line is added
\* that is not of one of its steps.
LEMMA EntryStaysTruthful ==
  ASSUME NEW lines \in Seq(Entry), NEW i \in 1 .. Len(lines), Tells(lines, i),
         lines[i].step > 0, NEW e \in Entry,
         e.kind = "command" => ~(e.run > lines[i].run /\ e.run <= lines[i].run + lines[i].step)
  PROVE  Tells(Append(lines, e), i)
  <1> DEFINE b == lines[i]
             n == Len(lines)
             more == Append(lines, e)
  <1>1. /\ DOMAIN lines = 1 .. n /\ n \in Nat /\ DOMAIN more = 1 .. n + 1
        /\ \A p \in 1 .. n : more[p] = lines[p]
        /\ more[n + 1] = e
    BY AppendProperties, LenProperties
  <1>2. b.run \in Nat /\ b.step \in Nat /\ b.step > 0 /\ i \in 1 .. n
    <2>1. b \in Entry /\ b.step > 0 /\ i \in 1 .. n
      BY ElementOfSeq
    <2> HIDE DEF b
    <2>2. QED
      BY <2>1 DEF Entry
  <1>3. PICK k \in 0 .. b.step :
         /\ k < i
         /\ \A j \in 1 .. k : IsOf(lines[i - k + j - 1], b.run + j)
         /\ \A j \in 1 .. k - 1 : lines[i - k + j - 1].status = "ok"
         /\ \A p \in DOMAIN lines \ (i - k .. i - 1) :
              \A j \in 1 .. b.step : ~IsOf(lines[p], b.run + j)
         /\ b.status = "ok" => k = b.step /\ lines[i - 1].status = "ok"
         /\ b.status \notin {"ok", "cancelled"} => k > 0 /\ lines[i - 1].status = b.status
    BY DEF Tells
  <1>4. e.kind = "command" => ~(e.run > b.run /\ e.run <= b.run + b.step)
    OBVIOUS
  <1>5. more[i] = b
    BY <1>1, <1>2
  <1> HIDE DEF b, n, more
  <1>6. \A j \in 1 .. k : i - k + j - 1 \in 1 .. n
    BY <1>1, <1>2, <1>3
  <1>7. \A j \in 1 .. k : IsOf(more[i - k + j - 1], b.run + j)
    BY <1>1, <1>3, <1>6
  <1>8. \A j \in 1 .. k - 1 : more[i - k + j - 1].status = "ok"
    <2> SUFFICES ASSUME NEW j \in 1 .. k - 1 PROVE more[i - k + j - 1].status = "ok"
      OBVIOUS
    <2>1. j \in 1 .. k
      BY <1>2, <1>3
    <2>2. QED
      BY <1>1, <1>3, <1>6, <2>1
  <1>9. ASSUME NEW p \in DOMAIN more \ (i - k .. i - 1), NEW j \in 1 .. b.step
        PROVE  ~IsOf(more[p], b.run + j)
    <2>1. CASE p = n + 1
      BY <1>1, <1>2, <1>4, <2>1 DEF IsOf
    <2>2. CASE p # n + 1
      <3>1. p \in DOMAIN lines
        BY <1>1, <2>2
      <3>2. QED
        BY <1>1, <1>3, <1>9, <3>1
    <2>3. QED
      BY <2>1, <2>2
  <1>10. k > 0 => more[i - 1] = lines[i - 1]
    BY <1>1, <1>2, <1>3
  <1>11. b.status = "ok" => k > 0
    BY <1>2, <1>3, <1>5
  <1>12. QED
    BY <1>3, <1>5, <1>7, <1>8, <1>9, <1>10, <1>11 DEF Tells, more

-----------------------------------------------------------------------------
(* The line of a run, and that of a bundle                                  *)

\* A line is added: what the lines before it say stays true if what it says is.
LEMMA NewLine ==
  ASSUME TypeOK, LinesInv, RunsGoOn, BundleGoesOn,
         NEW e \in Entry, journal' = Append(journal, e),
         e.kind = "command" =>
           /\ e.run \in RunIds /\ ~Done(e.run) /\ Done(e.run)' /\ run[e.run].phase # "unused"
           /\ e.status = run'[e.run].status /\ e.server = run'[e.run].server
           /\ e.dir = run'[e.run].dir,
         e.kind = "bundle" =>
           /\ Tells(journal', Len(journal) + 1)
           /\ e.step > 0 /\ e.run + e.step <= accepted'
           /\ \A r \in RunIds : r > e.run /\ r <= e.run + e.step => run'[r].phase = "unused" \/ Done(r)'
           /\ ~bundle'.active
  PROVE  LinesInv'
  <1> DEFINE n == Len(journal)
  <1>1. /\ DOMAIN journal = 1 .. n /\ n \in Nat /\ DOMAIN journal' = 1 .. n + 1
        /\ \A p \in 1 .. n : journal'[p] = journal[p]
        /\ journal'[n + 1] = e /\ journal \in Seq(Entry) /\ e.kind \in {"command", "bundle"}
    BY Appended DEF TypeOK, Entry
  <1> HIDE DEF n
  <1>2. \A p \in 1 .. n + 1 : p \in 1 .. n \/ p = n + 1
    BY <1>1
  <1>3. LinesTruthful'
    <2>1. ASSUME NEW i \in 1 .. n + 1, NEW r \in Nat, RunEntryAt(i, r)'
          PROVE  /\ r \in RunIds /\ Done(r)'
                 /\ journal'[i].status = run'[r].status
                 /\ journal'[i].server = run'[r].server /\ journal'[i].dir = run'[r].dir
      <3>1. CASE i \in 1 .. n
        <4>1. RunEntryAt(i, r) /\ journal'[i] = journal[i]
          BY <1>1, <2>1, <3>1 DEF RunEntryAt
        <4>2. /\ r \in RunIds /\ Done(r)
              /\ journal[i].status = run[r].status
              /\ journal[i].server = run[r].server /\ journal[i].dir = run[r].dir
          BY <1>1, <3>1, <4>1 DEF LinesInv, LinesTruthful
        <4>3. QED
          BY <4>1, <4>2 DEF RunsGoOn
      <3>2. CASE i = n + 1
        BY <1>1, <2>1, <3>2 DEF RunEntryAt
      <3>3. QED
        BY <1>2, <3>1, <3>2
    <2>2. ASSUME NEW i \in 1 .. n + 1, NEW k \in 1 .. n + 1, NEW r \in RunIds,
                 RunEntryAt(i, r)', RunEntryAt(k, r)'
          PROVE  i = k
      <3>1. \A p \in 1 .. n : RunEntryAt(p, r)' => RunEntryAt(p, r) /\ Done(r)
        <4>1. \A p \in 1 .. n : RunEntryAt(p, r)' => RunEntryAt(p, r)
          BY <1>1 DEF RunEntryAt
        <4>2. r \in Nat
          BY DEF RunIds
        <4>3. QED
          BY <1>1, <4>1, <4>2 DEF LinesInv, LinesTruthful
      <3>2. \A p \in 1 .. n + 1 : p = n + 1 /\ RunEntryAt(p, r)' => ~Done(r)
        BY <1>1 DEF RunEntryAt
      <3>3. CASE i \in 1 .. n /\ k \in 1 .. n
        BY <1>1, <2>2, <3>1, <3>3 DEF LinesInv, LinesTruthful
      <3>4. QED
        BY <1>2, <2>2, <3>1, <3>2, <3>3
    <2>3. \A i, k \in 1 .. n + 1, r \in RunIds : RunEntryAt(i, r)' /\ RunEntryAt(k, r)' => i = k
      BY <2>2
    <2>4. QED
      BY <1>1, <2>1, <2>3 DEF LinesTruthful
  <1>4. BundlesOver'
    <2> SUFFICES ASSUME NEW i \in 1 .. n + 1, journal'[i].kind = "bundle"
                 PROVE  LET b == journal'[i]
                        IN /\ b.step > 0 /\ b.run + b.step <= accepted'
                           /\ \A r \in RunIds : r > b.run /\ r <= b.run + b.step
                                => run'[r].phase = "unused" \/ Done(r)'
                           /\ Open' /\ bundle'.active => b.run + b.step <= bundle'.base
      BY <1>1 DEF BundlesOver
    <2>1. CASE i = n + 1
      BY <1>1, <2>1
    <2>2. CASE i \in 1 .. n
      BY <1>1, <2>2, OverStays
    <2>3. QED
      BY <1>2, <2>1, <2>2
  <1>5. BundleEntryTruthful'
    <2> SUFFICES ASSUME NEW i \in 1 .. n + 1, journal'[i].kind = "bundle"
                 PROVE  Tells(journal', i)
      BY <1>1, LinesTell
    <2>1. CASE i = n + 1
      BY <1>1, <2>1 DEF n
    <2>2. CASE i \in 1 .. n
      <3>1. Tells(journal, i) /\ journal[i].kind = "bundle"
        BY <1>1, <2>2, LinesTell DEF LinesInv
      <3>2. journal[i].step > 0
        BY <1>1, <2>2, <3>1 DEF LinesInv, BundlesOver
      <3>3. e.kind = "command" => ~(e.run > journal[i].run /\ e.run <= journal[i].run + journal[i].step)
        BY <1>1, <2>2, <3>1 DEF LinesInv, BundlesOver
      <3>4. QED
        BY <1>1, <2>2, <3>1, <3>2, <3>3, EntryStaysTruthful DEF n
    <2>3. QED
      BY <1>2, <2>1, <2>2
  <1>6. QED
    BY <1>3, <1>4, <1>5 DEF LinesInv

\* AppendJournal: the worker writes what its run ended with behind the lines of the steps
\* before it.
LEMMA RunLine ==
  ASSUME IInv, RecordInv, LinesInv, BundleOnRecord, NEW r \in RunIds, AppendJournal(r)
  PROVE  LinesInv' /\ BundleOnRecord'
  <1> DEFINE e == [kind |-> "command", run |-> r, step |-> run[r].step, server |-> run[r].server,
                   dir |-> run[r].dir, status |-> run[r].status]
             n == Len(journal)
  <1>1. TypeOK /\ run \in [RunIds -> Run] /\ run[r].phase = "ended" /\ r \in Nat
    BY DEF IInv, TypeOK, AppendJournal, InPhase, RunIds
  <1>2. /\ e \in Entry /\ e.kind = "command" /\ e.run = r /\ journal' = Append(journal, e)
        /\ e.status = run[r].status /\ e.server = run[r].server /\ e.dir = run[r].dir
    BY <1>1 DEF AppendJournal, Entry, Run
  <1>3. /\ run'[r].phase = "journaled" /\ run'[r].status = run[r].status
        /\ run'[r].server = run[r].server /\ run'[r].dir = run[r].dir
        /\ \A q \in RunIds \ {r} : run'[q] = run[q]
    BY <1>1 DEF AppendJournal, Run
  <1>4. UNCHANGED <<app, run_queue, session, bundle, accepted>> /\ accepted \in Nat
    BY <1>1, RunsAssumption DEF AppendJournal, guiVars, TypeOK
  <1> HIDE DEF e
  <1>5. ~Done(r) /\ Done(r)' /\ session = r
    BY <1>1, <1>3 DEF Done, RecordInv, Working
  <1>6. RunsGoOn
    <2>1. accepted' \in Nat /\ accepted' >= accepted
      BY <1>4
    <2>2. run[r].phase # "unused"
      BY <1>1
    <2>3. QED
      BY <1>1, <1>3, <1>5, <2>1, <2>2, OneMoves
  <1>7. BundleGoesOn
    BY <1>4 DEF BundleGoesOn, Open
  <1>8. LinesInv'
    BY <1>1, <1>2, <1>3, <1>5, <1>6, <1>7, NewLine
  <1>9. BundleOnRecord'
    <2> SUFFICES ASSUME Open, bundle.active
                 PROVE  /\ Reported' <= Len(journal')
                        /\ \A j \in 1 .. Reported' : IsOf(journal'[Len(journal') - Reported' + j], bundle.base + j)
                        /\ \A j \in 1 .. bundle.index :
                             journal'[Len(journal') - Reported' + j].status = "ok"
      BY <1>4 DEF BundleOnRecord, Open
    <2>1. bundle.index \in Nat /\ bundle.base \in Nat /\ r = bundle.base + bundle.index + 1
      BY <1>1, <1>5 DEF IInv, StepMatchesBundle, TypeOK, Bundle, None, RunIds
    <2>2. Reported = bundle.index /\ Reported' = bundle.index + 1
      BY <1>4, <1>5, <2>1 DEF Reported, None, RunIds
    <2>3. /\ DOMAIN journal = 1 .. n /\ n \in Nat /\ Len(journal') = n + 1
          /\ \A p \in 1 .. n : journal'[p] = journal[p]
          /\ journal'[n + 1] = e
      BY <1>1, <1>2, Appended, AppendProperties DEF TypeOK
    <2> HIDE DEF n
    <2>4. /\ bundle.index <= n
          /\ \A j \in 1 .. bundle.index : IsOf(journal[n - bundle.index + j], bundle.base + j)
          /\ \A j \in 1 .. bundle.index : journal[n - bundle.index + j].status = "ok"
      BY <2>2 DEF BundleOnRecord, n
    <2>5. /\ \A j \in 1 .. bundle.index : n - bundle.index + j \in 1 .. n
          /\ n + 1 - (bundle.index + 1) = n - bundle.index
          /\ \A j \in 1 .. bundle.index + 1 : j \in 1 .. bundle.index \/ j = bundle.index + 1
          /\ n - bundle.index + (bundle.index + 1) = n + 1
      BY <2>1, <2>3, <2>4
    <2>6. ASSUME NEW j \in 1 .. bundle.index + 1
          PROVE  IsOf(journal'[n - bundle.index + j], bundle.base + j)
      <3>1. CASE j \in 1 .. bundle.index
        <4>1. journal'[n - bundle.index + j] = journal[n - bundle.index + j]
          BY <2>3, <2>5, <3>1
        <4>2. QED
          BY <2>4, <3>1, <4>1
      <3>2. CASE j = bundle.index + 1
        <4>1. n - bundle.index + j = n + 1 /\ bundle.base + j = r
          BY <2>1, <2>5, <3>2
        <4>2. IsOf(e, r)
          BY <1>2 DEF IsOf
        <4>3. QED
          BY <2>3, <4>1, <4>2
      <3>3. QED
        BY <2>5, <3>1, <3>2
    <2>7. \A j \in 1 .. bundle.index : journal'[n - bundle.index + j].status = "ok"
      BY <2>3, <2>4, <2>5
    <2>8. bundle.index + 1 <= n + 1
      BY <2>1, <2>3, <2>4
    <2>9. Len(journal') - Reported' = n - bundle.index
      <3>1. Len(journal') = n + 1 /\ n \in Nat
        BY <2>3
      <3>2. QED
        BY <2>1, <2>2, <3>1
    <2>10. QED
      BY <2>2, <2>3, <2>6, <2>7, <2>8, <2>9
  <1>10. QED
    BY <1>8, <1>9

\* How a bundle ends: stopped, by the error of its last step, or with all of them ok.
Verdict(status) ==
  \/ status = "cancelled"
  \/ session # None /\ status = run[session].status /\ status \notin {"ok", "cancelled"}
  \/ status = "ok" /\ session # None /\ run[session].status = "ok" /\ bundle.index + 1 = bundle.size

\* The line of the active bundle tells the truth when the run of session_ is on record.
LEMMA FinishTells ==
  ASSUME IInv, LinesInv, BundleOnRecord, Open, bundle.active,
         session = None \/ (session \in RunIds /\ Done(session)),
         NEW status \in Statuses, Verdict(status), NEW e \in Entry, e.kind = "bundle",
         e.run = bundle.base, e.step = bundle.size, e.status = status
  PROVE  Tells(Append(journal, e), Len(journal) + 1)
  <1> DEFINE n == Len(journal)
             k == Reported
             more == Append(journal, e)
  <1>1. /\ DOMAIN journal = 1 .. n /\ n \in Nat /\ DOMAIN more = 1 .. n + 1
        /\ \A p \in 1 .. n : more[p] = journal[p]
        /\ more[n + 1] = e
    BY AppendProperties, LenProperties DEF IInv, TypeOK
  <1>2. /\ bundle.index \in Nat /\ bundle.base \in Nat /\ bundle.size \in Nat
        /\ bundle.index < bundle.size /\ bundle.base + bundle.size <= accepted
        /\ accepted \in 0 .. MaxRuns /\ MaxRuns \in Nat
        /\ session # None => session = bundle.base + bundle.index + 1
    BY RunsAssumption DEF IInv, TypeOK, Bundle, BundleShape, StepMatchesBundle
  <1>3. k = IF session # None THEN bundle.index + 1 ELSE bundle.index
    BY DEF Reported, None
  <1>4. /\ k <= n
        /\ \A j \in 1 .. k : IsOf(journal[n - k + j], bundle.base + j)
        /\ \A j \in 1 .. bundle.index : journal[n - k + j].status = "ok"
    BY DEF BundleOnRecord
  <1> HIDE DEF n, k, more
  <1>5. /\ k \in 0 .. bundle.size /\ k < n + 1
        /\ \A j \in 1 .. k : n - k + j \in 1 .. n /\ (n + 1) - k + j - 1 = n - k + j
        /\ \A j \in 1 .. k - 1 : j \in 1 .. k /\ j \in 1 .. bundle.index
        /\ \A j \in 1 .. bundle.size : bundle.base + j \in RunIds
        /\ (n + 1) - k = n - k + 1 /\ (n + 1) - 1 = n
    <2>1. k \in 0 .. bundle.size /\ k < n + 1 /\ k <= bundle.index + 1
      BY <1>1, <1>2, <1>3, <1>4
    <2>2. \A j \in 1 .. k : n - k + j \in 1 .. n /\ (n + 1) - k + j - 1 = n - k + j
      BY <1>1, <1>2, <1>4, <2>1
    <2>3. \A j \in 1 .. k - 1 : j \in 1 .. k /\ j \in 1 .. bundle.index
      BY <1>2, <2>1
    <2>4. \A j \in 1 .. bundle.size : bundle.base + j \in RunIds
      BY <1>2 DEF RunIds
    <2>5. (n + 1) - k = n - k + 1 /\ (n + 1) - 1 = n
      BY <1>1, <1>2, <2>1
    <2>6. QED
      BY <2>1, <2>2, <2>3, <2>4, <2>5
  <1>6. \A j \in 1 .. k : IsOf(more[(n + 1) - k + j - 1], bundle.base + j)
    <2> SUFFICES ASSUME NEW j \in 1 .. k
                 PROVE  IsOf(more[(n + 1) - k + j - 1], bundle.base + j)
      OBVIOUS
    <2>1. (n + 1) - k + j - 1 = n - k + j /\ more[n - k + j] = journal[n - k + j]
      BY <1>1, <1>5
    <2>2. QED
      BY <1>4, <2>1
  <1>7. \A j \in 1 .. k - 1 : more[(n + 1) - k + j - 1].status = "ok"
    <2> SUFFICES ASSUME NEW j \in 1 .. k - 1
                 PROVE  more[(n + 1) - k + j - 1].status = "ok"
      OBVIOUS
    <2>1. j \in 1 .. k /\ j \in 1 .. bundle.index
      BY <1>5
    <2>2. (n + 1) - k + j - 1 = n - k + j /\ more[n - k + j] = journal[n - k + j]
      BY <1>1, <1>5, <2>1
    <2>3. QED
      BY <1>4, <2>1, <2>2
  <1>8. ASSUME NEW p \in DOMAIN more \ ((n + 1) - k .. (n + 1) - 1), NEW j \in 1 .. bundle.size
        PROVE  ~IsOf(more[p], bundle.base + j)
    <2>1. CASE p = n + 1
      BY <1>1, <2>1 DEF IsOf
    <2>2. CASE p # n + 1
      <3>1. p \in 1 .. n /\ p \notin n - k + 1 .. n /\ more[p] = journal[p]
        BY <1>1, <1>5, <1>8, <2>2
      <3> SUFFICES ASSUME RunEntryAt(p, bundle.base + j) PROVE FALSE
        BY <3>1 DEF RunEntryAt, IsOf
      <3>2. Done(bundle.base + j) /\ bundle.base + j \in RunIds
        BY <1>1, <1>5, <3>1 DEF LinesInv, LinesTruthful, RunIds
      <3>3. CASE j \in 1 .. k
        <4>1. RunEntryAt(n - k + j, bundle.base + j) /\ n - k + j \in 1 .. n
          BY <1>4, <1>5, <3>3 DEF RunEntryAt, IsOf
        <4>2. p = n - k + j
          BY <1>1, <3>1, <3>2, <4>1 DEF LinesInv, LinesTruthful
        <4>3. n - k + j \in n - k + 1 .. n
          BY <1>1, <1>5, <3>3
        <4>4. QED
          BY <3>1, <4>2, <4>3
      <3>4. CASE j \notin 1 .. k
        <4>1. /\ bundle.base + j > bundle.base + bundle.index
              /\ bundle.base + j <= bundle.base + bundle.size /\ bundle.base + j # session
          BY <1>2, <1>3, <1>5, <3>4 DEF None
        <4>2. run[bundle.base + j].phase = "unused"
          BY <3>2, <4>1 DEF IInv, BundleShape
        <4>3. QED
          BY <3>2, <4>2 DEF Done
      <3>5. QED
        BY <3>3, <3>4
    <2>3. QED
      BY <2>1, <2>2
  <1>9. session # None => k > 0 /\ more[n].status = run[session].status
    <2> SUFFICES ASSUME session # None PROVE k > 0 /\ more[n].status = run[session].status
      OBVIOUS
    <2>1. k > 0 /\ k \in 1 .. k /\ n - k + k = n /\ n \in 1 .. n
      <3>1. k \in Nat /\ n \in Nat /\ k <= n
        BY <1>1, <1>2, <1>4, <1>5
      <3>2. k > 0
        BY <1>2, <1>3
      <3>3. QED
        BY <3>1, <3>2
    <2>2. RunEntryAt(n, session) /\ session \in Nat
      BY <1>2, <1>3, <1>4, <2>1 DEF RunEntryAt, IsOf, RunIds
    <2>3. journal[n].status = run[session].status
      BY <1>1, <2>1, <2>2 DEF LinesInv, LinesTruthful
    <2>4. QED
      BY <1>1, <2>1, <2>3
  <1>10. status = "ok" => k = bundle.size /\ more[n].status = "ok"
    BY <1>2, <1>3, <1>9 DEF Verdict
  <1>11. status \notin {"ok", "cancelled"} => k > 0 /\ more[n].status = status
    BY <1>9 DEF Verdict
  <1>12. QED
    <2>1. more[n + 1] = e /\ (n + 1) - 1 = n
      BY <1>1, <1>5
    <2>2. Tells(more, n + 1)
      BY <1>5, <1>6, <1>7, <1>8, <1>10, <1>11, <2>1 DEF Tells
    <2>3. QED
      BY <2>2 DEF n, more

StepsInv == LinesInv /\ BundleOnRecord

\* finish() and the abort of a pause: the bundle gets its line, and none of the ids it
\* leaves unused is used again.
LEMMA FinishLine ==
  ASSUME IInv, StepsInv, Open, bundle.active, accepted' = accepted,
         session = None \/ (session \in RunIds /\ Done(session)),
         NEW status \in Statuses, Verdict(status), NEW b \in Bundle,
         b.base = bundle.base, b.size = bundle.size,
         journal' = Append(journal, BundleEntry(b, status)), bundle' = Retired(b),
         \A q \in RunIds : run[q].phase = "unused" \/ Done(q) => run'[q] = run[q]
  PROVE  StepsInv'
  <1> DEFINE e == BundleEntry(b, status)
             n == Len(journal)
             k == Reported
  <1>1. /\ e \in Entry /\ e.kind = "bundle" /\ e.run = bundle.base /\ e.step = bundle.size
        /\ e.status = status
    BY BundleEntryType DEF BundleEntry
  <1> HIDE DEF e
  <1>2. ~bundle'.active /\ TypeOK
    BY RetiredType DEF IInv
  <1>3. /\ bundle.index \in Nat /\ bundle.base \in Nat /\ bundle.size \in Nat
        /\ bundle.index < bundle.size /\ bundle.base + bundle.size <= accepted
        /\ accepted \in 0 .. MaxRuns /\ MaxRuns \in Nat
        /\ session # None => session = bundle.base + bundle.index + 1
    BY RunsAssumption DEF IInv, TypeOK, Bundle, BundleShape, StepMatchesBundle
  <1>4. RunsGoOn
    BY <1>3 DEF RunsGoOn, Done
  <1>5. BundleGoesOn
    BY <1>2 DEF BundleGoesOn
  <1>6. Tells(journal', n + 1)
    BY <1>1, FinishTells DEF e, StepsInv
  <1>7. ASSUME NEW r \in RunIds, r > bundle.base, r <= bundle.base + bundle.size
        PROVE  run'[r].phase = "unused" \/ Done(r)'
    <2>1. k = IF session # None THEN bundle.index + 1 ELSE bundle.index
      BY DEF Reported, None
    <2>2. /\ k <= n /\ n \in Nat /\ DOMAIN journal = 1 .. n
          /\ \A j \in 1 .. k : IsOf(journal[n - k + j], bundle.base + j)
      BY <1>2, LenProperties DEF BundleOnRecord, StepsInv, TypeOK
    <2> HIDE DEF k, n
    <2>3. r \in Nat /\ k \in Nat
      BY <1>3, <2>1 DEF RunIds
    <2>4. CASE r <= bundle.base + k
      <3> DEFINE j == r - bundle.base
      <3>1. j \in 1 .. k /\ bundle.base + j = r /\ n - k + j \in 1 .. n
        <4>1. bundle.base \in Nat /\ k <= n /\ n \in Nat
          BY <1>3, <2>2
        <4>2. j \in 1 .. k /\ bundle.base + j = r
          BY <1>7, <2>3, <2>4, <4>1
        <4>3. QED
          BY <2>3, <4>1, <4>2
      <3> HIDE DEF j
      <3>2. RunEntryAt(n - k + j, r)
        BY <2>2, <3>1 DEF RunEntryAt, IsOf
      <3>3. Done(r)
        BY <2>2, <2>3, <3>1, <3>2 DEF StepsInv, LinesInv, LinesTruthful
      <3>4. QED
        BY <3>3 DEF Done
    <2>5. CASE r > bundle.base + k
      <3>1. r > bundle.base + bundle.index /\ r # session
        BY <1>3, <2>1, <2>3, <2>5 DEF None
      <3>2. run[r].phase = "unused"
        BY <1>7, <3>1 DEF IInv, BundleShape
      <3>3. QED
        BY <3>2
    <2>6. QED
      BY <1>3, <2>3, <2>4, <2>5
  <1>8. e.step > 0 /\ e.run + e.step <= accepted'
    BY <1>1, <1>3
  <1>9. LinesInv'
    <2>1. journal' = Append(journal, e)
      BY DEF e
    <2>2. Tells(journal', Len(journal) + 1)
      BY <1>6
    <2> HIDE DEF n
    <2>3. \A r \in RunIds : r > e.run /\ r <= e.run + e.step => run'[r].phase = "unused" \/ Done(r)'
      BY <1>1, <1>7
    <2>4. e.kind # "command"
      BY <1>1
    <2>5. QED
      BY <1>1, <1>2, <1>4, <1>5, <1>8, <2>1, <2>2, <2>3, <2>4, NewLine DEF StepsInv
  <1>10. QED
    BY <1>2, <1>9 DEF StepsInv, BundleOnRecord

\* No line is written, and the active bundle stays as far as it is.
LEMMA SameReport ==
  ASSUME TypeOK, StepsInv, RunsGoOn, journal' = journal, session' = session,
         Open' /\ bundle'.active => Open /\ bundle.active /\ bundle'.base = bundle.base
                                    /\ bundle'.index = bundle.index,
         session \in RunIds => (Done(session)' <=> Done(session))
  PROVE  StepsInv'
  <1>1. LinesInv'
    BY OldLines DEF StepsInv, BundleGoesOn
  <1>2. Open' /\ bundle'.active => Reported' = Reported
    <2>1. session = None \/ session \in RunIds
      BY DEF TypeOK
    <2>2. QED
      BY <2>1 DEF Reported
  <1>3. BundleOnRecord'
    BY <1>2 DEF StepsInv, BundleOnRecord
  <1>4. QED
    BY <1>1, <1>3 DEF StepsInv

\* No bundle is active any more, and no line is written.
LEMMA NoBundle ==
  ASSUME TypeOK, StepsInv, RunsGoOn, journal' = journal, ~bundle'.active
  PROVE  StepsInv'
  BY OldLines DEF StepsInv, BundleGoesOn, BundleOnRecord

\* The bundle has its next step begun, or pauses before it: those before are on record
\* and ok.
LEMMA StepGoesOn ==
  ASSUME IInv, StepsInv, Open, bundle.active, RunsGoOn, journal' = journal,
         session = None \/ (session \in RunIds /\ Done(session) /\ run[session].status = "ok"),
         bundle'.base = bundle.base,
         bundle'.index = IF session = None THEN bundle.index ELSE bundle.index + 1,
         session' = None \/ run'[session'].phase = "spawned"
  PROVE  StepsInv'
  <1> DEFINE n == Len(journal)
             k == Reported
  <1>1. /\ n \in Nat /\ DOMAIN journal = 1 .. n /\ bundle.index \in Nat /\ bundle.base \in Nat
        /\ session # None => session = bundle.base + bundle.index + 1
    BY LenProperties DEF IInv, TypeOK, Bundle, StepMatchesBundle
  <1>2. k = IF session # None THEN bundle.index + 1 ELSE bundle.index
    BY DEF Reported, None
  <1>3. bundle'.index = k /\ k \in Nat
    BY <1>1, <1>2
  <1>4. Reported' = k
    BY <1>3 DEF Reported, Done
  <1>5. /\ k <= n
        /\ \A j \in 1 .. k : IsOf(journal[n - k + j], bundle.base + j)
        /\ \A j \in 1 .. bundle.index : journal[n - k + j].status = "ok"
    BY DEF BundleOnRecord, StepsInv
  <1> HIDE DEF n, k
  <1>6. ASSUME NEW j \in 1 .. k PROVE journal[n - k + j].status = "ok"
    <2>1. CASE j \in 1 .. bundle.index
      BY <1>5, <2>1
    <2>2. CASE session # None /\ j = k
      <3>1. n - k + j \in 1 .. n /\ bundle.base + j = session
        <4>1. j = bundle.index + 1 /\ bundle.base + (bundle.index + 1) = session
          BY <1>1, <1>2, <2>2
        <4>2. n - k + j = n /\ k \in 1 .. n
          BY <1>1, <1>3, <1>5, <2>2
        <4>3. QED
          BY <1>1, <4>1, <4>2
      <3>2. RunEntryAt(n - k + j, session) /\ session \in Nat
        BY <1>5, <2>2, <3>1 DEF RunEntryAt, IsOf, RunIds, None
      <3>3. journal[n - k + j].status = run[session].status
        BY <1>1, <3>1, <3>2 DEF StepsInv, LinesInv, LinesTruthful
      <3>4. QED
        BY <2>2, <3>3
    <2>3. QED
      BY <1>1, <1>2, <1>3, <2>1, <2>2
  <1>7. BundleOnRecord'
    BY <1>3, <1>4, <1>5, <1>6 DEF BundleOnRecord, n
  <1>8. LinesInv'
    BY OldLines DEF StepsInv, BundleGoesOn, IInv
  <1>9. QED
    BY <1>7, <1>8 DEF StepsInv

-----------------------------------------------------------------------------
(* The handlers of the window and the workers                               *)

\* start_ssh_run moves only the run it starts.
LEMMA StartMoves ==
  ASSUME TypeOK, NEW r \in RunIds, NEW job, NEW cwds, StartSshRun(r, job, cwds)
  PROVE  \A q \in RunIds \ {r} : run'[q] = run[q]
  BY DEF StartSshRun, TypeOK

\* pump_run_queue starts a run that waits, or none.
LEMMA PumpMoves ==
  ASSUME IInv, Open, NEW cwds, PumpRunQueue(cwds)
  PROVE  \A q \in RunIds : run[q].phase # "accepted" => run'[q] = run[q]
  <1>1. CASE run_queue = <<>> /\ SetIdle
    BY <1>1 DEF SetIdle
  <1>2. CASE run_queue # <<>> /\ StartSshRun(Head(run_queue), run[Head(run_queue)], cwds)
    <2>1. Head(run_queue) \in RunIds /\ run[Head(run_queue)].phase = "accepted"
      BY <1>2, HeadTailProperties DEF IInv, TypeOK, QueueShape
    <2>2. QED
      BY <1>2, <2>1, StartMoves DEF IInv
  <1>3. QED
    BY <1>1, <1>2 DEF PumpRunQueue

\* finish().
LEMMA FinishGoesOn ==
  ASSUME IInv, StepsInv, Open, bundle.active, accepted' = accepted,
         session = None \/ (session \in RunIds /\ Done(session)),
         NEW status \in Statuses, Verdict(status), NEW b \in Bundle,
         b.base = bundle.base, b.size = bundle.size, NEW cwds, FinishBundle(b, status, cwds)
  PROVE  StepsInv'
  <1>1. journal' = Append(journal, BundleEntry(b, status)) /\ bundle' = Retired(b)
    BY DEF FinishBundle
  <1>2. \A q \in RunIds : run[q].phase # "accepted" => run'[q] = run[q]
    BY PumpMoves DEF FinishBundle, SetIdle
  <1>3. \A q \in RunIds : run[q].phase = "unused" \/ Done(q) => run'[q] = run[q]
    BY <1>2 DEF Done
  <1>4. QED
    BY <1>1, <1>3, FinishLine

\* start_ssh_run starts the run.
LEMMA StartedPhase ==
  ASSUME TypeOK, NEW r \in RunIds, NEW k \in Nat, NEW s \in Servers, NEW d \in WorkDirs \cup {NoDir},
         NEW cwds \in [Servers -> Dirs], StartSshRun(r, NewRun(k, s, d), cwds)
  PROVE  session' = r /\ run'[r].phase = "spawned"
  <1>1. NewRun(k, s, d) \in Run /\ NewRun(k, s, d).server = s
    BY NewRunType
  <1>2. QED
    BY <1>1, StartedType DEF StartSshRun, TypeOK

\* run_step goes on with the active bundle.
LEMMA RunStepGoesOn ==
  ASSUME IInv, StepsInv, Open, bundle.active, accepted' = accepted,
         session = None \/ (session \in RunIds /\ Done(session) /\ run[session].status = "ok"),
         NEW b, NEW cwds \in [Servers -> Dirs], RunStep(b, cwds), b.base = bundle.base,
         b.server = bundle.server, b.size = bundle.size,
         b.index = IF session = None THEN bundle.index ELSE bundle.index + 1
  PROVE  StepsInv'
  <1> DEFINE r == b.base + b.index + 1
  <1>1. /\ bundle.index \in Nat /\ bundle.base \in Nat /\ bundle.size \in Nat
        /\ bundle.server \in Servers /\ bundle.base + bundle.size <= accepted
        /\ accepted \in 0 .. MaxRuns /\ MaxRuns \in Nat /\ TypeOK
        /\ session # None => session = bundle.base + bundle.index + 1
    BY RunsAssumption DEF IInv, TypeOK, Bundle, BundleShape, StepMatchesBundle
  <1>2. b.index \in Nat /\ b.index < b.size
    BY <1>1 DEF RunStep
  <1>3. r \in RunIds /\ r > bundle.base + bundle.index /\ r <= bundle.base + bundle.size /\ r # session
    BY <1>1, <1>2 DEF RunIds, None
  <1>4. ~Done(r) /\ r > bundle.base
    BY <1>1, <1>3 DEF IInv, BundleShape, Done
  <1>5. PICK d \in WorkDirs \cup {NoDir} : StartSshRun(r, NewRun(b.index + 1, b.server, d), cwds)
    BY DEF RunStep
  <1>6. bundle' = b /\ journal' = journal
    BY DEF RunStep
  <1> HIDE DEF r
  <1>7. RunsGoOn
    <2>1. accepted' \in Nat /\ accepted' >= accepted
      BY <1>1
    <2>2. QED
      BY <1>1, <1>3, <1>4, <1>5, <2>1, StartMoves, OneMoves
  <1>8. session' = r /\ run'[r].phase = "spawned"
    BY <1>1, <1>2, <1>3, <1>5, StartedPhase
  <1>9. QED
    BY <1>6, <1>7, <1>8, StepGoesOn

\* At most a cancel flag is set.
CancelOnly ==
  \A q \in RunIds : /\ run'[q].phase = run[q].phase /\ run'[q].status = run[q].status
                    /\ run'[q].server = run[q].server /\ run'[q].dir = run[q].dir

LEMMA CancelGoesOn ==
  ASSUME TypeOK, StepsInv, CancelOnly, UNCHANGED <<session, journal, accepted>>,
         Open' /\ bundle'.active => Open /\ bundle.active /\ bundle'.base = bundle.base
                                    /\ bundle'.index = bundle.index
  PROVE  StepsInv'
  <1>1. accepted' \in Nat /\ accepted' >= accepted
    BY RunsAssumption DEF TypeOK
  <1>2. RunsGoOn
    BY <1>1 DEF RunsGoOn, CancelOnly, Done
  <1>3. session \in RunIds => (Done(session)' <=> Done(session))
    BY DEF CancelOnly, Done
  <1>4. QED
    BY <1>2, <1>3, SameReport

LEMMA RunCommandGoesOn ==
  ASSUME IInv, StepsInv, NEW s \in Servers, NEW d \in WorkDirs \cup {NoDir}, RunCommand(s, d)
  PROVE  StepsInv'
  <1> DEFINE r == accepted + 1
  <1>1. /\ Open /\ app' = app /\ journal' = journal /\ bundle' = bundle /\ accepted' = r
        /\ accepted \in Nat /\ r \in RunIds /\ TypeOK /\ run \in [RunIds -> Run]
    <2>1. Open /\ app' = app /\ journal' = journal /\ accepted < MaxRuns /\ bundle' = bundle /\ accepted' = r
      BY DEF RunCommand
    <2>2. TypeOK /\ accepted \in Nat /\ MaxRuns \in Nat /\ run \in [RunIds -> Run]
      BY RunsAssumption DEF IInv, TypeOK
    <2>3. QED
      BY <2>1, <2>2 DEF RunIds
  <1>2. run[r].phase = "unused"
    BY <1>1 DEF IInv, RunShape
  <1>3. ~Done(r) /\ r > accepted /\ accepted' \in Nat /\ accepted' >= accepted
    BY <1>1, <1>2 DEF Done
  <1> HIDE DEF r
  <1>4. CASE run' = [run EXCEPT ![r] = NewRun(0, s, d)] /\ session' = session
    <2>1. \A q \in RunIds \ {r} : run'[q] = run[q]
      BY <1>1, <1>4
    <2>2. RunsGoOn
      BY <1>1, <1>3, <2>1, OneMoves
    <2>3. session \in RunIds => run'[session] = run[session]
      <3>1. session \in RunIds => session # r
        BY <1>1, <1>2 DEF IInv, SessionShape, Started, None, RunIds
      <3>2. QED
        BY <2>1, <3>1
    <2>4. session \in RunIds => (Done(session)' <=> Done(session))
      BY <1>4, <2>3 DEF Done
    <2>5. QED
      BY <1>1, <1>4, <2>2, <2>4, SameReport DEF Open
  <1>5. CASE ~busy /\ StartSshRun(r, NewRun(0, s, d), remote_cwd)
    <2>1. ~bundle.active
      BY <1>1, <1>5 DEF IInv, StepMatchesBundle
    <2>2. RunsGoOn
      BY <1>1, <1>3, <1>5, StartMoves, OneMoves
    <2>3. QED
      BY <1>1, <2>1, <2>2, NoBundle
  <1>6. QED
    BY <1>4, <1>5 DEF RunCommand, r

LEMMA StartBundleGoesOn ==
  ASSUME IInv, StepsInv, NEW s \in Servers, NEW n \in 1 .. MaxSteps, NEW pause \in BOOLEAN,
         StartBundle(s, n, pause)
  PROVE  StepsInv'
  <1> DEFINE b == [active |-> TRUE, cancel |-> FALSE, waiting |-> FALSE, index |-> 0,
                   size |-> n, pause |-> pause, base |-> accepted, server |-> s]
  <1>1. /\ Open /\ app' = app /\ accepted \in Nat /\ n \in Nat \ {0} /\ MaxRuns \in Nat
        /\ accepted + n <= MaxRuns /\ accepted' = accepted + n
        /\ accepted' \in Nat /\ accepted' >= accepted
        /\ TypeOK /\ run \in [RunIds -> Run]
        /\ \A q \in RunIds : q > accepted => run[q].phase = "unused"
    <2>1. Open /\ app' = app /\ accepted + n <= MaxRuns /\ accepted' = accepted + n
      BY DEF StartBundle
    <2>2. TypeOK /\ RunShape
      BY DEF IInv
    <2>3. accepted \in Nat /\ n \in Nat \ {0} /\ MaxRuns \in Nat /\ MaxSteps \in Nat
      BY <2>2, RunsAssumption DEF TypeOK
    <2>4. run \in [RunIds -> Run] /\ \A q \in RunIds : q > accepted => run[q].phase = "unused"
      BY <2>2 DEF TypeOK, RunShape
    <2>5. QED
      BY <2>1, <2>2, <2>3, <2>4
  <1>2. ASSUME UNCHANGED <<session, bundle, journal>>,
               NEW dir \in [1 .. n -> WorkDirs \cup {NoDir}],
               run' = [r \in RunIds |-> IF r \in accepted + 1 .. accepted + n
                                          THEN NewRun(0, s, dir[r - accepted]) ELSE run[r]]
        PROVE  StepsInv'
    <2>1. \A q \in RunIds : run[q].phase # "unused" \/ q <= accepted => run'[q] = run[q]
      BY <1>1, <1>2 DEF RunIds
    <2>2. RunsGoOn
      BY <1>1, <2>1 DEF RunsGoOn, Done
    <2>3. session \in RunIds => (Done(session)' <=> Done(session))
      BY <1>1, <1>2, <2>1 DEF IInv, SessionShape, Started, Done, None, RunIds
    <2>4. QED
      BY <1>1, <1>2, <2>2, <2>3, SameReport DEF Open
  <1>3. CASE ~busy /\ RunStep(b, remote_cwd)
    <2>1. /\ ~bundle.active /\ journal' = journal /\ bundle' = b
          /\ bundle'.base = accepted /\ bundle'.index = 0
      BY <1>1, <1>3 DEF IInv, StepMatchesBundle, RunStep
    <2>2. accepted + 1 \in RunIds /\ ~Done(accepted + 1)
      BY <1>1 DEF RunIds, Done
    <2>3. PICK d \in WorkDirs \cup {NoDir} : StartSshRun(accepted + 1, NewRun(1, s, d), remote_cwd)
      BY <1>1, <1>3 DEF RunStep
    <2>4. RunsGoOn
      <3>1. accepted + 1 > accepted
        BY <1>1
      <3>2. QED
        BY <1>1, <2>2, <2>3, <3>1, StartMoves, OneMoves
    <2>5. LinesInv'
      BY <1>1, <2>1, <2>4, OldLines DEF BundleGoesOn, StepsInv
    <2>6. session' = accepted + 1 /\ run'[accepted + 1].phase = "spawned"
      BY <1>1, <2>2, <2>3, StartedPhase DEF TypeOK
    <2>7. Reported' = 0
      BY <2>1, <2>6 DEF Reported, Done
    <2>8. Len(journal') \in Nat
      BY <1>1, <2>1, LenProperties DEF TypeOK
    <2>9. BundleOnRecord'
      BY <2>1, <2>7, <2>8 DEF BundleOnRecord
    <2>10. QED
      BY <2>5, <2>9 DEF StepsInv
  <1>4. QED
    BY <1>2, <1>3 DEF StartBundle

LEMMA StopGoesOn ==
  ASSUME IInv, StepsInv, Stop
  PROVE  StepsInv'
  <1>1. /\ TypeOK /\ session \in RunIds \cup {None} /\ accepted \in Nat /\ accepted' = accepted
        /\ run \in [RunIds -> Run] /\ Open /\ app' = app /\ bundle \in Bundle
    BY RunsAssumption DEF IInv, TypeOK, Stop
  <1>2. CASE session # None /\ run' = [run EXCEPT ![session].cancel = TRUE]
             /\ bundle' = (IF bundle.active THEN [bundle EXCEPT !.cancel = TRUE, !.waiting = FALSE]
                                            ELSE bundle)
             /\ UNCHANGED <<session, journal>>
    <2>1. CancelOnly
      BY <1>1, <1>2 DEF CancelOnly, Run
    <2>2. bundle'.active = bundle.active /\ bundle'.base = bundle.base /\ bundle'.index = bundle.index
      BY <1>1, <1>2 DEF Bundle
    <2>3. QED
      BY <1>1, <1>2, <2>1, <2>2, CancelGoesOn DEF Open
  <1>3. CASE session = None /\ bundle.active /\ journal' = Append(journal, BundleEntry(bundle, "cancelled"))
             /\ bundle' = Retired(bundle) /\ SetIdle
    BY <1>1, <1>3, FinishLine DEF SetIdle, Verdict, Statuses
  <1>4. QED
    BY <1>2, <1>3 DEF Stop

LEMMA BundleTickGoesOn ==
  ASSUME IInv, StepsInv, BundleTick
  PROVE  StepsInv'
  <1> DEFINE b == [bundle EXCEPT !.waiting = FALSE]
  <1>1. /\ Open /\ app' = app /\ bundle.active /\ bundle.waiting /\ RunStep(b, remote_cwd)
        /\ bundle \in Bundle /\ TypeOK /\ accepted' = accepted
    BY DEF BundleTick, IInv, TypeOK
  <1>2. session = None /\ bundle.index < bundle.size
    BY <1>1 DEF IInv, StepMatchesBundle
  <1>3. b.base = bundle.base /\ b.index = bundle.index /\ bundle' = b /\ journal' = journal
    BY <1>1 DEF Bundle, RunStep
  <1> HIDE DEF b
  <1>4. QED
    <2>1. remote_cwd \in [Servers -> Dirs] /\ b.server = bundle.server /\ b.size = bundle.size
      BY <1>1 DEF TypeOK, Bundle, b
    <2>2. QED
      BY <1>1, <1>2, <1>3, <2>1, RunStepGoesOn

\* The completion of the run on record: its bundle goes on, pauses or ends, or the
\* queue is pumped.
LEMMA CompletionGoesOn ==
  ASSUME IInv, StepsInv, Completion
  PROVE  StepsInv'
  <1> DEFINE job  == run[Head(events)]
             cwds == [remote_cwd EXCEPT ![job.server] = job.dir]
             next == [bundle EXCEPT !.index = @ + 1]
  <1>1. /\ Open /\ app' = app /\ events # <<>> /\ accepted' = accepted /\ TypeOK
        /\ run \in [RunIds -> Run] /\ bundle \in Bundle /\ session \in RunIds \cup {None}
    BY DEF Completion, IInv, TypeOK
  <1>2. /\ session \in RunIds /\ events = <<session>> /\ run[session].phase \in {"posted", "gone"}
        /\ session # None
    BY <1>1 DEF IInv, SessionShape
  <1>3. Done(session) /\ job = run[session] /\ run[session].status \in Statuses
    BY <1>1, <1>2 DEF Done, Run
  <1>4. \/ ~bundle.active /\ PumpRunQueue(cwds) /\ UNCHANGED <<bundle, journal>>
        \/ bundle.active /\ OnStepDone(run[session].status, cwds)
    BY <1>3 DEF Completion
  <1>5. cwds \in [Servers -> Dirs]
    BY <1>1, <1>2, <1>3 DEF IInv, RunShape, Started, TypeOK
  <1> HIDE DEF cwds, job
  <1>6. CASE ~bundle.active /\ PumpRunQueue(cwds) /\ UNCHANGED <<bundle, journal>>
    <2>1. RunsGoOn
      <3>1. accepted' \in Nat /\ accepted' >= accepted
        BY <1>1, RunsAssumption DEF TypeOK
      <3>2. \A q \in RunIds : run[q].phase # "accepted" => run'[q] = run[q]
        BY <1>1, <1>6, PumpMoves
      <3>3. QED
        BY <3>1, <3>2 DEF RunsGoOn, Done
    <2>2. QED
      BY <1>1, <1>6, <2>1, NoBundle
  <1>7. CASE bundle.active /\ OnStepDone(run[session].status, cwds)
    <2>1. /\ next \in Bundle /\ next.base = bundle.base /\ next.index = bundle.index + 1
          /\ next.size = bundle.size /\ next.server = bundle.server
      BY <1>1 DEF Bundle
    <2> HIDE DEF next
    <2>2. ASSUME NEW b \in {bundle, next}, NEW status \in Statuses, Verdict(status),
                 FinishBundle(b, status, cwds)
          PROVE  StepsInv'
      BY <1>1, <1>2, <1>3, <1>7, <2>1, <2>2, FinishGoesOn
    <2>3. CASE run[session].status = "ok" /\ next.index < next.size /\ RunStep(next, cwds)
      BY <1>1, <1>2, <1>3, <1>5, <1>7, <2>1, <2>3, RunStepGoesOn
    <2>4. CASE /\ run[session].status = "ok" /\ bundle' = [next EXCEPT !.waiting = TRUE]
               /\ session' = None /\ UNCHANGED <<run, journal>>
      <3>1. bundle'.base = bundle.base /\ bundle'.index = bundle.index + 1
        BY <2>1, <2>4 DEF Bundle
      <3>2. RunsGoOn
        BY <1>1, <2>4, RunsAssumption DEF RunsGoOn, Done, TypeOK
      <3>3. QED
        BY <1>1, <1>2, <1>3, <1>7, <2>4, <3>1, <3>2, StepGoesOn
    <2>5. \/ /\ bundle.cancel \/ run[session].status = "cancelled"
             /\ FinishBundle(bundle, "cancelled", cwds)
          \/ /\ run[session].status \notin {"ok", "cancelled"}
             /\ FinishBundle(bundle, run[session].status, cwds)
          \/ /\ run[session].status = "ok" /\ next.index = next.size
             /\ FinishBundle(next, "ok", cwds)
          \/ /\ run[session].status = "ok" /\ next.index < next.size
             /\ NextStep(next, cwds)
      BY <1>7 DEF OnStepDone, next
    <2>6. CASE FinishBundle(bundle, "cancelled", cwds)
      BY <2>2, <2>6 DEF Verdict, Statuses
    <2>7. CASE /\ run[session].status \notin {"ok", "cancelled"}
               /\ FinishBundle(bundle, run[session].status, cwds)
      BY <1>2, <1>3, <2>2, <2>7 DEF Verdict
    <2>8. CASE /\ run[session].status = "ok" /\ next.index = next.size
               /\ FinishBundle(next, "ok", cwds)
      BY <1>2, <2>1, <2>2, <2>8 DEF Verdict, Statuses
    <2>9. CASE run[session].status = "ok" /\ next.index < next.size /\ NextStep(next, cwds)
      BY <2>3, <2>4, <2>9 DEF NextStep
    <2>10. QED
      BY <2>5, <2>6, <2>7, <2>8, <2>9
  <1>8. QED
    BY <1>4, <1>6, <1>7

\* Closing, and what starts and ends nothing.
LEMMA WindowGoesOn ==
  ASSUME IInv, StepsInv, (\E s \in Servers : ResetCwd(s)) \/ Close \/ CloseWaitEnds \/ UNCHANGED vars
  PROVE  StepsInv'
  <1>1. /\ TypeOK /\ session \in RunIds \cup {None} /\ accepted \in Nat
        /\ run \in [RunIds -> Run]
    BY RunsAssumption DEF IInv, TypeOK
  <1>2. CancelOnly /\ UNCHANGED <<session, journal, accepted>>
    <2>1. CASE Close
      BY <1>1, <2>1 DEF Close, CancelOnly, Run
    <2>2. CASE ~Close
      BY <1>1, <2>2 DEF CancelOnly, ResetCwd, CloseWaitEnds, guiVars, vars
    <2>3. QED
      BY <2>1, <2>2
  <1>3. Open' => Open /\ bundle' = bundle
    BY DEF Close, ResetCwd, CloseWaitEnds, guiVars, vars, Open
  <1>4. QED
    BY <1>1, <1>2, <1>3, CancelGoesOn

LEMMA WorkerGoesOn ==
  ASSUME IInv, RecordInv, StepsInv, NEW r \in RunIds, WorkerStep(r) \/ RemoteEnds(r), TypeOK'
  PROVE  StepsInv'
  <1>1. /\ run \in [RunIds -> Run] /\ run' \in [RunIds -> Run] /\ TypeOK
        /\ accepted \in Nat
    BY RunsAssumption DEF IInv, TypeOK
  <1>2. CASE AppendJournal(r)
    BY <1>2, RunLine DEF StepsInv
  <1>3. CASE ~AppendJournal(r)
    <2>1. UNCHANGED <<app, session, bundle, accepted, journal>>
      BY <1>3 DEF WorkerStep, BeginRun, Connect, ConnectFails, LoopCancelled, RemoteEnds,
         PostCompletion, ThreadExit, WorkerSets, guiVars
    <2> DEFINE MovesOn ==
                 /\ \A q \in RunIds \ {r} : run'[q] = run[q]
                 /\ run[r].phase # "unused" /\ (Done(r)' <=> Done(r))
                 /\ Done(r) => run'[r].status = run[r].status /\ run'[r].server = run[r].server
                               /\ run'[r].dir = run[r].dir
    <2>2. MovesOn
      <3>1. ASSUME NEW job, WorkerSets(r, job), job.phase \in {"connecting", "looping", "ended"},
                   run[r].phase \in {"spawned", "connecting", "looping"}
            PROVE  MovesOn
        BY <1>1, <3>1 DEF WorkerSets, Done
      <3>2. CASE BeginRun(r) \/ Connect(r) \/ ConnectFails(r) \/ LoopCancelled(r) \/ RemoteEnds(r)
        <4>1. PICK job : /\ WorkerSets(r, job) /\ job.phase \in {"connecting", "looping", "ended"}
                         /\ run[r].phase \in {"spawned", "connecting", "looping"}
          BY <1>1, <3>2 DEF BeginRun, Connect, ConnectFails, LoopCancelled, RemoteEnds, InPhase, Run
        <4>2. QED
          BY <3>1, <4>1
      <3>3. CASE PostCompletion(r) \/ ThreadExit(r)
        BY <1>1, <3>3 DEF PostCompletion, ThreadExit, InPhase, Done, Run
      <3>4. QED
        BY <1>3, <3>2, <3>3 DEF WorkerStep
    <2>3. RunsGoOn
      <3>1. accepted' \in Nat /\ accepted' >= accepted
        BY <1>1, <2>1
      <3>2. QED
        BY <2>2, <3>1 DEF RunsGoOn, Done
    <2>4. session \in RunIds => (Done(session)' <=> Done(session))
      BY <2>1, <2>2 DEF Done
    <2>5. QED
      BY <1>1, <2>1, <2>3, <2>4, SameReport DEF Open
  <1>4. QED
    BY <1>2, <1>3

LEMMA InitTells == Init => StepsInv
  BY DEF Init, StepsInv, LinesInv, LinesTruthful, BundlesOver, BundleEntryTruthful, BundleOnRecord

LEMMA NextGoesOn == IInv /\ RecordInv /\ StepsInv /\ IInv' /\ [Next]_vars => StepsInv'
  <1> SUFFICES ASSUME IInv, RecordInv, StepsInv, IInv', [Next]_vars PROVE StepsInv'
    OBVIOUS
  <1>1. ASSUME NEW r \in RunIds, WorkerStep(r) \/ RemoteEnds(r) PROVE StepsInv'
    BY <1>1, WorkerGoesOn DEF IInv
  <1>2. CASE User
    BY <1>2, RunCommandGoesOn, StartBundleGoesOn, StopGoesOn, WindowGoesOn DEF User
  <1>3. QED
    BY <1>1, <1>2, BundleTickGoesOn, CompletionGoesOn, WindowGoesOn DEF Next, Exited

\* The line of a bundle tells what happened to its steps: the lines of those that ran stand
\* right before it, in order and nowhere else, and its status is theirs
\* (BundleController::finish, RunController's worker).
THEOREM BundleLinesAreTruthful == Spec => []BundleEntryTruthful
  <1>1. IInv /\ RecordInv /\ IInv' /\ [Next]_vars => RecordInv'
    BY NextMaps DEF Maps
  <1>2. StepsInv => BundleEntryTruthful
    BY DEF StepsInv, LinesInv
  <1>3. QED
    BY <1>1, <1>2, InitMaps, InitTells, NextGoesOn, Invariance, PTL DEF Spec

-----------------------------------------------------------------------------
(* Where runs start                                                         *)

\* The lines of the runs on server s.
LinesOn(s) == {i \in DOMAIN journal : journal[i].kind = "command" /\ journal[i].server = s}

\* One of them is the last.
HasLast == \A s \in Servers : LinesOn(s) = {} \/ \E i \in LinesOn(s) : \A j \in LinesOn(s) : j <= i

\* The run of session_ is on record, and is one on server s.
EndedOn(s) == session \in RunIds /\ Done(session) /\ run[session].server = s

\* remote_cwd_ knows where the last run on record on a server ended, or has been reset,
\* except for the server whose completion is still to be handled: there the run of
\* session_ knows it.
CwdInv ==
  /\ HasLast
  /\ Open => /\ session \in RunIds => busy_server_id = run[session].server
             /\ \A s \in Servers : EndedOn(s) \/ remote_cwd[s] \in {LastDir(s), Home}
             /\ \A s \in Servers : EndedOn(s) => LastDir(s) = run[session].dir

LEMMA LastDirOf ==
  ASSUME NEW s
  PROVE  /\ LastDir(s) = IF LinesOn(s) = {} THEN Home
                         ELSE journal[CHOOSE i \in LinesOn(s) : \A j \in LinesOn(s) : j <= i].dir
         /\ LastDir(s)' = IF LinesOn(s)' = {} THEN Home
                          ELSE journal'[CHOOSE i \in LinesOn(s)' : \A j \in LinesOn(s)' : j <= i].dir
  BY DEF LastDir, LinesOn

\* The line of a bundle, or of a run on another server, tells nothing of this one.
LEMMA LastDirStays ==
  ASSUME TypeOK, HasLast, NEW s \in Servers, LinesOn(s)' = LinesOn(s),
         \A i \in LinesOn(s) : journal'[i] = journal[i]
  PROVE  LastDir(s)' = LastDir(s)
  <1>1. CASE LinesOn(s) = {}
    BY <1>1, LastDirOf
  <1>2. CASE LinesOn(s) # {}
    <2> DEFINE last == CHOOSE i \in LinesOn(s) : \A j \in LinesOn(s) : j <= i
    <2>1. last \in LinesOn(s)
      BY <1>2 DEF HasLast
    <2>2. LastDir(s) = journal[last].dir
      BY <1>2, LastDirOf
    <2>3. LastDir(s)' = journal'[last].dir
      BY <1>2, LastDirOf
    <2>4. QED
      BY <2>1, <2>2, <2>3
  <1>3. QED
    BY <1>1, <1>2

LEMMA UntoldDirs ==
  ASSUME TypeOK, HasLast, NoRunRecorded
  PROVE  HasLast' /\ \A s \in Servers : LastDir(s)' = LastDir(s)
  <1>1. \A s \in Servers : LinesOn(s)' = LinesOn(s) /\ \A i \in LinesOn(s) : journal'[i] = journal[i]
    <2>1. CASE journal' = journal
      BY <2>1 DEF LinesOn
    <2>2. ASSUME NEW e \in Entry, e.kind = "bundle", journal' = Append(journal, e)
          PROVE  \A s \in Servers : /\ LinesOn(s)' = LinesOn(s)
                                    /\ \A i \in LinesOn(s) : journal'[i] = journal[i]
      BY <2>2, Appended DEF LinesOn
    <2>3. QED
      BY <2>1, <2>2 DEF NoRunRecorded
  <1>2. QED
    BY <1>1, LastDirStays DEF HasLast

\* The line of a run is the last of its server.
LEMMA ToldDirs ==
  ASSUME TypeOK, HasLast, NEW e \in Entry, e.kind = "command", journal' = Append(journal, e)
  PROVE  /\ HasLast'
         /\ \A s \in Servers : s # e.server => LastDir(s)' = LastDir(s)
         /\ e.server \in Servers => LastDir(e.server)' = e.dir
  <1> DEFINE n == Len(journal)
  <1>1. /\ DOMAIN journal = 1 .. n /\ n \in Nat /\ DOMAIN journal' = 1 .. n + 1
        /\ \A i \in 1 .. n : journal'[i] = journal[i]
        /\ journal'[n + 1] = e
    BY Appended
  <1> HIDE DEF n
  <1>2. ASSUME NEW s \in Servers, s # e.server
        PROVE  LinesOn(s)' = LinesOn(s) /\ \A i \in LinesOn(s) : journal'[i] = journal[i]
    BY <1>1, <1>2 DEF LinesOn
  <1>3. ASSUME e.server \in Servers
        PROVE  n + 1 \in LinesOn(e.server)' /\ \A j \in LinesOn(e.server)' : j <= n + 1
    BY <1>1, <1>3 DEF LinesOn
  <1>4. HasLast'
    BY <1>2, <1>3 DEF HasLast
  <1>5. e.server \in Servers => LastDir(e.server)' = e.dir
    <2> SUFFICES ASSUME e.server \in Servers PROVE LastDir(e.server)' = e.dir
      OBVIOUS
    <2> DEFINE last == CHOOSE i \in LinesOn(e.server)' : \A j \in LinesOn(e.server)' : j <= i
    <2>1. last \in LinesOn(e.server)' /\ \A j \in LinesOn(e.server)' : j <= last
      BY <1>3
    <2>2. last \in 1 .. n + 1
      BY <1>1, <2>1 DEF LinesOn
    <2>3. last = n + 1
      BY <1>1, <1>3, <2>1, <2>2
    <2>4. QED
      BY <1>1, <1>3, <2>3, LastDirOf
  <1>6. QED
    BY <1>2, <1>4, <1>5, LastDirStays

\* Nothing starts and no line of a run is written.
LEMMA SameCwd ==
  ASSUME TypeOK, CwdInv, NoRunRecorded, UNCHANGED <<session, busy_server_id>>, Open' => Open,
         session \in RunIds => /\ Done(session)' <=> Done(session)
                               /\ run'[session].server = run[session].server
                               /\ Done(session) => run'[session].dir = run[session].dir,
         \A s \in Servers : remote_cwd'[s] \in {remote_cwd[s], Home}
  PROVE  CwdInv'
  <1>1. \A s \in Servers : EndedOn(s)' <=> EndedOn(s)
    BY DEF EndedOn, Done
  <1>2. QED
    BY <1>1, UntoldDirs DEF CwdInv, EndedOn

\* The run of session_, if any, has just started.
LEMMA StartedCwd ==
  ASSUME TypeOK, CwdInv, Open, NoRunRecorded,
         \A s \in Servers : remote_cwd'[s] \in {LastDir(s), Home},
         session' \in RunIds =>
           run'[session'].phase = "spawned" /\ busy_server_id' = run'[session'].server
  PROVE  CwdInv'
  <1>1. \A s \in Servers : ~EndedOn(s)'
    BY DEF EndedOn, Done
  <1>2. QED
    BY <1>1, UntoldDirs DEF CwdInv

\* The worker writes where its run ended.
LEMMA AppendJournalCwd ==
  ASSUME IInv, RecordInv, CwdInv, NEW r \in RunIds, AppendJournal(r)
  PROVE  CwdInv'
  <1> DEFINE e == [kind |-> "command", run |-> r, step |-> run[r].step, server |-> run[r].server,
                   dir |-> run[r].dir, status |-> run[r].status]
  <1>1. TypeOK /\ run \in [RunIds -> Run] /\ run[r].phase = "ended" /\ r \in Nat
    BY DEF IInv, TypeOK, AppendJournal, InPhase, RunIds
  <1>2. /\ e \in Entry /\ e.kind = "command" /\ journal' = Append(journal, e)
        /\ e.server = run[r].server /\ e.dir = run[r].dir
    BY <1>1 DEF AppendJournal, Entry, Run
  <1>3. /\ run'[r].phase = "journaled" /\ run'[r].server = run[r].server /\ run'[r].dir = run[r].dir
    BY <1>1 DEF AppendJournal, Run
  <1>4. UNCHANGED <<app, session, remote_cwd, busy_server_id>>
    BY DEF AppendJournal, guiVars
  <1> HIDE DEF e
  <1>5. session = r /\ run[r].server \in Servers
    BY <1>1 DEF RecordInv, Working, IInv, RunShape, Started
  <1>6. \A s \in Servers : (EndedOn(s)' <=> s = run[r].server) /\ ~EndedOn(s)
    BY <1>1, <1>3, <1>4, <1>5 DEF EndedOn, Done
  <1>7. /\ HasLast' /\ \A s \in Servers : s = run[r].server => LastDir(s)' = run[r].dir
        /\ \A s \in Servers : s # run[r].server => LastDir(s)' = LastDir(s)
    BY <1>1, <1>2, <1>5, ToldDirs DEF CwdInv
  <1>8. QED
    BY <1>3, <1>4, <1>5, <1>6, <1>7 DEF CwdInv, Open

\* start_ssh_run remembers the server of the run it starts.
LEMMA StartSshRunCwd ==
  ASSUME TypeOK, CwdInv, Open, NoRunRecorded, NEW r \in RunIds, NEW job \in Run, job.server \in Servers,
         NEW cwds \in [Servers -> Dirs], StartSshRun(r, job, cwds),
         \A s \in Servers : remote_cwd'[s] \in {LastDir(s), Home}
  PROVE  CwdInv'
  <1>1. session' = r /\ run'[r].phase = "spawned" /\ busy_server_id' = run'[r].server
    BY StartedType DEF StartSshRun, TypeOK
  <1>2. QED
    BY <1>1, StartedCwd

\* With no run in flight every server's directory is known.
LEMMA IdleCwd ==
  ASSUME CwdInv, Open, session = None
  PROVE  \A s \in Servers : remote_cwd[s] \in {LastDir(s), Home}
  <1>1. session \notin RunIds
    BY DEF None, RunIds
  <1>2. QED
    BY <1>1 DEF CwdInv, EndedOn

LEMMA RunCommandCwd ==
  ASSUME IInv, CwdInv, NEW s \in Servers, NEW d \in WorkDirs \cup {NoDir}, RunCommand(s, d)
  PROVE  CwdInv'
  <1> DEFINE r == accepted + 1
  <1>1. /\ Open /\ app' = app /\ journal' = journal /\ remote_cwd' = remote_cwd /\ TypeOK
        /\ accepted \in Nat /\ r \in RunIds /\ run \in [RunIds -> Run] /\ NoRunRecorded
    <2>1. /\ Open /\ app' = app /\ journal' = journal /\ accepted < MaxRuns /\ remote_cwd' = remote_cwd
          /\ NoRunRecorded
      BY DEF RunCommand, NoRunRecorded
    <2>2. TypeOK /\ accepted \in Nat /\ MaxRuns \in Nat /\ run \in [RunIds -> Run]
      BY RunsAssumption DEF IInv, TypeOK
    <2>3. QED
      BY <2>1, <2>2 DEF RunIds
  <1>2. run[r].phase = "unused"
    BY <1>1 DEF IInv, RunShape
  <1> HIDE DEF r
  <1>3. CASE /\ run' = [run EXCEPT ![r] = NewRun(0, s, d)]
             /\ UNCHANGED <<session, busy_server_id>>
    <2>1. session \in RunIds => session # r
      BY <1>1, <1>2 DEF IInv, SessionShape, Started, None, RunIds
    <2>2. session \in RunIds => run'[session] = run[session]
      BY <1>1, <1>3, <2>1
    <2>3. QED
      BY <1>1, <1>3, <2>2, SameCwd DEF Open, Done
  <1>4. CASE ~busy /\ StartSshRun(r, NewRun(0, s, d), remote_cwd)
    <2>1. session = None /\ remote_cwd \in [Servers -> Dirs]
      BY <1>1, <1>4 DEF IInv, BusyIffWork, TypeOK
    <2>2. NewRun(0, s, d) \in Run /\ NewRun(0, s, d).server = s
      BY NewRunType
    <2>3. QED
      BY <1>1, <1>4, <2>1, <2>2, IdleCwd, StartSshRunCwd
  <1>5. QED
    BY <1>3, <1>4 DEF RunCommand, r

\* run_step begins a step with the directories as they stand.
LEMMA RunStepCwd ==
  ASSUME TypeOK, CwdInv, Open, NEW cwds \in [Servers -> Dirs], NEW b \in Bundle,
         b.server \in Servers, b.base + b.index + 1 \in RunIds, RunStep(b, cwds),
         \A s \in Servers : remote_cwd'[s] \in {LastDir(s), Home}
  PROVE  CwdInv'
  <1> DEFINE r == b.base + b.index + 1
  <1>1. PICK d \in WorkDirs \cup {NoDir} : StartSshRun(r, NewRun(b.index + 1, b.server, d), cwds)
    BY DEF RunStep
  <1>2. /\ NewRun(b.index + 1, b.server, d) \in Run
        /\ NewRun(b.index + 1, b.server, d).server = b.server
    <2>1. b.index + 1 \in Nat
      BY DEF Bundle
    <2>2. QED
      BY <2>1, NewRunType
  <1>3. NoRunRecorded
    BY DEF RunStep, NoRunRecorded
  <1> HIDE DEF r
  <1>4. QED
    BY <1>1, <1>2, <1>3, StartSshRunCwd DEF r

LEMMA StartBundleCwd ==
  ASSUME IInv, CwdInv, NEW s \in Servers, NEW n \in 1 .. MaxSteps, NEW pause \in BOOLEAN,
         StartBundle(s, n, pause)
  PROVE  CwdInv'
  <1> DEFINE b == [active |-> TRUE, cancel |-> FALSE, waiting |-> FALSE, index |-> 0,
                   size |-> n, pause |-> pause, base |-> accepted, server |-> s]
  <1>1. /\ Open /\ app' = app /\ accepted \in Nat /\ n \in Nat \ {0} /\ MaxRuns \in Nat
        /\ accepted + n <= MaxRuns /\ remote_cwd' = remote_cwd
        /\ TypeOK /\ run \in [RunIds -> Run]
        /\ \A q \in RunIds : q > accepted => run[q].phase = "unused"
    <2>1. Open /\ app' = app /\ accepted + n <= MaxRuns /\ remote_cwd' = remote_cwd
      BY DEF StartBundle
    <2>2. TypeOK /\ RunShape
      BY DEF IInv
    <2>3. accepted \in Nat /\ n \in Nat \ {0} /\ MaxRuns \in Nat /\ MaxSteps \in Nat
      BY <2>2, RunsAssumption DEF TypeOK
    <2>4. run \in [RunIds -> Run] /\ \A q \in RunIds : q > accepted => run[q].phase = "unused"
      BY <2>2 DEF TypeOK, RunShape
    <2>5. QED
      BY <2>1, <2>2, <2>3, <2>4
  <1>2. ASSUME UNCHANGED <<session, busy_server_id, journal>>,
               NEW dir \in [1 .. n -> WorkDirs \cup {NoDir}],
               run' = [r \in RunIds |-> IF r \in accepted + 1 .. accepted + n
                                          THEN NewRun(0, s, dir[r - accepted]) ELSE run[r]]
        PROVE  CwdInv'
    <2>1. \A q \in RunIds : run[q].phase # "unused" => run'[q] = run[q]
      BY <1>1, <1>2 DEF RunIds
    <2>2. session \in RunIds => run'[session] = run[session]
      BY <1>1, <2>1 DEF IInv, SessionShape, Started, None, RunIds
    <2>3. NoRunRecorded
      BY <1>2 DEF NoRunRecorded
    <2>4. QED
      BY <1>1, <1>2, <2>2, <2>3, SameCwd DEF Open, Done
  <1>3. CASE ~busy /\ RunStep(b, remote_cwd)
    <2>1. session = None /\ remote_cwd \in [Servers -> Dirs]
      BY <1>1, <1>3 DEF IInv, BusyIffWork, TypeOK
    <2>2. b \in Bundle /\ b.server \in Servers /\ b.base + b.index + 1 \in RunIds
      BY <1>1 DEF Bundle, RunIds
    <2> HIDE DEF b
    <2>3. QED
      BY <1>1, <1>3, <2>1, <2>2, IdleCwd, RunStepCwd
  <1>4. QED
    BY <1>2, <1>3 DEF StartBundle

LEMMA BundleTickCwd ==
  ASSUME IInv, CwdInv, BundleTick
  PROVE  CwdInv'
  <1> DEFINE b == [bundle EXCEPT !.waiting = FALSE]
  <1>1. /\ Open /\ bundle.active /\ bundle.waiting /\ RunStep(b, remote_cwd)
        /\ remote_cwd' = remote_cwd /\ bundle \in Bundle /\ remote_cwd \in [Servers -> Dirs] /\ TypeOK
    BY DEF BundleTick, IInv, TypeOK
  <1>2. session = None /\ bundle.index < bundle.size
    BY <1>1 DEF IInv, StepMatchesBundle
  <1>3. /\ b \in Bundle /\ b.base = bundle.base /\ b.index = bundle.index
        /\ b.server = bundle.server
    BY <1>1 DEF Bundle
  <1>4. bundle.server \in Servers /\ bundle.base + bundle.index + 1 \in RunIds
    <2>1. /\ bundle.server \in Servers /\ bundle.base + bundle.size <= accepted
          /\ accepted \in Nat /\ accepted <= MaxRuns /\ MaxRuns \in Nat
          /\ bundle.base \in Nat /\ bundle.index \in Nat /\ bundle.size \in Nat
      BY <1>1, RunsAssumption DEF IInv, TypeOK, BundleShape, Bundle
    <2>2. QED
      BY <1>2, <2>1, StepIdInBundle DEF RunIds
  <1> HIDE DEF b
  <1>5. QED
    BY <1>1, <1>2, <1>3, <1>4, IdleCwd, RunStepCwd

\* Stop, closing, and what starts and ends nothing.
LEMMA WindowCwd ==
  ASSUME IInv, CwdInv,
         Stop \/ (\E s \in Servers : ResetCwd(s)) \/ Close \/ CloseWaitEnds \/ UNCHANGED vars
  PROVE  CwdInv'
  <1>1. /\ TypeOK /\ run \in [RunIds -> Run] /\ session \in RunIds \cup {None}
        /\ remote_cwd \in [Servers -> Dirs] /\ bundle \in Bundle
    BY DEF IInv, TypeOK
  <1>2. CASE Stop /\ session = None
    <2>1. /\ Open /\ journal' = Append(journal, BundleEntry(bundle, "cancelled"))
          /\ session' = None /\ remote_cwd' = remote_cwd
      BY <1>2 DEF Stop, SetIdle
    <2>2. /\ BundleEntry(bundle, "cancelled") \in Entry
          /\ BundleEntry(bundle, "cancelled").kind = "bundle"
      BY <1>1, BundleEntryType DEF BundleEntry, Statuses
    <2>3. NoRunRecorded
      BY <2>1, <2>2 DEF NoRunRecorded
    <2>4. session' \notin RunIds
      BY <2>1 DEF None, RunIds
    <2>5. QED
      BY <1>1, <1>2, <2>1, <2>3, <2>4, IdleCwd, StartedCwd
  <1>3. CASE ~(Stop /\ session = None)
    <2>1. /\ UNCHANGED <<session, busy_server_id, journal>>
          /\ Open' => Open
          /\ \A s \in Servers : remote_cwd'[s] \in {remote_cwd[s], Home}
      BY <1>1, <1>3 DEF Stop, ResetCwd, Close, CloseWaitEnds, vars, guiVars, Open
    <2>2. run' = run \/ (session # None /\ run' = [run EXCEPT ![session].cancel = TRUE])
      BY <1>3 DEF Stop, ResetCwd, Close, CloseWaitEnds, vars, guiVars
    <2>3. \A q \in RunIds : /\ run'[q].phase = run[q].phase /\ run'[q].dir = run[q].dir
                            /\ run'[q].server = run[q].server
      BY <1>1, <2>2 DEF Run
    <2>4. session \in RunIds => /\ Done(session)' <=> Done(session)
                                /\ run'[session].server = run[session].server
                                /\ Done(session) => run'[session].dir = run[session].dir
      BY <2>1, <2>3 DEF Done
    <2>5. NoRunRecorded
      BY <2>1 DEF NoRunRecorded
    <2>6. QED
      BY <1>1, <2>1, <2>4, <2>5, SameCwd
  <1>4. QED
    BY <1>2, <1>3

LEMMA WorkerCwd ==
  ASSUME IInv, RecordInv, CwdInv, NEW r \in RunIds, WorkerStep(r) \/ RemoteEnds(r)
  PROVE  CwdInv'
  <1>1. run \in [RunIds -> Run] /\ TypeOK
    BY DEF IInv, TypeOK
  <1>2. CASE AppendJournal(r)
    BY <1>2, AppendJournalCwd
  <1>3. CASE ~AppendJournal(r)
    <2>1. UNCHANGED <<app, session, busy_server_id, remote_cwd, journal>>
      BY <1>3 DEF WorkerStep, BeginRun, Connect, ConnectFails, LoopCancelled, RemoteEnds,
         PostCompletion, ThreadExit, WorkerSets, guiVars
    <2> DEFINE Moves ==
                 \A q \in RunIds : /\ Done(q)' <=> Done(q)
                                   /\ run'[q].server = run[q].server
                                   /\ Done(q) => run'[q].dir = run[q].dir
    <2>2. Moves
      <3>1. ASSUME NEW job, WorkerSets(r, job), job.phase \in {"connecting", "looping", "ended"},
                   job.server = run[r].server, run[r].phase \in {"spawned", "connecting", "looping"}
            PROVE  Moves
        BY <1>1, <3>1 DEF WorkerSets, Done
      <3>2. CASE BeginRun(r) \/ Connect(r) \/ ConnectFails(r) \/ LoopCancelled(r) \/ RemoteEnds(r)
        <4>1. PICK job : /\ WorkerSets(r, job) /\ job.phase \in {"connecting", "looping", "ended"}
                         /\ job.server = run[r].server
                         /\ run[r].phase \in {"spawned", "connecting", "looping"}
          BY <1>1, <3>2 DEF BeginRun, Connect, ConnectFails, LoopCancelled, RemoteEnds, InPhase, Run
        <4>2. QED
          BY <3>1, <4>1
      <3>3. CASE PostCompletion(r) \/ ThreadExit(r)
        BY <1>1, <3>3 DEF PostCompletion, ThreadExit, InPhase, Done, Run
      <3>4. QED
        BY <1>3, <3>2, <3>3 DEF WorkerStep
    <2>3. session \in RunIds => /\ Done(session)' <=> Done(session)
                                /\ run'[session].server = run[session].server
                                /\ Done(session) => run'[session].dir = run[session].dir
      BY <2>1, <2>2 DEF Done
    <2>4. QED
      BY <1>1, <2>1, <2>3, SameCwd DEF NoRunRecorded, Open
  <1>4. QED
    BY <1>2, <1>3


\* pump_run_queue starts the front of the queue, or rests.
LEMMA PumpCwd ==
  ASSUME IInv, CwdInv, Open, NoRunRecorded, NEW cwds \in [Servers -> Dirs], PumpRunQueue(cwds),
         \A s \in Servers : remote_cwd'[s] \in {LastDir(s), Home}
  PROVE  CwdInv'
  <1>1. CASE SetIdle
    BY <1>1, StartedCwd DEF SetIdle, None, RunIds, IInv
  <1>2. CASE run_queue # <<>> /\ StartSshRun(Head(run_queue), run[Head(run_queue)], cwds)
    <2> DEFINE r == Head(run_queue)
    <2>1. r \in RunIds /\ run[r].phase = "accepted"
      BY <1>2, HeadTailProperties DEF IInv, TypeOK, QueueShape
    <2>2. run[r] \in Run /\ run[r].server \in Servers
      BY <2>1 DEF IInv, TypeOK, RunShape
    <2>3. QED
      BY <1>2, <2>1, <2>2, StartSshRunCwd DEF IInv
  <1>3. QED
    BY <1>1, <1>2 DEF PumpRunQueue

\* The completion is that of session_, whose run is on record.
LEMMA CompletedRun ==
  ASSUME IInv, Completion
  PROVE  LET job  == run[Head(events)]
             cwds == [remote_cwd EXCEPT ![job.server] = job.dir]
         IN /\ job = run[session] /\ EndedOn(job.server) /\ job.server \in Servers
            /\ cwds \in [Servers -> Dirs] /\ job.status \in Statuses
            /\ \A s \in Servers : cwds[s] = IF s = job.server THEN job.dir ELSE remote_cwd[s]
  <1>1. /\ Open /\ events # <<>> /\ run \in [RunIds -> Run] /\ session \in RunIds \cup {None}
        /\ remote_cwd \in [Servers -> Dirs]
    BY DEF Completion, IInv, TypeOK
  <1>2. /\ session \in RunIds /\ events = <<session>> /\ run[session].phase \in {"posted", "gone"}
    BY <1>1 DEF IInv, SessionShape
  <1>3. run[session].server \in Servers /\ run[session].dir \in Dirs /\ run[session].status \in Statuses
    BY <1>1, <1>2 DEF IInv, RunShape, Started, Run
  <1>4. QED
    BY <1>1, <1>2, <1>3 DEF EndedOn, Done

\* The completion stores the directory of its run, and then the next one may start with it.
LEMMA CompletionCwd ==
  ASSUME IInv, CwdInv, Completion
  PROVE  CwdInv'
  <1> DEFINE job  == run[Head(events)]
             cwds == [remote_cwd EXCEPT ![job.server] = job.dir]
             next == [bundle EXCEPT !.index = @ + 1]
  <1>1. /\ Open /\ TypeOK /\ bundle \in Bundle /\ remote_cwd' = cwds
    BY DEF Completion, IInv, TypeOK
  <1>2. /\ job = run[session] /\ EndedOn(job.server) /\ job.server \in Servers
        /\ cwds \in [Servers -> Dirs] /\ job.status \in Statuses
        /\ \A s \in Servers : cwds[s] = IF s = job.server THEN job.dir ELSE remote_cwd[s]
    BY CompletedRun
  <1>3. \A s \in Servers : cwds[s] \in {LastDir(s), Home}
    BY <1>1, <1>2 DEF CwdInv, EndedOn
  <1>4. /\ session \in RunIds
        /\ \/ ~bundle.active /\ PumpRunQueue(cwds) /\ UNCHANGED <<bundle, journal>>
           \/ bundle.active /\ OnStepDone(job.status, cwds)
    BY <1>2 DEF Completion, EndedOn
  <1> HIDE DEF cwds, job
  <1>5. ASSUME PumpRunQueue(cwds), NoRunRecorded PROVE CwdInv'
    BY <1>1, <1>2, <1>3, <1>5, PumpCwd
  <1>6. ASSUME NEW b \in Bundle, NEW status \in Statuses, FinishBundle(b, status, cwds)
        PROVE  CwdInv'
    <2>1. NoRunRecorded
      <3>1. BundleEntry(b, status) \in Entry /\ BundleEntry(b, status).kind = "bundle"
        BY BundleEntryType DEF BundleEntry
      <3>2. QED
        BY <1>6, <3>1 DEF FinishBundle, NoRunRecorded
    <2>2. CASE PumpRunQueue(cwds)
      BY <1>5, <2>1, <2>2
    <2>3. CASE SetIdle
      BY <1>1, <1>3, <2>1, <2>3, StartedCwd DEF SetIdle, None, RunIds
    <2>4. QED
      BY <1>6, <2>2, <2>3 DEF FinishBundle
  <1>7. CASE bundle.active /\ OnStepDone(job.status, cwds)
    <2>1. /\ next \in Bundle /\ next.base = bundle.base /\ next.index = bundle.index + 1
          /\ next.size = bundle.size /\ next.server = bundle.server
      BY <1>1 DEF Bundle
    <2> HIDE DEF next
    <2>2. CASE next.index < next.size /\ RunStep(next, cwds)
      <3>1. /\ bundle.server \in Servers /\ bundle.base + bundle.size <= accepted
            /\ accepted \in Nat /\ accepted <= MaxRuns /\ MaxRuns \in Nat
            /\ bundle.base \in Nat /\ bundle.index \in Nat /\ bundle.size \in Nat
        BY <1>1, <1>7, RunsAssumption DEF IInv, TypeOK, BundleShape, Bundle
      <3>2. next.base + next.index + 1 \in RunIds
        BY <2>1, <2>2, <3>1, StepIdInBundle DEF RunIds
      <3>3. QED
        BY <1>1, <1>2, <1>3, <2>1, <2>2, <3>1, <3>2, RunStepCwd
    <2>3. CASE session' = None /\ journal' = journal
      BY <1>1, <1>3, <2>3, StartedCwd DEF None, RunIds, NoRunRecorded
    <2>4. CASE \E b \in {bundle, next}, status \in Statuses : FinishBundle(b, status, cwds)
      BY <1>1, <1>6, <2>1, <2>4
    <2>5. QED
      BY <1>2, <1>7, <2>2, <2>3, <2>4 DEF OnStepDone, NextStep, next, Statuses
  <1>8. QED
    BY <1>4, <1>5, <1>7 DEF NoRunRecorded

LEMMA InitCwd == Init => CwdInv
  <1> SUFFICES ASSUME Init PROVE CwdInv
    OBVIOUS
  <1>1. /\ journal = <<>> /\ session = None
        /\ \A r \in RunIds : run[r].phase = "unused"
    BY DEF Init
  <1>2. \A s \in Servers : LinesOn(s) = {}
    BY <1>1 DEF LinesOn
  <1>3. session \notin RunIds
    BY <1>1 DEF None, RunIds
  <1>4. \A s \in Servers : LastDir(s) = Home /\ remote_cwd[s] = Home
    BY <1>2, LastDirOf DEF Init
  <1>5. QED
    BY <1>2, <1>3, <1>4 DEF CwdInv, HasLast, EndedOn

LEMMA NextCwd == IInv /\ RecordInv /\ CwdInv /\ [Next]_vars => CwdInv'
  <1> SUFFICES ASSUME IInv, RecordInv, CwdInv, [Next]_vars PROVE CwdInv'
    OBVIOUS
  <1>1. ASSUME NEW r \in RunIds, WorkerStep(r) \/ RemoteEnds(r) PROVE CwdInv'
    BY <1>1, WorkerCwd
  <1>2. CASE User
    BY <1>2, RunCommandCwd, StartBundleCwd, WindowCwd DEF User
  <1>3. QED
    BY <1>1, <1>2, BundleTickCwd, CompletionCwd, WindowCwd DEF Next, Exited

\* What CwdCarried says of a step.
CarriesCwd ==
  \A r \in RunIds :
    run[r].phase = "accepted" /\ run'[r].phase = "spawned" /\ run[r].dir = NoDir
      => \/ run'[r].dir = LastDir(run[r].server)
         \/ run'[r].dir = Home /\ busy_server_id # run[r].server

\* A step that starts no run that waits.
LEMMA NoWaitingStarts ==
  ASSUME \A r \in RunIds : run[r].phase = "accepted" => run'[r].phase # "spawned"
  PROVE  CarriesCwd
  BY DEF CarriesCwd

\* Runs that start at once have never waited.
LEMMA FreshStarts ==
  ASSUME IInv, NEW r \in RunIds, run[r].phase = "unused", NEW job, NEW cwds,
         StartSshRun(r, job, cwds)
  PROVE  CarriesCwd
  <1>1. \A q \in RunIds \ {r} : run'[q] = run[q]
    BY StartMoves DEF IInv
  <1>2. QED
    BY <1>1, NoWaitingStarts

\* pump_run_queue hands the stored directories on.
LEMMA PumpCarries ==
  ASSUME IInv, CwdInv, Completion,
         PumpRunQueue([remote_cwd EXCEPT ![run[Head(events)].server] = run[Head(events)].dir])
  PROVE  CarriesCwd
  <1> DEFINE job  == run[Head(events)]
             cwds == [remote_cwd EXCEPT ![job.server] = job.dir]
  <1>1. /\ job = run[session] /\ EndedOn(job.server) /\ job.server \in Servers
        /\ \A s \in Servers : cwds[s] = IF s = job.server THEN job.dir ELSE remote_cwd[s]
    BY CompletedRun
  <1>2. PumpRunQueue(cwds) /\ Open
    BY DEF Completion
  <1> HIDE DEF cwds, job
  <1>3. CASE run' = run
    BY <1>3, NoWaitingStarts
  <1>4. CASE run_queue # <<>> /\ StartSshRun(Head(run_queue), run[Head(run_queue)], cwds)
    <2> DEFINE r == Head(run_queue)
    <2>1. r \in RunIds /\ run[r].phase = "accepted" /\ TypeOK
      BY <1>2, <1>4, HeadTailProperties DEF IInv, TypeOK, QueueShape
    <2>2. run[r] \in Run /\ run[r].server \in Servers
      BY <2>1 DEF IInv, TypeOK, RunShape
    <2>3. \A q \in RunIds \ {r} : run'[q] = run[q]
      BY <1>4, <2>1, StartMoves
    <2>4. run'[r].dir = IF run[r].dir = NoDir THEN cwds[run[r].server] ELSE run[r].dir
      BY <1>4, <2>1, <2>2 DEF StartSshRun, TypeOK, Run
    <2> HIDE DEF r
    <2>5. ASSUME run[r].dir = NoDir
          PROVE  \/ run'[r].dir = LastDir(run[r].server)
                 \/ run'[r].dir = Home /\ busy_server_id # run[r].server
      <3>1. CASE run[r].server = job.server
        BY <1>1, <1>2, <2>2, <2>4, <2>5, <3>1 DEF CwdInv
      <3>2. CASE run[r].server # job.server
        <4>1. run'[r].dir \in {LastDir(run[r].server), Home}
          BY <1>1, <1>2, <2>2, <2>4, <2>5, <3>2 DEF CwdInv, EndedOn
        <4>2. busy_server_id = job.server
          BY <1>1, <1>2 DEF CwdInv, EndedOn
        <4>3. QED
          BY <3>2, <4>1, <4>2
      <3>3. QED
        BY <3>1, <3>2
    <2>6. QED
      BY <2>3, <2>5 DEF CarriesCwd
  <1>5. QED
    BY <1>2, <1>3, <1>4 DEF PumpRunQueue, SetIdle

LEMMA CompletionCarries ==
  ASSUME IInv, CwdInv, Completion
  PROVE  CarriesCwd
  <1> DEFINE cwds == [remote_cwd EXCEPT ![run[Head(events)].server] = run[Head(events)].dir]
             next == [bundle EXCEPT !.index = @ + 1]
  <1>1. CASE PumpRunQueue(cwds)
    BY <1>1, PumpCarries
  <1>2. CASE run' = run
    BY <1>2, NoWaitingStarts
  <1>3. CASE bundle.active /\ next.index < next.size /\ RunStep(next, cwds)
    <2>1. /\ bundle \in Bundle /\ TypeOK /\ Open /\ session \in RunIds
      BY CompletedRun DEF Completion, IInv, TypeOK, EndedOn
    <2>2. /\ next.base = bundle.base /\ next.index = bundle.index + 1 /\ next.size = bundle.size
      BY <2>1 DEF Bundle
    <2>3. /\ bundle.base + bundle.size <= accepted
          /\ accepted \in Nat /\ accepted <= MaxRuns /\ MaxRuns \in Nat
          /\ bundle.base \in Nat /\ bundle.index \in Nat /\ bundle.size \in Nat
          /\ session = bundle.base + bundle.index + 1
      BY <1>3, <2>1, RunsAssumption DEF IInv, TypeOK, BundleShape, Bundle, StepMatchesBundle, None, RunIds
    <2> DEFINE r == next.base + next.index + 1
    <2>4. r \in RunIds /\ r > bundle.base + bundle.index /\ r <= bundle.base + bundle.size /\ r # session
      BY <1>3, <2>2, <2>3 DEF RunIds
    <2>5. run[r].phase = "unused"
      BY <1>3, <2>1, <2>4 DEF IInv, BundleShape
    <2>6. PICK d \in WorkDirs \cup {NoDir} : StartSshRun(r, NewRun(next.index + 1, next.server, d), cwds)
      BY <1>3 DEF RunStep
    <2> HIDE DEF r, next, cwds
    <2>7. QED
      BY <2>4, <2>5, <2>6, FreshStarts
  <1>4. QED
    BY <1>1, <1>2, <1>3 DEF Completion, OnStepDone, NextStep, FinishBundle, SetIdle

LEMMA BundleTickCarries ==
  ASSUME IInv, BundleTick
  PROVE  CarriesCwd
  <1> DEFINE b == [bundle EXCEPT !.waiting = FALSE]
             r == b.base + b.index + 1
  <1>1. /\ Open /\ bundle.active /\ bundle.waiting /\ RunStep(b, remote_cwd) /\ bundle \in Bundle
    BY DEF BundleTick, IInv, TypeOK
  <1>2. session = None /\ bundle.index < bundle.size
    BY <1>1 DEF IInv, StepMatchesBundle
  <1>3. b.base = bundle.base /\ b.index = bundle.index
    BY <1>1 DEF Bundle
  <1>4. /\ bundle.base + bundle.size <= accepted
        /\ accepted \in Nat /\ accepted <= MaxRuns /\ MaxRuns \in Nat
        /\ bundle.base \in Nat /\ bundle.index \in Nat /\ bundle.size \in Nat
    BY <1>1, RunsAssumption DEF IInv, TypeOK, BundleShape, Bundle
  <1>5. r \in RunIds /\ r > bundle.base + bundle.index /\ r <= bundle.base + bundle.size /\ r # session
    BY <1>2, <1>3, <1>4 DEF RunIds, None
  <1>6. run[r].phase = "unused"
    BY <1>1, <1>5 DEF IInv, BundleShape
  <1>7. PICK d \in WorkDirs \cup {NoDir} : StartSshRun(r, NewRun(b.index + 1, b.server, d), remote_cwd)
    BY <1>1 DEF RunStep
  <1> HIDE DEF r, b
  <1>8. QED
    BY <1>5, <1>6, <1>7, FreshStarts

\* A request starts at once only when nothing waits before it.
LEMMA UserCarries ==
  ASSUME IInv, User
  PROVE  CarriesCwd
  <1>1. /\ accepted \in Nat /\ MaxRuns \in Nat /\ run \in [RunIds -> Run] /\ session \in RunIds \cup {None}
        /\ \A q \in RunIds : q > accepted => run[q].phase = "unused"
    BY RunsAssumption DEF IInv, TypeOK, RunShape
  <1>2. ASSUME NEW s \in Servers, NEW d \in WorkDirs \cup {NoDir}, RunCommand(s, d)
        PROVE  CarriesCwd
    <2>1. accepted + 1 \in RunIds /\ run[accepted + 1].phase = "unused"
      BY <1>1, <1>2 DEF RunCommand, RunIds
    <2>2. CASE run' = [run EXCEPT ![accepted + 1] = NewRun(0, s, d)]
      BY <1>1, <2>1, <2>2, NoWaitingStarts
    <2>3. QED
      BY <1>2, <2>1, <2>2, FreshStarts DEF RunCommand
  <1>3. ASSUME NEW s \in Servers, NEW n \in 1 .. MaxSteps, NEW pause \in BOOLEAN, StartBundle(s, n, pause)
        PROVE  CarriesCwd
    <2> DEFINE b == [active |-> TRUE, cancel |-> FALSE, waiting |-> FALSE, index |-> 0,
                     size |-> n, pause |-> pause, base |-> accepted, server |-> s]
    <2>1. n \in Nat \ {0} /\ accepted + n <= MaxRuns
      BY <1>3, RunsAssumption DEF StartBundle
    <2>2. accepted + 1 \in RunIds /\ run[accepted + 1].phase = "unused"
      BY <1>1, <2>1 DEF RunIds
    <2>3. ASSUME NEW dir,
                 run' = [r \in RunIds |-> IF r \in accepted + 1 .. accepted + n
                                          THEN NewRun(0, s, dir[r - accepted]) ELSE run[r]]
          PROVE  CarriesCwd
      <3>1. \A q \in RunIds : run'[q].phase = "accepted" \/ run'[q] = run[q]
        BY <2>3 DEF NewRun
      <3>2. QED
        BY <3>1, NoWaitingStarts
    <2>4. ASSUME NEW d, StartSshRun(accepted + 1, NewRun(1, s, d), remote_cwd)
          PROVE  CarriesCwd
      BY <2>2, <2>4, FreshStarts
    <2>5. RunStep(b, remote_cwd) => \E d : StartSshRun(accepted + 1, NewRun(1, s, d), remote_cwd)
      BY <1>1 DEF RunStep
    <2>6. QED
      BY <1>3, <2>3, <2>4, <2>5 DEF StartBundle
  <1>4. CASE Stop \/ Close \/ \E s \in Servers : ResetCwd(s)
    <2>1. run' = run \/ (session # None /\ run' = [run EXCEPT ![session].cancel = TRUE])
      BY <1>4 DEF Stop, ResetCwd, Close, SetIdle
    <2>2. \A q \in RunIds : run'[q].phase = run[q].phase
      BY <1>1, <2>1 DEF Run
    <2>3. QED
      BY <2>2, NoWaitingStarts
  <1>5. QED
    BY <1>2, <1>3, <1>4 DEF User

\* Workers start nothing.
LEMMA WorkerCarries ==
  ASSUME IInv, NEW r \in RunIds, WorkerStep(r) \/ RemoteEnds(r)
  PROVE  CarriesCwd
  <1>1. run \in [RunIds -> Run]
    BY DEF IInv, TypeOK
  <1>2. \A q \in RunIds \ {r} : run'[q] = run[q]
    BY <1>1 DEF WorkerStep, BeginRun, Connect, ConnectFails, LoopCancelled, RemoteEnds, AppendJournal,
       PostCompletion, ThreadExit, WorkerSets
  <1>3. run[r].phase # "accepted"
    BY DEF WorkerStep, BeginRun, Connect, ConnectFails, LoopCancelled, RemoteEnds, AppendJournal,
       PostCompletion, ThreadExit, InPhase
  <1>4. QED
    BY <1>2, <1>3, NoWaitingStarts

LEMMA NextCarries == IInv /\ CwdInv /\ [Next]_vars => CarriesCwd
  <1> SUFFICES ASSUME IInv, CwdInv, [Next]_vars PROVE CarriesCwd
    OBVIOUS
  <1>1. ASSUME run' = run PROVE CarriesCwd
    BY <1>1, NoWaitingStarts
  <1>2. ASSUME NEW r \in RunIds, WorkerStep(r) \/ RemoteEnds(r) PROVE CarriesCwd
    BY <1>2, WorkerCarries
  <1>3. QED
    BY <1>1, <1>2, UserCarries, BundleTickCarries, CompletionCarries
    DEF Next, Exited, CloseWaitEnds, vars

\* A queued command without a directory of its own starts where the last one on its server
\* ended, or in the login directory if the user has reset it while another server was busy
\* (RunController's completion stores remote_cwd_ before it pumps the queue).
THEOREM DirectoryIsCarried == Spec => CwdCarried
  <1>1. IInv /\ RecordInv /\ IInv' /\ [Next]_vars => RecordInv'
    BY NextMaps DEF Maps
  <1>2. IInv /\ CwdInv /\ [Next]_vars => [CarriesCwd]_vars
    BY NextCarries
  <1>3. CwdCarried <=> [][CarriesCwd]_vars
    BY DEF CwdCarried, CarriesCwd
  <1>4. QED
    BY <1>1, <1>2, <1>3, InitMaps, InitCwd, NextCwd, Invariance, PTL DEF Spec
=============================================================================
