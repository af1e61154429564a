----------------------------- MODULE CommandRuns -----------------------------
(***************************************************************************)
(* How FaTTY runs commands on servers: RunController (src/ui/              *)
(* run_controller.cpp), BundleController (src/ui/bundle_controller.cpp),   *)
(* the busy / Stop / close handlers of AppFrame (src/ui/app_frame.cpp) and *)
(* the life of SSHSession::run in the detached worker thread.              *)
(*                                                                         *)
(* Two kinds of actors step in this module:                                *)
(*   - the GUI thread: one handler at a time, each handler one action; the *)
(*     closures that workers hand to wxTheApp->CallAfter wait in `events'; *)
(*   - the worker threads, one per started run, whose steps interleave     *)
(*     with the GUI thread at every point where they touch shared state.   *)
(***************************************************************************)
EXTENDS Integers, Sequences

CONSTANTS
  Servers,   \* server cards of the configuration
  Dirs,      \* remote working directories
  Home,      \* the login directory, the value of an absent remote_cwd_ entry
  WorkDirs,  \* the directories commands are configured to start in
  NoDir,     \* a command without cd_before_run: it starts where the last ended
  NoServer,  \* the empty busy_server_id_
  Outcomes,  \* the ends status_from_exit distinguishes, reached by a remote
  MaxRuns,   \* bound: how many runs and bundle steps are accepted in all
  MaxSteps   \* bound: the commands of a bundle

ASSUME RunsAssumption ==
  /\ Servers # {} /\ NoServer \notin Servers
  /\ Home \in Dirs /\ WorkDirs \subseteq Dirs /\ NoDir \notin Dirs
  /\ Outcomes \subseteq {"ok", "failed", "cancelled", "timeout"}
  /\ MaxRuns \in Nat /\ MaxSteps \in Nat

RunIds == 1 .. MaxRuns
None   == 0                      \* a null session_

Statuses == {"none", "ok", "failed", "cancelled", "timeout", "error"}
Phases   == {"unused", "accepted", "spawned", "connecting", "looping",
             "ended", "journaled", "posted", "gone"}

\* A run: the QueuedRun fields that matter, and the worker's locals.
Run == [phase : Phases, step : Nat, server : Servers \cup {NoServer},
        dir : Dirs \cup {NoDir}, cancel : BOOLEAN, status : Statuses]

Entry == [kind : {"command", "bundle"}, run : Nat, step : Nat,
          server : Servers \cup {NoServer}, dir : Dirs \cup {NoDir},
          status : Statuses]

Bundle == [active : BOOLEAN, cancel : BOOLEAN, waiting : BOOLEAN,
           index : Nat, size : Nat, pause : BOOLEAN, base : Nat,
           server : Servers \cup {NoServer}]

VARIABLES
  app,             \* "open", "closing" (the close handler waits) or "exited"
  busy,            \* AppFrame::busy_
  busy_server_id,  \* AppFrame::busy_server_id_
  run_queue,       \* RunController::run_queue_, of run ids
  session,         \* AppFrame::session_: the run whose session it is, or None
  remote_cwd,      \* AppFrame::remote_cwd_
  bundle,          \* the fields of BundleController
  worker_running,  \* AppFrame::worker_running_, shared by every worker
  events,          \* completions posted with CallAfter, in order
  run,             \* every run accepted so far, by id
  accepted,        \* how many ids are taken
  journal          \* what Journal::append received, in order

guiVars == <<busy, busy_server_id, run_queue, session, remote_cwd, bundle>>
vars == <<app, guiVars, worker_running, events, run, accepted, journal>>

Open == app = "open"
Init ==
  /\ app = "open"
  /\ busy = FALSE
  /\ busy_server_id = NoServer
  /\ run_queue = <<>>
  /\ session = None
  /\ remote_cwd = [s \in Servers |-> Home]
  /\ bundle = [active |-> FALSE, cancel |-> FALSE, waiting |-> FALSE, index |-> 0,
               size |-> 0, pause |-> FALSE, base |-> 0, server |-> NoServer]
  /\ worker_running = FALSE
  /\ events = <<>>
  /\ run = [r \in RunIds |-> [phase |-> "unused", step |-> 0, server |-> NoServer,
                              dir |-> NoDir, cancel |-> FALSE, status |-> "none"]]
  /\ accepted = 0
  /\ journal = <<>>

-----------------------------------------------------------------------------
(***************************************************************************)
(* What the handlers of the GUI thread are made of.                        *)
(***************************************************************************)

\* A request for one command: step k of a bundle, or a command alone (k = 0).
NewRun(k, s, d) ==
  [phase |-> "accepted", step |-> k, server |-> s, dir |-> d,
   cancel |-> FALSE, status |-> "none"]

\* RunController::start_ssh_run: a new SSHSession and a detached worker.
StartSshRun(r, job, cwds) ==
  /\ session' = r
  /\ busy_server_id' = job.server
  /\ worker_running' = TRUE
  /\ run' = [run EXCEPT ![r] =
       [job EXCEPT !.phase = "spawned",
                   !.dir = IF job.dir = NoDir THEN cwds[job.server] ELSE job.dir]]

\* AppFrame::set_busy(false), always called with session_ reset.
SetIdle ==
  /\ busy' = FALSE
  /\ busy_server_id' = NoServer
  /\ session' = None
  /\ UNCHANGED <<worker_running, run>>

\* Mutant: an empty queue leaves the window busy.
PumpRunQueueStaysBusy(cwds) ==
  \/ /\ run_queue = <<>>
     /\ session' = None
     /\ UNCHANGED <<busy, busy_server_id, worker_running, run, run_queue>>
  \/ /\ run_queue # <<>>
     /\ run_queue' = Tail(run_queue)
     /\ busy' = TRUE
     /\ StartSshRun(Head(run_queue), run[Head(run_queue)], cwds)

\* Mutant: the next run is not started.
PumpRunQueueStalls(cwds) ==
  \/ /\ run_queue = <<>>
     /\ SetIdle
     /\ UNCHANGED run_queue
  \/ /\ run_queue # <<>>
     /\ session' = None
     /\ UNCHANGED <<busy, busy_server_id, worker_running, run, run_queue>>

\* Mutant: the queue is served from its back.
PumpRunQueueLifo(cwds) ==
  \/ /\ run_queue = <<>>
     /\ SetIdle
     /\ UNCHANGED run_queue
  \/ /\ run_queue # <<>>
     /\ run_queue' = SubSeq(run_queue, 1, Len(run_queue) - 1)
     /\ busy' = TRUE
     /\ StartSshRun(run_queue[Len(run_queue)], run[run_queue[Len(run_queue)]], cwds)

\* RunController::pump_run_queue, called with no bundle active.
PumpRunQueue(cwds) ==
  \/ /\ run_queue = <<>>
     /\ SetIdle
     /\ UNCHANGED run_queue
  \/ /\ run_queue # <<>>
     /\ run_queue' = Tail(run_queue)
     /\ busy' = TRUE
     /\ StartSshRun(Head(run_queue), run[Head(run_queue)], cwds)

\* The journal line of a bundle: status_ from the reason, Шагов: size.
BundleEntry(b, status) ==
  [kind |-> "bundle", run |-> b.base, step |-> b.size, server |-> b.server,
   dir |-> NoDir, status |-> status]

\* Mutant: finish() pumps the queue before it clears active_.
RetiredStillActive(b) == [b EXCEPT !.cancel = FALSE, !.waiting = FALSE, !.size = 0]

\* What BundleController::finish leaves of the bundle.
Retired(b) ==
  [b EXCEPT !.active = FALSE, !.cancel = FALSE, !.waiting = FALSE, !.size = 0]

\* BundleController::finish: an aborted bundle does not pump the queue.
FinishBundle(b, status, cwds) ==
  /\ journal' = Append(journal, BundleEntry(b, status))
  /\ bundle' = Retired(b)
  /\ \/ /\ run_queue # <<>> /\ status # "cancelled"
        /\ PumpRunQueue(cwds)
     \/ /\ run_queue = <<>> \/ status = "cancelled"
        /\ SetIdle
        /\ UNCHANGED run_queue

\* BundleController::run_step, called with a step left and no abort pending.
RunStep(b, cwds) ==
  /\ ~b.cancel /\ b.index < b.size
  /\ bundle' = b
  /\ \E d \in WorkDirs \cup {NoDir} :
       StartSshRun(b.base + b.index + 1, NewRun(b.index + 1, b.server, d), cwds)
  /\ UNCHANGED <<run_queue, journal>>

\* Mutant: schedule_wait forgets to set waiting_.
NextStepNoWait(next, cwds) ==
  \/ /\ ~next.pause
     /\ RunStep(next, cwds)
     /\ UNCHANGED busy
  \/ /\ next.pause
     /\ bundle' = next
     /\ session' = None
     /\ UNCHANGED <<busy, busy_server_id, run_queue, worker_running, run, journal>>

\* The step that ended was ok and is not the last: next step, or pause first.
NextStep(next, cwds) ==
  \/ /\ ~next.pause
     /\ RunStep(next, cwds)
     /\ UNCHANGED busy
  \/ /\ next.pause                                    \* schedule_wait
     /\ bundle' = [next EXCEPT !.waiting = TRUE]
     /\ session' = None
     /\ UNCHANGED <<busy, busy_server_id, run_queue, worker_running, run, journal>>

\* Mutant: a failed step does not stop the bundle.
OnStepDoneGoesOn(status, cwds) ==
  LET next == [bundle EXCEPT !.index = @ + 1] IN
  \/ /\ bundle.cancel \/ status = "cancelled"
     /\ FinishBundle(bundle, "cancelled", cwds)
  \/ /\ ~bundle.cancel /\ status # "cancelled" /\ next.index = next.size
     /\ FinishBundle(next, "ok", cwds)
  \/ /\ ~bundle.cancel /\ status # "cancelled" /\ next.index < next.size
     /\ NextStep(next, cwds)

\* Mutant: only the status of the step tells of a Stop, not cancel_.
OnStepDoneIgnoresStop(status, cwds) ==
  LET next == [bundle EXCEPT !.index = @ + 1, !.cancel = FALSE] IN
  \/ /\ status = "cancelled"
     /\ FinishBundle(bundle, "cancelled", cwds)
  \/ /\ status \notin {"ok", "cancelled"}
     /\ FinishBundle(bundle, status, cwds)
  \/ /\ status = "ok" /\ next.index = next.size
     /\ FinishBundle(next, "ok", cwds)
  \/ /\ status = "ok" /\ next.index < next.size
     /\ NextStep(next, cwds)

\* The on_done callback of a bundle step that ended with `status'.
OnStepDone(status, cwds) ==
  LET next == [bundle EXCEPT !.index = @ + 1] IN
  \/ /\ bundle.cancel \/ status = "cancelled"
     /\ FinishBundle(bundle, "cancelled", cwds)
  \/ /\ ~bundle.cancel /\ status \notin {"ok", "cancelled"}
     /\ FinishBundle(bundle, status, cwds)
  \/ /\ ~bundle.cancel /\ status = "ok" /\ next.index = next.size
     /\ FinishBundle(next, "ok", cwds)
  \/ /\ ~bundle.cancel /\ status = "ok" /\ next.index < next.size
     /\ NextStep(next, cwds)

-----------------------------------------------------------------------------
(***************************************************************************)
(* The handlers of the GUI thread.                                         *)
(***************************************************************************)

\* Mutant: busy_ is not looked at.
RunCommandAtOnce(s, d) ==
  /\ Open /\ accepted < MaxRuns
  /\ accepted' = accepted + 1
  /\ busy' = TRUE
  /\ StartSshRun(accepted + 1, NewRun(0, s, d), remote_cwd)
  /\ UNCHANGED <<run_queue, app, remote_cwd, bundle, events, journal>>

\* A confirmed request to run one command: RunController::run_command.
RunCommand(s, d) ==
  /\ Open /\ accepted < MaxRuns
  /\ accepted' = accepted + 1
  /\ \/ /\ busy
        /\ run_queue' = Append(run_queue, accepted + 1)
        /\ run' = [run EXCEPT ![accepted + 1] = NewRun(0, s, d)]
        /\ UNCHANGED <<busy, busy_server_id, session, worker_running>>
     \/ /\ ~busy
        /\ busy' = TRUE
        /\ StartSshRun(accepted + 1, NewRun(0, s, d), remote_cwd)
        /\ UNCHANGED run_queue
  /\ UNCHANGED <<app, remote_cwd, bundle, events, journal>>

\* A confirmed request to run a bundle of n commands: AppFrame::start_bundle.
StartBundle(s, n, pause) ==
  /\ Open /\ accepted + n <= MaxRuns
  /\ accepted' = accepted + n
  /\ \/ /\ busy                       \* every command joins the queue alone
        /\ run_queue' = run_queue \o [i \in 1 .. n |-> accepted + i]
        /\ \E dir \in [1 .. n -> WorkDirs \cup {NoDir}] :
             run' = [r \in RunIds |-> IF r \in accepted + 1 .. accepted + n
                                       THEN NewRun(0, s, dir[r - accepted])
                                       ELSE run[r]]
        /\ UNCHANGED <<busy, busy_server_id, session, bundle, worker_running, journal>>
     \/ /\ ~busy
        /\ busy' = TRUE
        /\ RunStep([active |-> TRUE, cancel |-> FALSE, waiting |-> FALSE, index |-> 0,
                    size |-> n, pause |-> pause, base |-> accepted, server |-> s],
                   remote_cwd)
  /\ UNCHANGED <<app, remote_cwd, events>>

\* The Stop button, enabled while busy.
Stop ==
  /\ Open /\ busy
  /\ run_queue' = <<>>
  /\ \/ /\ session # None
        /\ run' = [run EXCEPT ![session].cancel = TRUE]
        /\ bundle' = IF bundle.active
                     THEN [bundle EXCEPT !.cancel = TRUE, !.waiting = FALSE]
                     ELSE bundle
        /\ UNCHANGED <<busy, busy_server_id, session, worker_running, journal>>
     \/ /\ session = None /\ bundle.active
        /\ journal' = Append(journal, BundleEntry(bundle, "cancelled"))
        /\ bundle' = Retired(bundle)
        /\ SetIdle
  /\ UNCHANGED <<app, remote_cwd, events, accepted>>

\* busy_timer_ finds the pause between two steps over: tick_waiting.
BundleTick ==
  /\ Open /\ busy /\ bundle.active /\ bundle.waiting
  /\ RunStep([bundle EXCEPT !.waiting = FALSE], remote_cwd)
  /\ UNCHANGED <<app, busy, remote_cwd, events, accepted>>

\* Mutant: the queue is pumped before remote_cwd_ is stored.
CompletionStaleCwd ==
  /\ Open /\ events # <<>>
  /\ events' = Tail(events)
  /\ LET job == run[Head(events)]
     IN /\ remote_cwd' = [remote_cwd EXCEPT ![job.server] = job.dir]
        /\ \/ /\ job.step > 0 /\ bundle.active
              /\ OnStepDone(job.status, remote_cwd)
           \/ /\ job.step = 0 /\ ~bundle.active
              /\ PumpRunQueue(remote_cwd)
              /\ UNCHANGED <<bundle, journal>>
  /\ UNCHANGED <<app, accepted>>

\* The closure a worker posted when its run had ended.
Completion ==
  /\ Open /\ events # <<>>
  /\ events' = Tail(events)
  /\ LET job  == run[Head(events)]
         cwds == [remote_cwd EXCEPT ![job.server] = job.dir]
     IN /\ remote_cwd' = cwds
        /\ \/ /\ job.step > 0 /\ bundle.active
              /\ OnStepDone(job.status, cwds)
           \/ /\ job.step = 0 /\ ~bundle.active
              /\ PumpRunQueue(cwds)
              /\ UNCHANGED <<bundle, journal>>
  /\ UNCHANGED <<app, accepted>>

\* The button that forgets the remote directory of a server.
ResetCwd(s) ==
  /\ Open /\ remote_cwd[s] # Home
  /\ remote_cwd' = [remote_cwd EXCEPT ![s] = Home]
  /\ UNCHANGED <<app, busy, busy_server_id, run_queue, session, bundle,
                 worker_running, events, run, accepted, journal>>

\* The close handler up to its wait; request_close_for_install ends here too.
Close ==
  /\ Open
  /\ app' = "closing"
  /\ run' = IF busy /\ session # None
            THEN [run EXCEPT ![session].cancel = TRUE]
            ELSE run
  /\ bundle' = [bundle EXCEPT !.cancel = TRUE, !.waiting = FALSE]
  /\ run_queue' = <<>>
  /\ UNCHANGED <<busy, busy_server_id, session, remote_cwd, worker_running,
                 events, accepted, journal>>

\* The wait of the close handler ends: no worker runs, or 3 s have passed.
CloseWaitEnds ==
  /\ app = "closing"
  /\ app' = "exited"
  /\ UNCHANGED <<guiVars, worker_running, events, run, accepted, journal>>

-----------------------------------------------------------------------------
(***************************************************************************)
(* The worker thread of run r: the lambda of start_ssh_run around          *)
(* SSHSession::run. Process exit ends every worker where it stands.        *)
(***************************************************************************)

InPhase(r, phase) == app # "exited" /\ run[r].phase = phase

\* A step of the worker that touches nothing but the run.
WorkerSets(r, job) ==
  /\ run' = [run EXCEPT ![r] = job]
  /\ UNCHANGED <<app, guiVars, worker_running, events, accepted, journal>>

\* SSHSession::run begins, and clears the cancel flag of its session.
BeginRun(r) ==
  /\ InPhase(r, "spawned")
  /\ WorkerSets(r, [run[r] EXCEPT !.phase = "connecting", !.cancel = FALSE])

\* Mutant: the cancel flag is cleared once the session is connected.
ConnectClearsCancel(r) ==
  /\ InPhase(r, "connecting")
  /\ WorkerSets(r, [run[r] EXCEPT !.phase = "looping", !.cancel = FALSE])

\* ssh_connect_raw, open_session and exec succeed ...
Connect(r) ==
  /\ InPhase(r, "connecting")
  /\ WorkerSets(r, [run[r] EXCEPT !.phase = "looping"])

\* ... or one of them throws.
ConnectFails(r) ==
  /\ InPhase(r, "connecting")
  /\ WorkerSets(r, [run[r] EXCEPT !.phase = "ended", !.status = "error"])

\* The read loop finds the cancel flag set.
LoopCancelled(r) ==
  /\ InPhase(r, "looping") /\ run[r].cancel
  /\ \E d \in Dirs : WorkerSets(r, [run[r] EXCEPT !.phase = "ended",
                                  !.status = "cancelled", !.dir = d])

\* The read loop times out or reaches the end of the remote command.
RemoteEnds(r) ==
  /\ InPhase(r, "looping")
  /\ \E status \in Outcomes, d \in Dirs :
       WorkerSets(r, [run[r] EXCEPT !.phase = "ended", !.status = status, !.dir = d])

\* Journal::append, from the worker.
AppendJournal(r) ==
  /\ InPhase(r, "ended")
  /\ journal' = Append(journal,
       [kind |-> "command", run |-> r, step |-> run[r].step, server |-> run[r].server,
        dir |-> run[r].dir, status |-> run[r].status])
  /\ run' = [run EXCEPT ![r].phase = "journaled"]
  /\ UNCHANGED <<app, guiVars, worker_running, events, accepted>>

\* post() of the completion: dropped once alive_ is false.
PostCompletion(r) ==
  /\ InPhase(r, "journaled")
  /\ events' = IF Open THEN Append(events, r) ELSE events
  /\ run' = [run EXCEPT ![r].phase = "posted"]
  /\ UNCHANGED <<app, guiVars, worker_running, accepted, journal>>

\* ~RunningGuard, the last thing the thread does; it drops its session with it.
ThreadExit(r) ==
  /\ InPhase(r, "posted")
  /\ worker_running' = FALSE
  /\ run' = [run EXCEPT ![r].phase = "gone", ![r].cancel = FALSE]
  /\ UNCHANGED <<app, guiVars, events, accepted, journal>>

\* Everything the thread does by itself, the end of the remote command apart.
WorkerStep(r) ==
  \/ BeginRun(r) \/ Connect(r) \/ ConnectFails(r) \/ LoopCancelled(r)
  \/ AppendJournal(r) \/ PostCompletion(r) \/ ThreadExit(r)

-----------------------------------------------------------------------------
\* The process is gone; nothing follows.
Exited == app = "exited" /\ UNCHANGED vars

User ==
  \/ \E s \in Servers, d \in WorkDirs \cup {NoDir} : RunCommand(s, d)
  \/ \E s \in Servers, n \in 1 .. MaxSteps, pause \in BOOLEAN : StartBundle(s, n, pause)
  \/ \E s \in Servers : ResetCwd(s)
  \/ Stop
  \/ Close

Next ==
  \/ User
  \/ BundleTick
  \/ Completion
  \/ CloseWaitEnds
  \/ \E r \in RunIds : WorkerStep(r) \/ RemoteEnds(r)
  \/ Exited

Spec == Init /\ [][Next]_vars
-----------------------------------------------------------------------------
(***************************************************************************)
(* Properties.                                                             *)
(***************************************************************************)

\* Every variable holds a value of its C++ type.
TypeOK ==
  /\ app \in {"open", "closing", "exited"}
  /\ busy \in BOOLEAN
  /\ busy_server_id \in Servers \cup {NoServer}
  /\ run_queue \in Seq(RunIds)
  /\ session \in RunIds \cup {None}
  /\ remote_cwd \in [Servers -> Dirs]
  /\ bundle \in Bundle
  /\ worker_running \in BOOLEAN
  /\ events \in Seq(RunIds)
  /\ run \in [RunIds -> Run]
  /\ accepted \in 0 .. MaxRuns
  /\ journal \in Seq(Entry)

Started(r)  == run[r].phase \notin {"unused", "accepted"}
Queued(r)   == \E i \in DOMAIN run_queue : run_queue[i] = r
Working(r)  == run[r].phase \in {"spawned", "connecting", "looping", "ended", "journaled"}
Posted(r)   == \E i \in DOMAIN events : events[i] = r

\* Two runs never overlap: while the window is open a run is between its start
\* and the handling of its completion exactly when session_ is its session, so
\* Stop always reaches the command that is being executed.
SerialRuns == Open => \A r \in RunIds : (Working(r) \/ Posted(r)) <=> session = r

\* The window is busy exactly while something will end it: a run whose
\* completion has not been handled, or a bundle in the pause between two steps.
\* Neither a lost set_busy(false) nor a run behind an idle window is possible.
BusyIffWork == Open => (busy <=> (session # None \/ bundle.waiting))

\* The run in flight belongs to the active bundle and is its current step, or
\* no bundle is active; a waiting bundle still has a step to run. The early
\* returns of on_done, run_step and pump_run_queue are never taken.
StepMatchesBundle ==
  Open => /\ session # None => (bundle.active <=> run[session].step > 0)
          /\ bundle.active /\ session # None =>
               /\ session = bundle.base + bundle.index + 1
               /\ run[session].step = bundle.index + 1
          /\ bundle.waiting => bundle.active /\ session = None
          /\ bundle.active => bundle.index < bundle.size /\ busy
          /\ bundle.cancel => bundle.active /\ ~bundle.waiting

\* Position i of the journal holds an entry of the run with this id.
RunEntryAt(i, r) == journal[i].kind = "command" /\ journal[i].run = r

\* The line of a bundle tells what happened to its steps: right before it stand
\* the lines of its steps 1..k in order, all ok but perhaps the k-th, no step
\* of it is journaled anywhere else, "ok" means that all of them ran and ended
\* ok, and an error status is the status of the step that failed.
BundleEntryTruthful ==
  \A i \in DOMAIN journal : journal[i].kind = "bundle" =>
    LET b == journal[i]
    IN \E k \in 0 .. b.step :
         /\ k < i
         /\ \A j \in 1 .. k : RunEntryAt(i - k + j - 1, b.run + j)
         /\ \A j \in 1 .. k - 1 : journal[i - k + j - 1].status = "ok"
         /\ \A p \in DOMAIN journal \ (i - k .. i - 1) :
              \A j \in 1 .. b.step : ~RunEntryAt(p, b.run + j)
         /\ b.status = "ok" => k = b.step /\ journal[i - 1].status = "ok"
         /\ b.status \notin {"ok", "cancelled"} => k > 0 /\ journal[i - 1].status = b.status

\* A bundle that has been stopped starts no further step, however its current
\* step ends, and no request made since Stop starts in its place.
StopEndsBundle ==
  [][Open /\ bundle.active /\ bundle.cancel =>
       /\ session' \in {session, None}
       /\ bundle'.index = bundle.index]_vars

\* The directory of the last journaled run on server s.
LastDir(s) ==
  LET at == {i \in DOMAIN journal : journal[i].kind = "command" /\ journal[i].server = s}
  IN IF at = {} THEN Home ELSE journal[CHOOSE i \in at : \A j \in at : j <= i].dir

\* A queued run without a directory of its own starts where the last run on its
\* server ended: the completion that starts it has already stored the directory
\* of the run before it. Only a reset by the user can put it back to the login
\* directory, and only if a run on another server came in between.
CwdCarried ==
  [][\A r \in RunIds :
       run[r].phase = "accepted" /\ run'[r].phase = "spawned" /\ run[r].dir = NoDir
         => \/ run'[r].dir = LastDir(run[r].server)
            \/ run'[r].dir = Home /\ busy_server_id # run[r].server]_vars

\* The journal's lines of runs; the other lines are of bundles.
RecordedRuns ==
  {[at |-> i, request |-> journal[i].run] : i \in {k \in DOMAIN journal : journal[k].kind = "command"}}

Executor == INSTANCE SerialExecutor WITH
  Requests <- RunIds, Nobody <- None, MaxBatch <- MaxSteps + 1,
  waiting <- run_queue, current <- session, record <- RecordedRuns, closed <- ~Open

\* Threads, sessions and bundles together do what SerialExecutor promises: one
\* run at a time, each on record exactly once and before the next one starts,
\* the queue served from its front.
ExecutesSerially == Executor!Spec

(***************************************************************************)
(* Fairness. Threads are scheduled, posted closures and timer events are   *)
(* delivered. Nothing is assumed of the user, nor of remote commands.      *)
(***************************************************************************)
FairSpec ==
  /\ Spec
  /\ WF_vars(BundleTick) /\ WF_vars(Completion) /\ WF_vars(CloseWaitEnds)
  /\ \A r \in RunIds : WF_vars(WorkerStep(r))

\* A remote command ends by itself, because timeout_sec >= 1 (dialogs.cpp:610).
\* The properties that need it say so; the others hold for commands that hang.
RemoteCommandsEnd == \A r \in RunIds : WF_vars(RemoteEnds(r))

\* A request that has been queued behind a busy window is started, or dropped
\* by Stop or by closing, or is left behind by an aborted bundle.
QueuedRunSettles ==
  RemoteCommandsEnd =>
    \A r \in RunIds : Open /\ busy /\ Queued(r) ~> ~Open \/ ~busy \/ ~Queued(r)

\* A bundle comes to its end: every pause ends and every step reports.
BundleEnds ==
  RemoteCommandsEnd =>
    \A b \in 0 .. MaxRuns - 1 :
      Open /\ bundle.active /\ bundle.base = b ~> ~Open \/ ~bundle.active \/ bundle.base # b

\* Stop on a run whose SSHSession::run has begun ends the run, even if the
\* remote command never does: the window gets idle or starts another run.
StopEndsRun ==
  Open /\ session # None /\ run[session].phase \in {"connecting", "looping"} /\ run[session].cancel
    ~> ~Open \/ session = None \/ run[session].phase = "spawned"

=============================================================================
