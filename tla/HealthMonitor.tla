---------------------------- MODULE HealthMonitor ----------------------------
(***************************************************************************)
(* How FaTTY watches its servers: HealthMonitor (src/ui/health_monitor     *)
(* .cpp) with the rules it takes from src/core/health.cpp and the window's *)
(* handlers that call it. The GUI thread picks one server at a time and    *)
(* starts a detached worker; the worker posts its snapshot with CallAfter  *)
(* and only then resets running_, so a tick may fall between the two.      *)
(*                                                                         *)
(* A reading stands for all that a check finds out. checked_at is kept as  *)
(* "there was a check" and as membership in `due', which time enters and   *)
(* the next stored snapshot leaves.                                        *)
(***************************************************************************)
EXTENDS Integers, Sequences, SequencesExt, FiniteSetsExt

CONSTANTS
  FirstServers, \* how many servers the configuration starts with
  MaxServers,   \* bound: how many servers there ever are
  Readings,     \* what checks find
  Thresholds,   \* the thresholds the user chooses between
  Ignores,      \* the values health_ignore takes
  MaxHistory,   \* kHealthHistoryMax
  DiskFails,    \* whether saving the cache may fail
  MaxPosted,    \* bound: the snapshots that wait to be stored
  MaxOps,       \* bound: how often the user does something
  MaxRestarts   \* bound: how often the program ends and starts again

ASSUME MonitorAssumption ==
  /\ FirstServers \in 0 .. MaxServers /\ MaxServers \in Nat
  /\ Readings \subseteq {"low", "mid", "high", "alarm", "errs",
                         "offline", "unsupported", "none"}
  /\ Thresholds \subseteq {"strict", "lax"} /\ Thresholds # {}
  /\ Ignores \subseteq BOOLEAN /\ FALSE \in Ignores
  /\ MaxHistory \in Nat \ {0} /\ DiskFails \in BOOLEAN
  /\ MaxPosted \in Nat /\ MaxOps \in Nat /\ MaxRestarts \in Nat

ServerIds == 1 .. MaxServers     \* ids are new_uuid(): never used twice
NoServer  == 0                   \* an empty checking_id_ or busy_server_id_

Levels == {"unknown", "ok", "warn", "crit", "offline", "unsupported"}

VARIABLES
  servers,      \* ids of config_.servers, in their order
  created,      \* how many ids are taken
  enabled,      \* Server::health_enabled
  ignore,       \* Server::health_ignore
  thresholds,   \* the health thresholds of AppSettings
  auto,         \* AppSettings::health_auto
  busy,         \* what busy_server_id() returns
  entries,      \* entries_: per server the latest snapshot and its history
  force,        \* force_
  next,         \* next_
  checking_id,  \* checking_id_
  worker,       \* the worker thread; running_ is true while there is one
  events,       \* snapshots posted with CallAfter, in order
  due,          \* the servers whose last check is an interval ago
  saved,        \* the contents of health.json
  recorded,     \* the level of the last status change in the journal
  ops, restarts

configVars  == <<servers, created, enabled, ignore, thresholds, auto>>
monitorVars == <<entries, force, next, checking_id, worker>>
storedVars  == <<saved, recorded>>
vars == <<configVars, busy, monitorVars, events, due, storedVars, ops, restarts>>

NoSnapshot == [checked |-> FALSE, reading |-> "none", grown |-> FALSE,
               level |-> "unknown", checking |-> FALSE]
NoEntry    == [latest |-> NoSnapshot, history |-> <<>>]
NoWorker   == [phase |-> "none", server |-> NoServer, thresholds |-> "none",
               ignore |-> FALSE]

Present(s) == \E i \in DOMAIN servers : servers[i] = s

-----------------------------------------------------------------------------
(***************************************************************************)
(* The rules of src/core/health.cpp.                                       *)
(***************************************************************************)

\* apply_health_thresholds, with the growth of network errors if it is known.
LevelOf(reading, grown, th, ign) ==
  CASE reading \in {"offline", "unsupported"} -> reading
    [] reading = "none"  -> "unknown"
    [] reading = "low"   -> "ok"
    [] reading = "mid"   -> IF th = "strict" THEN "warn" ELSE "ok"
    [] reading = "high"  -> "crit"
    [] reading = "alarm" -> IF ign THEN "ok" ELSE "warn"
    [] reading = "errs"  -> IF grown /\ ~ign THEN "warn" ELSE "ok"

\* health_level_is_alert
IsAlert(level) == level \in {"warn", "crit", "offline"}

\* health_is_due
IsDue(s, entry) == ~entry.latest.checked \/ s \in due

\* health_apply_net_delta: the counters are compared when both checks have them.
WithNetDelta(snap, prior, ign) ==
  LET grown == snap.reading = "errs" /\ prior.reading \notin {"none", "offline", "unsupported"}
  IN [snap EXCEPT !.grown = grown,
                  !.level = IF grown /\ ~ign THEN "warn" ELSE @]

\* health_history_push: newest first, never a snapshot that is being checked.
HistoryPush(history, prior) ==
  IF ~prior.checked \/ prior.checking THEN history
  ELSE SubSeq(<<prior>> \o history, 1,
              IF Len(history) < MaxHistory THEN Len(history) + 1 ELSE MaxHistory)

-----------------------------------------------------------------------------
(***************************************************************************)
(* Choosing and starting a check.                                          *)
(***************************************************************************)

\* What a handler leaves of the monitor before its last step, the tick.
Monitor(ent, shown) ==
  [entries |-> ent, checking_id |-> shown, worker |-> worker, next |-> next]

\* HealthMonitor::start_check, with no check running.
StartCheck(s, at) ==
  /\ entries' = [at.entries EXCEPT ![s].latest.checking = TRUE]
  /\ checking_id' = s
  /\ worker' = [phase |-> "checking", server |-> s, thresholds |-> thresholds',
                ignore |-> ignore[s]]

CanCheck(s) == enabled[s] /\ s # busy'

\* Positions of the servers a check has been asked for.
ForcedAt == {i \in DOMAIN servers : CanCheck(servers[i]) /\ servers[i] \in force'}

\* The position `offset' places after next_, going round.
RoundRobin(at, offset) == 1 + ((at.next + offset) % Len(servers))

\* Offsets from next_ of the servers that are due.
DueAt(at) ==
  {offset \in 0 .. Len(servers) - 1 :
     LET s == servers[RoundRobin(at, offset)] IN CanCheck(s) /\ IsDue(s, at.entries[s])}

\* A tick that starts nothing.
NoCheck(at) ==
  /\ \/ at.worker.phase # "none"
     \/ ForcedAt = {} /\ (auto' => DueAt(at) = {})
  /\ entries' = at.entries /\ checking_id' = at.checking_id
  /\ worker' = at.worker /\ next' = at.next

\* Mutant: next_ stays where it is.
NextSame(at, offset) == at.next

\* Where the next round starts: behind the server that was chosen.
NextAfter(at, offset) == (at.next + offset + 1) % Len(servers)

\* HealthMonitor::tick, as the last step of a handler: a forced server first,
\* otherwise, with health_auto, the next one that is due.
Tick(at) ==
  \/ /\ at.worker.phase = "none" /\ ForcedAt # {}
     /\ StartCheck(servers[Min(ForcedAt)], at)
     /\ next' = at.next
  \/ /\ at.worker.phase = "none" /\ ForcedAt = {} /\ auto' /\ DueAt(at) # {}
     /\ StartCheck(servers[RoundRobin(at, Min(DueAt(at)))], at)
     /\ next' = NextAfter(at, Min(DueAt(at)))
  \/ NoCheck(at)

-----------------------------------------------------------------------------
(***************************************************************************)
(* The end of a check: the closure of start_check and store_snapshot.      *)
(***************************************************************************)

\* The health_ignore of a server that may have been deleted since.
IgnoreNow(s) == Present(s) /\ ignore[s]

\* The entry of a server once the snapshot has been stored.
Stored(snap) ==
  LET entry == entries[snap.server]
      prior == [entry.latest EXCEPT !.checking = FALSE]
      cur   == [snap.found EXCEPT !.checking = FALSE]
  IN IF prior.checked
     THEN [latest  |-> WithNetDelta(cur, prior, IgnoreNow(snap.server)),
           history |-> HistoryPush(entry.history, prior)]
     ELSE [entry EXCEPT !.latest = cur]

\* Mutant: only an alert goes on record, not its end.
JournalsAlertsOnly(prior, cur) ==
  prior.checked /\ prior.level # cur.level /\ IsAlert(cur.level)

\* on_level_change is called: the level changed to or from an alert.
Journals(prior, cur) ==
  /\ prior.checked /\ prior.level # cur.level
  /\ IsAlert(prior.level) \/ IsAlert(cur.level)

\* What load_health_cache finds of an entry: `checking' is not saved.
Loaded(entry) == [entry EXCEPT !.latest.checking = FALSE]

\* save_health_cache of the servers that still exist; a failure is swallowed.
Save(ent) ==
  \/ saved' = [s \in ServerIds |-> IF Present(s) THEN Loaded(ent[s]) ELSE NoEntry]
  \/ DiskFails /\ UNCHANGED saved

\* Mutant: every forced server is forgotten.
NoneForced(s) == {}

\* What stays in force_ when a check of s has ended.
StillForced(s) == force \ {s}

\* Mutant: the end of a check does not reset checking_id_.
SameShown(s) == checking_id

\* checking_id_ when a check of s has ended, whatever it was.
ShownAfter(s) == NoServer

\* The closure a worker posted runs: the snapshot is stored, journaled and
\* saved, and the next check is looked for.
Deliver ==
  /\ events # <<>>
  /\ events' = Tail(events)
  /\ LET snap  == Head(events)
         s     == snap.server
         entry == Stored(snap)
         ent   == [entries EXCEPT ![s] = entry]
     IN /\ force' = StillForced(s)
        /\ recorded' = IF Journals(entries[s].latest, entry.latest)
                       THEN [recorded EXCEPT ![s] = entry.latest.level] ELSE recorded
        /\ Save(ent)
        /\ due' = due \ {s}
        /\ UNCHANGED <<configVars, busy, ops, restarts>>
        /\ Tick(Monitor(ent, ShownAfter(s)))

-----------------------------------------------------------------------------
(***************************************************************************)
(* The user, the timer and the rest of the window.                         *)
(***************************************************************************)

Wake == Tick(Monitor(entries, checking_id))

\* timer_, every 15 s.
Timer ==
  /\ UNCHANGED <<configVars, busy, force, events, due, storedVars, ops, restarts>>
  /\ Wake

UserActs == ops < MaxOps /\ ops' = ops + 1

\* The button that checks one server now: refresh.
Refresh(s) ==
  /\ UserActs /\ Present(s)
  /\ force' = force \cup {s}
  /\ UNCHANGED <<configVars, busy, events, due, storedVars, restarts>>
  /\ Wake

\* The button that checks them all: refresh_all.
RefreshAll ==
  /\ UserActs
  /\ force' = force \cup {s \in ServerIds : Present(s) /\ enabled[s]}
  /\ UNCHANGED <<configVars, busy, events, due, storedVars, restarts>>
  /\ Wake

\* reevaluate_cached, after thresholds' and ignore' have been set.
Reevaluated ==
  [s \in ServerIds |->
     [entries[s] EXCEPT !.latest.level =
        LevelOf(entries[s].latest.reading, entries[s].latest.grown, thresholds',
                Present(s) /\ ignore'[s])]]

\* The server dialog is accepted.
EditServer(s) ==
  /\ UserActs /\ Present(s)
  /\ \E on \in BOOLEAN, ign \in Ignores :
       /\ enabled' = [enabled EXCEPT ![s] = on]
       /\ ignore' = [ignore EXCEPT ![s] = ign]
  /\ UNCHANGED thresholds
  /\ entries' = Reevaluated
  /\ UNCHANGED <<servers, created, auto, busy, force, next, checking_id, worker,
                 events, due, storedVars, restarts>>

\* The settings dialog is applied: reevaluate_cached, then wake.
ChangeSettings ==
  /\ UserActs
  /\ thresholds' \in Thresholds
  /\ auto' \in BOOLEAN
  /\ UNCHANGED <<servers, created, enabled, ignore, busy, force, events, due,
                 storedVars, restarts>>
  /\ Tick(Monitor(Reevaluated, checking_id))

\* A new server, or the duplicate of one.
AddServer ==
  /\ UserActs /\ created < MaxServers
  /\ created' = created + 1
  /\ servers' = Append(servers, created + 1)
  /\ \E on \in BOOLEAN, ign \in Ignores :
       /\ enabled' = [enabled EXCEPT ![created + 1] = on]
       /\ ignore' = [ignore EXCEPT ![created + 1] = ign]
  /\ UNCHANGED <<thresholds, auto, busy, monitorVars, events, due, storedVars, restarts>>

\* A server is deleted; the monitor keeps its entry and its place in force_.
DeleteServer(s) ==
  /\ UserActs
  /\ \E i \in DOMAIN servers : servers[i] = s /\ servers' = RemoveAt(servers, i)
  /\ UNCHANGED <<created, enabled, ignore, thresholds, auto, busy, monitorVars,
                 events, due, storedVars, restarts>>

\* A command starts on a server ...
CommandStarts(s) ==
  /\ UserActs /\ Present(s)
  /\ busy' = s
  /\ UNCHANGED <<configVars, monitorVars, events, due, storedVars, restarts>>

\* ... and the window becomes idle: set_busy(false), which wakes the monitor.
CommandEnds ==
  /\ busy # NoServer
  /\ busy' = NoServer
  /\ UNCHANGED <<configVars, force, events, due, storedVars, ops, restarts>>
  /\ Wake

\* The interval since the last check of a server has passed.
Elapse(s) ==
  /\ entries[s].latest.checked /\ s \notin due
  /\ due' = due \cup {s}
  /\ UNCHANGED <<configVars, busy, monitorVars, events, storedVars, ops, restarts>>

\* The program ends, in whatever state, and starts again with health.json.
Restart ==
  /\ restarts < MaxRestarts
  /\ restarts' = restarts + 1
  /\ force' = {} /\ busy' = NoServer /\ events' = <<>>
  /\ UNCHANGED <<configVars, due, storedVars, ops>>
  /\ Tick([entries |-> saved, checking_id |-> NoServer, worker |-> NoWorker, next |-> 0])

-----------------------------------------------------------------------------
(***************************************************************************)
(* The worker thread.                                                      *)
(***************************************************************************)

\* The check ends: the snapshot gets its level by the thresholds and the
\* ignore flags it started with, and is posted.
WorkerReports ==
  /\ worker.phase = "checking" /\ Len(events) < MaxPosted
  /\ \E reading \in Readings :
       LET found == [checked |-> TRUE, reading |-> reading, grown |-> FALSE,
                     level |-> LevelOf(reading, FALSE, worker.thresholds, worker.ignore),
                     checking |-> FALSE]
       IN events' = Append(events, [server |-> worker.server, found |-> found])
  /\ worker' = [worker EXCEPT !.phase = "exiting"]
  /\ UNCHANGED <<configVars, busy, entries, force, next, checking_id, due,
                 storedVars, ops, restarts>>

\* ~Guard: running_ is false.
WorkerExits ==
  /\ worker.phase = "exiting"
  /\ worker' = NoWorker
  /\ UNCHANGED <<configVars, busy, entries, force, next, checking_id, events, due,
                 storedVars, ops, restarts>>

Init ==
  /\ servers = [i \in 1 .. FirstServers |-> i]
  /\ created = FirstServers
  /\ enabled = [s \in ServerIds |-> TRUE]
  /\ ignore = [s \in ServerIds |-> FALSE]
  /\ thresholds \in Thresholds
  /\ auto \in BOOLEAN
  /\ busy = NoServer
  /\ entries = [s \in ServerIds |-> NoEntry]
  /\ force = {} /\ next = 0 /\ checking_id = NoServer
  /\ worker = NoWorker
  /\ events = <<>> /\ due = {}
  /\ saved = [s \in ServerIds |-> NoEntry]
  /\ recorded = [s \in ServerIds |-> "no line"]
  /\ ops = 0 /\ restarts = 0

User ==
  \/ \E s \in ServerIds : Refresh(s) \/ EditServer(s) \/ DeleteServer(s) \/ CommandStarts(s)
  \/ RefreshAll \/ ChangeSettings \/ AddServer

Next ==
  \/ User
  \/ Restart
  \/ Timer \/ CommandEnds \/ Deliver
  \/ \E s \in ServerIds : Elapse(s)
  \/ WorkerReports \/ WorkerExits

Spec == Init /\ [][Next]_vars

-----------------------------------------------------------------------------
(***************************************************************************)
(* Properties.                                                             *)
(***************************************************************************)

Pending(s)  == \E i \in DOMAIN events : events[i].server = s
Checking(s) == worker.phase = "checking" /\ worker.server = s
UnderWay(s) == Checking(s) \/ Pending(s)

\* "Checking" is never shown of a server whose check is over, neither by
\* checking_id_ nor by the mark in its snapshot, also when a new check began
\* before the snapshot of the last one was stored.
ShownIsUnderWay ==
  /\ checking_id # NoServer => UnderWay(checking_id)
  /\ \A s \in ServerIds : entries[s].latest.checking => UnderWay(s)

\* As long as thresholds and ignore flags stay as they are, the journal tells
\* the state of a server: if the latest snapshot or the last line is an alert,
\* then they agree, or all that has ever been found is that one level.
StatusOnRecord ==
  \A s \in ServerIds :
    LET entry == entries[s]
    IN Present(s) /\ (IsAlert(entry.latest.level) \/ IsAlert(recorded[s])) =>
         \/ recorded[s] = entry.latest.level
         \/ /\ recorded[s] = "no line"
            /\ \A i \in DOMAIN entry.history : entry.history[i].level = entry.latest.level

(***************************************************************************)
(* Fairness: the timer fires, posted closures are run, threads are         *)
(* scheduled, checks end because of their timeout and commands because of  *)
(* theirs. Nothing is assumed of the user or of restarts.                  *)
(***************************************************************************)
FairSpec ==
  /\ Spec
  /\ WF_vars(Timer) /\ WF_vars(CommandEnds) /\ WF_vars(Deliver)
  /\ WF_vars(WorkerReports) /\ WF_vars(WorkerExits)

\* A check that was asked for takes place, unless the server is switched off or
\* deleted: no other forced or due server can put it off for ever.
ForcedIsChecked ==
  \A s \in ServerIds :
    s \in force /\ Present(s) /\ enabled[s] ~> UnderWay(s) \/ ~Present(s) \/ ~enabled[s]

\* With automatic checks on, every server that is due is checked, however often
\* the servers before it become due again.
DueIsChecked ==
  \A s \in ServerIds :
    auto /\ Present(s) /\ enabled[s] /\ s \in due
      ~> UnderWay(s) \/ ~auto \/ ~Present(s) \/ ~enabled[s]

=============================================================================
