------------------------- MODULE HealthMonitorProofs -------------------------
(***************************************************************************)
(* What holds of HealthMonitor for every value of its constants: nothing   *)
(* is shown as being checked that is not, however ticks, snapshots that    *)
(* wait, changes of the servers and restarts follow each other; and the    *)
(* journal tells of every alert as long as the settings stay as they are.  *)
(***************************************************************************)
EXTENDS HealthMonitor, SequenceTheorems, WellFoundedInduction, TLAPS

Snapshot == [checked : BOOLEAN, reading : Readings \cup {"none"}, grown : BOOLEAN,
             level : Levels, checking : BOOLEAN]
Entries  == [ServerIds -> [latest : Snapshot, history : Seq(Snapshot)]]
Posted   == [server : ServerIds, found : Snapshot]
Worker   == {NoWorker} \cup [phase : {"checking", "exiting"}, server : ServerIds,
                            thresholds : Thresholds, ignore : BOOLEAN]

TypeInv ==
  /\ servers \in Seq(ServerIds)
  /\ created \in 0 .. MaxServers
  /\ ignore \in [ServerIds -> BOOLEAN] /\ enabled \in [ServerIds -> BOOLEAN]
  /\ thresholds \in Thresholds
  /\ entries \in Entries /\ saved \in Entries
  /\ worker \in Worker /\ events \in Seq(Posted)
  /\ next \in Nat

\* Of the entries ent and the server shown, with the worker w and the snapshots ev that
\* wait to be stored: what is shown as being checked is.
Explained(ent, shown, w, ev) ==
  LET underWay(s) == \/ w.phase = "checking" /\ w.server = s
                     \/ \E i \in DOMAIN ev : ev[i].server = s
  IN /\ shown # NoServer => underWay(shown)
     /\ \A s \in ServerIds : ent[s].latest.checking => underWay(s)

\* The inductive invariant. A restart takes over what was saved, in which nothing is being
\* checked.
IInv ==
  /\ TypeInv
  /\ \A s \in ServerIds : saved[s].latest.checking = FALSE
  /\ Explained(entries, checking_id, worker, events)

-----------------------------------------------------------------------------
(* Choosing a check                                                         *)

LEMMA MinIsThere ==
  ASSUME NEW S, S \subseteq Nat, S # {}
  PROVE  Min(S) \in S
  <1> DEFINE R == {p \in Nat \X Nat : p[1] < p[2]}
  <1>1. IsWellFoundedOn(R, Nat)
    BY NatLessThanWellFounded DEF OpToRel
  <1>2. PICK x \in S : \A y \in S : ~(<<y, x>> \in R)
    BY <1>1, WFMin
  <1>3. ASSUME NEW y \in S PROVE x <= y
    <2>1. <<y, x>> \in Nat \X Nat /\ <<y, x>>[1] = y /\ <<y, x>>[2] = x
      OBVIOUS
    <2>2. ~(y < x)
      BY <1>2, <2>1
    <2>3. QED
      BY <2>2
  <1>4. QED
    BY <1>3 DEF Min

\* The tick, of what a handler leaves: it starts a check of some server, while none is
\* running, or none at all.
LEMMA TickStarts ==
  ASSUME TypeInv, NEW at, at.next \in Nat, Tick(at), UNCHANGED servers
  PROVE  /\ \/ at.worker.phase = "none" /\ \E i \in DOMAIN servers : StartCheck(servers[i], at)
            \/ entries' = at.entries /\ checking_id' = at.checking_id /\ worker' = at.worker
         /\ next' \in Nat
  <1>1. CASE at.worker.phase = "none" /\ ForcedAt # {}
             /\ StartCheck(servers[Min(ForcedAt)], at) /\ next' = at.next
    <2>1. ForcedAt \subseteq DOMAIN servers /\ DOMAIN servers \subseteq Nat
      BY DEF ForcedAt, TypeInv
    <2>2. Min(ForcedAt) \in DOMAIN servers
      BY <1>1, <2>1, MinIsThere
    <2>3. QED
      BY <1>1, <2>2
  <1>2. CASE at.worker.phase = "none" /\ DueAt(at) # {}
             /\ StartCheck(servers[RoundRobin(at, Min(DueAt(at)))], at)
             /\ next' = NextAfter(at, Min(DueAt(at)))
    <2> DEFINE d == Min(DueAt(at))
    <2>1. DueAt(at) \subseteq 0 .. Len(servers) - 1 /\ Len(servers) \in Nat
      BY DEF DueAt, TypeInv
    <2>2. d \in 0 .. Len(servers) - 1
      BY <1>2, <2>1, MinIsThere
    <2> HIDE DEF d
    <2>3. (at.next + d) % Len(servers) \in 0 .. Len(servers) - 1
      BY <2>1, <2>2
    <2>4. RoundRobin(at, d) \in DOMAIN servers
      BY <2>1, <2>3 DEF RoundRobin, TypeInv
    <2>5. NextAfter(at, d) \in Nat
      BY <2>1, <2>2 DEF NextAfter
    <2>6. QED
      BY <1>2, <2>4, <2>5 DEF d
  <1>3. CASE NoCheck(at)
    BY <1>3 DEF NoCheck
  <1>4. QED
    BY <1>1, <1>2, <1>3 DEF Tick

\* The tick keeps what it finds: a check that it starts is under way.
LEMMA TickKeeps ==
  ASSUME TypeInv, UNCHANGED servers, thresholds' \in Thresholds,
         NEW ent \in Entries, NEW shown, NEW w \in Worker, NEW n \in Nat, events' \in Seq(Posted),
         Tick([entries |-> ent, checking_id |-> shown, worker |-> w, next |-> n]),
         Explained(ent, shown, w, events')
  PROVE  /\ entries' \in Entries /\ worker' \in Worker /\ next' \in Nat
         /\ Explained(entries', checking_id', worker', events')
  <1> DEFINE at == [entries |-> ent, checking_id |-> shown, worker |-> w, next |-> n]
  <1>1. /\ at.entries = ent /\ at.checking_id = shown /\ at.worker = w /\ at.next = n
    OBVIOUS
  <1> HIDE DEF at
  <1>2. /\ \/ w.phase = "none" /\ \E s \in ServerIds : StartCheck(s, at)
           \/ entries' = ent /\ checking_id' = shown /\ worker' = w
        /\ next' \in Nat
    BY <1>1, TickStarts DEF at, TypeInv
  <1>3. CASE entries' = ent /\ checking_id' = shown /\ worker' = w
    BY <1>2, <1>3
  <1>4. ASSUME w.phase = "none", NEW s \in ServerIds, StartCheck(s, at)
        PROVE  /\ entries' \in Entries /\ worker' \in Worker
               /\ Explained(entries', checking_id', worker', events')
    <2>1. /\ entries' = [ent EXCEPT ![s].latest.checking = TRUE] /\ checking_id' = s
          /\ worker' = [phase |-> "checking", server |-> s, thresholds |-> thresholds',
                        ignore |-> ignore[s]]
      BY <1>1, <1>4 DEF StartCheck
    <2>2. entries' \in Entries
      BY <2>1 DEF Entries, Snapshot
    <2>3. worker' \in Worker
      BY <2>1 DEF Worker, TypeInv
    <2>4. \A x \in ServerIds : x # s => entries'[x] = ent[x]
      BY <2>1 DEF Entries
    <2>5. \A x \in ServerIds : ent[x].latest.checking => \E i \in DOMAIN events' : events'[i].server = x
      BY <1>4 DEF Explained
    <2>6. worker'.phase = "checking" /\ worker'.server = s
      BY <2>1
    <2>7. QED
      BY <2>1, <2>2, <2>3, <2>4, <2>5, <2>6 DEF Explained
  <1>5. QED
    BY <1>2, <1>3, <1>4

-----------------------------------------------------------------------------
(* The end of a check                                                       *)

LEMMA LevelOfType ==
  ASSUME NEW reading \in Readings \cup {"none"}, NEW grown, NEW th, NEW ign
  PROVE  LevelOf(reading, grown, th, ign) \in Levels
  BY MonitorAssumption DEF LevelOf, Levels

LEMMA HistoryPushType ==
  ASSUME NEW history \in Seq(Snapshot), NEW prior \in Snapshot
  PROVE  HistoryPush(history, prior) \in Seq(Snapshot)
  <1> DEFINE pushed == <<prior>> \o history
             k == IF Len(history) < MaxHistory THEN Len(history) + 1 ELSE MaxHistory
  <1>1. pushed \in Seq(Snapshot) /\ Len(pushed) = Len(history) + 1
    OBVIOUS
  <1>2. k \in 1 .. Len(pushed)
    BY <1>1, MonitorAssumption
  <1> HIDE DEF pushed, k
  <1>3. SubSeq(pushed, 1, k) \in Seq(Snapshot)
    BY <1>1, <1>2, SubSeqProperties
  <1>4. QED
    BY <1>3 DEF HistoryPush, pushed, k

\* A snapshot that has been stored is not marked as being checked.
LEMMA StoredType ==
  ASSUME TypeInv, NEW snap \in Posted
  PROVE  /\ Stored(snap) \in [latest : Snapshot, history : Seq(Snapshot)]
         /\ Stored(snap).latest.checking = FALSE
  <1> DEFINE entry == entries[snap.server]
             prior == [entry.latest EXCEPT !.checking = FALSE]
             cur   == [snap.found EXCEPT !.checking = FALSE]
             new   == WithNetDelta(cur, prior, IgnoreNow(snap.server))
  <1>1. entry.latest \in Snapshot /\ entry.history \in Seq(Snapshot)
        /\ entry \in [latest : Snapshot, history : Seq(Snapshot)]
    BY DEF TypeInv, Entries, Posted
  <1>2. prior \in Snapshot
    BY <1>1 DEF Snapshot
  <1>3. cur \in Snapshot /\ cur.checking = FALSE
    BY DEF Posted, Snapshot
  <1> HIDE DEF entry, prior, cur
  <1>4. new \in Snapshot /\ new.checking = FALSE
    BY <1>3 DEF WithNetDelta, Snapshot, Levels
  <1>5. HistoryPush(entry.history, prior) \in Seq(Snapshot)
    BY <1>1, <1>2, HistoryPushType
  <1> HIDE DEF new
  <1>6. Stored(snap) = IF prior.checked
                       THEN [latest |-> new, history |-> HistoryPush(entry.history, prior)]
                       ELSE [entry EXCEPT !.latest = cur]
    BY DEF Stored, entry, prior, cur, new
  <1>7. QED
    BY <1>1, <1>3, <1>4, <1>5, <1>6

LEMMA NoEntryType == NoEntry \in [latest : Snapshot, history : Seq(Snapshot)]
                     /\ NoEntry.latest.checking = FALSE
  BY DEF NoEntry, NoSnapshot, Snapshot, Levels

\* In the file nothing is being checked.
LEMMA SaveType ==
  ASSUME IInv, NEW ent \in Entries, Save(ent)
  PROVE  saved' \in Entries /\ \A s \in ServerIds : saved'[s].latest.checking = FALSE
  <1>1. ASSUME NEW s \in ServerIds
        PROVE  /\ Loaded(ent[s]) \in [latest : Snapshot, history : Seq(Snapshot)]
               /\ Loaded(ent[s]).latest.checking = FALSE
    BY DEF Loaded, Entries, Snapshot
  <1>2. CASE saved' = [s \in ServerIds |-> IF Present(s) THEN Loaded(ent[s]) ELSE NoEntry]
    BY <1>1, <1>2, NoEntryType DEF Entries
  <1>3. CASE UNCHANGED saved
    BY <1>3 DEF IInv, TypeInv
  <1>4. QED
    BY <1>2, <1>3 DEF Save

LEMMA DeliverKeeps == IInv /\ Deliver => IInv'
  <1> SUFFICES ASSUME IInv, Deliver PROVE IInv'
    OBVIOUS
  <1> DEFINE snap == Head(events)
             ent  == [entries EXCEPT ![snap.server] = Stored(snap)]
  <1>1. events # <<>> /\ events \in Seq(Posted) /\ events' = Tail(events)
    BY DEF Deliver, IInv, TypeInv
  <1>2. snap \in Posted /\ events' \in Seq(Posted)
    BY <1>1, HeadTailProperties
  <1>3. snap.server \in ServerIds
    BY <1>2 DEF Posted
  <1>4. Stored(snap) \in [latest : Snapshot, history : Seq(Snapshot)] /\ Stored(snap).latest.checking = FALSE
    BY <1>2, StoredType DEF IInv
  <1>5. entries \in [ServerIds -> [latest : Snapshot, history : Seq(Snapshot)]]
    BY DEF IInv, TypeInv, Entries
  <1>6. Save(ent) /\ Tick(Monitor(ent, NoServer)) /\ UNCHANGED configVars
    BY DEF Deliver, ShownAfter
  <1> HIDE DEF snap
  <1>7. ent \in Entries /\ ent[snap.server].latest.checking = FALSE
        /\ \A s \in ServerIds : s # snap.server => ent[s] = entries[s]
    BY <1>3, <1>4, <1>5 DEF Entries
  <1>8. Explained(ent, NoServer, worker, events')
    <2>1. ASSUME NEW s \in ServerIds, s # snap.server, NEW i \in DOMAIN events, events[i].server = s
          PROVE  \E j \in DOMAIN events' : events'[j].server = s
      <3>1. i \in 1 .. Len(events) /\ i # 1
        BY <1>1, <2>1 DEF snap
      <3>2. i - 1 \in DOMAIN events' /\ events'[i - 1] = events[i]
        BY <1>1, <3>1
      <3>3. QED
        BY <2>1, <3>2
    <2>2. QED
      BY <1>7, <2>1 DEF IInv, Explained
  <1> HIDE DEF ent
  <1>9. saved' \in Entries /\ \A s \in ServerIds : saved'[s].latest.checking = FALSE
    BY <1>6, <1>7, SaveType
  <1>10. Tick([entries |-> ent, checking_id |-> NoServer, worker |-> worker, next |-> next])
    BY <1>6 DEF Monitor
  <1>11. /\ entries' \in Entries /\ worker' \in Worker /\ next' \in Nat
         /\ Explained(entries', checking_id', worker', events')
    BY <1>2, <1>6, <1>7, <1>8, <1>10, TickKeeps DEF IInv, TypeInv, configVars
  <1>12. QED
    BY <1>2, <1>6, <1>9, <1>11 DEF IInv, TypeInv, configVars

-----------------------------------------------------------------------------
(* The window                                                               *)

\* A handler that leaves entries and servers as they are and ends with the tick.
LEMMA WakeKeeps ==
  ASSUME IInv, UNCHANGED <<configVars, events, saved>>, Wake
  PROVE  IInv'
  <1>1. UNCHANGED <<servers, created, enabled, ignore, thresholds>>
    BY DEF configVars
  <1>2. /\ entries' \in Entries /\ worker' \in Worker /\ next' \in Nat
        /\ Explained(entries', checking_id', worker', events')
    BY <1>1, TickKeeps DEF Wake, Monitor, IInv, TypeInv
  <1>3. QED
    BY <1>1, <1>2 DEF IInv, TypeInv

\* The levels of what is cached change, and nothing else.
LEMMA ReevaluatedKeeps ==
  ASSUME IInv
  PROVE  /\ Reevaluated \in Entries
         /\ Explained(Reevaluated, checking_id, worker, events)
  <1>1. ASSUME NEW s \in ServerIds
        PROVE  /\ Reevaluated[s] \in [latest : Snapshot, history : Seq(Snapshot)]
               /\ Reevaluated[s].latest.checking = entries[s].latest.checking
    <2> DEFINE entry == entries[s]
               level == LevelOf(entry.latest.reading, entry.latest.grown, thresholds', Present(s) /\ ignore'[s])
    <2>1. entry \in [latest : Snapshot, history : Seq(Snapshot)]
      BY DEF IInv, TypeInv, Entries
    <2>2. entry.latest.reading \in Readings \cup {"none"}
      BY <2>1 DEF Snapshot
    <2> HIDE DEF entry
    <2>3. level \in Levels
      BY <2>2, LevelOfType
    <2>4. Reevaluated[s] = [entry EXCEPT !.latest.level = level]
      BY DEF Reevaluated, entry
    <2> HIDE DEF level
    <2>5. QED
      BY <2>1, <2>3, <2>4 DEF Snapshot, entry
  <1>2. Reevaluated = [s \in ServerIds |-> Reevaluated[s]]
    BY DEF Reevaluated
  <1>3. Reevaluated \in Entries
    BY <1>1, <1>2 DEF Entries
  <1>4. QED
    BY <1>1, <1>3 DEF IInv, Explained

LEMMA ChangeSettingsKeeps == IInv /\ ChangeSettings => IInv'
  <1> SUFFICES ASSUME IInv, ChangeSettings PROVE IInv'
    OBVIOUS
  <1>1. UNCHANGED <<servers, created, enabled, ignore, events, saved>> /\ thresholds' \in Thresholds
    BY DEF ChangeSettings, storedVars
  <1>2. Tick([entries |-> Reevaluated, checking_id |-> checking_id, worker |-> worker, next |-> next])
    BY DEF ChangeSettings, Monitor
  <1>3. Explained(Reevaluated, checking_id, worker, events') /\ Reevaluated \in Entries
    BY <1>1, ReevaluatedKeeps
  <1>4. /\ entries' \in Entries /\ worker' \in Worker /\ next' \in Nat
        /\ Explained(entries', checking_id', worker', events')
    BY <1>1, <1>2, <1>3, TickKeeps DEF IInv, TypeInv
  <1>5. QED
    BY <1>1, <1>4 DEF IInv, TypeInv

LEMMA EditServerKeeps ==
  ASSUME IInv, NEW s \in ServerIds, EditServer(s)
  PROVE  IInv'
  <1>1. PICK on \in BOOLEAN, ign \in Ignores :
          enabled' = [enabled EXCEPT ![s] = on] /\ ignore' = [ignore EXCEPT ![s] = ign]
    BY DEF EditServer
  <1>2. enabled' \in [ServerIds -> BOOLEAN] /\ ignore' \in [ServerIds -> BOOLEAN]
    BY <1>1, MonitorAssumption DEF IInv, TypeInv
  <1>3. UNCHANGED <<servers, created, thresholds, next, checking_id, worker, events, saved>>
        /\ entries' = Reevaluated
    BY DEF EditServer, storedVars
  <1>4. QED
    BY <1>2, <1>3, ReevaluatedKeeps DEF IInv, TypeInv

LEMMA AddServerKeeps == IInv /\ AddServer => IInv'
  <1> SUFFICES ASSUME IInv, AddServer PROVE IInv'
    OBVIOUS
  <1>1. created + 1 \in ServerIds /\ created' = created + 1 /\ created' \in 0 .. MaxServers
    BY MonitorAssumption DEF AddServer, IInv, TypeInv, ServerIds
  <1>2. servers' \in Seq(ServerIds)
    BY <1>1, AppendProperties DEF AddServer, IInv, TypeInv
  <1>3. PICK on \in BOOLEAN, ign \in Ignores :
          /\ enabled' = [enabled EXCEPT ![created + 1] = on]
          /\ ignore' = [ignore EXCEPT ![created + 1] = ign]
    BY DEF AddServer
  <1>4. enabled' \in [ServerIds -> BOOLEAN] /\ ignore' \in [ServerIds -> BOOLEAN]
    BY <1>3, MonitorAssumption DEF IInv, TypeInv
  <1>5. UNCHANGED <<thresholds, entries, next, checking_id, worker, events, saved>>
    BY DEF AddServer, monitorVars, storedVars
  <1>6. QED
    BY <1>1, <1>2, <1>4, <1>5 DEF IInv, TypeInv

LEMMA RemoveAtType ==
  ASSUME NEW f \in Seq(ServerIds), NEW i \in DOMAIN f
  PROVE  RemoveAt(f, i) \in Seq(ServerIds)
  <1>1. SubSeq(f, 1, i - 1) \in Seq(ServerIds)
    BY SubSeqProperties
  <1>2. SubSeq(f, i + 1, Len(f)) \in Seq(ServerIds)
    BY SubSeqProperties
  <1>3. QED
    BY <1>1, <1>2, ConcatProperties DEF RemoveAt

LEMMA DeleteServerKeeps ==
  ASSUME IInv, NEW s \in ServerIds, DeleteServer(s)
  PROVE  IInv'
  <1>1. servers' \in Seq(ServerIds)
    BY RemoveAtType DEF DeleteServer, IInv, TypeInv
  <1>2. UNCHANGED <<created, enabled, ignore, thresholds, entries, next, checking_id, worker, events, saved>>
    BY DEF DeleteServer, monitorVars, storedVars
  <1>3. QED
    BY <1>1, <1>2 DEF IInv, TypeInv

\* Nothing that the invariant speaks of changes.
LEMMA StutterKeeps ==
  ASSUME IInv, UNCHANGED <<configVars, monitorVars, events, saved>>
  PROVE  IInv'
  <1>1. UNCHANGED <<servers, created, enabled, ignore, thresholds, entries, next, checking_id,
                    worker, events, saved>>
    BY DEF configVars, monitorVars
  <1>2. QED
    BY <1>1 DEF IInv, TypeInv

LEMMA RestartKeeps == IInv /\ Restart => IInv'
  <1> SUFFICES ASSUME IInv, Restart PROVE IInv'
    OBVIOUS
  <1>1. UNCHANGED <<servers, created, enabled, ignore, thresholds, saved>> /\ events' = <<>>
    BY DEF Restart, configVars, storedVars
  <1>2. Tick([entries |-> saved, checking_id |-> NoServer, worker |-> NoWorker, next |-> 0])
    BY DEF Restart
  <1>3. NoWorker \in Worker /\ events' \in Seq(Posted) /\ 0 \in Nat
    BY <1>1 DEF NoWorker, Worker
  <1>4. Explained(saved, NoServer, NoWorker, events')
    BY DEF IInv, Explained
  <1>5. /\ entries' \in Entries /\ worker' \in Worker /\ next' \in Nat
        /\ Explained(entries', checking_id', worker', events')
    BY <1>1, <1>2, <1>3, <1>4, TickKeeps DEF IInv, TypeInv
  <1>6. QED
    BY <1>1, <1>3, <1>5 DEF IInv, TypeInv

-----------------------------------------------------------------------------
(* The worker                                                               *)

\* The check that ends was under way, and so is its snapshot.
LEMMA WorkerReportsKeeps == IInv /\ WorkerReports => IInv'
  <1> SUFFICES ASSUME IInv, WorkerReports PROVE IInv'
    OBVIOUS
  <1>1. UNCHANGED <<servers, created, enabled, ignore, thresholds, entries, next, checking_id, saved>>
        /\ worker.phase = "checking" /\ worker' = [worker EXCEPT !.phase = "exiting"]
    BY DEF WorkerReports, configVars, storedVars
  <1>2. PICK reading \in Readings :
          events' = Append(events, [server |-> worker.server,
                      found |-> [checked |-> TRUE, reading |-> reading, grown |-> FALSE,
                                 level |-> LevelOf(reading, FALSE, worker.thresholds, worker.ignore),
                                 checking |-> FALSE]])
    BY DEF WorkerReports
  <1> DEFINE post == [server |-> worker.server,
                      found |-> [checked |-> TRUE, reading |-> reading, grown |-> FALSE,
                                 level |-> LevelOf(reading, FALSE, worker.thresholds, worker.ignore),
                                 checking |-> FALSE]]
  <1>3. worker.server \in ServerIds
    BY <1>1 DEF IInv, TypeInv, Worker, NoWorker
  <1>4. post \in Posted /\ post.server = worker.server
    BY <1>3, LevelOfType DEF Posted, Snapshot
  <1> HIDE DEF post
  <1>5. events \in Seq(Posted) /\ events' = Append(events, post)
    BY <1>2 DEF post, IInv, TypeInv
  <1>6. /\ events' \in Seq(Posted) /\ Len(events') = Len(events) + 1
        /\ \A i \in 1 .. Len(events) : events'[i] = events[i]
        /\ events'[Len(events) + 1] = post
    BY <1>4, <1>5, AppendProperties
  <1>7. \A i \in DOMAIN events : i \in DOMAIN events' /\ events'[i] = events[i]
    BY <1>5, <1>6
  <1>8. Len(events) + 1 \in DOMAIN events' /\ events'[Len(events) + 1].server = worker.server
    BY <1>4, <1>5, <1>6
  <1>9. Explained(entries', checking_id', worker', events')
    BY <1>1, <1>7, <1>8 DEF IInv, Explained
  <1>10. worker' \in Worker
    BY <1>1 DEF IInv, TypeInv, Worker, NoWorker
  <1>11. QED
    BY <1>1, <1>6, <1>9, <1>10 DEF IInv, TypeInv

LEMMA WorkerExitsKeeps == IInv /\ WorkerExits => IInv'
  <1> SUFFICES ASSUME IInv, WorkerExits PROVE IInv'
    OBVIOUS
  <1>1. UNCHANGED <<servers, created, enabled, ignore, thresholds, entries, next, checking_id, events, saved>>
        /\ worker.phase = "exiting" /\ worker' = NoWorker
    BY DEF WorkerExits, configVars, storedVars
  <1>2. NoWorker \in Worker
    BY DEF NoWorker, Worker
  <1>3. QED
    BY <1>1, <1>2 DEF IInv, TypeInv, Explained

-----------------------------------------------------------------------------
(* The theorem                                                              *)

LEMMA InitHolds == Init => IInv
  <1> SUFFICES ASSUME Init PROVE IInv
    OBVIOUS
  <1>1. servers \in Seq(ServerIds)
    <2>1. FirstServers \in Nat /\ \A i \in 1 .. FirstServers : i \in ServerIds
      BY MonitorAssumption DEF ServerIds
    <2>2. [i \in 1 .. FirstServers |-> i] \in [1 .. FirstServers -> ServerIds]
      BY <2>1
    <2>3. servers \in [1 .. FirstServers -> ServerIds]
      BY <2>2 DEF Init
    <2>4. QED
      BY <2>1, <2>3, SeqDef
  <1>2. entries \in Entries /\ saved \in Entries
    BY NoEntryType DEF Init, Entries
  <1>3. worker \in Worker
    BY DEF Init, NoWorker, Worker
  <1>4. events \in Seq(Posted) /\ next \in Nat /\ created \in 0 .. MaxServers /\ thresholds \in Thresholds
    <2>1. events = <<>> /\ next = 0 /\ created = FirstServers /\ thresholds \in Thresholds
      BY DEF Init
    <2>2. QED
      BY <2>1, MonitorAssumption
  <1>5. \A s \in ServerIds : /\ entries[s].latest.checking = FALSE
                             /\ saved[s].latest.checking = FALSE
    BY NoEntryType DEF Init
  <1>6. ignore \in [ServerIds -> BOOLEAN] /\ enabled \in [ServerIds -> BOOLEAN] /\ checking_id = NoServer
    BY DEF Init
  <1>7. QED
    BY <1>1, <1>2, <1>3, <1>4, <1>5, <1>6 DEF IInv, TypeInv, Explained

LEMMA UserKeeps == IInv /\ User => IInv'
  <1> SUFFICES ASSUME IInv, User PROVE IInv'
    OBVIOUS
  <1>1. ASSUME NEW s \in ServerIds, Refresh(s) PROVE IInv'
    BY <1>1, WakeKeeps DEF Refresh, storedVars
  <1>2. CASE RefreshAll
    BY <1>2, WakeKeeps DEF RefreshAll, storedVars
  <1>3. ASSUME NEW s \in ServerIds, CommandStarts(s) PROVE IInv'
    BY <1>3, StutterKeeps DEF CommandStarts, storedVars
  <1>4. QED
    BY <1>1, <1>2, <1>3, EditServerKeeps, DeleteServerKeeps, ChangeSettingsKeeps, AddServerKeeps DEF User

LEMMA NextKeeps == IInv /\ [Next]_vars => IInv'
  <1> SUFFICES ASSUME IInv, [Next]_vars PROVE IInv'
    OBVIOUS
  <1>1. CASE Timer
    BY <1>1, WakeKeeps DEF Timer, storedVars
  <1>2. CASE CommandEnds
    BY <1>2, WakeKeeps DEF CommandEnds, storedVars
  <1>3. ASSUME NEW s \in ServerIds, Elapse(s) PROVE IInv'
    BY <1>3, StutterKeeps DEF Elapse, storedVars
  <1>4. CASE UNCHANGED vars
    BY <1>4, StutterKeeps DEF vars, storedVars
  <1>5. QED
    BY <1>1, <1>2, <1>3, <1>4, UserKeeps, RestartKeeps, DeliverKeeps, WorkerReportsKeeps,
       WorkerExitsKeeps DEF Next

\* "Checking" is never shown of a server whose check is over, neither by checking_id_
\* nor by the mark in its snapshot, for any number of servers, of snapshots that wait, of
\* changes and restarts (start_check and its closure, tick, store_snapshot).
THEOREM ShownIsAlwaysUnderWay == Spec => []ShownIsUnderWay
  <1>1. IInv => ShownIsUnderWay
    BY DEF IInv, Explained, ShownIsUnderWay, UnderWay, Checking, Pending
  <1>2. QED
    BY <1>1, InitHolds, NextKeeps, PTL DEF Spec
-----------------------------------------------------------------------------
(* The journal                                                              *)

\* Thresholds and ignore flags stay as they are; and the cache is written, or never read.
Steady ==
  /\ \E th : Thresholds = {th}
  /\ Ignores = {FALSE}
  /\ DiskFails => MaxRestarts = 0

\* The level of a snapshot is the one its reading has by the thresholds th.
Rated(snap, th) == snap.level = LevelOf(snap.reading, snap.grown, th, FALSE)

\* The last line of the journal about a server tells what its entry says.
OnRecord(entry, line) ==
  /\ ~entry.latest.checked => line = "no line" /\ entry.history = <<>>
  /\ IsAlert(entry.latest.level) \/ IsAlert(line) =>
       \/ line = entry.latest.level
       \/ /\ line = "no line"
          /\ \A i \in DOMAIN entry.history : entry.history[i].level = entry.latest.level

\* So it is with the entries ent of the servers srv and of those to come, when n ids are taken.
Filed(ent, lines, srv, n, th) ==
  /\ \A s \in ServerIds : Rated(ent[s].latest, th)
  /\ \A s \in ServerIds : (\E i \in DOMAIN srv : srv[i] = s) \/ s > n => OnRecord(ent[s], lines[s])
  /\ \A s \in ServerIds : s > n => ~ent[s].latest.checked

Fits(w, n, th) ==
  w.phase # "none" => w.server <= n /\ w.thresholds = th /\ w.ignore = FALSE

Reports(post, n, th) ==
  post.server <= n /\ post.found.checked /\ post.found.grown = FALSE /\ Rated(post.found, th)

StatusInv ==
  /\ \A s \in ServerIds : ignore[s] = FALSE
  /\ \A i \in DOMAIN servers : servers[i] <= created
  /\ recorded \in [ServerIds -> Levels \cup {"no line"}]
  /\ restarts \in Nat
  /\ Fits(worker, created, thresholds)
  /\ \A i \in DOMAIN events : Reports(events[i], created, thresholds)
  /\ Filed(entries, recorded, servers, created, thresholds)
  /\ ~DiskFails => Filed(saved, recorded, servers, created, thresholds)

\* Entries that differ only in the mark of what is being checked.
Alike(ent, ent2) ==
  \A s \in ServerIds :
    /\ ent2[s].history = ent[s].history
    /\ ent2[s].latest.checked = ent[s].latest.checked
    /\ ent2[s].latest.reading = ent[s].latest.reading
    /\ ent2[s].latest.grown = ent[s].latest.grown
    /\ ent2[s].latest.level = ent[s].latest.level

LEMMA NothingInEmpty == DOMAIN <<>> = {}
  OBVIOUS

\* The ids in use are ids, and are taken.
LEMMA IdsTaken ==
  ASSUME TypeInv, StatusInv
  PROVE  /\ \A i \in DOMAIN servers : servers[i] \in ServerIds /\ servers[i] <= created
         /\ created \in Nat
         /\ \A s \in ServerIds : s > created => ~Present(s)
  <1>1. \A i \in DOMAIN servers : servers[i] \in ServerIds
    BY DEF TypeInv
  <1>2. \A i \in DOMAIN servers : servers[i] <= created
    BY DEF StatusInv
  <1>3. created \in Nat
    BY DEF TypeInv
  <1>4. ASSUME NEW s \in ServerIds, s > created, NEW i \in DOMAIN servers, servers[i] = s PROVE FALSE
    BY <1>2, <1>3, <1>4 DEF ServerIds
  <1>5. QED
    BY <1>1, <1>2, <1>3, <1>4 DEF Present

LEMMA AlikeFiled ==
  ASSUME NEW ent, NEW ent2, Alike(ent, ent2), NEW lines, NEW srv, NEW n, NEW th,
         Filed(ent, lines, srv, n, th)
  PROVE  Filed(ent2, lines, srv, n, th)
  <1>1. ASSUME NEW s \in ServerIds, Rated(ent[s].latest, th) PROVE Rated(ent2[s].latest, th)
    BY <1>1 DEF Alike, Rated
  <1>2. ASSUME NEW s \in ServerIds, NEW line, OnRecord(ent[s], line) PROVE OnRecord(ent2[s], line)
    BY <1>2 DEF Alike, OnRecord
  <1>3. \A s \in ServerIds : ent2[s].latest.checked = ent[s].latest.checked
    BY DEF Alike
  <1>4. QED
    BY <1>1, <1>2, <1>3 DEF Filed

LEMMA SteadyStays ==
  ASSUME Steady, TypeInv, TypeInv'
  PROVE  thresholds' = thresholds
  BY DEF Steady, TypeInv

\* A check that the tick starts is of a server there is, and is told the thresholds and
\* the ignore flag.
LEMMA TickFits ==
  ASSUME TypeInv, StatusInv, UNCHANGED <<servers, thresholds>>,
         NEW ent \in Entries, NEW shown, NEW w, Fits(w, created, thresholds), NEW n \in Nat,
         Tick([entries |-> ent, checking_id |-> shown, worker |-> w, next |-> n])
  PROVE  Alike(ent, entries') /\ Fits(worker', created, thresholds)
  <1> DEFINE at == [entries |-> ent, checking_id |-> shown, worker |-> w, next |-> n]
  <1>1. at.entries = ent /\ at.worker = w /\ at.next = n
    OBVIOUS
  <1> HIDE DEF at
  <1>2. \/ \E i \in DOMAIN servers : StartCheck(servers[i], at)
        \/ entries' = ent /\ worker' = w
    BY <1>1, TickStarts DEF at
  <1>3. CASE entries' = ent /\ worker' = w
    BY <1>3 DEF Alike
  <1>4. ASSUME NEW i \in DOMAIN servers, StartCheck(servers[i], at)
        PROVE  Alike(ent, entries') /\ Fits(worker', created, thresholds)
    <2> DEFINE s == servers[i]
    <2>1. s \in ServerIds /\ s <= created /\ ignore[s] = FALSE
      BY IdsTaken DEF StatusInv
    <2>2. /\ entries' = [ent EXCEPT ![s].latest.checking = TRUE]
          /\ worker' = [phase |-> "checking", server |-> s, thresholds |-> thresholds,
                        ignore |-> ignore[s]]
      BY <1>1, <1>4 DEF StartCheck
    <2> HIDE DEF s
    <2>3. Alike(ent, entries')
      <3>1. ASSUME NEW x \in ServerIds, x # s PROVE entries'[x] = ent[x]
        BY <2>2, <3>1 DEF Entries
      <3>2. entries'[s] = [ent[s] EXCEPT !.latest.checking = TRUE]
        BY <2>1, <2>2 DEF Entries
      <3>3. ent[s] \in [latest : Snapshot, history : Seq(Snapshot)]
        BY <2>1 DEF Entries
      <3>4. /\ entries'[s].history = ent[s].history
            /\ entries'[s].latest.checked = ent[s].latest.checked
            /\ entries'[s].latest.reading = ent[s].latest.reading
            /\ entries'[s].latest.grown = ent[s].latest.grown
            /\ entries'[s].latest.level = ent[s].latest.level
        BY <3>2, <3>3 DEF Snapshot
      <3>5. QED
        BY <3>1, <3>4 DEF Alike
    <2>4. QED
      BY <2>1, <2>2, <2>3 DEF Fits
  <1>5. QED
    BY <1>2, <1>3, <1>4

\* As long as they stay as they are, what is cached keeps its level.
LEMMA ReevaluatedAlike ==
  ASSUME IInv, StatusInv, thresholds' = thresholds, \A s \in ServerIds : ignore'[s] = FALSE
  PROVE  Alike(entries, Reevaluated)
  <1>1. ASSUME NEW s \in ServerIds
        PROVE  Reevaluated[s] = [entries[s] EXCEPT !.latest.level = entries[s].latest.level]
    <2>1. (Present(s) /\ ignore'[s]) = FALSE
      OBVIOUS
    <2>2. LevelOf(entries[s].latest.reading, entries[s].latest.grown, thresholds', Present(s) /\ ignore'[s])
            = entries[s].latest.level
      BY <2>1 DEF StatusInv, Filed, Rated
    <2>3. QED
      BY <2>2 DEF Reevaluated
  <1>2. \A s \in ServerIds : entries[s] \in [latest : Snapshot, history : Seq(Snapshot)]
    BY DEF IInv, TypeInv, Entries
  <1>3. ASSUME NEW s \in ServerIds, NEW entry \in [latest : Snapshot, history : Seq(Snapshot)]
        PROVE  [entry EXCEPT !.latest.level = entry.latest.level] = entry
    BY <1>3 DEF Snapshot
  <1>4. QED
    BY <1>1, <1>2, <1>3 DEF Alike

\* What is pushed is the prior snapshot or was there.
LEMMA HistoryPushIs ==
  ASSUME NEW history \in Seq(Snapshot), NEW prior \in Snapshot,
         NEW i \in DOMAIN HistoryPush(history, prior)
  PROVE  \/ HistoryPush(history, prior)[i] = prior
         \/ \E j \in DOMAIN history : HistoryPush(history, prior)[i] = history[j]
  <1> DEFINE pushed == <<prior>> \o history
             k == IF Len(history) < MaxHistory THEN Len(history) + 1 ELSE MaxHistory
  <1>1. /\ pushed \in Seq(Snapshot) /\ Len(pushed) = Len(history) + 1
        /\ \A j \in 1 .. Len(pushed) : IF j = 1 THEN pushed[j] = prior ELSE pushed[j] = history[j - 1]
    OBVIOUS
  <1>2. k \in 1 .. Len(pushed)
    BY <1>1, MonitorAssumption
  <1> HIDE DEF pushed, k
  <1>3. CASE HistoryPush(history, prior) = SubSeq(pushed, 1, k)
    <2>1. i \in 1 .. k /\ SubSeq(pushed, 1, k)[i] = pushed[i]
      BY <1>1, <1>2, <1>3, SubSeqProperties
    <2>2. i \in 1 .. Len(pushed)
      BY <1>1, <1>2, <2>1
    <2>3. CASE i = 1
      BY <1>1, <1>3, <2>1, <2>2, <2>3
    <2>4. CASE i # 1
      <3>1. i - 1 \in DOMAIN history
        BY <1>1, <2>2, <2>4
      <3>2. pushed[i] = history[i - 1]
        BY <1>1, <2>2, <2>4
      <3>3. QED
        BY <1>3, <2>1, <3>1, <3>2
    <2>5. QED
      BY <2>3, <2>4
  <1>4. CASE HistoryPush(history, prior) = history
    BY <1>4
  <1>5. QED
    BY <1>3, <1>4 DEF HistoryPush, pushed, k

\* The level of a snapshot that is compared with the one before.
LEMMA DeltaRated ==
  ASSUME NEW cur \in Snapshot, NEW prior \in Snapshot, NEW th, Rated(cur, th), cur.grown = FALSE
  PROVE  /\ Rated(WithNetDelta(cur, prior, FALSE), th)
         /\ WithNetDelta(cur, prior, FALSE).checked = cur.checked
  <1> DEFINE grown == cur.reading = "errs" /\ prior.reading \notin {"none", "offline", "unsupported"}
             new == WithNetDelta(cur, prior, FALSE)
  <1>1. /\ new.checked = cur.checked /\ new.reading = cur.reading /\ new.grown = grown
        /\ new.level = IF grown THEN "warn" ELSE cur.level
    BY DEF WithNetDelta, Snapshot
  <1>2. CASE grown
    <2>1. cur.reading = "errs"
      BY <1>2
    <2> HIDE DEF grown, new
    <2>2. LevelOf("errs", TRUE, th, FALSE) = "warn"
      BY DEF LevelOf
    <2>3. QED
      BY <1>1, <1>2, <2>1, <2>2 DEF Rated, new
  <1>3. CASE ~grown
    <2>1. new.grown = cur.grown /\ new.level = cur.level
      BY <1>1, <1>3
    <2> HIDE DEF grown, new
    <2>2. QED
      BY <1>1, <2>1 DEF Rated, new
  <1>4. QED
    BY <1>2, <1>3

\* The rule of the journal: if a server's last line told what its entry said, then the
\* next one does, or the same one still does.
LEMMA JournalTells ==
  ASSUME NEW entry \in [latest : Snapshot, history : Seq(Snapshot)],
         NEW cur \in Snapshot, cur.checked,
         NEW line, OnRecord(entry, line),
         NEW new \in [latest : Snapshot, history : Seq(Snapshot)], new.latest = cur,
         ~entry.latest.checked => new.history = entry.history,
         \A i \in DOMAIN new.history :
            \/ new.history[i].level = entry.latest.level
            \/ \E j \in DOMAIN entry.history : new.history[i] = entry.history[j]
  PROVE  OnRecord(new, IF Journals(entry.latest, cur) THEN cur.level ELSE line)
  <1>1. CASE Journals(entry.latest, cur)
    BY <1>1 DEF OnRecord
  <1>2. CASE ~Journals(entry.latest, cur) /\ ~entry.latest.checked
    <2>1. line = "no line" /\ new.history = <<>>
      BY <1>2 DEF OnRecord
    <2>2. \A i \in DOMAIN new.history : FALSE
      BY <2>1, NothingInEmpty
    <2>3. QED
      BY <1>2, <2>1, <2>2 DEF OnRecord
  <1>3. CASE ~Journals(entry.latest, cur) /\ entry.latest.checked /\ entry.latest.level = cur.level
    BY <1>3 DEF OnRecord
  <1>4. CASE ~Journals(entry.latest, cur) /\ entry.latest.checked /\ entry.latest.level # cur.level
    <2>1. ~IsAlert(entry.latest.level) /\ ~IsAlert(cur.level)
      BY <1>4 DEF Journals
    <2>2. ~IsAlert(line)
      BY <2>1 DEF OnRecord, IsAlert
    <2>3. QED
      BY <1>4, <2>1, <2>2 DEF OnRecord
  <1>5. QED
    BY <1>1, <1>2, <1>3, <1>4

LEMMA StoredTells ==
  ASSUME IInv, StatusInv, NEW snap \in Posted, Reports(snap, created, thresholds)
  PROVE  LET s == snap.server IN
         /\ Rated(Stored(snap).latest, thresholds)
         /\ Stored(snap).latest.checked
         /\ \A line : OnRecord(entries[s], line) =>
              OnRecord(Stored(snap), IF Journals(entries[s].latest, Stored(snap).latest)
                                     THEN Stored(snap).latest.level ELSE line)
  <1> DEFINE s     == snap.server
             entry == entries[s]
             prior == [entry.latest EXCEPT !.checking = FALSE]
             cur   == [snap.found EXCEPT !.checking = FALSE]
             delta == WithNetDelta(cur, prior, FALSE)
  <1>1. s \in ServerIds /\ snap.found \in Snapshot
    BY DEF Posted
  <1>2. /\ entry \in [latest : Snapshot, history : Seq(Snapshot)]
        /\ entry.latest \in Snapshot /\ entry.history \in Seq(Snapshot)
    BY <1>1 DEF IInv, TypeInv, Entries
  <1> HIDE DEF entry
  <1>3. IgnoreNow(s) = FALSE
    BY <1>1 DEF IgnoreNow, StatusInv
  <1>4. /\ cur \in Snapshot /\ cur.checked /\ cur.grown = FALSE /\ Rated(cur, thresholds)
    BY <1>1 DEF Reports, Snapshot, Rated
  <1>5. /\ prior \in Snapshot /\ prior.level = entry.latest.level
        /\ prior.checked = entry.latest.checked
    BY <1>2 DEF Snapshot
  <1> HIDE DEF s, prior, cur
  <1>6. Rated(delta, thresholds) /\ delta.checked
    BY <1>4, <1>5, DeltaRated
  <1>7. Stored(snap) = IF prior.checked
                       THEN [latest |-> delta, history |-> HistoryPush(entry.history, prior)]
                       ELSE [entry EXCEPT !.latest = cur]
    BY <1>3 DEF Stored, entry, prior, cur, s
  <1> HIDE DEF delta
  <1>8. Stored(snap) \in [latest : Snapshot, history : Seq(Snapshot)]
    BY StoredType DEF IInv
  <1>9. Rated(Stored(snap).latest, thresholds) /\ Stored(snap).latest.checked
        /\ Stored(snap).latest \in Snapshot
    BY <1>2, <1>4, <1>6, <1>7, <1>8
  <1>10. /\ ~entry.latest.checked => Stored(snap).history = entry.history
         /\ \A i \in DOMAIN Stored(snap).history :
              \/ Stored(snap).history[i].level = entry.latest.level
              \/ \E j \in DOMAIN entry.history : Stored(snap).history[i] = entry.history[j]
    <2>1. CASE prior.checked
      <3>1. Stored(snap).history = HistoryPush(entry.history, prior)
        BY <1>7, <2>1
      <3>2. \A i \in DOMAIN HistoryPush(entry.history, prior) :
              \/ HistoryPush(entry.history, prior)[i] = prior
              \/ \E j \in DOMAIN entry.history : HistoryPush(entry.history, prior)[i] = entry.history[j]
        BY <1>2, <1>5, HistoryPushIs
      <3>3. QED
        BY <1>5, <2>1, <3>1, <3>2
    <2>2. CASE ~prior.checked
      <3>1. Stored(snap).history = entry.history
        BY <1>2, <1>7, <2>2
      <3>2. QED
        BY <3>1
    <2>3. QED
      BY <2>1, <2>2
  <1>11. \A line : OnRecord(entry, line) =>
           OnRecord(Stored(snap), IF Journals(entry.latest, Stored(snap).latest)
                                  THEN Stored(snap).latest.level ELSE line)
    BY <1>2, <1>8, <1>9, <1>10, JournalTells
  <1>12. QED
    BY <1>9, <1>11 DEF entry, s

\* A snapshot is stored, journaled and saved.
LEMMA DeliverTells ==
  ASSUME IInv, StatusInv, Deliver, thresholds' = thresholds
  PROVE  StatusInv'
  <1> DEFINE snap == Head(events)
             ent  == [entries EXCEPT ![snap.server] = Stored(snap)]
  <1>1. events # <<>> /\ events \in Seq(Posted) /\ events' = Tail(events)
    BY DEF Deliver, IInv, TypeInv
  <1>2. snap \in Posted /\ Reports(snap, created, thresholds)
    <2>1. 1 \in DOMAIN events /\ snap = events[1]
      BY <1>1
    <2>2. events[1] \in Posted
      BY <1>1, <2>1
    <2>3. Reports(events[1], created, thresholds)
      BY <2>1 DEF StatusInv
    <2>4. QED
      BY <2>1, <2>2, <2>3
  <1>3. \A i \in DOMAIN events' : Reports(events'[i], created, thresholds)
    <2>1. ASSUME NEW i \in DOMAIN events' PROVE i + 1 \in DOMAIN events /\ events'[i] = events[i + 1]
      BY <1>1
    <2>2. QED
      BY <2>1 DEF StatusInv
  <1> HIDE DEF snap
  <1>4. /\ Rated(Stored(snap).latest, thresholds) /\ Stored(snap).latest.checked
        /\ \A line : OnRecord(entries[snap.server], line) =>
             OnRecord(Stored(snap), IF Journals(entries[snap.server].latest, Stored(snap).latest)
                                    THEN Stored(snap).latest.level ELSE line)
    BY <1>2, StoredTells
  <1>5. snap.server \in ServerIds /\ snap.server <= created
    BY <1>2 DEF Posted, Reports
  <1>6. Stored(snap) \in [latest : Snapshot, history : Seq(Snapshot)]
    BY <1>2, StoredType DEF IInv
  <1>7. entries \in [ServerIds -> [latest : Snapshot, history : Seq(Snapshot)]]
    BY DEF IInv, TypeInv, Entries
  <1>8. /\ recorded' = IF Journals(entries[snap.server].latest, Stored(snap).latest)
                       THEN [recorded EXCEPT ![snap.server] = Stored(snap).latest.level] ELSE recorded
        /\ Save(ent) /\ Tick(Monitor(ent, NoServer)) /\ UNCHANGED <<configVars, restarts>>
    BY DEF Deliver, ShownAfter, snap
  <1>9. /\ recorded' \in [ServerIds -> Levels \cup {"no line"}]
        /\ \A s \in ServerIds : s # snap.server => recorded'[s] = recorded[s]
        /\ recorded'[snap.server] = IF Journals(entries[snap.server].latest, Stored(snap).latest)
                                    THEN Stored(snap).latest.level ELSE recorded[snap.server]
    <2>1. Stored(snap).latest.level \in Levels
      BY <1>6 DEF Snapshot
    <2>2. recorded \in [ServerIds -> Levels \cup {"no line"}]
      BY DEF StatusInv
    <2>3. QED
      BY <1>5, <1>8, <2>1, <2>2
  <1>10. /\ ent \in Entries /\ ent[snap.server] = Stored(snap)
         /\ \A s \in ServerIds : s # snap.server => ent[s] = entries[s]
    BY <1>5, <1>6, <1>7 DEF Entries
  <1> HIDE DEF ent
  <1>11. Filed(ent, recorded', servers, created, thresholds)
    <2>1. \A s \in ServerIds : Rated(ent[s].latest, thresholds)
      BY <1>4, <1>10 DEF StatusInv, Filed
    <2>2. \A s \in ServerIds : s > created => s # snap.server
      BY <1>5 DEF IInv, TypeInv, ServerIds
    <2>3. \A s \in ServerIds : s > created => ~ent[s].latest.checked
      BY <1>10, <2>2 DEF StatusInv, Filed
    <2>4. ASSUME NEW s \in ServerIds, (\E i \in DOMAIN servers : servers[i] = s) \/ s > created
          PROVE  OnRecord(ent[s], recorded'[s])
      <3>1. OnRecord(entries[s], recorded[s])
        BY <2>4 DEF StatusInv, Filed
      <3>2. CASE s = snap.server
        BY <1>4, <1>9, <1>10, <3>1, <3>2
      <3>3. CASE s # snap.server
        BY <1>9, <1>10, <3>1, <3>3
      <3>4. QED
        BY <3>2, <3>3
    <2>5. QED
      BY <2>1, <2>3, <2>4 DEF Filed
  <1>12. ~DiskFails => Filed(saved', recorded', servers, created, thresholds)
    <2> SUFFICES ASSUME ~DiskFails PROVE Filed(saved', recorded', servers, created, thresholds)
      OBVIOUS
    <2>1. saved' = [s \in ServerIds |-> IF Present(s) THEN Loaded(ent[s]) ELSE NoEntry]
      BY <1>8 DEF Save
    <2> DEFINE kept == [s \in ServerIds |-> IF Present(s) THEN ent[s] ELSE NoEntry]
    <2>2. Filed(kept, recorded', servers, created, thresholds)
      <3>1. Rated(NoEntry.latest, thresholds) /\ ~NoEntry.latest.checked
        BY DEF NoEntry, NoSnapshot, Rated, LevelOf
      <3>2. \A s \in ServerIds : s > created => ~Present(s)
        BY IdsTaken DEF IInv
      <3>3. ASSUME NEW s \in ServerIds, s > created PROVE OnRecord(NoEntry, recorded'[s])
        <4>1. recorded'[s] = "no line"
          BY <1>11, <3>3 DEF Filed, OnRecord
        <4>2. QED
          BY <4>1 DEF OnRecord, NoEntry, NoSnapshot, IsAlert
      <3>4. QED
        BY <1>11, <3>1, <3>2, <3>3 DEF Filed, Present
    <2>3. Alike(kept, saved')
      <3>1. ASSUME NEW s \in ServerIds
            PROVE  \/ saved'[s] = kept[s]
                   \/ kept[s] \in [latest : Snapshot, history : Seq(Snapshot)] /\ saved'[s] = Loaded(kept[s])
        BY <1>10, <2>1 DEF Entries
      <3> HIDE DEF kept
      <3>2. ASSUME NEW s \in ServerIds, kept[s] \in [latest : Snapshot, history : Seq(Snapshot)],
                   saved'[s] = Loaded(kept[s])
            PROVE  /\ saved'[s].history = kept[s].history
                   /\ saved'[s].latest.checked = kept[s].latest.checked
                   /\ saved'[s].latest.reading = kept[s].latest.reading
                   /\ saved'[s].latest.grown = kept[s].latest.grown
                   /\ saved'[s].latest.level = kept[s].latest.level
        BY <3>2 DEF Loaded, Snapshot
      <3>3. QED
        BY <3>1, <3>2 DEF Alike
    <2>4. QED
      BY <2>2, <2>3, AlikeFiled
  <1>13. /\ Alike(ent, entries') /\ Fits(worker', created, thresholds)
    <2>1. Tick([entries |-> ent, checking_id |-> NoServer, worker |-> worker, next |-> next])
      BY <1>8 DEF Monitor
    <2>2. TypeInv /\ next \in Nat /\ Fits(worker, created, thresholds)
          /\ UNCHANGED <<servers, thresholds>>
      BY <1>8 DEF IInv, TypeInv, StatusInv, configVars
    <2>3. QED
      BY <1>10, <2>1, <2>2, TickFits
  <1>14. Filed(entries', recorded', servers, created, thresholds)
    BY <1>11, <1>13, AlikeFiled
  <1>15. UNCHANGED <<servers, created, ignore, thresholds, restarts>>
    BY <1>8 DEF configVars
  <1>16. QED
    BY <1>3, <1>9, <1>12, <1>13, <1>14, <1>15 DEF StatusInv

\* A handler that stores nothing and ends with a tick over entries like those there are.
LEMMA TickTells ==
  ASSUME IInv, StatusInv, UNCHANGED <<servers, created, ignore, thresholds, events, saved, recorded, restarts>>,
         NEW ent \in Entries, Alike(entries, ent), NEW shown,
         Tick([entries |-> ent, checking_id |-> shown, worker |-> worker, next |-> next])
  PROVE  StatusInv'
  <1>1. TypeInv /\ next \in Nat /\ Fits(worker, created, thresholds)
    BY DEF IInv, TypeInv, StatusInv
  <1>2. Alike(ent, entries') /\ Fits(worker', created, thresholds)
    BY <1>1, TickFits
  <1>3. Filed(ent, recorded, servers, created, thresholds)
    BY AlikeFiled DEF StatusInv
  <1>4. Filed(entries', recorded, servers, created, thresholds)
    BY <1>2, <1>3, AlikeFiled
  <1>5. QED
    BY <1>2, <1>4 DEF StatusInv

LEMMA WakeTells ==
  ASSUME IInv, StatusInv, UNCHANGED <<configVars, events, storedVars, restarts>>, Wake
  PROVE  StatusInv'
  <1>1. UNCHANGED <<servers, created, ignore, thresholds, events, saved, recorded, restarts>>
    BY DEF configVars, storedVars
  <1>2. entries \in Entries /\ Alike(entries, entries)
    BY DEF IInv, TypeInv, Alike
  <1>3. QED
    BY <1>1, <1>2, TickTells DEF Wake, Monitor

LEMMA ChangeSettingsTells ==
  ASSUME IInv, StatusInv, ChangeSettings, thresholds' = thresholds
  PROVE  StatusInv'
  <1>1. UNCHANGED <<servers, created, ignore, thresholds, events, saved, recorded, restarts>>
    BY DEF ChangeSettings, storedVars
  <1>2. Reevaluated \in Entries /\ Alike(entries, Reevaluated)
    BY <1>1, ReevaluatedKeeps, ReevaluatedAlike DEF StatusInv
  <1>3. QED
    BY <1>1, <1>2, TickTells DEF ChangeSettings, Monitor

LEMMA EditServerTells ==
  ASSUME Steady, IInv, StatusInv, NEW s \in ServerIds, EditServer(s)
  PROVE  StatusInv'
  <1>1. UNCHANGED <<servers, created, thresholds, worker, events, saved, recorded, restarts>>
        /\ entries' = Reevaluated
    BY DEF EditServer, storedVars
  <1>2. \A x \in ServerIds : ignore'[x] = FALSE
    BY DEF EditServer, Steady, StatusInv, IInv, TypeInv
  <1>3. Alike(entries, entries')
    BY <1>1, <1>2, ReevaluatedAlike
  <1>4. Filed(entries', recorded, servers, created, thresholds)
    BY <1>3, AlikeFiled DEF StatusInv
  <1>5. QED
    BY <1>1, <1>2, <1>4 DEF StatusInv

\* A new server has an id that was never used: nothing is on record of it, and nothing
\* was found.
LEMMA AddServerTells ==
  ASSUME Steady, IInv, StatusInv, AddServer
  PROVE  StatusInv'
  <1>1. /\ UNCHANGED <<thresholds, entries, worker, events, saved, recorded, restarts>>
        /\ created' = created + 1 /\ servers' = Append(servers, created + 1) /\ created < MaxServers
    BY DEF AddServer, monitorVars, storedVars
  <1>2. created \in Nat /\ created + 1 \in ServerIds /\ servers \in Seq(ServerIds)
    BY <1>1, MonitorAssumption DEF IInv, TypeInv, ServerIds
  <1>3. \A x \in ServerIds : ignore'[x] = FALSE
    BY <1>2 DEF AddServer, Steady, StatusInv, IInv, TypeInv
  <1>4. \A i \in DOMAIN servers' : (i \in DOMAIN servers /\ servers'[i] = servers[i]) \/ servers'[i] = created + 1
    BY <1>1, <1>2
  <1>5. \A i \in DOMAIN servers' : servers'[i] <= created'
    <2>1. \A i \in DOMAIN servers : servers[i] \in Nat /\ servers[i] <= created
      BY IdsTaken DEF IInv, ServerIds
    <2>2. QED
      BY <1>1, <1>2, <1>4, <2>1
  <1>6. ASSUME NEW ent, Filed(ent, recorded, servers, created, thresholds)
        PROVE  Filed(ent, recorded, servers', created + 1, thresholds)
    <2>1. \A s \in ServerIds : s > created + 1 \/ s = created + 1 => s > created
      BY <1>2 DEF ServerIds
    <2>2. \A s \in ServerIds : (\E i \in DOMAIN servers' : servers'[i] = s)
            => (\E i \in DOMAIN servers : servers[i] = s) \/ s = created + 1
      BY <1>4
    <2>3. ASSUME NEW s \in ServerIds, (\E i \in DOMAIN servers' : servers'[i] = s) \/ s > created + 1
          PROVE  OnRecord(ent[s], recorded[s])
      <3>1. (\E i \in DOMAIN servers : servers[i] = s) \/ s > created
        BY <2>1, <2>2, <2>3
      <3>2. QED
        BY <1>6, <3>1 DEF Filed
    <2>4. \A s \in ServerIds : Rated(ent[s].latest, thresholds)
      BY <1>6 DEF Filed
    <2>5. \A s \in ServerIds : s > created + 1 => ~ent[s].latest.checked
      BY <1>6, <2>1 DEF Filed
    <2>6. QED
      BY <2>3, <2>4, <2>5 DEF Filed
  <1>7. Fits(worker, created + 1, thresholds)
    <2>1. Fits(worker, created, thresholds)
      BY DEF StatusInv
    <2>2. worker.phase # "none" => worker.server \in Nat
      BY DEF IInv, TypeInv, Worker, NoWorker, ServerIds
    <2>3. QED
      BY <1>2, <2>1, <2>2 DEF Fits
  <1>8. \A i \in DOMAIN events : Reports(events[i], created + 1, thresholds)
    <2>1. \A i \in DOMAIN events : events[i] \in Posted
      BY DEF IInv, TypeInv
    <2>2. \A i \in DOMAIN events : Reports(events[i], created, thresholds)
      BY DEF StatusInv
    <2>3. ASSUME NEW post \in Posted, Reports(post, created, thresholds)
          PROVE  Reports(post, created + 1, thresholds)
      BY <1>2, <2>3 DEF Reports, Posted, ServerIds
    <2>4. QED
      BY <2>1, <2>2, <2>3
  <1>9. QED
    BY <1>1, <1>3, <1>5, <1>6, <1>7, <1>8 DEF StatusInv

LEMMA RemoveAtIs ==
  ASSUME NEW f \in Seq(ServerIds), NEW i \in DOMAIN f, NEW j \in DOMAIN RemoveAt(f, i)
  PROVE  \E k \in DOMAIN f : RemoveAt(f, i)[j] = f[k]
  <1> DEFINE left == SubSeq(f, 1, i - 1)
             right == SubSeq(f, i + 1, Len(f))
  <1>1. /\ left \in Seq(ServerIds) /\ Len(left) = i - 1
        /\ \A k \in 1 .. i - 1 : left[k] = f[k]
    BY SubSeqProperties
  <1>2. /\ right \in Seq(ServerIds) /\ Len(right) = Len(f) - i
        /\ \A k \in 1 .. Len(f) - i : right[k] = f[k + i]
    BY SubSeqProperties
  <1>3. RemoveAt(f, i) = left \o right
    BY DEF RemoveAt
  <1> HIDE DEF left, right
  <1>4. /\ j \in 1 .. Len(left) + Len(right)
        /\ RemoveAt(f, i)[j] = IF j <= Len(left) THEN left[j] ELSE right[j - Len(left)]
    BY <1>1, <1>2, <1>3, ConcatProperties
  <1>5. CASE j <= Len(left)
    BY <1>1, <1>4, <1>5
  <1>6. CASE j > Len(left)
    <2>1. j - (i - 1) \in 1 .. Len(f) - i /\ j - (i - 1) + i \in DOMAIN f
      BY <1>1, <1>2, <1>4, <1>6
    <2>2. QED
      BY <1>1, <1>2, <1>4, <1>6, <2>1
  <1>7. QED
    BY <1>1, <1>4, <1>5, <1>6

LEMMA DeleteServerTells ==
  ASSUME IInv, StatusInv, NEW s \in ServerIds, DeleteServer(s)
  PROVE  StatusInv'
  <1>1. UNCHANGED <<created, ignore, thresholds, entries, worker, events, saved, recorded, restarts>>
    BY DEF DeleteServer, monitorVars, storedVars
  <1>2. \A j \in DOMAIN servers' : \E k \in DOMAIN servers : servers'[j] = servers[k]
    BY RemoveAtIs DEF DeleteServer, IInv, TypeInv
  <1>3. \A ent : Filed(ent, recorded, servers, created, thresholds)
          => Filed(ent, recorded, servers', created, thresholds)
    BY <1>2 DEF Filed
  <1>4. \A j \in DOMAIN servers' : servers'[j] <= created
    BY <1>2 DEF StatusInv
  <1>5. QED
    BY <1>1, <1>3, <1>4 DEF StatusInv

\* The entries that were saved last are those the journal tells.
LEMMA RestartTells ==
  ASSUME Steady, IInv, StatusInv, Restart
  PROVE  StatusInv'
  <1>1. /\ UNCHANGED <<servers, created, ignore, thresholds, saved, recorded>>
        /\ events' = <<>> /\ restarts' = restarts + 1
    BY DEF Restart, configVars, storedVars
  <1>2. Filed(saved, recorded, servers, created, thresholds)
    <2>1. restarts \in Nat /\ restarts < MaxRestarts /\ MaxRestarts \in Nat
      BY MonitorAssumption DEF Restart, StatusInv
    <2>2. ~DiskFails
      BY <2>1 DEF Steady
    <2>3. QED
      BY <2>2 DEF StatusInv
  <1>3. saved \in Entries /\ Fits(NoWorker, created, thresholds) /\ TypeInv /\ 0 \in Nat
    BY DEF IInv, TypeInv, Fits, NoWorker
  <1>4. Tick([entries |-> saved, checking_id |-> NoServer, worker |-> NoWorker, next |-> 0])
    BY DEF Restart
  <1>5. Alike(saved, entries') /\ Fits(worker', created, thresholds)
    BY <1>1, <1>3, <1>4, TickFits
  <1>6. Filed(entries', recorded, servers, created, thresholds)
    BY <1>2, <1>5, AlikeFiled
  <1>7. \A i \in DOMAIN events' : FALSE
    BY <1>1, NothingInEmpty
  <1>8. /\ \A s \in ServerIds : ignore'[s] = FALSE
        /\ \A i \in DOMAIN servers' : servers'[i] <= created'
        /\ recorded' \in [ServerIds -> Levels \cup {"no line"}]
        /\ ~DiskFails => Filed(saved', recorded', servers', created', thresholds')
    <2>1. /\ ignore' = ignore /\ servers' = servers /\ created' = created
          /\ recorded' = recorded /\ saved' = saved /\ thresholds' = thresholds
      BY <1>1
    <2>2. QED
      BY <2>1 DEF StatusInv
  <1>9. restarts' \in Nat
    <2>1. restarts' = restarts + 1
      BY <1>1
    <2>2. restarts \in Nat
      BY DEF StatusInv
    <2>3. QED
      BY <2>1, <2>2
  <1>10. \A i \in DOMAIN events' : Reports(events'[i], created', thresholds')
    BY <1>7
  <1>11. Fits(worker', created', thresholds') /\ Filed(entries', recorded', servers', created', thresholds')
    BY <1>1, <1>5, <1>6
  <1>12. QED
    BY <1>8, <1>9, <1>10, <1>11 DEF StatusInv

LEMMA WorkerReportsTells ==
  ASSUME IInv, StatusInv, WorkerReports
  PROVE  StatusInv'
  <1>1. /\ UNCHANGED <<servers, created, ignore, thresholds, entries, saved, recorded, restarts>>
        /\ worker.phase = "checking" /\ worker' = [worker EXCEPT !.phase = "exiting"]
    BY DEF WorkerReports, configVars, storedVars
  <1>2. PICK reading \in Readings :
          events' = Append(events, [server |-> worker.server,
                      found |-> [checked |-> TRUE, reading |-> reading, grown |-> FALSE,
                                 level |-> LevelOf(reading, FALSE, worker.thresholds, worker.ignore),
                                 checking |-> FALSE]])
    BY DEF WorkerReports
  <1> DEFINE post == [server |-> worker.server,
                      found |-> [checked |-> TRUE, reading |-> reading, grown |-> FALSE,
                                 level |-> LevelOf(reading, FALSE, worker.thresholds, worker.ignore),
                                 checking |-> FALSE]]
  <1>3. worker.server <= created /\ worker.thresholds = thresholds /\ worker.ignore = FALSE
    BY <1>1 DEF StatusInv, Fits
  <1>4. Reports(post, created, thresholds)
    BY <1>3 DEF Reports, Rated
  <1> HIDE DEF post
  <1>5. events \in Seq(Posted) /\ events' = Append(events, post)
    BY <1>2 DEF post, IInv, TypeInv
  <1>6. \A i \in DOMAIN events' : (i \in DOMAIN events /\ events'[i] = events[i]) \/ events'[i] = post
    BY <1>5
  <1>7. \A i \in DOMAIN events' : Reports(events'[i], created, thresholds)
    BY <1>4, <1>6 DEF StatusInv
  <1>8. Fits(worker', created, thresholds)
    BY <1>1, <1>3 DEF Fits, IInv, TypeInv, Worker, NoWorker
  <1>9. QED
    BY <1>1, <1>7, <1>8 DEF StatusInv

\* Nothing that the journal and the entries say changes.
LEMMA StutterTells ==
  ASSUME StatusInv, UNCHANGED <<configVars, entries, events, storedVars, restarts>>,
         Fits(worker', created, thresholds)
  PROVE  StatusInv'
  <1>1. UNCHANGED <<servers, created, ignore, thresholds, entries, events, saved, recorded, restarts>>
    BY DEF configVars, storedVars
  <1>2. QED
    BY <1>1 DEF StatusInv

LEMMA InitTells == Init => StatusInv
  <1> SUFFICES ASSUME Init PROVE StatusInv
    OBVIOUS
  <1>1. \A s \in ServerIds : /\ entries[s] = NoEntry /\ saved[s] = NoEntry
                             /\ recorded[s] = "no line" /\ ignore[s] = FALSE
    BY DEF Init
  <1>2. /\ ~NoEntry.latest.checked /\ OnRecord(NoEntry, "no line")
        /\ \A th : Rated(NoEntry.latest, th)
    BY DEF NoEntry, NoSnapshot, OnRecord, IsAlert, Rated, LevelOf
  <1>3. \A ent, th : (\A s \in ServerIds : ent[s] = NoEntry) => Filed(ent, recorded, servers, created, th)
    BY <1>1, <1>2 DEF Filed
  <1>4. \A i \in DOMAIN servers : servers[i] <= created
    <2>1. servers = [i \in 1 .. FirstServers |-> i] /\ created = FirstServers
      BY DEF Init
    <2>2. FirstServers \in Nat
      BY MonitorAssumption
    <2>3. QED
      BY <2>1, <2>2
  <1>5. recorded \in [ServerIds -> Levels \cup {"no line"}] /\ restarts \in Nat
    BY DEF Init
  <1>6. \A i \in DOMAIN events : FALSE
    BY NothingInEmpty DEF Init
  <1>7. Fits(worker, created, thresholds)
    BY DEF Init, Fits, NoWorker
  <1>8. QED
    BY <1>1, <1>3, <1>4, <1>5, <1>6, <1>7 DEF StatusInv

LEMMA NextTells ==
  ASSUME Steady, IInv, IInv', StatusInv, [Next]_vars
  PROVE  StatusInv'
  <1>1. thresholds' = thresholds
    BY SteadyStays DEF IInv
  <1>2. Fits(worker, created, thresholds)
    BY DEF StatusInv
  <1>3. ASSUME NEW s \in ServerIds, Refresh(s) PROVE StatusInv'
    BY <1>3, WakeTells DEF Refresh
  <1>4. CASE RefreshAll
    BY <1>4, WakeTells DEF RefreshAll
  <1>5. ASSUME NEW s \in ServerIds, CommandStarts(s) PROVE StatusInv'
    BY <1>2, <1>5, StutterTells DEF CommandStarts, monitorVars
  <1>6. CASE User
    BY <1>1, <1>3, <1>4, <1>5, <1>6, EditServerTells, DeleteServerTells, ChangeSettingsTells,
       AddServerTells DEF User
  <1>7. CASE Timer
    BY <1>7, WakeTells DEF Timer
  <1>8. CASE CommandEnds
    BY <1>8, WakeTells DEF CommandEnds
  <1>9. ASSUME NEW s \in ServerIds, Elapse(s) PROVE StatusInv'
    BY <1>2, <1>9, StutterTells DEF Elapse, monitorVars
  <1>10. CASE UNCHANGED vars
    BY <1>2, <1>10, StutterTells DEF vars, monitorVars
  <1>11. CASE WorkerExits
    BY <1>11, StutterTells DEF WorkerExits, Fits, NoWorker
  <1>12. QED
    BY <1>1, <1>6, <1>7, <1>8, <1>9, <1>10, <1>11, DeliverTells, RestartTells,
       WorkerReportsTells DEF Next

\* While thresholds and ignore flags stay as they are and health.json is written whenever
\* it is read again, the journal tells the state of every server there is, if it is or
\* was an alert: for any number of servers, of readings and of kept snapshots, whatever
\* waits to be stored when servers are added, deleted or the program starts again
\* (store_snapshot, on_level_change, health_history_push, load_health_cache).
THEOREM StatusIsOnRecord == Steady => (Spec => []StatusOnRecord)
  <1> SUFFICES ASSUME Steady PROVE Spec => []StatusOnRecord
    OBVIOUS
  <1>1. StatusInv => StatusOnRecord
    BY DEF StatusInv, Filed, OnRecord, StatusOnRecord, Present
  <1>2. IInv /\ IInv' /\ StatusInv /\ [Next]_vars => StatusInv'
    BY NextTells
  <1>3. QED
    BY <1>1, <1>2, InitHolds, InitTells, NextKeeps, PTL DEF Spec
=============================================================================
