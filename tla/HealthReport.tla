----------------------------- MODULE HealthReport -----------------------------
(***************************************************************************)
(* What FaTTY makes of the output of a health check (src/core/health.cpp): *)
(* the readings it parses out of it, the level they amount to, the reasons *)
(* it gives for an alert, what has changed since the check before, and     *)
(* what of this the cache keeps over a restart.  HealthMonitor is the      *)
(* scheduling of the checks; here what matters is what is in them, and of  *)
(* their steps only the start, with the settings of that moment, and the   *)
(* end.                                                                    *)
(*                                                                         *)
(* A percentage, a count and an offset of the clock are small numbers on   *)
(* both sides of their thresholds, -1 where there is none.  Time is in     *)
(* minutes, which is what health_rebooted_since is about.                  *)
(***************************************************************************)
EXTENDS Integers, Sequences, FiniteSets, SequencesExt

CONSTANTS
  Servers,
  Outputs,        \* of a check: the readings, what is printed before them (noise), how much of
                  \* the output arrives (upto) and the exit code (code)
  Mounts,         \* mount points
  Virtual,        \* those of them that health_mount_is_virtual knows
  Root,           \* "/"
  Settings,       \* the thresholds (th), what is asked for (collect), whether virtual disks are
                  \* shown (show), which servers are checked (enabled) and the alerts of each
                  \* that do not count (ign)
  Full,           \* 100 per cent
  TimeWarn, TimeCrit,       \* kHealthTimeOffsetWarnSec, kHealthTimeOffsetCritSec
  NetWarn, NetCrit,         \* kHealthNetErrWarn, kHealthNetErrCrit
  MaxUnits,       \* kHealthFailedUnitsMax
  MaxHistory,     \* kHealthHistoryMax
  MaxClock,       \* bound: minutes
  MaxErrors,      \* bound: errors of the network
  MaxChecks,      \* bound: checks
  Usual,          \* bound: the outputs of the checks before the last
  MaxChanges      \* bound: changes of the settings, reboots, restarts and failed saves

Gauges == {"cpu", "iowait", "steal", "mem", "swap"}
None == -1

Disk == [mount : Mounts, pct : Int]

\* What a machine has to tell; a load and a count are never negative, what has no reading is.
Readings ==
  [linux : BOOLEAN, nproc : Nat, load : Nat, mem : Int, swap : Int, cpu : Int, iowait : Int,
   steal : Int, disks : Seq(Disk), reboot_required : BOOLEAN, units : Nat, unhealthy : Int,
   oom : Int, ssh : Int, synced : Int, offset : Int]

Numbers == Gauges \cup {"nproc", "load1", "load15", "uptime", "unhealthy", "net", "oom", "ssh",
                        "synced", "offset"}

\* The lines of an output: a mark or a key, and its value
Lines ==
  {<<"start">>, <<"other">>, <<"end">>, <<"mem_total">>, <<"swap_total">>, <<"unit">>}
    \cup Numbers \X Int
    \cup {"reboot_required", "docker"} \X BOOLEAN
    \cup {"disk"} \X Disk

\* The mark of the start is not what a profile prints.
ASSUME OutputsAssumption ==
  /\ Usual \subseteq Outputs /\ Full \in Int
  /\ Outputs \subseteq [readings : Readings, noise : Seq(Lines \ {<<"start">>}), upto : Nat, code : Nat]

\* load_config (src/core/store.cpp) and the dialog of the settings keep the thresholds of the
\* failed logins in their order and not negative.
ASSUME SettingsAssumption ==
  /\ Settings \subseteq [th : [Gauges \cup {"disk", "load", "ssh"} -> [warn : Int, crit : Int]],
                         show : BOOLEAN, enabled : SUBSET Servers,
                         ign : [Servers -> SUBSET {"reboot", "units", "docker", "oom", "ssh",
                                                   "time", "net"}],
                         collect : SUBSET {"load", "ram", "swap", "cpu", "disk", "docker"}]
  /\ \A as \in Settings : 0 <= as.th.ssh.warn /\ as.th.ssh.warn <= as.th.ssh.crit

ASSUME HealthReportAssumption ==
  /\ Virtual \subseteq Mounts /\ Root \in Mounts \ Virtual
  /\ {MaxUnits, MaxHistory, MaxClock, MaxErrors, MaxChecks, MaxChanges, NetWarn, NetCrit, TimeWarn,
    TimeCrit} \subseteq Nat
  /\ NetCrit >= NetWarn /\ TimeCrit >= TimeWarn /\ MaxHistory > 0 /\ MaxUnits >= 3

VARIABLES
  machine,     \* of a server: when it started, the errors its network counts since then;
               \* and, for the properties, how often it started and all the errors it had
  clock,       \* unix_now
  settings,
  check,       \* the check under way: its server and the settings it copied, or NoCheck
  entries,     \* entries_ of the HealthMonitor
  file,        \* health.json, and truth as it was when it was written
  checks, changes,          \* how much of MaxChecks and MaxChanges is used up
  truth        \* history, of each entry: the settings that its level was made with, the
               \* machine at its latest check and at the one before

vars == <<machine, clock, settings, check, entries, file, checks, changes, truth>>

\* HealthSnapshot; what only the windows print is left out.
NoSnapshot ==
  [level |-> "unknown", error |-> FALSE, checked_at |-> 0,
   gauge |-> [g \in Gauges |-> None], nproc |-> 0, load1 |-> None, load15 |-> None,
   disks |-> <<>>, uptime |-> None, reboot_required |-> FALSE, rebooted |-> FALSE, units |-> 0,
   docker |-> FALSE, unhealthy |-> None, oom |-> None, ssh |-> None, synced |-> None,
   offset |-> None, net |-> None, net_delta |-> None]

NoEntry == [latest |-> NoSnapshot, history |-> <<>>]

-----------------------------------------------------------------------------
(* Levels                                                                   *)

Rank(level) ==
  CASE level \in {"crit", "offline"} -> 4
    [] level = "warn"                -> 3
    [] level = "ok"                  -> 2
    [] level = "unsupported"         -> 1
    [] OTHER                         -> 0

\* worse_health, of a set
Worst(levels) == CHOOSE a \in levels : \A b \in levels : Rank(a) >= Rank(b)

\* level_from_pct
FromPct(pct, limits) ==
  IF pct < 0 THEN "unknown"
  ELSE IF pct >= limits.crit THEN "crit" ELSE IF pct >= limits.warn THEN "warn" ELSE "ok"

\* health_load_pct; load5 is never there without the others.
LoadPct(snap) ==
  IF snap.nproc <= 0 THEN None
  ELSE LET load == IF snap.load15 >= 0 THEN snap.load15 ELSE snap.load1 IN
       IF load < 0 THEN None ELSE load \div snap.nproc

HasReadings(snap) ==
  \/ snap.nproc > 0 \/ \E g \in Gauges : snap.gauge[g] >= 0
  \/ snap.disks # <<>> \/ snap.load1 >= 0 \/ snap.uptime >= 0
  \/ snap.reboot_required \/ snap.units > 0 \/ snap.docker \/ snap.oom > 0
  \/ snap.net >= 0 \/ snap.ssh >= 0 \/ snap.synced >= 0

\* How bad a count is: three make it critical.
ByThree(n) == IF n >= 3 THEN "crit" ELSE "warn"

AtLeast(n, warn, crit) == IF n >= crit THEN "crit" ELSE IF n >= warn THEN "warn" ELSE "unknown"

\* The levels that apply_health_thresholds goes through, with the thresholds th, for a
\* server that ignores ign.
Contributions(snap, th, ign) ==
  {"unknown"}
  \cup {FromPct(snap.gauge[g], th[g]) : g \in Gauges}
  \cup {FromPct(snap.disks[i].pct, th.disk) : i \in DOMAIN snap.disks}
  \cup {FromPct(LoadPct(snap), th.load)}
  \cup {"warn" : x \in {y \in {"reboot"} \ ign : snap.reboot_required}}
  \cup {ByThree(snap.units) : x \in {y \in {"units"} \ ign : snap.units > 0}}
  \cup {ByThree(snap.unhealthy) : x \in {y \in {"docker"} \ ign : snap.unhealthy > 0}}
  \cup {ByThree(snap.oom) : x \in {y \in {"oom"} \ ign : snap.oom > 0}}
  \cup {AtLeast(snap.ssh, th.ssh.warn, th.ssh.crit) : x \in {y \in {"ssh"} \ ign : snap.ssh >= 0}}
  \cup {"warn" : x \in {y \in {"time"} \ ign : snap.synced = 0}}
  \cup {AtLeast(snap.offset, TimeWarn, TimeCrit) : x \in {"time"} \ ign}
  \cup {AtLeast(snap.net_delta, NetWarn, NetCrit) : x \in {"net"} \ ign}

\* apply_health_thresholds
Applied(snap, th, ign) ==
  IF snap.level \in {"offline", "unsupported"} THEN snap
  ELSE LET worst == Worst(Contributions(snap, th, ign)) IN
       [snap EXCEPT !.level =
          IF worst = "unknown" /\ snap.checked_at > 0 /\ ~snap.error /\ HasReadings(snap)
          THEN "ok" ELSE worst]

\* The disks that are not virtual ones
AndReal(kept, disk) == IF disk.mount \in Virtual THEN kept ELSE Append(kept, disk)
Real(disks)         == FoldLeft(AndReal, <<>>, disks)

\* health_apply_virtual_disks
WithoutVirtual(snap, show, th, ign) ==
  LET kept == Real(snap.disks) IN
  IF show \/ kept = snap.disks THEN snap
  ELSE Applied([snap EXCEPT !.disks = kept], th, ign)

IsBad(level) == level \in {"warn", "crit"}

\* Mutant: the offset of the clock is a reason only when the clock is known not to be in step.
ReasonsNoOffset(snap, th, ign) ==
  IF snap.level = "offline" THEN {"error"}
  ELSE IF snap.level = "unsupported" THEN {"not Linux"}
  ELSE IF ~IsBad(snap.level) THEN {}
  ELSE LET found ==
         {g \in Gauges : IsBad(FromPct(snap.gauge[g], th[g]))}
         \cup {"disk" : i \in {j \in DOMAIN snap.disks : IsBad(FromPct(snap.disks[j].pct, th.disk))}}
         \cup {"load" : x \in {y \in {1} : IsBad(FromPct(LoadPct(snap), th.load))}}
         \cup ({y \in {"reboot"} : snap.reboot_required} \ ign)
         \cup ({y \in {"units"} : snap.units > 0} \ ign)
         \cup ({y \in {"docker"} : snap.unhealthy > 0} \ ign)
         \cup ({y \in {"oom"} : snap.oom > 0} \ ign)
         \cup ({y \in {"ssh"} : snap.ssh >= th.ssh.warn} \ ign)
         \cup ({y \in {"time"} : snap.synced = 0} \ ign)
         \cup ({y \in {"net"} : snap.net_delta >= NetWarn} \ ign)
       IN IF found = {} /\ snap.error THEN {"error"} ELSE found

\* health_alert_reasons, of which health_alert_summary names the first ones
Reasons(snap, th, ign) ==
  IF snap.level = "offline" THEN {"error"}
  ELSE IF snap.level = "unsupported" THEN {"not Linux"}
  ELSE IF ~IsBad(snap.level) THEN {}
  ELSE LET found ==
         {g \in Gauges : IsBad(FromPct(snap.gauge[g], th[g]))}
         \cup {"disk" : i \in {j \in DOMAIN snap.disks : IsBad(FromPct(snap.disks[j].pct, th.disk))}}
         \cup {"load" : x \in {y \in {1} : IsBad(FromPct(LoadPct(snap), th.load))}}
         \cup ({y \in {"reboot"} : snap.reboot_required} \ ign)
         \cup ({y \in {"units"} : snap.units > 0} \ ign)
         \cup ({y \in {"docker"} : snap.unhealthy > 0} \ ign)
         \cup ({y \in {"oom"} : snap.oom > 0} \ ign)
         \cup ({y \in {"ssh"} : snap.ssh >= th.ssh.warn} \ ign)
         \cup ({y \in {"time"} : snap.synced = 0 \/ snap.offset >= TimeWarn} \ ign)
         \cup ({y \in {"net"} : snap.net_delta >= NetWarn} \ ign)
       IN IF found = {} /\ snap.error THEN {"error"} ELSE found

-----------------------------------------------------------------------------
(* The script and its output                                                 *)

\* health_remote_script: the lines it prints of the readings r, when collect is asked for,
\* on the machine m.  (load5, the processes and the names of containers are left out.)
Script(r, collect, show, m) ==
  LET If(section, lines) == IF section \in collect THEN lines ELSE <<>>
      Known(key) == IF r[key] < 0 THEN <<>> ELSE <<<<key, r[key]>>>>
      shown == IF show THEN r.disks ELSE Real(r.disks)
  IN IF ~r.linux THEN <<<<"start">>, <<"other">>, <<"end">>>>
     ELSE <<<<"start">>, <<"nproc", r.nproc>>>>
          \o If("load", <<<<"load1", r.load>>, <<"load15", r.load>>>>)
          \o <<<<"uptime", clock - m.up>>>>
          \o If("ram", <<<<"mem_total">>, <<"mem", r.mem>>>>)
          \o If("swap", IF r.swap < 0 THEN <<>> ELSE <<<<"swap_total">>, <<"swap", r.swap>>>>)
          \o If("cpu", <<<<"cpu", r.cpu>>, <<"iowait", r.iowait>>, <<"steal", r.steal>>>>)
          \o If("disk", [i \in DOMAIN shown |-> <<"disk", shown[i]>>])
          \o <<<<"reboot_required", r.reboot_required>>>>
          \o [i \in 1..Min({r.units, MaxUnits}) |-> <<"unit">>]
          \o If("docker", IF r.unhealthy < 0 THEN <<<<"docker", FALSE>>>>
                          ELSE <<<<"docker", TRUE>>, <<"unhealthy", r.unhealthy>>>>)
          \o <<<<"net", m.errors>>, <<"oom", r.oom>>, <<"ssh", r.ssh>>>>
          \o Known("synced") \o Known("offset") \o <<<<"end">>>>

\* What arrives of it: after what the account's profile prints, as far as it came.
Arrived(output, as, m) ==
  LET script == Script(output.readings, as.collect, as.show, m) IN
  output.noise \o SubSeq(script, 1, Min({output.upto, Len(script)}))

\* The memory in use is what is left of the total: all of it, until the other number is there.
Reading(snap, line) ==
  LET key == line[1] IN
  CASE key \in Gauges          -> [snap EXCEPT !.gauge[key] = line[2]]
    [] key = "mem_total"       -> [snap EXCEPT !.gauge["mem"] = Full]
    [] key = "swap_total"      -> [snap EXCEPT !.gauge["swap"] = Full]
    [] key \in {"nproc", "load1", "load15", "uptime", "reboot_required", "unhealthy", "net",
                "oom", "ssh", "synced", "offset"}
                               -> [snap EXCEPT ![key] = line[2]]
    [] key = "unit" /\ snap.units < MaxUnits -> [snap EXCEPT !.units = @ + 1]
    [] key = "docker"          -> [snap EXCEPT !.docker = line[2], !.unhealthy =
                                     IF line[2] /\ @ < 0 THEN 0 ELSE @]
    [] key = "disk"            -> [snap EXCEPT !.disks = Append(@, line[2])]
    [] OTHER                   -> snap

\* The lines between the marks: the last end that has a start before it, and the latest
\* start before that; without such an end, all that follows the latest start.
Block(lines) ==
  LET starts == {i \in DOMAIN lines : lines[i] = <<"start">>}
      ends == {i \in DOMAIN lines : lines[i] = <<"end">> /\ \E j \in starts : j < i}
      last == IF ends = {} THEN Len(lines) + 1 ELSE Max(ends)
  IN SubSeq(lines, Max({i \in starts : i < last}), last - 1)

\* parse_health_output
Parsed(lines) ==
  IF \A i \in DOMAIN lines : lines[i] # <<"start">> THEN [NoSnapshot EXCEPT !.error = TRUE]
  ELSE LET block == Block(lines)
           snap == FoldLeft(Reading, NoSnapshot, block)
       IN IF \E i \in DOMAIN block : block[i] = <<"other">>
          THEN [snap EXCEPT !.level = "unsupported", !.error = TRUE]
          ELSE snap

\* What the thread of start_check makes of a check that ran to an end.
Checked(output, s, as, m) ==
  LET parsed == [Parsed(Arrived(output, as, m)) EXCEPT !.checked_at = clock]
      snap == IF parsed.level = "unsupported" THEN parsed
              ELSE Applied(parsed, as.th, as.ign[s])
      bare == /\ \A g \in {"cpu", "mem", "swap"} : snap.gauge[g] < 0
              /\ snap.disks = <<>> /\ snap.load1 < 0 /\ snap.uptime < 0
  IN IF bare /\ output.code \in {124, 130}
     THEN [snap EXCEPT !.level = "unknown", !.error = TRUE]
     ELSE snap

\* ... and of one that threw.
Offline == [NoSnapshot EXCEPT !.level = "offline", !.error = TRUE, !.checked_at = clock]

-----------------------------------------------------------------------------
(* Two checks compared                                                       *)

\* health_rebooted_since: two minutes at least between the checks, and three to spare.
RebootedSince(now, before) ==
  /\ now.uptime >= 0 /\ before.uptime >= 0
  /\ now.checked_at > 0 /\ before.checked_at > 0
  /\ now.checked_at - before.checked_at >= 2
  /\ now.uptime + 3 < before.uptime + (now.checked_at - before.checked_at)

Growth(now, before) ==
  IF now < 0 \/ before < 0 THEN None ELSE IF now > before THEN now - before ELSE 0

\* health_apply_net_delta
WithNetDelta(snap, before, ign) ==
  LET delta == Growth(snap.net, before.net)
      level == AtLeast(delta, NetWarn, NetCrit)
  IN [snap EXCEPT !.net_delta = delta,
                  !.level = IF "net" \in ign \/ snap.level \in {"offline", "unsupported"}
                               \/ level = "unknown" \/ Rank(@) >= Rank(level)
                            THEN @ ELSE level]

\* health_root_or_worst
RootOrWorst(snap) ==
  LET at(m) == {i \in DOMAIN snap.disks : snap.disks[i].mount = m}
      worst == {i \in DOMAIN snap.disks : snap.disks[i].pct >= 0 /\
                  \A j \in DOMAIN snap.disks : snap.disks[i].pct >= snap.disks[j].pct}
  IN IF at(Root) # {} THEN <<snap.disks[Max(at(Root))]>>
     ELSE IF worst # {} THEN <<snap.disks[Min(worst)]>> ELSE <<>>

\* health_trend, of what is compared here: the disk that is shown and the errors
Trend(now, before) ==
  LET disk == RootOrWorst(now)
      same == {i \in DOMAIN before.disks : disk # <<>> /\ before.disks[i].mount = disk[1].mount}
      old == IF same # {} THEN <<before.disks[Min(same)]>> ELSE RootOrWorst(before)
      compared == before.checked_at > 0 /\ now.checked_at > 0
  IN [disk |-> IF compared /\ disk # <<>> /\ old # <<>> THEN <<disk[1].pct - old[1].pct>> ELSE <<>>,
      net |-> IF compared THEN Growth(now.net, before.net) ELSE None]

\* health_history_push
Pushed(history, before) ==
  IF before.checked_at <= 0 \/ (history # <<>> /\ history[1].checked_at = before.checked_at)
  THEN history
  ELSE SubSeq(<<before>> \o history, 1, Min({MaxHistory, Len(history) + 1}))

\* Mutant: what is new is compared with the newest of the history.
StoredAgainstHistory(entry, snap, ign) ==
  LET before == IF entry.history = <<>> THEN entry.latest ELSE entry.history[1]
      fresh == [snap EXCEPT !.rebooted = FALSE, !.net_delta = None]
  IN IF before.checked_at <= 0 \/ snap.checked_at <= 0 THEN [entry EXCEPT !.latest = fresh]
     ELSE [latest |-> WithNetDelta([fresh EXCEPT !.rebooted = RebootedSince(fresh, before)],
                                   before, ign),
           history |-> Pushed(entry.history, entry.latest)]

\* store_snapshot, up to the file
Stored(entry, snap, ign) ==
  LET before == entry.latest
      fresh == [snap EXCEPT !.rebooted = FALSE, !.net_delta = None]
  IN IF before.checked_at <= 0 \/ snap.checked_at <= 0 THEN [entry EXCEPT !.latest = fresh]
     ELSE [latest |-> WithNetDelta([fresh EXCEPT !.rebooted = RebootedSince(fresh, before)],
                                   before, ign),
           history |-> IF before.checked_at = snap.checked_at THEN entry.history
                       ELSE Pushed(entry.history, before)]

\* snapshot_from_json of what snapshot_to_json wrote
Reread(snap) ==
  [snap EXCEPT !.level = IF @ = "ok" /\ ~HasReadings(snap) THEN "unknown" ELSE @,
               !.unhealthy = IF snap.docker /\ @ < 0 THEN 0 ELSE @]

AndPast(kept, h) == IF h.checked_at > 0 THEN Append(kept, h) ELSE kept

\* load_health_cache: a past check without a time is left out.
Loaded(entry) ==
  LET past == FoldLeft(AndPast, <<>>, entry.history) IN
  [latest |-> Reread(entry.latest),
   history |-> [i \in 1..Min({MaxHistory, Len(past)}) |-> Reread(past[i])]]

-----------------------------------------------------------------------------
(* What is shown                                                             *)

\* view_snap: what the window of the health makes of a snapshot
View(snap, now, s) ==
  Applied(WithoutVirtual(snap, now.show, now.th, now.ign[s]), now.th, now.ign[s])

\* refresh_server_health: the row of a server in the main window
Row(s) == Applied(entries[s].latest, settings.th, settings.ign[s])

\* health_list_badges: cpu, memory, disk and load
Badges(snap, th) ==
  LET disk == RootOrWorst(snap) IN
  IF snap.level \in {"offline", "unsupported"} THEN [i \in 1..4 |-> snap.level]
  ELSE IF snap.checked_at <= 0 /\ ~HasReadings(snap) THEN [i \in 1..4 |-> "unknown"]
  ELSE <<FromPct(snap.gauge["cpu"], th["cpu"]), FromPct(snap.gauge["mem"], th["mem"]),
         IF disk = <<>> THEN "unknown" ELSE FromPct(disk[1].pct, th.disk),
         FromPct(LoadPct(snap), th.load)>>

\* health_fleet_alert, of the servers that are checked: what the button of the main window counts
FleetAlert ==
  {s \in settings.enabled : entries[s].latest.level \in {"crit", "offline"}}

\* spark_points, of as many as the history has: what the curves of a card are drawn from
SparkPoints(entry) ==
  Reverse(entry.history) \o IF entry.latest.checked_at > 0 THEN <<entry.latest>> ELSE <<>>

-----------------------------------------------------------------------------
(* Actions                                                                   *)

NoCheck == <<>>
NoTruth == [as |-> <<>>, latest |-> [starts |-> 0, errors |-> 0],
            before |-> [starts |-> 0, errors |-> 0]]

Init ==
  /\ machine = [s \in Servers |-> [up |-> 0, errors |-> 0, starts |-> 0, total |-> 0]]
  /\ clock = 1
  /\ settings \in Settings
  /\ check = NoCheck
  /\ entries = [s \in Servers |-> NoEntry]
  /\ truth = [s \in Servers |-> NoTruth]
  /\ file = [entries |-> entries, truth |-> truth]
  /\ checks = 0 /\ changes = 0

\* Bound: nothing happens on the servers after the last check.
Going == checks < MaxChecks \/ check # NoCheck

\* Time passes.
Elapse ==
  /\ clock < MaxClock /\ Going
  /\ clock' \in {clock + 1, clock + 3} /\ clock' <= MaxClock
  /\ UNCHANGED <<machine, settings, check, entries, file, checks, changes, truth>>

\* A network device of a server counts errors.
NetErrors(s) ==
  /\ machine[s].total < MaxErrors /\ Going
  /\ machine' = [machine EXCEPT ![s].errors = @ + 1, ![s].total = @ + 1]
  /\ UNCHANGED <<clock, settings, check, entries, file, checks, changes, truth>>

\* A server starts again, and with it its uptime and its counters.
Reboot(s) ==
  /\ machine[s].up < clock /\ changes < MaxChanges /\ Going
  /\ changes' = changes + 1
  /\ machine' = [machine EXCEPT ![s] =
                   [up |-> clock, errors |-> 0, starts |-> @.starts + 1, total |-> @.total]]
  /\ UNCHANGED <<clock, settings, check, entries, file, checks, truth>>

\* start_check: the thread takes a copy of the settings with it.  Two checks of a server are
\* half a second apart at least; here, a minute.
StartCheck(s) ==
  /\ check = NoCheck /\ s \in settings.enabled
  /\ entries[s].latest.checked_at < clock /\ checks < MaxChecks
  /\ check' = <<s, settings>>
  /\ checks' = checks + 1
  /\ UNCHANGED <<machine, clock, settings, entries, file, changes, truth>>

\* The closure that the thread posts, with store_snapshot: the snapshot becomes the latest,
\* and the file is written, if it can be.
Store(snap) ==
  LET s == check[1]
      m == machine[s]
  IN /\ entries' = [entries EXCEPT ![s] = Stored(@, snap, settings.ign[s])]
     /\ truth' = [truth EXCEPT ![s] =
                    [as |-> IF check[2] = settings THEN settings ELSE <<>>,
                     latest |-> [starts |-> m.starts, errors |-> m.total],
                     before |-> @.latest]]
     /\ \/ file' = [entries |-> entries', truth |-> truth'] /\ changes' = changes
        \/ changes < MaxChanges /\ changes' = changes + 1 /\ file' = file
     /\ check' = NoCheck
     /\ UNCHANGED <<machine, clock, settings, checks>>

FinishCheck(output) ==
  /\ check # NoCheck /\ (checks < MaxChecks => output \in Usual)
  /\ Store(Checked(output, check[1], check[2], machine[check[1]]))

FailCheck == check # NoCheck /\ Store(Offline)

\* Mutant: the alerts a server ignores are taken from the settings before the change.
ChangeSettingsOldIgnores ==
  \E new \in Settings \ {settings} :
    /\ changes < MaxChanges
    /\ changes' = changes + 1
    /\ settings' = new
    /\ entries' = [s \in Servers |-> [entries[s] EXCEPT !.latest =
                     Applied(@, new.th, settings.ign[s])]]
    /\ truth' = [s \in Servers |-> [truth[s] EXCEPT !.as = new]]
    /\ UNCHANGED <<machine, clock, check, file, checks>>

\* open_settings and the dialog of a server, both with reevaluate_cached: the levels of what
\* is cached are made anew, of what is in the file they are not.
ChangeSettings ==
  \E new \in Settings \ {settings} :
    /\ changes < MaxChanges
    /\ changes' = changes + 1
    /\ settings' = new
    /\ entries' = [s \in Servers |-> [entries[s] EXCEPT !.latest =
                     Applied(@, new.th, new.ign[s])]]
    /\ truth' = [s \in Servers |-> [truth[s] EXCEPT !.as = new]]
    /\ UNCHANGED <<machine, clock, check, file, checks>>

\* The program ends, with the check under way, and is started again.
Restart ==
  /\ changes < MaxChanges
  /\ changes' = changes + 1
  /\ entries' = [s \in Servers |-> Loaded(file.entries[s])]
  /\ truth' = file.truth
  /\ check' = NoCheck
  /\ UNCHANGED <<machine, clock, settings, file, checks>>

Next ==
  \/ Elapse
  \/ \E s \in Servers : NetErrors(s) \/ Reboot(s) \/ StartCheck(s)
  \/ \E output \in Outputs : FinishCheck(output)
  \/ FailCheck
  \/ ChangeSettings
  \/ Restart

Spec == Init /\ [][Next]_vars

-----------------------------------------------------------------------------
(* Properties                                                                *)

\* An alert has its reasons and a reason is an alert: whatever was checked and whatever the
\* settings are, the window names something for a level that is not fine, and for a fine one
\* nothing; and no badge of a row is worse than the row.  The level and the reasons are two
\* enumerations of the same readings (apply_health_thresholds, health_alert_reasons).
AlertsExplained ==
  \A s \in Servers :
    LET seen == View(entries[s].latest, settings, s) IN
    /\ (seen.level \in {"ok", "unknown"})
         <=> (Reasons(seen, settings.th, settings.ign[s]) = {})
    /\ \A i \in 1..4 : Rank(Badges(Row(s), settings.th)[i]) <= Rank(Row(s).level)

\* The button and the list agree: of the servers whose level was made with the present
\* settings, the button counts those whose rows are red.  The button goes by the cached
\* level, to which the check and what is compared with the check before have both
\* contributed; the rows make the level anew.
ButtonAgrees ==
  \A s \in settings.enabled :
    truth[s].as = settings =>
      (s \in FleetAlert <=> Row(s).level \in {"crit", "offline"})

\* What is said to have changed has changed: a reboot only if the server did start anew
\* since the check before, as many new errors as there were, or not more if it did, in the
\* alert and in the comparison the window draws; and the past is in its order.
ChangesAreReal ==
  \A s \in Servers :
    LET now == entries[s].latest
        real == truth[s].latest.errors - truth[s].before.errors
        again == truth[s].latest.starts > truth[s].before.starts
        points == SparkPoints(entries[s])
    IN /\ now.rebooted => again
       /\ now.net_delta # None => /\ now.net_delta \in 0..real
                                  /\ ~again => now.net_delta = real
       /\ (entries[s].history # <<>> /\ entries[s].history[1].checked_at # now.checked_at) =>
            Trend(now, entries[s].history[1]).net = now.net_delta
       /\ \A i \in 1..(Len(points) - 1) : points[i].checked_at < points[i + 1].checked_at
=============================================================================
