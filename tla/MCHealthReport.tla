---------------------------- MODULE MCHealthReport ----------------------------
(* One server with a root disk, another disk and one of a container.  A gauge   *)
(* is 0, 2 or 4; the thresholds are below, on and above these.                   *)
EXTENDS HealthReport

Limits(warn, crit) == [g \in Gauges \cup {"disk", "load", "ssh"} |-> [warn |-> warn, crit |-> crit]]

MCSettings ==
  {[th |-> Limits(2, 4), show |-> FALSE, ign |-> [s \in Servers |-> {}], enabled |-> Servers,
    collect |-> {"load", "ram", "swap", "cpu", "disk", "docker"}],
   [th |-> Limits(1, 2), show |-> TRUE, ign |-> [s \in Servers |-> {"net", "ssh"}],
    enabled |-> Servers, collect |-> {"load", "cpu", "disk", "docker"}],
   [th |-> Limits(4, 5), show |-> TRUE, enabled |-> Servers, ign |-> [s \in Servers |->
      {"reboot", "units", "docker", "oom", "time"}], collect |-> {"ram", "swap", "docker"}]}

On(mount, pct) == [mount |-> mount, pct |-> pct]

Idle ==
  [linux |-> TRUE, nproc |-> 2, load |-> 0, mem |-> 0, swap |-> 0, cpu |-> 0, iowait |-> 0,
   steal |-> 0, disks |-> <<On("/", 0)>>, reboot_required |-> FALSE, units |-> 0,
   unhealthy |-> -1, oom |-> 0, ssh |-> 0, synced |-> 1, offset |-> 0]

Whole(readings) == [readings |-> readings, noise |-> <<>>, upto |-> 99, code |-> 0]
Cut(n, code) == [Whole(Idle) EXCEPT !.upto = n, !.code = code]

\* Each of the readings on both sides of its thresholds, alone, and several together; the
\* output cut before its mark, after it, in the midst of the memory and later; an account
\* whose profile prints; a system that is not Linux.
MCOutputs ==
  {Whole(Idle), Cut(0, 130), Cut(2, 124), Cut(4, 124), Cut(6, 124), Cut(13, 130),
   [Whole([Idle EXCEPT !.mem = 2]) EXCEPT !.noise = <<<<"cpu", 4>>, <<"end">>>>],
   Whole([Idle EXCEPT !.linux = FALSE]),
   Whole([Idle EXCEPT !.load = 9, !.swap = -1]),
   Whole([Idle EXCEPT !.disks = <<On("/", 2), On("/snap/x", 5), On("/srv", 1)>>]),
   Whole([Idle EXCEPT !.disks = <<On("/srv", 4), On("/snap/x", 4)>>, !.reboot_required = TRUE]),
   Whole([Idle EXCEPT !.units = 4, !.unhealthy = 0]),
   Whole([Idle EXCEPT !.units = 1, !.unhealthy = 2, !.oom = 1]),
   Whole([Idle EXCEPT !.oom = 3, !.ssh = 2]),
   Whole([Idle EXCEPT !.ssh = 5, !.synced = 0]),
   Whole([Idle EXCEPT !.offset = 1]), Whole([Idle EXCEPT !.offset = 2, !.cpu = 2])}

MCUsual == {Cut(6, 124), Whole([Idle EXCEPT !.offset = 2, !.cpu = 2])}
===============================================================================
