-------------------------- MODULE HealthReportProofs --------------------------
(***************************************************************************)
(* What holds of HealthReport for every value of its constants: an alert   *)
(* has its reasons, the button and the rows agree, and what is said to     *)
(* have changed has changed.                                               *)
(***************************************************************************)
EXTENDS HealthReport, SequenceTheorems, WellFoundedInduction, TLAPS

Four   == {"unknown", "ok", "warn", "crit"}
Levels == Four \cup {"offline", "unsupported"}

Snapshots ==
  [level : Levels, error : BOOLEAN, checked_at : Nat, gauge : [Gauges -> Int],
   nproc : Int, load1 : Int, load15 : Int, disks : Seq(Disk), uptime : Int,
   reboot_required : BOOLEAN, rebooted : BOOLEAN, units : Nat, docker : BOOLEAN,
   unhealthy : Int, oom : Int, ssh : Int, synced : Int, offset : Int, net : Int, net_delta : Int]

\* Thresholds as the settings have them
Ordered(th) == th.ssh.warn \in Nat /\ th.ssh.crit \in Nat /\ th.ssh.warn <= th.ssh.crit

\* The keys of what the script prints before the uptime, and of the marks
FrontKeys == {"start", "other", "end", "nproc", "load1", "load15"}

-----------------------------------------------------------------------------
(* Folds over sequences                                                     *)

\* What is true of 0 and of the next of every n up to N is true of all up to N.
LEMMA Below ==
  ASSUME NEW N \in Nat, NEW True \in SUBSET (0 .. N),
         0 \in True, \A n \in 1 .. N : n - 1 \in True => n \in True
  PROVE  True = 0 .. N
  <1> DEFINE R == {p \in Nat \X Nat : p[1] < p[2]}
             S == (0 .. N) \ True
  <1>1. SUFFICES ASSUME S # {} PROVE FALSE
    OBVIOUS
  <1>2. IsWellFoundedOn(R, Nat)
    BY NatLessThanWellFounded DEF OpToRel
  <1>3. S \subseteq Nat
    OBVIOUS
  <1>4. PICK x \in S : \A y \in S : ~(<<y, x>> \in R)
    BY <1>1, <1>2, <1>3, WFMin
  <1>5. x \in 1 .. N /\ x \notin True
    OBVIOUS
  <1>6. x - 1 \in S
    BY <1>5
  <1>7. <<x - 1, x>> \in Nat \X Nat /\ <<x - 1, x>>[1] < <<x - 1, x>>[2]
    BY <1>5
  <1>8. QED
    BY <1>4, <1>6, <1>7

\* What has n and no greater number has n for its greatest.
LEMMA MaxIsIt ==
  ASSUME NEW n \in Nat, NEW x \in SUBSET (1 .. n), n \in x
  PROVE  Max(x) = n
  <1>1. n \in x /\ \A y \in x : n >= y
    <2>1. \A y \in x : y \in 1 .. n
      OBVIOUS
    <2>2. QED
      BY <2>1
  <1> DEFINE m == Max(x)
  <1>2. m \in x /\ \A y \in x : m >= y
    BY <1>1 DEF Max
  <1> HIDE DEF m
  <1>3. m >= n /\ n >= m /\ m \in 1 .. n
    BY <1>1, <1>2
  <1>4. m = n
    BY <1>3
  <1>5. QED
    BY <1>4 DEF m

\* What is not empty has a greatest number.
LEMMA MaxIsThere ==
  ASSUME NEW N \in Nat, NEW x \in SUBSET (1 .. N), x # {}
  PROVE  Max(x) \in x
  <1> DEFINE True == {n \in 0 .. N : \A y \in SUBSET (1 .. n) : y # {} => Max(y) \in y}
  <1>1. 0 \in True
    <2>1. \A y \in SUBSET (1 .. 0) : y = {}
      OBVIOUS
    <2>2. \A y \in SUBSET (1 .. 0) : y # {} => Max(y) \in y
      BY <2>1
    <2>3. 0 \in 0 .. N
      OBVIOUS
    <2>4. QED
      BY <2>2, <2>3
  <1>2. ASSUME NEW n \in 1 .. N, n - 1 \in True PROVE n \in True
    <2> SUFFICES ASSUME NEW y \in SUBSET (1 .. n), y # {} PROVE Max(y) \in y
      OBVIOUS
    <2>1. CASE n \in y
      BY <2>1, MaxIsIt
    <2>2. CASE n \notin y
      <3>1. y \in SUBSET (1 .. (n - 1))
        BY <2>2
      <3>2. QED
        BY <1>2, <3>1
    <2>3. QED
      BY <2>1, <2>2
  <1>3. True \in SUBSET (0 .. N)
    OBVIOUS
  <1> HIDE DEF True
  <1>4. True = 0 .. N
    BY <1>1, <1>2, <1>3, Below
  <1>5. QED
    BY <1>4 DEF True

\* A fold of steps, each of which leads from S to S, is there and leads from S to S.
\* g is the function that MapThenFoldSet calls iter.
Folds(g, N, base, step) ==
  \A x \in SUBSET (1 .. N) : g[x] = IF x = {} THEN base ELSE step[Max(x)][g[x \ {Max(x)}]]

\* The recursive function a fold unfolds to exists. It is defined on the subsets of 1 .. N, each by
\* the one without its greatest number.
LEMMA FoldIsThere ==
  ASSUME NEW S, NEW base \in S, NEW N \in Nat, NEW step \in [1 .. N -> [S -> S]]
  PROVE  \E g \in [SUBSET (1 .. N) -> S] : Folds(g, N, base, step)
  <1> DEFINE There == {n \in 0 .. N : \E g \in [SUBSET (1 .. n) -> S] : Folds(g, n, base, step)}
  <1>1. 0 \in There
    <2> DEFINE g == [x \in SUBSET (1 .. 0) |-> base]
    <2>1. g \in [SUBSET (1 .. 0) -> S]
      OBVIOUS
    <2>2. \A x \in SUBSET (1 .. 0) : x = {}
      OBVIOUS
    <2>3. Folds(g, 0, base, step)
      BY <2>2 DEF Folds
    <2>4. QED
      BY <2>1, <2>3
  <1>2. ASSUME NEW n \in 1 .. N, n - 1 \in There PROVE n \in There
    <2>1. PICK g \in [SUBSET (1 .. (n - 1)) -> S] : Folds(g, n - 1, base, step)
      BY <1>2
    <2> DEFINE h == [x \in SUBSET (1 .. n) |-> IF n \in x THEN step[n][g[x \ {n}]] ELSE g[x]]
    <2>2. \A x \in SUBSET (1 .. n) : x \ {n} \in SUBSET (1 .. (n - 1))
      OBVIOUS
    <2>3. \A x \in SUBSET (1 .. n) : n \notin x => x \in SUBSET (1 .. (n - 1))
      OBVIOUS
    <2>4. h \in [SUBSET (1 .. n) -> S]
      BY <2>2, <2>3
    <2>5. ASSUME NEW x \in SUBSET (1 .. n)
          PROVE  h[x] = IF x = {} THEN base ELSE step[Max(x)][h[x \ {Max(x)}]]
      <3>1. CASE n \in x
        <4>1. Max(x) = n
          BY <3>1, MaxIsIt
        <4>2. x \ {n} \in SUBSET (1 .. n) /\ n \notin x \ {n}
          OBVIOUS
        <4>3. h[x \ {n}] = g[x \ {n}] /\ h[x] = step[n][g[x \ {n}]] /\ x # {}
          BY <3>1, <4>2
        <4>4. QED
          BY <4>1, <4>3
      <3>2. CASE n \notin x
        <4>1. x \in SUBSET (1 .. (n - 1)) /\ x \ {Max(x)} \in SUBSET (1 .. (n - 1))
          BY <2>3, <3>2
        <4>2. x \ {Max(x)} \in SUBSET (1 .. n) /\ n \notin x \ {Max(x)}
          BY <3>2
        <4>3. h[x] = g[x] /\ h[x \ {Max(x)}] = g[x \ {Max(x)}]
          BY <2>5, <3>2, <4>2
        <4>4. g[x] = IF x = {} THEN base ELSE step[Max(x)][g[x \ {Max(x)}]]
          BY <2>1, <4>1 DEF Folds
        <4>5. QED
          BY <4>3, <4>4
      <3>3. QED
        BY <3>1, <3>2
    <2> HIDE DEF h
    <2>6. Folds(h, n, base, step)
      BY <2>5 DEF Folds
    <2>7. n \in 0 .. N
      OBVIOUS
    <2>8. QED
      BY <2>4, <2>6, <2>7
  <1>3. There \in SUBSET (0 .. N)
    OBVIOUS
  <1> HIDE DEF There
  <1>4. There = 0 .. N
    BY <1>1, <1>2, <1>3, Below
  <1>5. N \in There
    BY <1>4
  <1>6. QED
    BY <1>5 DEF There

\* The first n of 1 .. N: n is the greatest of them.
LEMMA UpTo ==
  ASSUME NEW N \in Nat, NEW n \in 1 .. N
  PROVE  /\ 1 .. n \in SUBSET (1 .. N) /\ 1 .. n # {}
         /\ Max(1 .. n) = n /\ (1 .. n) \ {n} = 1 .. (n - 1)
  <1>1. 1 .. n \in SUBSET (1 .. N) /\ n \in 1 .. n /\ (1 .. n) \ {n} = 1 .. (n - 1)
    OBVIOUS
  <1>2. 1 .. n \in SUBSET (1 .. n) /\ n \in Nat
    OBVIOUS
  <1>3. Max(1 .. n) = n
    BY <1>1, <1>2, MaxIsIt
  <1>4. QED
    BY <1>1, <1>3

\* A filter of disks keeps disks.
LEMMA AndRealKeeps ==
  <<>> \in Seq(Disk) /\ \A kept \in Seq(Disk), disk \in Disk : AndReal(kept, disk) \in Seq(Disk)
BY DEF AndReal

\* Step by step: health_apply_virtual_disks
LEMMA RunOfReal ==
  ASSUME NEW q \in Seq(Disk)
  PROVE  \E run \in [0 .. Len(q) -> Seq(Disk)] :
           /\ run[0] = <<>> /\ run[Len(q)] = FoldLeft(AndReal, <<>>, q)
           /\ \A n \in 1 .. Len(q) : run[n] = AndReal(run[n - 1], q[n])
<1> DEFINE n    == Len(q)
           next(u, i) == AndReal(u, q[i])
           step == [i \in 1 .. n |-> [u \in Seq(Disk) |-> next(u, i)]]
           iter == CHOOSE f : f = [x \in SUBSET (1 .. n) |->
                     IF x = {} THEN <<>> ELSE next(f[x \ {Max(x)}], Max(x))]
<1>1. n \in Nat /\ DOMAIN q = 1 .. n /\ \A i \in 1 .. n : q[i] \in Disk
  BY LenProperties, ElementOfSeq
<1>2. <<>> \in Seq(Disk) /\ \A i \in 1 .. n, u \in Seq(Disk) : next(u, i) \in Seq(Disk)
  BY <1>1, AndRealKeeps
<1>3. FoldLeft(AndReal, <<>>, q) = iter[1 .. n]
  BY <1>1 DEF FoldLeft, MapThenFoldSet
<1> HIDE DEF next
<1>4. step \in [1 .. n -> [Seq(Disk) -> Seq(Disk)]]
  BY <1>2
<1>5. PICK g \in [SUBSET (1 .. n) -> Seq(Disk)] : Folds(g, n, <<>>, step)
  <2> HIDE DEF n, step
  <2> QED
    BY <1>1, <1>2, <1>4, FoldIsThere
<1>6. ASSUME NEW x \in SUBSET (1 .. n)
      PROVE  g[x] = IF x = {} THEN <<>> ELSE next(g[x \ {Max(x)}], Max(x))
  <2>1. x # {} => Max(x) \in 1 .. n
    BY <1>1, MaxIsThere
  <2>2. g[x \ {Max(x)}] \in Seq(Disk)
    OBVIOUS
  <2> QED
    BY <1>5, <2>1, <2>2 DEF Folds
<1>7. iter = [x \in SUBSET (1 .. n) |->
                IF x = {} THEN <<>> ELSE next(iter[x \ {Max(x)}], Max(x))]
  <2>1. g = [x \in SUBSET (1 .. n) |->
               IF x = {} THEN <<>> ELSE next(g[x \ {Max(x)}], Max(x))]
    BY <1>6
  <2> QED
    BY <2>1
<1> HIDE DEF n, step, iter
<1> DEFINE run == [m \in 0 .. n |-> iter[1 .. m]]
<1>8. run[0] = <<>> /\ run[n] = iter[1 .. n]
  <2>1. 1 .. 0 = {} /\ {} \in SUBSET (1 .. n) /\ 0 \in 0 .. n /\ n \in 0 .. n
    BY <1>1
  <2> QED
    BY <1>7, <2>1
<1>9. ASSUME NEW m \in 1 .. n PROVE run[m] = next(run[m - 1], m)
  <2>1. iter[1 .. m] = next(iter[1 .. (m - 1)], m)
    <3>1. /\ 1 .. m \in SUBSET (1 .. n) /\ 1 .. m # {}
          /\ Max(1 .. m) = m /\ (1 .. m) \ {m} = 1 .. (m - 1)
      BY <1>1, UpTo
    <3> QED
      BY <1>7, <3>1
  <2>2. m \in 0 .. n /\ m - 1 \in 0 .. n
    BY <1>1
  <2> QED
    BY <2>1, <2>2
<1>10. run \in [0 .. n -> Seq(Disk)]
  <2> DEFINE within == Seq(Disk)
             start  == <<>>
             Right  == {m \in 0 .. n : run[m] \in within}
  <2>0. start \in within /\ \A i \in 1 .. n, u \in within : next(u, i) \in within
    BY <1>2
  <2>1. 0 \in Right
    <3>1. run[0] = start
      BY <1>8
    <3> HIDE DEF within, start, run
    <3> QED
      BY <1>1, <2>0, <3>1
  <2>2. ASSUME NEW m \in 1 .. n, m - 1 \in Right PROVE m \in Right
    <3>1. run[m - 1] \in within
      BY <2>2
    <3>2. run[m] = next(run[m - 1], m)
      BY <1>9
    <3>3. m \in 0 .. n
      BY <1>1
    <3> HIDE DEF within, start, run
    <3> QED
      BY <2>0, <3>1, <3>2, <3>3
  <2>3. Right \in SUBSET (0 .. n)
    OBVIOUS
  <2> HIDE DEF Right
  <2>4. Right = 0 .. n
    BY <1>1, <2>1, <2>2, <2>3, Below
  <2> HIDE DEF run
  <2>5. \A m \in 0 .. n : run[m] \in Seq(Disk)
    BY <2>4 DEF Right
  <2> QED
    BY <2>5 DEF run
<1> HIDE DEF run
<1> QED
  BY <1>3, <1>8, <1>9, <1>10 DEF n, next

\* A filter of checks keeps checks.
LEMMA AndPastKeeps ==
  <<>> \in Seq(Snapshots)
  /\ \A kept \in Seq(Snapshots), h \in Snapshots : AndPast(kept, h) \in Seq(Snapshots)
BY DEF AndPast

\* Step by step: the checks load_health_cache takes from a file
LEMMA RunOfPast ==
  ASSUME NEW q \in Seq(Snapshots)
  PROVE  \E run \in [0 .. Len(q) -> Seq(Snapshots)] :
           /\ run[0] = <<>> /\ run[Len(q)] = FoldLeft(AndPast, <<>>, q)
           /\ \A n \in 1 .. Len(q) : run[n] = AndPast(run[n - 1], q[n])
<1> DEFINE n    == Len(q)
           next(u, i) == AndPast(u, q[i])
           step == [i \in 1 .. n |-> [u \in Seq(Snapshots) |-> next(u, i)]]
           iter == CHOOSE f : f = [x \in SUBSET (1 .. n) |->
                     IF x = {} THEN <<>> ELSE next(f[x \ {Max(x)}], Max(x))]
<1>1. n \in Nat /\ DOMAIN q = 1 .. n /\ \A i \in 1 .. n : q[i] \in Snapshots
  BY LenProperties, ElementOfSeq
<1>2. <<>> \in Seq(Snapshots) /\ \A i \in 1 .. n, u \in Seq(Snapshots) : next(u, i) \in Seq(Snapshots)
  BY <1>1, AndPastKeeps
<1>3. FoldLeft(AndPast, <<>>, q) = iter[1 .. n]
  BY <1>1 DEF FoldLeft, MapThenFoldSet
<1> HIDE DEF next
<1>4. step \in [1 .. n -> [Seq(Snapshots) -> Seq(Snapshots)]]
  BY <1>2
<1>5. PICK g \in [SUBSET (1 .. n) -> Seq(Snapshots)] : Folds(g, n, <<>>, step)
  <2> HIDE DEF n, step
  <2> QED
    BY <1>1, <1>2, <1>4, FoldIsThere
<1>6. ASSUME NEW x \in SUBSET (1 .. n)
      PROVE  g[x] = IF x = {} THEN <<>> ELSE next(g[x \ {Max(x)}], Max(x))
  <2>1. x # {} => Max(x) \in 1 .. n
    BY <1>1, MaxIsThere
  <2>2. g[x \ {Max(x)}] \in Seq(Snapshots)
    OBVIOUS
  <2> QED
    BY <1>5, <2>1, <2>2 DEF Folds
<1>7. iter = [x \in SUBSET (1 .. n) |->
                IF x = {} THEN <<>> ELSE next(iter[x \ {Max(x)}], Max(x))]
  <2>1. g = [x \in SUBSET (1 .. n) |->
               IF x = {} THEN <<>> ELSE next(g[x \ {Max(x)}], Max(x))]
    BY <1>6
  <2> QED
    BY <2>1
<1> HIDE DEF n, step, iter
<1> DEFINE run == [m \in 0 .. n |-> iter[1 .. m]]
<1>8. run[0] = <<>> /\ run[n] = iter[1 .. n]
  <2>1. 1 .. 0 = {} /\ {} \in SUBSET (1 .. n) /\ 0 \in 0 .. n /\ n \in 0 .. n
    BY <1>1
  <2> QED
    BY <1>7, <2>1
<1>9. ASSUME NEW m \in 1 .. n PROVE run[m] = next(run[m - 1], m)
  <2>1. iter[1 .. m] = next(iter[1 .. (m - 1)], m)
    <3>1. /\ 1 .. m \in SUBSET (1 .. n) /\ 1 .. m # {}
          /\ Max(1 .. m) = m /\ (1 .. m) \ {m} = 1 .. (m - 1)
      BY <1>1, UpTo
    <3> QED
      BY <1>7, <3>1
  <2>2. m \in 0 .. n /\ m - 1 \in 0 .. n
    BY <1>1
  <2> QED
    BY <2>1, <2>2
<1>10. run \in [0 .. n -> Seq(Snapshots)]
  <2> DEFINE within == Seq(Snapshots)
             start  == <<>>
             Right  == {m \in 0 .. n : run[m] \in within}
  <2>0. start \in within /\ \A i \in 1 .. n, u \in within : next(u, i) \in within
    BY <1>2
  <2>1. 0 \in Right
    <3>1. run[0] = start
      BY <1>8
    <3> HIDE DEF within, start, run
    <3> QED
      BY <1>1, <2>0, <3>1
  <2>2. ASSUME NEW m \in 1 .. n, m - 1 \in Right PROVE m \in Right
    <3>1. run[m - 1] \in within
      BY <2>2
    <3>2. run[m] = next(run[m - 1], m)
      BY <1>9
    <3>3. m \in 0 .. n
      BY <1>1
    <3> HIDE DEF within, start, run
    <3> QED
      BY <2>0, <3>1, <3>2, <3>3
  <2>3. Right \in SUBSET (0 .. n)
    OBVIOUS
  <2> HIDE DEF Right
  <2>4. Right = 0 .. n
    BY <1>1, <2>1, <2>2, <2>3, Below
  <2> HIDE DEF run
  <2>5. \A m \in 0 .. n : run[m] \in Seq(Snapshots)
    BY <2>4 DEF Right
  <2> QED
    BY <2>5 DEF run
<1> HIDE DEF run
<1> QED
  BY <1>3, <1>8, <1>9, <1>10 DEF n, next

\* A line of the output changes a snapshot to a snapshot.
LEMMA ReadingKeeps ==
  NoSnapshot \in Snapshots
  /\ \A snap \in Snapshots, line \in Lines : Reading(snap, line) \in Snapshots
<1>1. NoSnapshot \in Snapshots
  BY DEF NoSnapshot, Snapshots, Levels, Four, None
<1>2. ASSUME NEW snap \in Snapshots, NEW line \in Lines PROVE Reading(snap, line) \in Snapshots
  <2>1. CASE line \in {<<"start">>, <<"other">>, <<"end">>, <<"mem_total">>, <<"swap_total">>, <<"unit">>}
    <3>1. /\ [snap EXCEPT !.gauge["mem"] = Full] \in Snapshots
          /\ [snap EXCEPT !.gauge["swap"] = Full] \in Snapshots
      BY OutputsAssumption DEF Snapshots, Gauges
    <3>2. [snap EXCEPT !.units = snap.units + 1] \in Snapshots
      <4>1. snap.units + 1 \in Nat
        BY DEF Snapshots
      <4> QED
        BY <4>1 DEF Snapshots
    <3> QED
      BY <2>1, <3>1, <3>2 DEF Reading, Gauges
  <2>2. CASE line \in Numbers \X Int
    <3>1. line[1] \in Numbers /\ line[2] \in Int
      BY <2>2
    <3>2. CASE line[1] \in Gauges
      <4> DEFINE g == line[1]
                 v == line[2]
      <4>1. Reading(snap, line) = [snap EXCEPT !.gauge = [snap.gauge EXCEPT ![g] = v]]
        BY <3>2 DEF Reading, Gauges
      <4>2. [snap.gauge EXCEPT ![g] = v] \in [Gauges -> Int]
        BY <3>1, <3>2 DEF Snapshots
      <4> HIDE DEF g, v
      <4> QED
        BY <4>1, <4>2 DEF Snapshots
    <3>3. CASE line[1] \notin Gauges
      <4> DEFINE k == line[1]
                 v == line[2]
      <4>1. Reading(snap, line) = [snap EXCEPT ![k] = v]
        BY <3>1, <3>3 DEF Reading, Numbers, Gauges
      <4>2. k \in {"nproc", "load1", "load15", "uptime", "unhealthy", "net", "oom", "ssh",
                   "synced", "offset"}
        BY <3>1, <3>3 DEF Numbers
      <4>3. v \in Int
        BY <3>1
      <4> HIDE DEF k, v
      <4>4. snap \in Snapshots
        OBVIOUS
      <4>5. Reading(snap, line) \in
              {[snap EXCEPT !.nproc = v], [snap EXCEPT !.load1 = v], [snap EXCEPT !.load15 = v],
               [snap EXCEPT !.uptime = v], [snap EXCEPT !.unhealthy = v], [snap EXCEPT !.net = v],
               [snap EXCEPT !.oom = v], [snap EXCEPT !.ssh = v], [snap EXCEPT !.synced = v],
               [snap EXCEPT !.offset = v]}
        BY <4>1, <4>2
      <4>6. /\ [snap EXCEPT !.nproc = v] \in Snapshots /\ [snap EXCEPT !.load1 = v] \in Snapshots
            /\ [snap EXCEPT !.load15 = v] \in Snapshots
        BY <4>3, <4>4 DEF Snapshots
      <4>7. /\ [snap EXCEPT !.uptime = v] \in Snapshots /\ [snap EXCEPT !.net = v] \in Snapshots
            /\ [snap EXCEPT !.unhealthy = v] \in Snapshots
        BY <4>3, <4>4 DEF Snapshots
      <4>8. /\ [snap EXCEPT !.oom = v] \in Snapshots /\ [snap EXCEPT !.ssh = v] \in Snapshots
            /\ [snap EXCEPT !.synced = v] \in Snapshots /\ [snap EXCEPT !.offset = v] \in Snapshots
        BY <4>3, <4>4 DEF Snapshots
      <4> QED
        BY <4>5, <4>6, <4>7, <4>8
    <3> QED
      BY <3>2, <3>3
  <2>3. CASE line \in {"reboot_required", "docker"} \X BOOLEAN
    <3>1. line[2] \in BOOLEAN
      BY <2>3
    <3>2. CASE line[1] = "reboot_required"
      <4>1. Reading(snap, line) = [snap EXCEPT !.reboot_required = line[2]]
        BY <3>2 DEF Reading, Gauges
      <4> QED
        BY <3>1, <4>1 DEF Snapshots
    <3>3. CASE line[1] = "docker"
      <4> DEFINE u == IF line[2] /\ snap.unhealthy < 0 THEN 0 ELSE snap.unhealthy
                 d == line[2]
      <4>1. Reading(snap, line) = [snap EXCEPT !.docker = d, !.unhealthy = u]
        BY <3>3 DEF Reading, Gauges
      <4>2. u \in Int /\ d \in BOOLEAN
        BY <3>1 DEF Snapshots
      <4> HIDE DEF u, d
      <4> QED
        BY <4>1, <4>2 DEF Snapshots
    <3> QED
      BY <2>3, <3>2, <3>3
  <2>4. CASE line \in {"disk"} \X Disk
    <3>1. line[1] = "disk" /\ line[2] \in Disk
      BY <2>4
    <3>2. Reading(snap, line) = [snap EXCEPT !.disks = Append(snap.disks, line[2])]
      BY <3>1 DEF Reading, Gauges
    <3>3. Append(snap.disks, line[2]) \in Seq(Disk)
      BY <3>1 DEF Snapshots
    <3> QED
      BY <3>2, <3>3 DEF Snapshots
  <2> QED
    BY <2>1, <2>2, <2>3, <2>4 DEF Lines
<1> QED
  BY <1>1, <1>2

\* Step by step: the lines parse_health_output reads
LEMMA RunOfReading ==
  ASSUME NEW q \in Seq(Lines)
  PROVE  \E run \in [0 .. Len(q) -> Snapshots] :
           /\ run[0] = NoSnapshot /\ run[Len(q)] = FoldLeft(Reading, NoSnapshot, q)
           /\ \A n \in 1 .. Len(q) : run[n] = Reading(run[n - 1], q[n])
<1> DEFINE n    == Len(q)
           next(u, i) == Reading(u, q[i])
           step == [i \in 1 .. n |-> [u \in Snapshots |-> next(u, i)]]
           iter == CHOOSE f : f = [x \in SUBSET (1 .. n) |->
                     IF x = {} THEN NoSnapshot ELSE next(f[x \ {Max(x)}], Max(x))]
<1>1. n \in Nat /\ DOMAIN q = 1 .. n /\ \A i \in 1 .. n : q[i] \in Lines
  BY LenProperties, ElementOfSeq
<1>2. NoSnapshot \in Snapshots /\ \A i \in 1 .. n, u \in Snapshots : next(u, i) \in Snapshots
  BY <1>1, ReadingKeeps
<1>3. FoldLeft(Reading, NoSnapshot, q) = iter[1 .. n]
  BY <1>1 DEF FoldLeft, MapThenFoldSet
<1> HIDE DEF next
<1>4. step \in [1 .. n -> [Snapshots -> Snapshots]]
  BY <1>2
<1>5. PICK g \in [SUBSET (1 .. n) -> Snapshots] : Folds(g, n, NoSnapshot, step)
  <2> HIDE DEF n, step
  <2> QED
    BY <1>1, <1>2, <1>4, FoldIsThere
<1>6. ASSUME NEW x \in SUBSET (1 .. n)
      PROVE  g[x] = IF x = {} THEN NoSnapshot ELSE next(g[x \ {Max(x)}], Max(x))
  <2>1. x # {} => Max(x) \in 1 .. n
    BY <1>1, MaxIsThere
  <2>2. g[x \ {Max(x)}] \in Snapshots
    OBVIOUS
  <2> QED
    BY <1>5, <2>1, <2>2 DEF Folds
<1>7. iter = [x \in SUBSET (1 .. n) |->
                IF x = {} THEN NoSnapshot ELSE next(iter[x \ {Max(x)}], Max(x))]
  <2>1. g = [x \in SUBSET (1 .. n) |->
               IF x = {} THEN NoSnapshot ELSE next(g[x \ {Max(x)}], Max(x))]
    BY <1>6
  <2> QED
    BY <2>1
<1> HIDE DEF n, step, iter
<1> DEFINE run == [m \in 0 .. n |-> iter[1 .. m]]
<1>8. run[0] = NoSnapshot /\ run[n] = iter[1 .. n]
  <2>1. 1 .. 0 = {} /\ {} \in SUBSET (1 .. n) /\ 0 \in 0 .. n /\ n \in 0 .. n
    BY <1>1
  <2> QED
    BY <1>7, <2>1
<1>9. ASSUME NEW m \in 1 .. n PROVE run[m] = next(run[m - 1], m)
  <2>1. iter[1 .. m] = next(iter[1 .. (m - 1)], m)
    <3>1. /\ 1 .. m \in SUBSET (1 .. n) /\ 1 .. m # {}
          /\ Max(1 .. m) = m /\ (1 .. m) \ {m} = 1 .. (m - 1)
      BY <1>1, UpTo
    <3> QED
      BY <1>7, <3>1
  <2>2. m \in 0 .. n /\ m - 1 \in 0 .. n
    BY <1>1
  <2> QED
    BY <2>1, <2>2
<1>10. run \in [0 .. n -> Snapshots]
  <2> DEFINE within == Snapshots
             start  == NoSnapshot
             Right  == {m \in 0 .. n : run[m] \in within}
  <2>0. start \in within /\ \A i \in 1 .. n, u \in within : next(u, i) \in within
    BY <1>2
  <2>1. 0 \in Right
    <3>1. run[0] = start
      BY <1>8
    <3> HIDE DEF within, start, run
    <3> QED
      BY <1>1, <2>0, <3>1
  <2>2. ASSUME NEW m \in 1 .. n, m - 1 \in Right PROVE m \in Right
    <3>1. run[m - 1] \in within
      BY <2>2
    <3>2. run[m] = next(run[m - 1], m)
      BY <1>9
    <3>3. m \in 0 .. n
      BY <1>1
    <3> HIDE DEF within, start, run
    <3> QED
      BY <2>0, <3>1, <3>2, <3>3
  <2>3. Right \in SUBSET (0 .. n)
    OBVIOUS
  <2> HIDE DEF Right
  <2>4. Right = 0 .. n
    BY <1>1, <2>1, <2>2, <2>3, Below
  <2> HIDE DEF run
  <2>5. \A m \in 0 .. n : run[m] \in Snapshots
    BY <2>4 DEF Right
  <2> QED
    BY <2>5 DEF run
<1> HIDE DEF run
<1> QED
  BY <1>3, <1>8, <1>9, <1>10 DEF n, next

-----------------------------------------------------------------------------
(* Levels                                                                   *)

\* The worst of some levels is one of them, and none is worse.
LEMMA WorstIsThere ==
  ASSUME NEW S \in SUBSET Levels, S # {}
  PROVE  Worst(S) \in S /\ \A b \in S : Rank(Worst(S)) >= Rank(b)
<1>1. \E a \in S : \A b \in S : Rank(a) >= Rank(b)
  <2>1. \A b \in Levels : Rank(b) \in 0 .. 4
    BY DEF Levels, Four, Rank
  <2>2. CASE \E a \in S : Rank(a) = 4
    BY <2>1, <2>2
  <2>3. CASE (\A a \in S : Rank(a) # 4) /\ \E a \in S : Rank(a) = 3
    BY <2>1, <2>3
  <2>4. CASE (\A a \in S : Rank(a) \notin {3, 4}) /\ \E a \in S : Rank(a) = 2
    BY <2>1, <2>4
  <2>5. CASE (\A a \in S : Rank(a) \notin {2, 3, 4}) /\ \E a \in S : Rank(a) = 1
    BY <2>1, <2>5
  <2>6. CASE \A a \in S : Rank(a) \notin {1, 2, 3, 4}
    BY <2>1, <2>6
  <2> QED
    BY <2>2, <2>3, <2>4, <2>5, <2>6
<1> QED
  BY <1>1 DEF Worst

\* The worst of the four levels of a reading is one of them, is no better than any, and is
\* critical, or an alert, when one of them is.
LEMMA WorstOfFour ==
  ASSUME NEW S \in SUBSET Four, "unknown" \in S
  PROVE  /\ Worst(S) \in S /\ \A b \in S : Rank(Worst(S)) >= Rank(b)
         /\ Worst(S) = "crit" <=> "crit" \in S
         /\ IsBad(Worst(S)) <=> \E b \in S : IsBad(b)
<1>1. Worst(S) \in S /\ \A b \in S : Rank(Worst(S)) >= Rank(b)
  BY WorstIsThere DEF Levels
<1>2. Rank("crit") = 4 /\ Rank("warn") = 3 /\ Rank("ok") = 2 /\ Rank("unknown") = 0
  BY DEF Rank
<1> DEFINE w == Worst(S)
<1>3. w \in S /\ w \in Four
  BY <1>1
<1>4. "crit" \in S => w = "crit"
  <2>1. SUFFICES ASSUME "crit" \in S, w \in {"unknown", "ok", "warn"} PROVE FALSE
    BY <1>3 DEF Four
  <2>2. Rank(w) >= 4
    BY <1>1, <1>2, <2>1
  <2> HIDE DEF w
  <2> QED
    BY <1>2, <2>1, <2>2
<1>5. "warn" \in S => w \in {"crit", "warn"}
  <2>1. SUFFICES ASSUME "warn" \in S, w \in {"unknown", "ok"} PROVE FALSE
    BY <1>3 DEF Four
  <2>2. Rank(w) >= 3
    BY <1>1, <1>2, <2>1
  <2> HIDE DEF w
  <2> QED
    BY <1>2, <2>1, <2>2
<1>6. Worst(S) = "crit" <=> "crit" \in S
  BY <1>3, <1>4
<1>7. IsBad(Worst(S)) <=> \E b \in S : IsBad(b)
  BY <1>3, <1>4, <1>5 DEF IsBad
<1> QED
  BY <1>1, <1>6, <1>7

\* What a reading amounts to is one of the four levels.
LEMMA LevelsOfReadings ==
  /\ \A pct, limits : FromPct(pct, limits) \in Four
  /\ \A n, warn, crit : AtLeast(n, warn, crit) \in Four
  /\ \A n : ByThree(n) \in {"warn", "crit"}
BY DEF FromPct, AtLeast, ByThree, Four

\* What makes a level are levels, and "unknown" is always among them.
LEMMA ContributionsAreFour ==
  ASSUME NEW snap, NEW th, NEW ign
  PROVE  Contributions(snap, th, ign) \in SUBSET Four /\ "unknown" \in Contributions(snap, th, ign)
BY LevelsOfReadings DEF Contributions, Four

\* apply_health_thresholds changes the level only, of what was checked, and makes it what the
\* readings amount to.
LEMMA AppliedIs ==
  ASSUME NEW snap \in Snapshots, NEW th, NEW ign
  PROVE  LET C == Contributions(snap, th, ign)
             applied == Applied(snap, th, ign)
         IN /\ applied \in Snapshots
            /\ applied = [snap EXCEPT !.level = applied.level]
            /\ snap.level \in {"offline", "unsupported"} => applied = snap
            /\ snap.level \notin {"offline", "unsupported"} =>
                 /\ applied.level \in Four
                 /\ applied.level = "crit" <=> "crit" \in C
                 /\ IsBad(applied.level) <=> \E b \in C : IsBad(b)
                 /\ \A b \in C : Rank(b) <= Rank(applied.level)
<1> DEFINE C == Contributions(snap, th, ign)
           applied == Applied(snap, th, ign)
           worst == Worst(C)
<1>1. CASE snap.level \in {"offline", "unsupported"}
  <2>1. applied = snap
    BY <1>1 DEF Applied
  <2>2. snap = [snap EXCEPT !.level = snap.level]
    BY DEF Snapshots
  <2> QED
    BY <1>1, <2>1, <2>2
<1>2. CASE snap.level \notin {"offline", "unsupported"}
  <2>1. C \in SUBSET Four /\ "unknown" \in C
    BY ContributionsAreFour
  <2> HIDE DEF C
  <2>2. /\ worst \in C /\ \A b \in C : Rank(worst) >= Rank(b)
        /\ worst = "crit" <=> "crit" \in C
        /\ IsBad(worst) <=> \E b \in C : IsBad(b)
    BY <2>1, WorstOfFour
  <2> DEFINE level == IF worst = "unknown" /\ snap.checked_at > 0 /\ ~snap.error /\ HasReadings(snap)
                      THEN "ok" ELSE worst
  <2>3. applied = [snap EXCEPT !.level = level]
    BY <1>2 DEF Applied, C
  <2> HIDE DEF worst
  <2>4. /\ level \in Four
        /\ level = "crit" <=> worst = "crit"
        /\ IsBad(level) <=> IsBad(worst)
        /\ Rank(level) >= Rank(worst)
    BY <2>1, <2>2 DEF Four, IsBad, Rank
  <2>5. \A b \in C : Rank(b) <= Rank(level)
    <3>1. \A b \in Four : Rank(b) \in 0 .. 4
      BY DEF Four, Rank
    <3> QED
      BY <2>1, <2>2, <2>4, <3>1
  <2> HIDE DEF level, applied
  <2>6. applied \in Snapshots /\ applied.level = level
    BY <2>3, <2>4 DEF Snapshots, Levels
  <2> QED
    BY <1>2, <2>2, <2>3, <2>4, <2>5, <2>6 DEF C, applied
<1> QED
  BY <1>1, <1>2

\* What contributes to an alert is among the reasons for it.
LEMMA BadIsReason ==
  ASSUME NEW snap \in Snapshots, NEW th, Ordered(th), NEW ign, IsBad(snap.level),
         NEW b \in Contributions(snap, th, ign), IsBad(b)
  PROVE  Reasons(snap, th, ign) # {}
<1> DEFINE found ==
             {g \in Gauges : IsBad(FromPct(snap.gauge[g], th[g]))}
             \cup {"disk" : i \in {j \in DOMAIN snap.disks : IsBad(FromPct(snap.disks[j].pct, th.disk))}}
             \cup {"load" : x \in {y \in {1} : IsBad(FromPct(LoadPct(snap), th.load))}}
             \cup ({y \in {"reboot"} : snap.reboot_required} \ ign)
             \cup ({y \in {"units"} : snap.units > 0} \ ign)
             \cup ({y \in {"docker"} : snap.unhealthy > 0} \ ign)
             \cup ({y \in {"oom"} : snap.oom > 0} \ ign)
             \cup ({y \in {"ssh"} : snap.ssh >= th.ssh.warn} \ ign)
             \cup ({y \in {"time"} : snap.synced = 0 \/ snap.offset >= TimeWarn} \ ign)
             \cup ({y \in {"net"} : snap.net_delta >= NetWarn} \ ign)
<1>1. /\ snap.ssh \in Int /\ snap.offset \in Int /\ snap.net_delta \in Int
      /\ {TimeWarn, TimeCrit, NetWarn, NetCrit} \subseteq Int
      /\ TimeCrit >= TimeWarn /\ NetCrit >= NetWarn
  BY HealthReportAssumption DEF Snapshots
<1>2. ~IsBad("unknown")
  BY DEF IsBad
<1>3. b \in {FromPct(snap.gauge[g], th[g]) : g \in Gauges} => found # {}
  BY <1>2
<1>4. b \in {FromPct(snap.disks[i].pct, th.disk) : i \in DOMAIN snap.disks} => found # {}
  BY <1>2
<1>5. b = FromPct(LoadPct(snap), th.load) => found # {}
  <2>1. SUFFICES ASSUME IsBad(FromPct(LoadPct(snap), th.load))
                 PROVE "load" \in {"load" : x \in {y \in {1} : IsBad(FromPct(LoadPct(snap), th.load))}}
    OBVIOUS
  <2> QED
    BY <2>1
<1>6. /\ b \in {"warn" : x \in {y \in {"reboot"} \ ign : snap.reboot_required}} => "reboot" \in found
      /\ b \in {ByThree(snap.units) : x \in {y \in {"units"} \ ign : snap.units > 0}} => "units" \in found
      /\ b \in {ByThree(snap.unhealthy) : x \in {y \in {"docker"} \ ign : snap.unhealthy > 0}} => "docker" \in found
      /\ b \in {ByThree(snap.oom) : x \in {y \in {"oom"} \ ign : snap.oom > 0}} => "oom" \in found
      /\ b \in {"warn" : x \in {y \in {"time"} \ ign : snap.synced = 0}} => "time" \in found
  OBVIOUS
<1>7. \A n, warn, crit \in Int : warn <= crit /\ IsBad(AtLeast(n, warn, crit)) => n >= warn
  BY <1>2 DEF AtLeast
<1>8. /\ b \in {AtLeast(snap.ssh, th.ssh.warn, th.ssh.crit) : x \in {y \in {"ssh"} \ ign : snap.ssh >= 0}}
           => "ssh" \in found
      /\ b \in {AtLeast(snap.offset, TimeWarn, TimeCrit) : x \in {"time"} \ ign} => "time" \in found
      /\ b \in {AtLeast(snap.net_delta, NetWarn, NetCrit) : x \in {"net"} \ ign} => "net" \in found
  BY <1>1, <1>7 DEF Ordered
<1>9. found # {}
  <2> HIDE DEF found
  <2> QED
    BY <1>2, <1>3, <1>4, <1>5, <1>6, <1>8 DEF Contributions
<1>10. Reasons(snap, th, ign) = IF found = {} /\ snap.error THEN {"error"} ELSE found
  <2>1. snap.level \notin {"offline", "unsupported"}
    BY DEF IsBad
  <2> QED
    BY <2>1 DEF Reasons
<1> HIDE DEF found
<1> QED
  BY <1>9, <1>10

-----------------------------------------------------------------------------
(* What is shown of a snapshot                                              *)

\* The disks that are not virtual ones are disks.
LEMMA RealKeeps ==
  ASSUME NEW q \in Seq(Disk)
  PROVE  Real(q) \in Seq(Disk)
<1>1. PICK run \in [0 .. Len(q) -> Seq(Disk)] : run[Len(q)] = FoldLeft(AndReal, <<>>, q)
  BY RunOfReal
<1>2. Len(q) \in 0 .. Len(q)
  BY LenProperties
<1> QED
  BY <1>1, <1>2 DEF Real

\* Some numbers have a least one.
LEMMA MinIsThere ==
  ASSUME NEW x \in SUBSET Nat, x # {}
  PROVE  Min(x) \in x /\ \A y \in x : Min(x) <= y
<1> DEFINE R == {p \in Nat \X Nat : p[1] < p[2]}
<1>1. IsWellFoundedOn(R, Nat)
  BY NatLessThanWellFounded DEF OpToRel
<1>2. PICK m \in x : \A y \in x : ~(<<y, m>> \in R)
  BY <1>1, WFMin
<1>3. \A y \in x : m <= y
  <2>1. ASSUME NEW y \in x, y < m PROVE FALSE
    <3>1. <<y, m>> \in Nat \X Nat /\ <<y, m>>[1] < <<y, m>>[2]
      BY <2>1
    <3> QED
      BY <1>2, <3>1
  <2>2. m \in Nat /\ \A y \in x : y \in Nat
    OBVIOUS
  <2> QED
    BY <2>1, <2>2
<1> QED
  BY <1>2, <1>3 DEF Min

\* health_root_or_worst gives one of the disks, if any.
LEMMA RootIsDisk ==
  ASSUME NEW snap \in Snapshots, RootOrWorst(snap) # <<>>
  PROVE  \E i \in DOMAIN snap.disks : RootOrWorst(snap) = <<snap.disks[i]>>
<1> DEFINE root == {i \in DOMAIN snap.disks : snap.disks[i].mount = Root}
           worst == {i \in DOMAIN snap.disks : snap.disks[i].pct >= 0 /\
                       \A j \in DOMAIN snap.disks : snap.disks[i].pct >= snap.disks[j].pct}
<1>1. snap.disks \in Seq(Disk)
  BY DEF Snapshots
<1>2. Len(snap.disks) \in Nat /\ DOMAIN snap.disks = 1 .. Len(snap.disks)
  BY <1>1, LenProperties
<1>3. root # {} => Max(root) \in root
  BY <1>2, MaxIsThere
<1>4. worst # {} => Min(worst) \in worst
  <2>1. worst \in SUBSET Nat
    BY <1>2
  <2> HIDE DEF worst
  <2> QED
    BY <2>1, MinIsThere
<1>5. RootOrWorst(snap) = IF root # {} THEN <<snap.disks[Max(root)]>>
                          ELSE IF worst # {} THEN <<snap.disks[Min(worst)]>> ELSE <<>>
  BY DEF RootOrWorst
<1>6. root \subseteq DOMAIN snap.disks /\ worst \subseteq DOMAIN snap.disks
  OBVIOUS
<1> HIDE DEF root, worst
<1> QED
  BY <1>3, <1>4, <1>5, <1>6

\* The level is no part of what contributes to it.
LEMMA LevelContributesNothing ==
  ASSUME NEW snap \in Snapshots, NEW level, NEW th, NEW ign
  PROVE  /\ Contributions([snap EXCEPT !.level = level], th, ign) = Contributions(snap, th, ign)
         /\ LoadPct([snap EXCEPT !.level = level]) = LoadPct(snap)
<1> DEFINE other == [snap EXCEPT !.level = level]
<1>1. /\ other.gauge = snap.gauge /\ other.disks = snap.disks /\ other.nproc = snap.nproc
      /\ other.load1 = snap.load1 /\ other.load15 = snap.load15
      /\ other.reboot_required = snap.reboot_required /\ other.units = snap.units
      /\ other.unhealthy = snap.unhealthy /\ other.oom = snap.oom /\ other.ssh = snap.ssh
      /\ other.synced = snap.synced /\ other.offset = snap.offset
      /\ other.net_delta = snap.net_delta
  BY DEF Snapshots
<1> HIDE DEF other
<1>2. LoadPct(other) = LoadPct(snap)
  BY <1>1 DEF LoadPct
<1>3. Contributions(other, th, ign) = Contributions(snap, th, ign)
  BY <1>1, <1>2 DEF Contributions
<1> QED
  BY <1>2, <1>3 DEF other

\* A badge is no worse than the level that the thresholds give.
LEMMA BadgesNoWorse ==
  ASSUME NEW snap \in Snapshots, NEW th, NEW ign, NEW i \in 1 .. 4
  PROVE  Rank(Badges(Applied(snap, th, ign), th)[i]) <= Rank(Applied(snap, th, ign).level)
<1> DEFINE row == Applied(snap, th, ign)
           C == Contributions(row, th, ign)
<1>1. /\ row \in Snapshots
      /\ row = [snap EXCEPT !.level = row.level]
      /\ snap.level \in {"offline", "unsupported"} => row = snap
      /\ snap.level \notin {"offline", "unsupported"} =>
           /\ row.level \in Four
           /\ \A b \in Contributions(snap, th, ign) : Rank(b) <= Rank(row.level)
  BY AppliedIs
<1>2. C = Contributions(snap, th, ign)
  BY <1>1, LevelContributesNothing
<1>3. \A level \in Levels : Rank(level) \in 0 .. 4
  BY DEF Levels, Four, Rank
<1>4. row.level \in Levels
  BY <1>1 DEF Snapshots
<1> HIDE DEF row
<1>5. CASE row.level \in {"offline", "unsupported"}
  <2>1. Badges(row, th) = [j \in 1 .. 4 |-> row.level]
    BY <1>5 DEF Badges
  <2>2. Badges(row, th)[i] = row.level
    BY <2>1
  <2> QED
    BY <1>3, <1>4, <2>2 DEF row
<1>6. CASE row.level \notin {"offline", "unsupported"} /\ row.checked_at <= 0 /\ ~HasReadings(row)
  <2>1. Badges(row, th) = [j \in 1 .. 4 |-> "unknown"]
    BY <1>6 DEF Badges
  <2>2. Badges(row, th)[i] = "unknown" /\ Rank("unknown") = 0
    BY <2>1 DEF Rank
  <2> QED
    BY <1>3, <1>4, <2>2 DEF row
<1>7. CASE row.level \notin {"offline", "unsupported"} /\ ~(row.checked_at <= 0 /\ ~HasReadings(row))
  <2> DEFINE disk == RootOrWorst(row)
             cpu  == FromPct(row.gauge["cpu"], th["cpu"])
             mem  == FromPct(row.gauge["mem"], th["mem"])
             full == IF disk = <<>> THEN "unknown" ELSE FromPct(disk[1].pct, th.disk)
             load == FromPct(LoadPct(row), th.load)
  <2>1. Badges(row, th) = <<cpu, mem, full, load>>
    BY <1>7 DEF Badges
  <2>2. cpu \in C /\ mem \in C /\ load \in C /\ "unknown" \in C
    BY DEF Contributions, Gauges
  <2>3. full \in C
    <3>1. CASE disk = <<>>
      BY <2>2, <3>1
    <3>2. CASE disk # <<>>
      <4>1. PICK j \in DOMAIN row.disks : disk = <<row.disks[j]>>
        BY <1>1, <3>2, RootIsDisk
      <4>2. full = FromPct(row.disks[j].pct, th.disk)
        BY <3>2, <4>1
      <4> HIDE DEF full
      <4> QED
        BY <4>2 DEF Contributions
    <3> QED
      BY <3>1, <3>2
  <2> HIDE DEF cpu, mem, full, load
  <2>4. Badges(row, th)[i] \in C
    BY <2>1, <2>2, <2>3
  <2>5. row.level \in Four /\ \A b \in C : Rank(b) <= Rank(row.level)
    BY <1>1, <1>2, <1>7
  <2> QED
    BY <2>4, <2>5 DEF row
<1> QED
  BY <1>5, <1>6, <1>7

\* What the window makes of a snapshot has its reasons.
LEMMA ViewHasReasons ==
  ASSUME NEW snap \in Snapshots, NEW now \in Settings, NEW s
  PROVE  LET seen == View(snap, now, s) IN
         (seen.level \in {"ok", "unknown"}) <=> (Reasons(seen, now.th, now.ign[s]) = {})
<1> DEFINE th == now.th
           ign == now.ign[s]
           real == WithoutVirtual(snap, now.show, th, ign)
           seen == Applied(real, th, ign)
<1>1. Ordered(th)
  BY SettingsAssumption DEF Ordered
<1>2. real \in Snapshots
  <2> DEFINE fewer == [snap EXCEPT !.disks = Real(snap.disks)]
  <2>1. Real(snap.disks) \in Seq(Disk)
    BY RealKeeps DEF Snapshots
  <2>2. fewer \in Snapshots
    BY <2>1 DEF Snapshots
  <2>3. Applied(fewer, th, ign) \in Snapshots
    <3> HIDE DEF fewer
    <3> QED
      BY <2>2, AppliedIs
  <2> QED
    BY <2>3 DEF WithoutVirtual
<1> HIDE DEF th, ign, real
<1>3. /\ seen \in Snapshots
      /\ seen = [real EXCEPT !.level = seen.level]
      /\ real.level \in {"offline", "unsupported"} => seen = real
      /\ real.level \notin {"offline", "unsupported"} =>
           /\ seen.level \in Four
           /\ IsBad(seen.level) <=> \E b \in Contributions(real, th, ign) : IsBad(b)
  BY <1>2, AppliedIs
<1>4. Contributions(seen, th, ign) = Contributions(real, th, ign)
  BY <1>2, <1>3, LevelContributesNothing
<1> HIDE DEF seen
<1>5. CASE seen.level \in {"offline", "unsupported"}
  BY <1>5 DEF Reasons, View, seen, real, th, ign
<1>6. CASE seen.level \in {"ok", "unknown"}
  <2>1. Reasons(seen, th, ign) = {}
    BY <1>6 DEF Reasons, IsBad
  <2> QED
    BY <1>6, <2>1 DEF View, seen, real, th, ign
<1>7. CASE IsBad(seen.level)
  <2>1. real.level \notin {"offline", "unsupported"}
    BY <1>3, <1>7 DEF IsBad
  <2>2. PICK b \in Contributions(seen, th, ign) : IsBad(b)
    BY <1>3, <1>4, <1>7, <2>1
  <2>3. Reasons(seen, th, ign) # {}
    BY <1>1, <1>3, <1>7, <2>2, BadIsReason
  <2> QED
    BY <1>7, <2>3 DEF View, IsBad, seen, real, th, ign
<1>8. seen.level \in Levels
  BY <1>3 DEF Snapshots
<1> QED
  BY <1>5, <1>6, <1>7, <1>8 DEF Levels, Four, IsBad

\* An alert has its reasons wherever the entries hold snapshots and the settings are settings.
LEMMA AllExplained ==
  ASSUME settings \in Settings, \A s \in Servers : entries[s].latest \in Snapshots
  PROVE  AlertsExplained
BY ViewHasReasons, BadgesNoWorse DEF AlertsExplained, Row

-----------------------------------------------------------------------------
(* The output of a check                                                    *)

\* What a line changes, and what it does not.
LEMMA ReadingChanges ==
  ASSUME NEW snap \in Snapshots, NEW line \in Lines
  PROVE  LET after == Reading(snap, line)
             key   == line[1]
         IN /\ after.level = snap.level /\ after.error = snap.error
            /\ after.checked_at = snap.checked_at /\ after.rebooted = snap.rebooted
            /\ after.net_delta = snap.net_delta
            /\ after.uptime = (IF key = "uptime" THEN line[2] ELSE snap.uptime)
            /\ after.net = (IF key = "net" THEN line[2] ELSE snap.net)
            /\ after.load1 = (IF key = "load1" THEN line[2] ELSE snap.load1)
            /\ after.load15 = (IF key = "load15" THEN line[2] ELSE snap.load15)
            /\ key \in FrontKeys =>
                 /\ after.gauge = snap.gauge /\ after.disks = snap.disks
                 /\ after.reboot_required = snap.reboot_required /\ after.units = snap.units
                 /\ after.unhealthy = snap.unhealthy /\ after.oom = snap.oom /\ after.ssh = snap.ssh
                 /\ after.synced = snap.synced /\ after.offset = snap.offset
<1> DEFINE after == Reading(snap, line)
           key   == line[1]
           v     == line[2]
<1>1. CASE key \in Gauges
  <2>1. after = [snap EXCEPT !.gauge = [snap.gauge EXCEPT ![key] = v]]
    BY <1>1 DEF Reading, Gauges
  <2>2. key \notin FrontKeys \cup {"uptime", "net"}
    BY <1>1 DEF Gauges, FrontKeys
  <2> HIDE DEF key, v, after
  <2> QED
    BY <2>1, <2>2 DEF Snapshots, FrontKeys, after, key, v
<1>2. CASE key \in {"mem_total", "swap_total"}
  <2>1. PICK g \in Gauges : after = [snap EXCEPT !.gauge = [snap.gauge EXCEPT ![g] = Full]]
    BY <1>2 DEF Reading, Gauges
  <2> HIDE DEF after
  <2> QED
    BY <1>2, <2>1 DEF Snapshots, FrontKeys, after
<1>3. CASE key \in {"nproc", "load1", "load15", "uptime", "reboot_required", "unhealthy", "net",
                    "oom", "ssh", "synced", "offset"}
  <2>1. after = [snap EXCEPT ![key] = v]
    BY <1>3 DEF Reading, Gauges
  <2> HIDE DEF key, v, after
  <2> QED
    BY <1>3, <2>1 DEF Snapshots, FrontKeys, after, key, v
<1>4. CASE key = "unit"
  <2>1. after = snap \/ after = [snap EXCEPT !.units = snap.units + 1]
    BY <1>4 DEF Reading, Gauges
  <2> HIDE DEF after
  <2> QED
    BY <1>4, <2>1 DEF Snapshots, FrontKeys, after
<1>5. CASE key = "docker"
  <2> DEFINE u == IF v /\ snap.unhealthy < 0 THEN 0 ELSE snap.unhealthy
  <2>1. after = [snap EXCEPT !.docker = v, !.unhealthy = u]
    BY <1>5 DEF Reading, Gauges
  <2> HIDE DEF after, u
  <2> QED
    BY <1>5, <2>1 DEF Snapshots, FrontKeys, after
<1>6. CASE key = "disk"
  <2>1. after = [snap EXCEPT !.disks = Append(snap.disks, v)]
    BY <1>6 DEF Reading, Gauges
  <2> HIDE DEF after
  <2> QED
    BY <1>6, <2>1 DEF Snapshots, FrontKeys, after
<1>7. CASE key \in {"start", "other", "end"}
  <2>1. after = snap
    BY <1>7 DEF Reading, Gauges
  <2> QED
    BY <1>7, <2>1
<1> HIDE DEF after, key, v
<1>8. key \in Gauges \cup {"mem_total", "swap_total", "nproc", "load1", "load15", "uptime",
        "reboot_required", "unhealthy", "net", "oom", "ssh", "synced", "offset", "unit", "docker",
        "disk", "start", "other", "end"}
  BY DEF Lines, Numbers, key
<1> QED
  BY <1>1, <1>2, <1>3, <1>4, <1>5, <1>6, <1>7, <1>8 DEF after, key

\* A script says what the readings r and the machine m are, in an order: nothing that
\* counts before the uptime, and load15 after load1.
Honest(q, r, m) ==
  /\ q \in Seq(Lines) /\ Len(q) >= 1 /\ q[1] = <<"start">>
  /\ \A i \in 2 .. Len(q) : q[i] # <<"start">>
  /\ \A i \in 1 .. Len(q) :
       /\ q[i][1] = "uptime" => q[i][2] = clock - m.up
       /\ q[i][1] = "net" => q[i][2] = m.errors
       /\ q[i][1] \in {"load1", "load15"} => q[i][2] = r.load
       /\ q[i][1] = "load15" => \E j \in 1 .. i : q[j][1] = "load1"
       /\ q[i][1] \notin FrontKeys => \E j \in 1 .. i : q[j][1] = "uptime"

\* What comes after the uptime
Later(m) ==
  {l \in Lines : /\ l[1] \notin {"start", "load1", "load15", "uptime"}
                 /\ l[1] = "net" => l[2] = m.errors}

\* An output that is honest, with the uptime in it, stays honest when later lines follow that tell
\* what the machine has to tell.
LEMMA HonestGrows ==
  ASSUME NEW r, NEW m, NEW q, Honest(q, r, m), \E j \in 1 .. Len(q) : q[j][1] = "uptime",
         NEW t \in Seq(Later(m))
  PROVE  Honest(q \o t, r, m) /\ \E j \in 1 .. Len(q \o t) : (q \o t)[j][1] = "uptime"
<1> DEFINE N == Len(q)
           M == Len(t)
           s == q \o t
<1>1. q \in Seq(Lines) /\ t \in Seq(Lines) /\ N \in Nat /\ M \in Nat /\ N >= 1
  <2>1. Later(m) \subseteq Lines
    BY DEF Later
  <2> QED
    BY <2>1, LenProperties DEF Honest
<1>2. s \in Seq(Lines) /\ Len(s) = N + M
      /\ \A i \in 1 .. N + M : s[i] = IF i <= N THEN q[i] ELSE t[i - N]
  BY <1>1, ConcatProperties
<1>3. \A i \in 1 .. N : s[i] = q[i]
  BY <1>1, <1>2
<1>4. ASSUME NEW i \in N + 1 .. N + M PROVE s[i] \in Later(m)
  <2>1. s[i] = t[i - N] /\ i - N \in 1 .. M
    BY <1>1, <1>2
  <2> QED
    BY <2>1, ElementOfSeq
<1> HIDE DEF s, N, M
<1>5. PICK j \in 1 .. N : s[j][1] = "uptime"
  BY <1>3 DEF N
<1>6. s[1] = <<"start">>
  BY <1>1, <1>3 DEF Honest
<1>7. ASSUME NEW i \in 2 .. N + M PROVE s[i] # <<"start">>
  <2>1. CASE i <= N
    <3>1. i \in 2 .. N /\ i \in 1 .. N
      BY <1>1, <2>1
    <3> QED
      BY <1>3, <3>1 DEF Honest, N
  <2>2. CASE i > N
    <3>1. s[i] \in Later(m)
      BY <1>1, <1>4, <2>2
    <3>2. s[i][1] # "start"
      BY <3>1 DEF Later
    <3> QED
      BY <3>2
  <2> QED
    BY <1>1, <2>1, <2>2
<1>8. ASSUME NEW i \in 1 .. N + M
      PROVE  /\ s[i][1] = "uptime" => s[i][2] = clock - m.up
             /\ s[i][1] = "net" => s[i][2] = m.errors
             /\ s[i][1] \in {"load1", "load15"} => s[i][2] = r.load
             /\ s[i][1] = "load15" => \E k \in 1 .. i : s[k][1] = "load1"
             /\ s[i][1] \notin FrontKeys => \E k \in 1 .. i : s[k][1] = "uptime"
  <2>1. CASE i <= N
    <3>1. i \in 1 .. N /\ \A k \in 1 .. i : k \in 1 .. N
      BY <1>1, <2>1
    <3>2. s[i] = q[i] /\ \A k \in 1 .. i : s[k] = q[k]
      BY <1>3, <3>1
    <3> QED
      BY <3>1, <3>2 DEF Honest, N
  <2>2. CASE i > N
    <3>1. s[i] \in Later(m) /\ j \in 1 .. i
      BY <1>1, <1>4, <2>2
    <3>2. s[i][1] \notin {"start", "load1", "load15", "uptime"} /\ (s[i][1] = "net" => s[i][2] = m.errors)
      BY <3>1 DEF Later
    <3> QED
      BY <1>5, <3>1, <3>2
  <2> QED
    BY <1>1, <2>1, <2>2
<1>9. j \in 1 .. Len(s)
  BY <1>1, <1>2
<1>10. Len(s) >= 1
  BY <1>1, <1>2
<1>11. Honest(s, r, m)
  BY <1>2, <1>6, <1>7, <1>8, <1>10 DEF Honest
<1> QED
  BY <1>5, <1>9, <1>11 DEF s

\* What has the elements of p and then those of q is the two joined.
LEMMA JoinedAt ==
  ASSUME NEW S, NEW p \in Seq(S), NEW q \in Seq(S), NEW z \in Seq(S),
         Len(z) = Len(p) + Len(q), \A i \in 1 .. Len(p) : z[i] = p[i],
         \A i \in 1 .. Len(q) : z[i + Len(p)] = q[i]
  PROVE  p \o q = z
<1>1. Len(p) \in Nat /\ Len(q) \in Nat
  BY LenProperties
<1>2. /\ p \o q \in Seq(S) /\ Len(p \o q) = Len(p) + Len(q)
      /\ \A i \in 1 .. Len(p) + Len(q) : (p \o q)[i] = IF i <= Len(p) THEN p[i] ELSE q[i - Len(p)]
  BY ConcatProperties
<1>3. ASSUME NEW i \in 1 .. Len(p \o q) PROVE (p \o q)[i] = z[i]
  <2>1. CASE i <= Len(p)
    BY <1>1, <1>2, <2>1
  <2>2. CASE i > Len(p)
    <3>1. i - Len(p) \in 1 .. Len(q) /\ (i - Len(p)) + Len(p) = i
      BY <1>1, <1>2, <2>2
    <3>2. z[i] = q[i - Len(p)]
      BY <3>1
    <3> QED
      BY <1>1, <1>2, <2>2, <3>2
  <2> QED
    BY <1>1, <2>1, <2>2
<1> QED
  BY <1>2, <1>3, SeqEqual

\* The heads a script can have, with and without the two loads.
LEMMA Joined ==
  ASSUME NEW a, NEW b, NEW c, NEW d, NEW e
  PROVE  /\ <<a, b>> \o <<>> \o <<e>> = <<a, b, e>>
         /\ <<a, b>> \o <<c, d>> \o <<e>> = <<a, b, c, d, e>>
<1> DEFINE S  == {a, b, c, d, e}
           ab == <<a, b>>
           cd == <<c, d>>
           l  == <<e>>
           z3 == <<a, b, e>>
           z5 == <<a, b, c, d, e>>
<1>1. ab \in Seq(S) /\ cd \in Seq(S) /\ l \in Seq(S) /\ z3 \in Seq(S) /\ z5 \in Seq(S)
  OBVIOUS
<1>2. /\ Len(ab) = 2 /\ ab[1] = a /\ ab[2] = b
      /\ Len(cd) = 2 /\ cd[1] = c /\ cd[2] = d
      /\ Len(l) = 1 /\ l[1] = e
      /\ Len(z3) = 3 /\ z3[1] = a /\ z3[2] = b /\ z3[3] = e
      /\ Len(z5) = 5 /\ z5[1] = a /\ z5[2] = b /\ z5[3] = c /\ z5[4] = d /\ z5[5] = e
  OBVIOUS
<1> HIDE DEF S, ab, cd, l, z3, z5
<1>3. ab \o <<>> \o l = z3
  <2>1. ab \o <<>> = ab
    BY <1>1, ConcatEmptySeq
  <2>2. /\ Len(z3) = Len(ab) + Len(l)
        /\ \A i \in 1 .. Len(ab) : z3[i] = ab[i]
        /\ \A i \in 1 .. Len(l) : z3[i + Len(ab)] = l[i]
    BY <1>2
  <2>3. ab \o l = z3
    BY <1>1, <2>2, JoinedAt
  <2> QED
    BY <2>1, <2>3
<1>4. ab \o cd \o l = z5
  <2> DEFINE front == <<a, b, c, d>>
  <2>1. front \in Seq(S) /\ Len(front) = 4
        /\ front[1] = a /\ front[2] = b /\ front[3] = c /\ front[4] = d
    BY DEF S
  <2> HIDE DEF front
  <2>2. /\ Len(front) = Len(ab) + Len(cd)
        /\ \A i \in 1 .. Len(ab) : front[i] = ab[i]
        /\ \A i \in 1 .. Len(cd) : front[i + Len(ab)] = cd[i]
    BY <1>2, <2>1
  <2>3. ab \o cd = front
    BY <1>1, <2>1, <2>2, JoinedAt
  <2>4. \A i \in 1 .. Len(front) : z5[i] = front[i]
    <3>1. \A i \in 1 .. 4 : i = 1 \/ i = 2 \/ i = 3 \/ i = 4
      OBVIOUS
    <3> QED
      BY <1>2, <2>1, <3>1
  <2>5. /\ Len(z5) = Len(front) + Len(l)
        /\ \A i \in 1 .. Len(l) : z5[i + Len(front)] = l[i]
    BY <1>2, <2>1
  <2>6. front \o l = z5
    BY <1>1, <2>1, <2>4, <2>5, JoinedAt
  <2> QED
    BY <2>3, <2>6
<1> QED
  BY <1>3, <1>4 DEF ab, cd, l, z3, z5

\* Before anything that follows the uptime
LEMMA HeadIsHonest ==
  ASSUME NEW r \in Readings, NEW m, clock - m.up \in Int, NEW load,
         load \in {<<>>, <<<<"load1", r.load>>, <<"load15", r.load>>>>}
  PROVE  LET head == <<<<"start">>, <<"nproc", r.nproc>>>> \o load \o <<<<"uptime", clock - m.up>>>>
         IN Honest(head, r, m) /\ \E j \in 1 .. Len(head) : head[j][1] = "uptime"
<1> DEFINE l1 == <<"start">>
           l2 == <<"nproc", r.nproc>>
           l3 == <<"load1", r.load>>
           l4 == <<"load15", r.load>>
           l5 == <<"uptime", clock - m.up>>
<1>1. l1 \in Lines /\ l2 \in Lines /\ l3 \in Lines /\ l4 \in Lines /\ l5 \in Lines
  <2>1. r.nproc \in Int /\ r.load \in Int
    BY DEF Readings
  <2> QED
    BY <2>1 DEF Lines, Numbers
<1>2. /\ l1[1] = "start" /\ l2[1] = "nproc" /\ l3[1] = "load1" /\ l4[1] = "load15"
      /\ l5[1] = "uptime" /\ l3[2] = r.load /\ l4[2] = r.load /\ l5[2] = clock - m.up
      /\ l2 # l1 /\ l3 # l1 /\ l4 # l1 /\ l5 # l1
  OBVIOUS
<1> DEFINE D == {l1, l2, l3, l4, l5}
<1>3. CASE load = <<>>
  <2> DEFINE q == <<l1, l2, l5>>
  <2>1. <<l1, l2>> \o load \o <<l5>> = q
    <3> HIDE DEF l1, l2, l3, l4, l5
    <3> QED
      BY <1>3, Joined
  <2>2. q \in Seq(Lines)
    <3> HIDE DEF l1, l2, l3, l4, l5
    <3> QED
      BY <1>1
  <2>3. Len(q) = 3 /\ q[1] = l1 /\ q[2] = l2 /\ q[3] = l5
    OBVIOUS
  <2> HIDE DEF q
  <2>4. \A i \in 2 .. 3 : q[i] # l1
    BY <1>2, <2>3
  <2>5. ASSUME NEW i \in 1 .. 3
        PROVE  /\ q[i][1] = "uptime" => q[i][2] = clock - m.up
               /\ q[i][1] = "net" => q[i][2] = m.errors
               /\ q[i][1] \in {"load1", "load15"} => q[i][2] = r.load
               /\ q[i][1] = "load15" => \E j \in 1 .. i : q[j][1] = "load1"
               /\ q[i][1] \notin FrontKeys => \E j \in 1 .. i : q[j][1] = "uptime"
    <3>1. i = 1 \/ i = 2 \/ i = 3
      OBVIOUS
    <3> HIDE DEF l1, l2, l3, l4, l5
    <3>2. i \in 1 .. i
      OBVIOUS
    <3> QED
      BY <1>2, <2>3, <3>1, <3>2 DEF FrontKeys
  <2>6. Honest(q, r, m)
    BY <2>2, <2>3, <2>4, <2>5 DEF Honest
  <2>7. q[3][1] = "uptime" /\ 3 \in 1 .. Len(q)
    BY <1>2, <2>3
  <2> QED
    BY <2>1, <2>6, <2>7
<1>4. CASE load = <<l3, l4>>
  <2> DEFINE q == <<l1, l2, l3, l4, l5>>
  <2>1. <<l1, l2>> \o load \o <<l5>> = q
    <3> HIDE DEF l1, l2, l3, l4, l5
    <3> QED
      BY <1>4, Joined
  <2>2. q \in Seq(Lines)
    <3> HIDE DEF l1, l2, l3, l4, l5
    <3> QED
      BY <1>1
  <2>3. Len(q) = 5 /\ q[1] = l1 /\ q[2] = l2 /\ q[3] = l3 /\ q[4] = l4 /\ q[5] = l5
    OBVIOUS
  <2> HIDE DEF q
  <2>4. \A i \in 2 .. 5 : q[i] # l1
    BY <1>2, <2>3
  <2>5. ASSUME NEW i \in 1 .. 5
        PROVE  /\ q[i][1] = "uptime" => q[i][2] = clock - m.up
               /\ q[i][1] = "net" => q[i][2] = m.errors
               /\ q[i][1] \in {"load1", "load15"} => q[i][2] = r.load
               /\ q[i][1] = "load15" => \E j \in 1 .. i : q[j][1] = "load1"
               /\ q[i][1] \notin FrontKeys => \E j \in 1 .. i : q[j][1] = "uptime"
    <3>1. i = 1 \/ i = 2 \/ i = 3 \/ i = 4 \/ i = 5
      OBVIOUS
    <3> HIDE DEF l1, l2, l3, l4, l5
    <3>2. i \in 1 .. i /\ (i = 4 => 3 \in 1 .. i)
      OBVIOUS
    <3> QED
      BY <1>2, <2>3, <3>1, <3>2 DEF FrontKeys
  <2>6. Honest(q, r, m)
    BY <2>2, <2>3, <2>4, <2>5 DEF Honest
  <2>7. q[5][1] = "uptime" /\ 5 \in 1 .. Len(q)
    BY <1>2, <2>3
  <2> QED
    BY <2>1, <2>6, <2>7
<1> QED
  BY <1>3, <1>4

\* A sequence that ends with the uptime of the machine m, or later
Complete(q, r, m) == Honest(q, r, m) /\ \E j \in 1 .. Len(q) : q[j][1] = "uptime"

\* The same with the uptime in the definition.
LEMMA CompleteGrows ==
  ASSUME NEW r, NEW m, NEW q, Complete(q, r, m), NEW t \in Seq(Later(m))
  PROVE  Complete(q \o t, r, m)
BY HonestGrows DEF Complete

\* health_remote_script: what is printed is what the machine has to tell.
LEMMA ScriptIsHonest ==
  ASSUME NEW r \in Readings, NEW m, clock - m.up \in Int, m.errors \in Int, NEW collect, NEW show
  PROVE  Honest(Script(r, collect, show, m), r, m)
<1> DEFINE L == Later(m)
           shown == IF show THEN r.disks ELSE Real(r.disks)
           load == IF "load" \in collect THEN <<<<"load1", r.load>>, <<"load15", r.load>>>> ELSE <<>>
           head == <<<<"start">>, <<"nproc", r.nproc>>>> \o load \o <<<<"uptime", clock - m.up>>>>
           ram == IF "ram" \in collect THEN <<<<"mem_total">>, <<"mem", r.mem>>>> ELSE <<>>
           swap == IF "swap" \in collect
                   THEN IF r.swap < 0 THEN <<>> ELSE <<<<"swap_total">>, <<"swap", r.swap>>>> ELSE <<>>
           cpu == IF "cpu" \in collect
                  THEN <<<<"cpu", r.cpu>>, <<"iowait", r.iowait>>, <<"steal", r.steal>>>> ELSE <<>>
           disk == IF "disk" \in collect THEN [i \in DOMAIN shown |-> <<"disk", shown[i]>>] ELSE <<>>
           reboot == <<<<"reboot_required", r.reboot_required>>>>
           units == [i \in 1..Min({r.units, MaxUnits}) |-> <<"unit">>]
           docker == IF "docker" \in collect
                     THEN IF r.unhealthy < 0 THEN <<<<"docker", FALSE>>>>
                          ELSE <<<<"docker", TRUE>>, <<"unhealthy", r.unhealthy>>>> ELSE <<>>
           counts == <<<<"net", m.errors>>, <<"oom", r.oom>>, <<"ssh", r.ssh>>>>
           synced == IF r["synced"] < 0 THEN <<>> ELSE <<<<"synced", r["synced"]>>>>
           offset == IF r["offset"] < 0 THEN <<>> ELSE <<<<"offset", r["offset"]>>>>
           end == <<<<"end">>>>
<1>1. CASE ~r.linux
  <2> DEFINE q == <<<<"start">>, <<"other">>, <<"end">>>>
  <2>1. Script(r, collect, show, m) = q
    BY <1>1 DEF Script
  <2>2. q \in Seq(Lines)
    <3>1. <<"start">> \in Lines /\ <<"other">> \in Lines /\ <<"end">> \in Lines
      BY DEF Lines
    <3> QED
      BY <3>1
  <2>3. Len(q) = 3 /\ q[1] = <<"start">> /\ q[2] = <<"other">> /\ q[3] = <<"end">>
    OBVIOUS
  <2> HIDE DEF q
  <2>4. \A i \in 1 .. 3 : q[i][1] \in {"start", "other", "end"}
    <3>1. q[1][1] = "start" /\ q[2][1] = "other" /\ q[3][1] = "end"
      BY <2>3
    <3> QED
      BY <3>1
  <2>5. q[2] # <<"start">> /\ q[3] # <<"start">>
    BY <2>3
  <2>6. \A i \in 2 .. 3 : q[i] # <<"start">>
    BY <2>5
  <2> QED
    BY <2>1, <2>2, <2>3, <2>4, <2>6 DEF Honest, FrontKeys
<1>2. CASE r.linux
  <2>1. Script(r, collect, show, m) =
          head \o ram \o swap \o cpu \o disk \o reboot \o units \o docker \o counts
            \o synced \o offset \o end
    BY <1>2 DEF Script
  <2>2. Complete(head, r, m)
    <3>1. load \in {<<>>, <<<<"load1", r.load>>, <<"load15", r.load>>>>}
      OBVIOUS
    <3> HIDE DEF load
    <3> QED
      BY <3>1, HeadIsHonest DEF Complete
  <2>3. /\ r.mem \in Int /\ r.swap \in Int /\ r.cpu \in Int /\ r.iowait \in Int /\ r.steal \in Int
        /\ r.oom \in Int /\ r.ssh \in Int /\ r.synced \in Int /\ r.offset \in Int
        /\ r.unhealthy \in Int /\ r.units \in Nat /\ r.reboot_required \in BOOLEAN
        /\ r.disks \in Seq(Disk)
    BY DEF Readings
  <2>4. ASSUME NEW k \in Numbers \ {"load1", "load15", "uptime"}, NEW v \in Int,
               k = "net" => v = m.errors
        PROVE  <<k, v>> \in L
    <3>1. <<k, v>> \in Lines
      BY DEF Lines
    <3>2. k \notin {"start", "load1", "load15", "uptime"}
      BY DEF Numbers, Gauges
    <3>3. <<k, v>>[1] = k /\ <<k, v>>[2] = v
      OBVIOUS
    <3> QED
      BY <2>4, <3>1, <3>2, <3>3 DEF Later
  <2>5. <<"mem_total">> \in L /\ <<"swap_total">> \in L /\ <<"unit">> \in L /\ <<"end">> \in L
    BY DEF Later, Lines
  <2>6. <<>> \in Seq(L)
    OBVIOUS
  <2>7. ASSUME NEW a \in L, NEW b \in L, NEW c \in L
        PROVE  <<a>> \in Seq(L) /\ <<a, b>> \in Seq(L) /\ <<a, b, c>> \in Seq(L)
    <3> HIDE DEF L
    <3> QED
      OBVIOUS
  <2>8. \A b \in BOOLEAN : <<"reboot_required", b>> \in L /\ <<"docker", b>> \in L
    BY DEF Later, Lines
  <2>9. \A d \in Disk : <<"disk", d>> \in L
    BY DEF Later, Lines
  <2> HIDE DEF L
  <2>10. ram \in Seq(L) /\ swap \in Seq(L)
    <3>1. <<"mem", r.mem>> \in L /\ <<"swap", r.swap>> \in L
      BY <2>3, <2>4 DEF Numbers, Gauges
    <3> QED
      BY <2>5, <2>6, <2>7, <3>1
  <2>11. cpu \in Seq(L) /\ counts \in Seq(L)
    <3>1. /\ <<"cpu", r.cpu>> \in L /\ <<"iowait", r.iowait>> \in L /\ <<"steal", r.steal>> \in L
      BY <2>3, <2>4 DEF Numbers, Gauges
    <3>2. /\ <<"net", m.errors>> \in L /\ <<"oom", r.oom>> \in L /\ <<"ssh", r.ssh>> \in L
      BY <2>3, <2>4 DEF Numbers, Gauges
    <3> QED
      BY <2>6, <2>7, <3>1, <3>2
  <2>12. synced \in Seq(L) /\ offset \in Seq(L) /\ end \in Seq(L) /\ reboot \in Seq(L)
    <3>1. <<"synced", r["synced"]>> \in L /\ <<"offset", r["offset"]>> \in L
      BY <2>3, <2>4 DEF Numbers, Gauges
    <3>2. <<"reboot_required", r.reboot_required>> \in L
      BY <2>3, <2>8
    <3> QED
      BY <2>5, <2>6, <2>7, <3>1, <3>2
  <2>13. docker \in Seq(L)
    <3>1. <<"unhealthy", r.unhealthy>> \in L
      BY <2>3, <2>4 DEF Numbers, Gauges
    <3>2. <<"docker", TRUE>> \in L /\ <<"docker", FALSE>> \in L
      BY <2>8
    <3> QED
      BY <2>6, <2>7, <3>1, <3>2
  <2>14. disk \in Seq(L)
    <3>1. shown \in Seq(Disk)
      BY <2>3, RealKeeps
    <3> HIDE DEF shown
    <3>2. DOMAIN shown = 1 .. Len(shown) /\ Len(shown) \in Nat /\ \A i \in 1 .. Len(shown) : shown[i] \in Disk
      BY <3>1, LenProperties, ElementOfSeq
    <3>3. [i \in DOMAIN shown |-> <<"disk", shown[i]>>] \in [1 .. Len(shown) -> L]
      BY <2>9, <3>2
    <3>4. [i \in DOMAIN shown |-> <<"disk", shown[i]>>] \in Seq(L)
      BY <3>2, <3>3, SeqDef
    <3> QED
      BY <2>6, <3>4
  <2>15. units \in Seq(L)
    <3>1. Min({r.units, MaxUnits}) \in Nat
      <4>1. {r.units, MaxUnits} \in SUBSET Nat
        BY <2>3, HealthReportAssumption
      <4> HIDE DEF units
      <4> QED
        BY <4>1, MinIsThere
    <3>2. units \in [1 .. Min({r.units, MaxUnits}) -> L]
      BY <2>5
    <3> QED
      BY <3>1, <3>2, SeqDef
  <2> HIDE DEF head, ram, swap, cpu, disk, reboot, units, docker, counts, synced, offset, end
  <2>16. Complete(head \o ram \o swap \o cpu \o disk \o reboot, r, m)
    <3>1. Complete(head \o ram, r, m)
      BY <2>2, <2>10, CompleteGrows DEF L
    <3>2. Complete(head \o ram \o swap, r, m)
      BY <2>10, <3>1, CompleteGrows DEF L
    <3>3. Complete(head \o ram \o swap \o cpu, r, m)
      BY <2>11, <3>2, CompleteGrows DEF L
    <3>4. Complete(head \o ram \o swap \o cpu \o disk, r, m)
      BY <2>14, <3>3, CompleteGrows DEF L
    <3> QED
      BY <2>12, <3>4, CompleteGrows DEF L
  <2> DEFINE first == head \o ram \o swap \o cpu \o disk \o reboot
  <2>17. Complete(first \o units \o docker \o counts \o synced \o offset \o end, r, m)
    <3> HIDE DEF first
    <3>1. Complete(first \o units, r, m)
      BY <2>15, <2>16, CompleteGrows DEF L, first
    <3>2. Complete(first \o units \o docker, r, m)
      BY <2>13, <3>1, CompleteGrows DEF L
    <3>3. Complete(first \o units \o docker \o counts, r, m)
      BY <2>11, <3>2, CompleteGrows DEF L
    <3>4. Complete(first \o units \o docker \o counts \o synced, r, m)
      BY <2>12, <3>3, CompleteGrows DEF L
    <3>5. Complete(first \o units \o docker \o counts \o synced \o offset, r, m)
      BY <2>12, <3>4, CompleteGrows DEF L
    <3> QED
      BY <2>12, <3>5, CompleteGrows DEF L
  <2> QED
    BY <2>1, <2>17 DEF Complete
<1> QED
  BY <1>1, <1>2

\* The lines have no start of the script q, or its beginning between the marks.
Begins(lines, q) ==
  \/ \A i \in DOMAIN lines : lines[i] # <<"start">>
  \/ /\ Block(lines) \in Seq(Lines) /\ Len(Block(lines)) <= Len(q)
     /\ \A i \in 1 .. Len(Block(lines)) : Block(lines)[i] = q[i]

\* What arrives of an honest script, after what a profile prints
LEMMA BlockOfArrived ==
  ASSUME NEW r, NEW m, NEW q, Honest(q, r, m), NEW noise \in Seq(Lines \ {<<"start">>}),
         NEW n \in 0 .. Len(q)
  PROVE  Begins(noise \o SubSeq(q, 1, n), q)
<1> DEFINE A == Len(noise)
           came == SubSeq(q, 1, n)
           lines == noise \o came
           start == <<"start">>
           end == <<"end">>
<1>1. /\ q \in Seq(Lines) /\ Len(q) \in Nat /\ A \in Nat /\ n \in Nat /\ n <= Len(q)
      /\ noise \in Seq(Lines) /\ \A i \in 1 .. A : noise[i] # start
  <2>1. Lines \ {start} \subseteq Lines
    OBVIOUS
  <2>2. \A i \in 1 .. A : noise[i] \in Lines \ {start}
    BY ElementOfSeq
  <2>3. noise \in Seq(Lines)
    BY <2>1, SeqMonotonic
  <2>4. q \in Seq(Lines) /\ Len(q) \in Nat /\ A \in Nat
    BY LenProperties DEF Honest
  <2>5. n \in Nat /\ n <= Len(q)
    BY <2>4
  <2>6. \A i \in 1 .. A : noise[i] # start
    BY <2>2
  <2> QED
    BY <2>3, <2>4, <2>5, <2>6
<1>2. came \in Seq(Lines) /\ Len(came) = n /\ \A i \in 1 .. n : came[i] = q[i]
  <2>1. \A i \in 1 .. n : q[i] \in Lines
    BY <1>1, ElementOfSeq
  <2>2. /\ came \in Seq(Lines)
        /\ Len(came) = IF 1 <= n THEN n - 1 + 1 ELSE 0
        /\ \A i \in 1 .. n - 1 + 1 : came[i] = q[1 + i - 1]
    BY <1>1, <2>1, SubSeqProperties
  <2> QED
    BY <1>1, <2>2
<1> HIDE DEF came
<1>3. /\ lines \in Seq(Lines) /\ Len(lines) = A + n /\ DOMAIN lines = 1 .. A + n
      /\ \A i \in 1 .. A + n : lines[i] = IF i <= A THEN noise[i] ELSE came[i - A]
  <2>1. /\ lines \in Seq(Lines) /\ Len(lines) = A + Len(came)
        /\ \A i \in 1 .. A + Len(came) : lines[i] = IF i <= A THEN noise[i] ELSE came[i - A]
    BY <1>1, <1>2, ConcatProperties
  <2>2. Len(came) = n
    BY <1>2
  <2> HIDE DEF lines
  <2>3. DOMAIN lines = 1 .. Len(lines)
    BY <2>1, LenProperties
  <2> QED
    BY <2>1, <2>2, <2>3
<1>4. (\A i \in 1 .. A : lines[i] # start) /\ \A i \in 1 .. n : lines[A + i] = q[i]
  <2>1. \A i \in 1 .. A : lines[i] = noise[i]
    BY <1>1, <1>3
  <2>2. \A i \in 1 .. n : A + i \in 1 .. A + n /\ ~(A + i <= A) /\ (A + i) - A = i
    BY <1>1
  <2>3. \A i \in 1 .. n : lines[A + i] = came[i]
    BY <1>3, <2>2
  <2> QED
    BY <1>1, <1>2, <2>1, <2>3
<1> HIDE DEF lines
<1>5. CASE n = 0
  BY <1>1, <1>3, <1>4, <1>5 DEF Begins, lines, came
<1>6. CASE n >= 1
  <2> DEFINE starts == {i \in DOMAIN lines : lines[i] = start}
             ends == {i \in DOMAIN lines : lines[i] = end /\ \E j \in starts : j < i}
             last == IF ends = {} THEN Len(lines) + 1 ELSE Max(ends)
             mine == {i \in starts : i < last}
  <2>1. starts = {A + 1}
    <3>1. A + 1 \in starts
      <4>1. q[1] = start
        BY DEF Honest
      <4>2. A + 1 \in 1 .. A + n /\ 1 \in 1 .. n
        BY <1>1, <1>6
      <4> QED
        BY <1>3, <1>4, <4>1, <4>2
    <3>2. ASSUME NEW i \in starts, i # A + 1 PROVE FALSE
      <4>1. i \in 1 .. A + n /\ lines[i] = start
        BY <1>3
      <4>2. i > A
        BY <1>1, <1>4, <4>1
      <4>3. i - A \in 2 .. Len(q) /\ i - A \in 1 .. n /\ A + (i - A) = i
        BY <1>1, <3>2, <4>1, <4>2
      <4>4. q[i - A] = start
        BY <1>4, <4>1, <4>3
      <4> QED
        BY <4>3, <4>4 DEF Honest
    <3> QED
      BY <3>1, <3>2
  <2>2. \A i \in ends : i \in A + 2 .. A + n
    BY <1>1, <1>3, <2>1
  <2>3. last \in A + 2 .. A + n + 1
    <3>1. CASE ends = {}
      <4>1. last = Len(lines) + 1
        BY <3>1
      <4> HIDE DEF last
      <4> QED
        BY <1>1, <1>3, <1>6, <4>1
    <3>2. CASE ends # {}
      <4>1. ends \in SUBSET (1 .. A + n)
        BY <1>3
      <4> HIDE DEF ends
      <4>2. Max(ends) \in ends
        <5>1. A + n \in Nat
          BY <1>1
        <5> QED
          BY <3>2, <4>1, <5>1, MaxIsThere
      <4> QED
        BY <1>1, <2>2, <3>2, <4>2
    <3> QED
      BY <3>1, <3>2
  <2>4. mine = {A + 1}
    <3> HIDE DEF starts, last
    <3> QED
      BY <1>1, <2>1, <2>3
  <2>5. Max(mine) = A + 1
    <3>1. A + 1 \in 1 .. A + 1 /\ A + 1 \in Nat
      BY <1>1
    <3>2. mine # {} /\ mine \in SUBSET (1 .. A + 1)
      BY <2>4, <3>1
    <3> HIDE DEF mine
    <3>3. Max(mine) \in mine
      BY <3>1, <3>2, MaxIsThere
    <3> QED
      BY <2>4, <3>3
  <2>6. Block(lines) = SubSeq(lines, A + 1, last - 1)
    <3>1. Block(lines) = SubSeq(lines, Max(mine), last - 1)
      BY DEF Block
    <3> HIDE DEF mine, last
    <3> QED
      BY <2>5, <3>1
  <2> HIDE DEF last
  <2>7. A + 1 \in Int /\ last - 1 \in Int /\ A + 1 <= last - 1 /\ last - 1 <= A + n
    BY <1>1, <2>3
  <2>8. \A i \in A + 1 .. last - 1 : lines[i] \in Lines
    <3>1. \A i \in A + 1 .. last - 1 : i \in 1 .. Len(lines)
      BY <1>1, <1>3, <2>7
    <3> QED
      BY <1>3, <3>1, ElementOfSeq
  <2>9. /\ Block(lines) \in Seq(Lines)
        /\ Len(Block(lines)) = last - 1 - (A + 1) + 1
        /\ \A i \in 1 .. last - 1 - (A + 1) + 1 : Block(lines)[i] = lines[A + 1 + i - 1]
    <3> HIDE DEF A
    <3> QED
      BY <2>6, <2>7, <2>8, SubSeqProperties
  <2>10. Len(Block(lines)) <= n
    BY <1>1, <2>7, <2>9
  <2>11. ASSUME NEW i \in 1 .. Len(Block(lines)) PROVE Block(lines)[i] = q[i]
    <3>1. i \in 1 .. last - 1 - (A + 1) + 1 /\ A + 1 + i - 1 = A + i /\ i \in 1 .. n
      BY <1>1, <2>7, <2>9, <2>10
    <3> QED
      BY <1>4, <2>9, <3>1
  <2>12. Len(Block(lines)) <= Len(q)
    BY <1>1, <2>3, <2>9, <2>10
  <2> QED
    BY <2>9, <2>11, <2>12 DEF Begins, lines, came
<1>7. n = 0 \/ n >= 1
  BY <1>1
<1> QED
  BY <1>5, <1>6, <1>7

\* No reading that contributes to a level
Quiet(snap) ==
  /\ snap.gauge = [g \in Gauges |-> None] /\ snap.disks = <<>> /\ ~snap.reboot_required
  /\ snap.units = 0 /\ snap.unhealthy = None /\ snap.oom = None /\ snap.ssh = None
  /\ snap.synced = None /\ snap.offset = None

\* What is read of the first n lines of an honest script q
Read(snap, q, n, r, m) ==
  /\ snap.level = "unknown" /\ ~snap.error
  /\ snap.checked_at = 0 /\ ~snap.rebooted /\ snap.net_delta = None
  /\ \/ snap.uptime = None /\ \A j \in 1 .. n : q[j][1] # "uptime"
     \/ snap.uptime = clock - m.up
  /\ snap.net \in {None, m.errors}
  /\ \/ snap.load1 = None /\ \A j \in 1 .. n : q[j][1] # "load1"
     \/ snap.load1 = r.load
  /\ snap.load15 = None \/ \E j \in 1 .. n : q[j][1] = "load15"
  /\ (\A j \in 1 .. n : q[j][1] \in FrontKeys) => Quiet(snap)

\* What a check has of its output: nothing of the checks before, and without uptime and load
\* nothing that contributes to a level.
Fresh(snap, m) ==
  /\ snap \in Snapshots
  /\ snap.level \in {"unknown", "unsupported"}
  /\ snap.checked_at = 0 /\ ~snap.rebooted /\ snap.net_delta = None
  /\ snap.uptime \in {None, clock - m.up} /\ snap.net \in {None, m.errors}
  /\ snap.uptime < 0 /\ snap.load1 < 0 => Quiet(snap) /\ snap.load15 = None

\* The fold over a block that is the beginning of an honest script
LEMMA BlockIsRead ==
  ASSUME NEW r, NEW m, NEW q, Honest(q, r, m), NEW b \in Seq(Lines), Len(b) <= Len(q),
         \A i \in 1 .. Len(b) : b[i] = q[i]
  PROVE  /\ FoldLeft(Reading, NoSnapshot, b) \in Snapshots
         /\ Read(FoldLeft(Reading, NoSnapshot, b), q, Len(b), r, m)
<1> DEFINE N == Len(b)
<1>1. PICK run \in [0 .. N -> Snapshots] :
        /\ run[0] = NoSnapshot /\ run[N] = FoldLeft(Reading, NoSnapshot, b)
        /\ \A n \in 1 .. N : run[n] = Reading(run[n - 1], b[n])
  BY RunOfReading
<1>2. N \in Nat /\ Len(q) \in Nat /\ q \in Seq(Lines) /\ \A i \in 1 .. N : b[i] \in Lines
  BY LenProperties, ElementOfSeq DEF Honest
<1> HIDE DEF N
<1> DEFINE Good == {n \in 0 .. N : Read(run[n], q, n, r, m)}
<1>3. 0 \in Good
  <2>1. 0 \in 0 .. N /\ \A j \in 1 .. 0 : FALSE
    BY <1>2
  <2>2. Read(NoSnapshot, q, 0, r, m)
    BY <2>1 DEF Read, Quiet, NoSnapshot
  <2> QED
    BY <1>1, <2>1, <2>2
<1>4. ASSUME NEW n \in 1 .. N, n - 1 \in Good PROVE n \in Good
  <2> DEFINE snap == run[n - 1]
             after == run[n]
             line == q[n]
             key == line[1]
  <2>1. n - 1 \in 0 .. N /\ n \in 0 .. N /\ Read(snap, q, n - 1, r, m) /\ snap \in Snapshots
    <3>1. n - 1 \in 0 .. N /\ n \in 0 .. N
      BY <1>2
    <3> QED
      BY <1>1, <1>4, <3>1
  <2>2. b[n] = q[n] /\ line \in Lines /\ n \in 1 .. Len(q)
    BY <1>2 DEF N
  <2>3. after = Reading(snap, line)
    BY <1>1, <2>2
  <2>4. /\ \A j \in 1 .. n - 1 : j \in 1 .. n
        /\ \A j \in 1 .. n : j = n \/ j \in 1 .. n - 1
        /\ n \in 1 .. n
    BY <1>2
  <2> HIDE DEF snap, after, line
  <2>5. /\ after.level = snap.level /\ after.error = snap.error
        /\ after.checked_at = snap.checked_at /\ after.rebooted = snap.rebooted
        /\ after.net_delta = snap.net_delta
        /\ after.uptime = (IF key = "uptime" THEN line[2] ELSE snap.uptime)
        /\ after.net = (IF key = "net" THEN line[2] ELSE snap.net)
        /\ after.load1 = (IF key = "load1" THEN line[2] ELSE snap.load1)
        /\ after.load15 = (IF key = "load15" THEN line[2] ELSE snap.load15)
        /\ key \in FrontKeys =>
             /\ after.gauge = snap.gauge /\ after.disks = snap.disks
             /\ after.reboot_required = snap.reboot_required /\ after.units = snap.units
             /\ after.unhealthy = snap.unhealthy /\ after.oom = snap.oom /\ after.ssh = snap.ssh
             /\ after.synced = snap.synced /\ after.offset = snap.offset
    BY <2>1, <2>2, <2>3, ReadingChanges
  <2>6. /\ key = "uptime" => line[2] = clock - m.up
        /\ key = "net" => line[2] = m.errors
        /\ key = "load1" => line[2] = r.load
    BY <2>2 DEF Honest, line
  <2>7. /\ after.level = "unknown" /\ ~after.error /\ after.checked_at = 0 /\ ~after.rebooted
        /\ after.net_delta = None /\ after.net \in {None, m.errors}
    BY <2>1, <2>5, <2>6 DEF Read
  <2>8. \/ after.uptime = None /\ \A j \in 1 .. n : q[j][1] # "uptime"
        \/ after.uptime = clock - m.up
    BY <2>1, <2>4, <2>5, <2>6 DEF Read, line
  <2>9. \/ after.load1 = None /\ \A j \in 1 .. n : q[j][1] # "load1"
        \/ after.load1 = r.load
    BY <2>1, <2>4, <2>5, <2>6 DEF Read, line
  <2>10. after.load15 = None \/ \E j \in 1 .. n : q[j][1] = "load15"
    BY <2>1, <2>4, <2>5 DEF Read, line
  <2>11. (\A j \in 1 .. n : q[j][1] \in FrontKeys) => Quiet(after)
    <3>1. SUFFICES ASSUME \A j \in 1 .. n : q[j][1] \in FrontKeys PROVE Quiet(after)
      OBVIOUS
    <3>2. Quiet(snap) /\ key \in FrontKeys
      BY <2>1, <2>4, <3>1 DEF Read, line
    <3> QED
      BY <2>5, <3>2 DEF Quiet
  <2>12. Read(after, q, n, r, m)
    BY <2>7, <2>8, <2>9, <2>10, <2>11 DEF Read
  <2> QED
    BY <2>1, <2>12 DEF after
<1>5. Good \in SUBSET (0 .. N)
  OBVIOUS
<1> HIDE DEF Good
<1>6. Good = 0 .. N
  BY <1>2, <1>3, <1>4, <1>5, Below
<1>7. N \in 0 .. N
  BY <1>2
<1>8. Read(run[N], q, N, r, m) /\ run[N] \in Snapshots
  BY <1>6, <1>7 DEF Good
<1> QED
  BY <1>1, <1>8 DEF N

\* parse_health_output of what arrived
LEMMA ParsedIsFresh ==
  ASSUME NEW output \in Outputs, NEW as, NEW m, m.errors \in Nat, clock - m.up \in Nat
  PROVE  Fresh(Parsed(Arrived(output, as, m)), m)
<1> DEFINE r == output.readings
           q == Script(r, as.collect, as.show, m)
           n == Min({output.upto, Len(q)})
           lines == output.noise \o SubSeq(q, 1, n)
           block == Block(lines)
           snap == FoldLeft(Reading, NoSnapshot, block)
<1>1. r \in Readings /\ output.noise \in Seq(Lines \ {<<"start">>}) /\ output.upto \in Nat
  BY OutputsAssumption
<1>2. Honest(q, r, m)
  <2>1. clock - m.up \in Int /\ m.errors \in Int
    OBVIOUS
  <2> HIDE DEF r
  <2> QED
    BY <1>1, <2>1, ScriptIsHonest
<1>3. Arrived(output, as, m) = lines
  BY DEF Arrived
<1>4. r.load \in Nat
  BY <1>1 DEF Readings
<1> HIDE DEF r, q
<1>5. n \in 0 .. Len(q)
  <2>1. Len(q) \in Nat
    BY <1>2, LenProperties DEF Honest
  <2>2. {output.upto, Len(q)} \in SUBSET Nat
    BY <1>1, <2>1
  <2>3. n = output.upto \/ n = Len(q)
    BY <2>2, MinIsThere
  <2>4. n <= Len(q)
    BY <1>1, <2>1, <2>3 DEF Min
  <2> QED
    BY <1>1, <2>1, <2>3, <2>4
<1>6. \/ \A i \in DOMAIN lines : lines[i] # <<"start">>
      \/ /\ Block(lines) \in Seq(Lines) /\ Len(Block(lines)) <= Len(q)
         /\ \A i \in 1 .. Len(Block(lines)) : Block(lines)[i] = q[i]
  <2> DEFINE noise == output.noise
  <2>1. noise \in Seq(Lines \ {<<"start">>})
    BY <1>1
  <2> HIDE DEF n, noise
  <2>2. Begins(noise \o SubSeq(q, 1, n), q)
    BY <1>2, <1>5, <2>1, BlockOfArrived
  <2> QED
    BY <2>2 DEF Begins, noise
<1> HIDE DEF n, lines
<1>7. CASE \A i \in DOMAIN lines : lines[i] # <<"start">>
  <2>1. Parsed(lines) = [NoSnapshot EXCEPT !.error = TRUE]
    BY <1>7 DEF Parsed
  <2>2. [NoSnapshot EXCEPT !.error = TRUE] \in Snapshots
    BY ReadingKeeps DEF Snapshots
  <2>3. Fresh([NoSnapshot EXCEPT !.error = TRUE], m)
    BY <2>2 DEF Fresh, NoSnapshot, Quiet, None
  <2> QED
    BY <1>3, <2>1, <2>3
<1>8. CASE ~ \A i \in DOMAIN lines : lines[i] # <<"start">>
  <2>1. snap \in Snapshots /\ Read(snap, q, Len(block), r, m)
    BY <1>2, <1>6, <1>8, BlockIsRead
  <2>2. Parsed(lines) \in {snap, [snap EXCEPT !.level = "unsupported", !.error = TRUE]}
    BY <1>8 DEF Parsed
  <2>3. Len(block) \in Nat /\ Len(block) <= Len(q)
    BY <1>6, <1>8, LenProperties
  <2> HIDE DEF snap, block
  <2>4. ASSUME snap.uptime < 0, snap.load1 < 0 PROVE Quiet(snap) /\ snap.load15 = None
    <3>1. \A j \in 1 .. Len(block) : q[j][1] # "uptime" /\ q[j][1] # "load1"
      BY <1>4, <2>1, <2>4 DEF Read
    <3>2. ASSUME NEW j \in 1 .. Len(block)
          PROVE  q[j][1] \in FrontKeys /\ q[j][1] # "load15"
      <4>1. j \in 1 .. Len(q) /\ \A k \in 1 .. j : k \in 1 .. Len(block)
        <5>1. Len(q) \in Nat
          BY <1>2, LenProperties DEF Honest
        <5> QED
          BY <2>3, <5>1
      <4> QED
        BY <1>2, <3>1, <4>1 DEF Honest
    <3> QED
      BY <2>1, <3>2 DEF Read
  <2>5. Fresh(snap, m)
    BY <2>1, <2>4 DEF Read, Fresh
  <2> DEFINE other == [snap EXCEPT !.level = "unsupported", !.error = TRUE]
  <2>6. other \in Snapshots
    BY <2>1 DEF Snapshots, Levels
  <2>7. Fresh(other, m)
    <3>1. /\ other.level = "unsupported" /\ other.checked_at = snap.checked_at
          /\ other.rebooted = snap.rebooted /\ other.net_delta = snap.net_delta
          /\ other.uptime = snap.uptime /\ other.net = snap.net /\ other.load1 = snap.load1
          /\ other.load15 = snap.load15
          /\ Quiet(snap) => Quiet(other)
      BY <2>1 DEF Snapshots, Quiet
    <3> HIDE DEF other
    <3> QED
      BY <2>5, <2>6, <3>1 DEF Fresh
  <2> QED
    BY <1>3, <2>2, <2>5, <2>7
<1> QED
  BY <1>7, <1>8

\* Without a reading that contributes, nothing does.
LEMMA QuietIsFine ==
  ASSUME NEW snap \in Snapshots, Quiet(snap), snap.load1 < 0, snap.load15 = None,
         snap.net_delta = None, NEW th, NEW ign
  PROVE  "crit" \notin Contributions(snap, th, ign)
<1>1. \A limits : FromPct(None, limits) = "unknown"
  BY DEF FromPct, None
<1>2. LoadPct(snap) = None
  BY DEF LoadPct, None
<1>3. \A g \in Gauges : snap.gauge[g] = None
  BY DEF Quiet
<1>4. snap.disks = <<>> /\ DOMAIN snap.disks = {}
  BY DEF Quiet
<1>5. AtLeast(None, TimeWarn, TimeCrit) = "unknown" /\ AtLeast(None, NetWarn, NetCrit) = "unknown"
  BY HealthReportAssumption DEF AtLeast, None
<1>6. /\ ~snap.reboot_required /\ ~(snap.units > 0) /\ ~(snap.unhealthy > 0) /\ ~(snap.oom > 0)
      /\ ~(snap.ssh >= 0) /\ snap.offset = None
  BY DEF Quiet, None
<1> QED
  BY <1>1, <1>2, <1>3, <1>4, <1>5, <1>6 DEF Contributions

-----------------------------------------------------------------------------
(* The inductive invariant                                                  *)

Machines == [up : Nat, errors : Nat, starts : Nat, total : Nat]
Counts   == [starts : Nat, errors : Nat]
Truths   == [as : Settings \cup {<<>>}, latest : Counts, before : Counts]
Entries  == [latest : Snapshots, history : Seq(Snapshots)]

\* The level is what the settings that it was made with make of the readings.
LevelIsMade(snap, as, s) ==
  as \in Settings =>
    \/ snap.level \in {"offline", "unsupported"}
    \/ snap.level = "crit" <=> "crit" \in Contributions(snap, as.th, as.ign[s])

\* Without a start of the machine m since the check that counts is of, the uptime and the
\* errors of the check are the machine's, less what has come since; with one, the machine
\* counts no more than has come since.
Remembered(snap, counts, m) ==
  /\ counts.starts <= m.starts /\ counts.errors <= m.total
  /\ counts.starts = m.starts =>
       /\ snap.uptime \in {None, snap.checked_at - m.up}
       /\ snap.net \in {None, m.errors - (m.total - counts.errors)}
  /\ counts.starts < m.starts => m.errors <= m.total - counts.errors

\* The past is in its order, and older than the latest check.
Past(entry) ==
  /\ Len(entry.history) <= MaxHistory
  /\ \A i \in 1 .. Len(entry.history) :
       /\ 0 < entry.history[i].checked_at
       /\ entry.history[i].checked_at < entry.latest.checked_at
       /\ \A j \in 1 .. i - 1 : entry.history[i].checked_at < entry.history[j].checked_at

\* What is said to have changed has changed.
Changed(entry, t) ==
  LET now == entry.latest
      real == t.latest.errors - t.before.errors
      again == t.latest.starts > t.before.starts
  IN /\ now.rebooted => again
     /\ now.net_delta # None => /\ now.net_delta \in 0..real
                                /\ ~again => now.net_delta = real
     /\ entry.history # <<>> => Growth(now.net, entry.history[1].net) = now.net_delta

Sound(entry, t, m, s) ==
  /\ entry \in Entries /\ t \in Truths
  /\ LevelIsMade(entry.latest, t.as, s)
  /\ Remembered(entry.latest, t.latest, m)
  /\ Past(entry)
  /\ Changed(entry, t)

Types ==
  /\ settings \in Settings /\ clock \in Nat /\ clock > 0
  /\ machine \in [Servers -> Machines]
  /\ \A s \in Servers : machine[s].up <= clock /\ machine[s].errors <= machine[s].total
  /\ entries \in [Servers -> Entries] /\ truth \in [Servers -> Truths]
  /\ file \in [entries : [Servers -> Entries], truth : [Servers -> Truths]]

Checking ==
  check # NoCheck => /\ check \in Servers \X Settings
                     /\ entries[check[1]].latest.checked_at < clock

IInv ==
  /\ Types
  /\ Checking
  /\ \A s \in Servers : /\ Sound(entries[s], truth[s], machine[s], s)
                        /\ Sound(file.entries[s], file.truth[s], machine[s], s)

-----------------------------------------------------------------------------
(* The steps of one server                                                  *)

\* A snapshot made now, of what the machine m is now
OfNow(snap, m) ==
  /\ snap \in Snapshots /\ snap.checked_at = clock /\ snap.net_delta = None
  /\ snap.uptime \in {None, clock - m.up} /\ snap.net \in {None, m.errors}

\* What start_check makes of the output of a check
LEMMA CheckedIs ==
  ASSUME NEW output \in Outputs, NEW s, NEW as \in Settings, NEW m, m.errors \in Nat,
         clock - m.up \in Nat, clock \in Nat
  PROVE  OfNow(Checked(output, s, as, m), m) /\ LevelIsMade(Checked(output, s, as, m), as, s)
<1> DEFINE read == Parsed(Arrived(output, as, m))
           th == as.th
           ign == as.ign[s]
           parsed == [read EXCEPT !.checked_at = clock]
           snap == IF parsed.level = "unsupported" THEN parsed ELSE Applied(parsed, th, ign)
           bare == /\ \A g \in {"cpu", "mem", "swap"} : snap.gauge[g] < 0
                   /\ snap.disks = <<>> /\ snap.load1 < 0 /\ snap.uptime < 0
           cut == [snap EXCEPT !.level = "unknown", !.error = TRUE]
<1>1. Checked(output, s, as, m) = IF bare /\ output.code \in {124, 130} THEN cut ELSE snap
  BY DEF Checked
<1>2. Fresh(read, m)
  BY ParsedIsFresh
<1> HIDE DEF read, th, ign
<1>3. /\ parsed \in Snapshots /\ parsed.checked_at = clock /\ parsed.level = read.level
      /\ parsed.net_delta = None /\ parsed.uptime = read.uptime /\ parsed.net = read.net
      /\ parsed.load1 = read.load1 /\ parsed.load15 = read.load15
      /\ Quiet(read) => Quiet(parsed)
  BY <1>2 DEF Fresh, Snapshots, Quiet
<1> HIDE DEF parsed
<1>4. /\ snap \in Snapshots /\ snap = [parsed EXCEPT !.level = snap.level]
      /\ \/ snap.level = "unsupported"
         \/ snap.level \in Four /\ (snap.level = "crit" <=> "crit" \in Contributions(parsed, th, ign))
  <2>1. CASE parsed.level = "unsupported"
    <3>1. snap = parsed
      BY <2>1
    <3>2. parsed = [parsed EXCEPT !.level = parsed.level]
      BY <1>3 DEF Snapshots
    <3> QED
      BY <1>3, <2>1, <3>1, <3>2
  <2>2. CASE parsed.level # "unsupported"
    <3>1. snap = Applied(parsed, th, ign)
      BY <2>2
    <3>2. parsed.level \notin {"offline", "unsupported"}
      BY <1>2, <1>3, <2>2 DEF Fresh
    <3> HIDE DEF snap
    <3> QED
      BY <1>3, <3>1, <3>2, AppliedIs
  <2> QED
    BY <2>1, <2>2
<1> HIDE DEF snap
<1>5. /\ snap.checked_at = clock /\ snap.net_delta = None /\ snap.uptime = read.uptime
      /\ snap.net = read.net /\ snap.load1 = read.load1
      /\ Contributions(snap, th, ign) = Contributions(parsed, th, ign)
  <2>1. Contributions(snap, th, ign) = Contributions(parsed, th, ign)
    BY <1>3, <1>4, LevelContributesNothing
  <2> QED
    BY <1>3, <1>4, <2>1 DEF Snapshots
<1>6. OfNow(snap, m) /\ LevelIsMade(snap, as, s)
  BY <1>2, <1>4, <1>5 DEF OfNow, LevelIsMade, Fresh, th, ign
<1>7. ASSUME bare PROVE OfNow(cut, m) /\ LevelIsMade(cut, as, s)
  <2>1. snap.uptime < 0 /\ snap.load1 < 0
    BY <1>7
  <2>2. Quiet(parsed) /\ parsed.load15 = None /\ parsed.load1 < 0
    BY <1>2, <1>3, <1>5, <2>1 DEF Fresh
  <2>3. "crit" \notin Contributions(snap, th, ign)
    BY <1>3, <1>5, <2>2, QuietIsFine
  <2> DEFINE half == [snap EXCEPT !.level = "unknown"]
  <2>4. half \in Snapshots /\ Contributions(half, th, ign) = Contributions(snap, th, ign)
    <3>1. half \in Snapshots
      BY <1>4 DEF Snapshots, Levels, Four
    <3> QED
      BY <1>4, <3>1, LevelContributesNothing
  <2>5. /\ cut = [half EXCEPT !.error = TRUE]
        /\ cut \in Snapshots /\ cut.checked_at = snap.checked_at /\ cut.level = "unknown"
        /\ cut.net_delta = snap.net_delta /\ cut.uptime = snap.uptime /\ cut.net = snap.net
    BY <1>4, <2>4 DEF Snapshots, Levels, Four
  <2>6. Contributions(cut, th, ign) = Contributions(half, th, ign)
    <3> HIDE DEF half
    <3>1. /\ cut.gauge = half.gauge /\ cut.disks = half.disks /\ cut.nproc = half.nproc
          /\ cut.load1 = half.load1 /\ cut.load15 = half.load15
          /\ cut.reboot_required = half.reboot_required /\ cut.units = half.units
          /\ cut.unhealthy = half.unhealthy /\ cut.oom = half.oom /\ cut.ssh = half.ssh
          /\ cut.synced = half.synced /\ cut.offset = half.offset
          /\ cut.net_delta = half.net_delta
      BY <2>4, <2>5 DEF Snapshots
    <3> HIDE DEF cut
    <3> QED
      BY <3>1 DEF Contributions, LoadPct
  <2> HIDE DEF cut
  <2> QED
    BY <1>6, <2>3, <2>4, <2>5, <2>6 DEF OfNow, LevelIsMade, th, ign
<1> QED
  BY <1>1, <1>6, <1>7

\* What a check that threw hands back.
LEMMA OfflineIs ==
  ASSUME NEW m, clock \in Nat, NEW as, NEW s
  PROVE  OfNow(Offline, m) /\ LevelIsMade(Offline, as, s)
<1>1. Offline \in Snapshots
  BY ReadingKeeps DEF Offline, Snapshots, Levels
<1>2. /\ Offline.level = "offline" /\ Offline.checked_at = clock /\ Offline.net_delta = None
      /\ Offline.uptime = None /\ Offline.net = None
  BY DEF Offline, NoSnapshot
<1> QED
  BY <1>1, <1>2 DEF OfNow, LevelIsMade

\* Of what store_snapshot sets, only the new errors contribute to a level.
LEMMA NewErrorsContribute ==
  ASSUME NEW snap \in Snapshots, snap.net_delta = None, NEW again \in BOOLEAN, NEW delta \in Int,
         NEW th, NEW ign
  PROVE  "crit" \in Contributions([snap EXCEPT !.rebooted = again, !.net_delta = delta], th, ign)
           <=> \/ "crit" \in Contributions(snap, th, ign)
               \/ "net" \notin ign /\ AtLeast(delta, NetWarn, NetCrit) = "crit"
<1> DEFINE new == [snap EXCEPT !.rebooted = again, !.net_delta = delta]
<1>1. /\ new.gauge = snap.gauge /\ new.disks = snap.disks /\ new.nproc = snap.nproc
      /\ new.load1 = snap.load1 /\ new.load15 = snap.load15
      /\ new.reboot_required = snap.reboot_required /\ new.units = snap.units
      /\ new.unhealthy = snap.unhealthy /\ new.oom = snap.oom /\ new.ssh = snap.ssh
      /\ new.synced = snap.synced /\ new.offset = snap.offset
      /\ new.net_delta = delta
  BY DEF Snapshots
<1>2. AtLeast(None, NetWarn, NetCrit) = "unknown"
  BY HealthReportAssumption DEF AtLeast, None
<1> HIDE DEF new
<1>3. LoadPct(new) = LoadPct(snap)
  BY <1>1 DEF LoadPct
<1> DEFINE others ==
        {"unknown"}
        \cup {FromPct(snap.gauge[g], th[g]) : g \in Gauges}
        \cup {FromPct(snap.disks[i].pct, th.disk) : i \in DOMAIN snap.disks}
        \cup {FromPct(LoadPct(snap), th.load)}
        \cup {"warn" : x \in {y \in {"reboot"} \ ign : snap.reboot_required}}
        \cup {ByThree(snap.units) : x \in {y \in {"units"} \ ign : snap.units > 0}}
        \cup {ByThree(snap.unhealthy) : x \in {y \in {"docker"} \ ign : snap.unhealthy > 0}}
        \cup {ByThree(snap.oom) : x \in {y \in {"oom"} \ ign : snap.oom > 0}}
        \cup {AtLeast(snap.ssh, th.ssh.warn, th.ssh.crit) : x \in {y \in {"ssh"} \ ign : snap.ssh >= 0}}
        \cup {"warn" : x \in {y \in {"time"} \ ign : snap.synced = 0}}
        \cup {AtLeast(snap.offset, TimeWarn, TimeCrit) : x \in {"time"} \ ign}
<1>4. Contributions(new, th, ign) =
        others \cup {AtLeast(delta, NetWarn, NetCrit) : x \in {"net"} \ ign}
  BY <1>1, <1>3 DEF Contributions
<1>5. Contributions(snap, th, ign) =
        others \cup {AtLeast(None, NetWarn, NetCrit) : x \in {"net"} \ ign}
  BY DEF Contributions
<1> HIDE DEF others
<1>6. "crit" \in Contributions(snap, th, ign) <=> "crit" \in others
  BY <1>2, <1>5
<1>7. "crit" \in Contributions(new, th, ign) <=>
        \/ "crit" \in others
        \/ "net" \notin ign /\ AtLeast(delta, NetWarn, NetCrit) = "crit"
  BY <1>4
<1> QED
  BY <1>6, <1>7 DEF new

\* The latest check becomes the newest of the past, without which it may drop the oldest.
LEMMA PushedKeepsOrder ==
  ASSUME NEW entry \in Entries, Past(entry), entry.latest.checked_at > 0,
         NEW latest \in Snapshots, entry.latest.checked_at < latest.checked_at
  PROVE  LET history == Pushed(entry.history, entry.latest) IN
         /\ history \in Seq(Snapshots) /\ history # <<>> /\ history[1] = entry.latest
         /\ Past([latest |-> latest, history |-> history])
<1> DEFINE before == entry.latest
           old == entry.history
           N == Len(old)
           all == <<before>> \o old
           n == Min({MaxHistory, N + 1})
           new == SubSeq(all, 1, n)
<1>1. /\ before \in Snapshots /\ old \in Seq(Snapshots) /\ N \in Nat
      /\ MaxHistory \in Nat /\ MaxHistory > 0 /\ before.checked_at \in Nat
  BY HealthReportAssumption, LenProperties DEF Entries, Snapshots
<1>2. Pushed(old, before) = new
  <2>1. old # <<>> => old[1].checked_at # before.checked_at
    <3>1. old # <<>> => 1 \in 1 .. N
      BY <1>1, EmptySeq
    <3>2. \A i \in 1 .. N : old[i].checked_at < before.checked_at /\ old[i].checked_at \in Nat
      <4>1. \A i \in 1 .. N : old[i] \in Snapshots
        BY <1>1, ElementOfSeq
      <4> QED
        BY <4>1 DEF Past, Snapshots
    <3>3. ASSUME 1 \in 1 .. N PROVE old[1].checked_at # before.checked_at
      BY <1>1, <3>2, <3>3
    <3> QED
      BY <3>1, <3>3
  <2> QED
    <3>1. Pushed(old, before) =
            IF before.checked_at <= 0 \/ (old # <<>> /\ old[1].checked_at = before.checked_at)
            THEN old ELSE new
      BY DEF Pushed
    <3>2. ~(before.checked_at <= 0)
      BY <1>1
    <3> HIDE DEF new
    <3> QED
      BY <2>1, <3>1, <3>2
<1>3. n \in 1 .. N + 1 /\ n <= MaxHistory
  <2>1. {MaxHistory, N + 1} \in SUBSET Nat
    BY <1>1
  <2>2. n = MaxHistory \/ n = N + 1
    BY <2>1, MinIsThere
  <2>3. n <= N + 1 /\ n <= MaxHistory
    BY <2>1, MinIsThere
  <2> QED
    BY <1>1, <2>2, <2>3
<1> HIDE DEF n
<1>4. /\ all \in Seq(Snapshots) /\ Len(all) = N + 1
      /\ all[1] = before /\ \A i \in 2 .. N + 1 : all[i] = old[i - 1]
  <2>1. <<before>> \in Seq(Snapshots) /\ Len(<<before>>) = 1
    BY <1>1
  <2>2. /\ all \in Seq(Snapshots) /\ Len(all) = 1 + N
        /\ \A i \in 1 .. 1 + N : all[i] = IF i <= 1 THEN <<before>>[i] ELSE old[i - 1]
    <3> DEFINE one == <<before>>
    <3> HIDE DEF one
    <3>1. one \in Seq(Snapshots) /\ Len(one) = 1
      BY <2>1 DEF one
    <3>2. /\ one \o old \in Seq(Snapshots) /\ Len(one \o old) = Len(one) + N
          /\ \A i \in 1 .. Len(one) + N : (one \o old)[i] = IF i <= Len(one) THEN one[i] ELSE old[i - Len(one)]
      BY <1>1, <3>1, ConcatProperties
    <3> QED
      BY <3>1, <3>2 DEF one
  <2> HIDE DEF all
  <2>3. 1 \in 1 .. 1 + N /\ \A i \in 2 .. N + 1 : i \in 1 .. 1 + N /\ ~(i <= 1)
    BY <1>1
  <2> QED
    BY <1>1, <2>2, <2>3
<1> HIDE DEF all
<1>5. /\ new \in Seq(Snapshots) /\ Len(new) = n /\ \A i \in 1 .. n : new[i] = all[i]
  <2>1. \A i \in 1 .. n : i \in 1 .. Len(all)
    BY <1>1, <1>3, <1>4
  <2>2. \A i \in 1 .. n : all[i] \in Snapshots
    BY <1>4, <2>1, ElementOfSeq
  <2>3. /\ new \in Seq(Snapshots)
        /\ Len(new) = IF 1 <= n THEN n - 1 + 1 ELSE 0
        /\ \A i \in 1 .. n - 1 + 1 : new[i] = all[1 + i - 1]
    BY <1>3, <2>2, SubSeqProperties
  <2>4. n \in Nat /\ 1 <= n /\ n - 1 + 1 = n
    BY <1>1, <1>3
  <2>5. \A i \in 1 .. n : 1 + i - 1 = i
    OBVIOUS
  <2> QED
    BY <2>3, <2>4, <2>5
<1> HIDE DEF new
<1>6. new # <<>> /\ new[1] = before
  <2>1. n > 0 /\ 1 \in 1 .. n
    BY <1>1, <1>3
  <2> QED
    BY <1>4, <1>5, <2>1
<1>7. ASSUME NEW i \in 1 .. n
      PROVE  /\ 0 < new[i].checked_at /\ new[i].checked_at < latest.checked_at
             /\ \A j \in 1 .. i - 1 : new[i].checked_at < new[j].checked_at
  <2>1. CASE i = 1
    BY <1>1, <1>6, <2>1
  <2>2. CASE i # 1
    <3>1. i \in 2 .. N + 1 /\ i - 1 \in 1 .. N
      BY <1>1, <1>3, <2>2
    <3>2. new[i] = old[i - 1]
      BY <1>4, <1>5, <3>1
    <3>3. /\ 0 < old[i - 1].checked_at /\ old[i - 1].checked_at < before.checked_at
          /\ \A k \in 1 .. (i - 1) - 1 : old[i - 1].checked_at < old[k].checked_at
      BY <3>1 DEF Past
    <3>4. ASSUME NEW j \in 1 .. i - 1 PROVE new[i].checked_at < new[j].checked_at
      <4>1. CASE j = 1
        BY <1>6, <3>2, <3>3, <4>1
      <4>2. CASE j # 1
        <5>1. j \in 2 .. N + 1 /\ j \in 1 .. n /\ j - 1 \in 1 .. (i - 1) - 1
          BY <1>1, <1>3, <3>1, <4>2
        <5>2. new[j] = old[j - 1]
          BY <1>4, <1>5, <5>1
        <5> QED
          BY <3>2, <3>3, <5>1, <5>2
      <4> QED
        BY <4>1, <4>2
    <3>5. old[i - 1].checked_at < latest.checked_at
      <4>1. old[i - 1].checked_at \in Nat
        <5>1. old[i - 1] \in Snapshots
          BY <1>1, <3>1, ElementOfSeq
        <5> QED
          BY <5>1 DEF Snapshots
      <4>2. latest.checked_at \in Nat
        BY DEF Snapshots
      <4> QED
        BY <1>1, <3>3, <4>1, <4>2
    <3> QED
      BY <3>2, <3>3, <3>4, <3>5
  <2> QED
    BY <2>1, <2>2
<1>8. Past([latest |-> latest, history |-> new])
  <2> DEFINE e == [latest |-> latest, history |-> new]
  <2>1. e.latest = latest /\ e.history = new
    OBVIOUS
  <2> HIDE DEF e
  <2> QED
    BY <1>3, <1>5, <1>7, <2>1 DEF Past, e
<1> QED
  BY <1>2, <1>5, <1>6, <1>8

\* health_apply_net_delta and health_rebooted_since, of a check and the one before
Compared(snap, before, ign) ==
  LET fresh == [snap EXCEPT !.rebooted = FALSE, !.net_delta = None] IN
  WithNetDelta([fresh EXCEPT !.rebooted = RebootedSince(fresh, before)], before, ign)

\* As bad as its readings
AsBad(snap, th, ign) ==
  \/ snap.level \in {"offline", "unsupported"}
  \/ snap.level = "crit" <=> "crit" \in Contributions(snap, th, ign)

\* What OnResult adds to a result: the uptimes, the counters and the moments stay, the growth of
\* the counter and the restart are those against the stored check, and the level gets no better.
LEMMA ComparedIs ==
  ASSUME NEW m, NEW snap, OfNow(snap, m), NEW before \in Snapshots, NEW ign
  PROVE  LET latest == Compared(snap, before, ign) IN
         /\ latest \in Snapshots /\ latest.checked_at = clock
         /\ latest.uptime = snap.uptime /\ latest.net = snap.net
         /\ latest.net_delta = Growth(snap.net, before.net)
         /\ latest.rebooted = RebootedSince(snap, before)
         /\ \A th : AsBad(snap, th, ign) => AsBad(latest, th, ign)
<1> DEFINE fresh == [snap EXCEPT !.rebooted = FALSE, !.net_delta = None]
           again == RebootedSince(fresh, before)
           told == [fresh EXCEPT !.rebooted = again]
           delta == Growth(snap.net, before.net)
           badly == AtLeast(delta, NetWarn, NetCrit)
           level == IF "net" \in ign \/ snap.level \in {"offline", "unsupported"}
                       \/ badly = "unknown" \/ Rank(snap.level) >= Rank(badly)
                    THEN snap.level ELSE badly
           new == [snap EXCEPT !.rebooted = again, !.net_delta = delta]
           latest == WithNetDelta(told, before, ign)
<1>1. snap \in Snapshots /\ snap.checked_at = clock /\ snap.net_delta = None
  BY DEF OfNow
<1>2. /\ fresh \in Snapshots /\ fresh.net = snap.net /\ fresh.uptime = snap.uptime
      /\ fresh.checked_at = snap.checked_at /\ fresh.level = snap.level
  BY <1>1 DEF Snapshots, None
<1>3. again \in BOOLEAN /\ again = RebootedSince(snap, before)
  <2> HIDE DEF fresh
  <2> QED
    BY <1>2 DEF RebootedSince
<1>4. delta \in Int
  <2>1. snap.net \in Int /\ before.net \in Int
    BY <1>1 DEF Snapshots
  <2> QED
    BY <2>1 DEF Growth, None
<1>5. badly \in Four
  BY LevelsOfReadings
<1> HIDE DEF again, delta, badly
<1>6. told = [snap EXCEPT !.rebooted = again, !.net_delta = None]
  BY <1>1 DEF Snapshots
<1>7. told.net = snap.net /\ told.level = snap.level
  BY <1>1, <1>6 DEF Snapshots
<1>8. latest = [told EXCEPT !.net_delta = delta, !.level = level]
  <2> HIDE DEF told
  <2> QED
    BY <1>7 DEF WithNetDelta, delta, badly
<1>9. level \in Levels
  BY <1>1, <1>5 DEF Snapshots, Levels
<1> HIDE DEF level, latest, told, fresh
<1>10. latest = [new EXCEPT !.level = level]
  BY <1>1, <1>6, <1>8 DEF Snapshots
<1>11. new \in Snapshots
  BY <1>1, <1>3, <1>4 DEF Snapshots
<1>12. /\ latest \in Snapshots /\ latest.checked_at = clock
       /\ latest.uptime = snap.uptime /\ latest.net = snap.net /\ latest.net_delta = delta
       /\ latest.rebooted = again /\ latest.level = level
  BY <1>1, <1>9, <1>10, <1>11 DEF Snapshots
<1> HIDE DEF new
<1>13. ASSUME NEW th, AsBad(snap, th, ign) PROVE AsBad(latest, th, ign)
  <2>1. CASE snap.level \in {"offline", "unsupported"}
    BY <1>12, <2>1 DEF level, AsBad
  <2>2. CASE snap.level \notin {"offline", "unsupported"}
    <3>1. Contributions(latest, th, ign) = Contributions(new, th, ign)
      BY <1>10, <1>11, LevelContributesNothing
    <3>2. "crit" \in Contributions(new, th, ign)
            <=> \/ "crit" \in Contributions(snap, th, ign)
                \/ "net" \notin ign /\ badly = "crit"
      BY <1>1, <1>3, <1>4, NewErrorsContribute DEF badly, new
    <3>3. snap.level \in Four
      BY <1>1, <2>2 DEF Snapshots, Levels
    <3>4. Rank("crit") = 4 /\ Rank("warn") = 3 /\ Rank("ok") = 2 /\ Rank("unknown") = 0
      BY DEF Rank
    <3>5. level = "crit" <=> snap.level = "crit" \/ ("net" \notin ign /\ badly = "crit")
      BY <1>5, <2>2, <3>3, <3>4 DEF level, Four
    <3> QED
      BY <1>12, <1>13, <2>2, <3>1, <3>2, <3>5 DEF AsBad
  <2> QED
    BY <2>1, <2>2
<1>14. latest = Compared(snap, before, ign)
  BY DEF Compared, latest, told, fresh, again
<1> QED
  BY <1>3, <1>12, <1>13, <1>14 DEF delta

\* The settings are records, what stands for none of them is not.
LEMMA NoneIsNoSettings == <<>> \notin Settings
<1>1. ASSUME NEW as \in Settings PROVE as # <<>>
  <2>1. "th" \in DOMAIN as
    BY SettingsAssumption
  <2>2. DOMAIN <<>> = {}
    OBVIOUS
  <2> QED
    BY <2>1, <2>2
<1> QED
  BY <1>1

\* A check that ends, or fails, keeps what is known of its server in order.
LEMMA StoredIsSound ==
  ASSUME NEW entry, NEW t, NEW m \in Machines, NEW s, Sound(entry, t, m, s),
         m.up <= clock, m.errors <= m.total, clock \in Nat, entry.latest.checked_at < clock,
         NEW snap, OfNow(snap, m), NEW as \in Settings, LevelIsMade(snap, as, s),
         NEW now \in Settings
  PROVE  Sound(Stored(entry, snap, now.ign[s]),
               [as |-> IF as = now THEN now ELSE <<>>,
                latest |-> [starts |-> m.starts, errors |-> m.total], before |-> t.latest], m, s)
<1> DEFINE before == entry.latest
           fresh == [snap EXCEPT !.rebooted = FALSE, !.net_delta = None]
           latest == Compared(snap, before, now.ign[s])
           made == IF as = now THEN now ELSE <<>>
           t2 == [as |-> made, latest |-> [starts |-> m.starts, errors |-> m.total],
                  before |-> t.latest]
           stored == Stored(entry, snap, now.ign[s])
<1>1. /\ entry \in Entries /\ t \in Truths /\ before \in Snapshots /\ before.checked_at \in Nat
      /\ before.net \in Int /\ before.uptime \in Int
      /\ Past(entry) /\ Remembered(before, t.latest, m)
  BY DEF Sound, Entries, Snapshots
<1>2. /\ m.up \in Nat /\ m.errors \in Nat /\ m.starts \in Nat /\ m.total \in Nat
  BY DEF Machines
<1>3. /\ t2 \in Truths /\ t2.as = made /\ t2.latest.starts = m.starts
      /\ t2.latest.errors = m.total /\ t2.before = t.latest
      /\ t.latest.starts \in Nat /\ t.latest.errors \in Nat
  BY <1>1, <1>2 DEF Truths, Counts
<1>4. snap \in Snapshots /\ snap.checked_at = clock /\ snap.net_delta = None
  BY DEF OfNow
<1>5. /\ snap.net \in Int /\ snap.uptime \in Int
      /\ snap.uptime \in {None, clock - m.up} /\ snap.net \in {None, m.errors}
  BY <1>4 DEF OfNow, Snapshots
<1> HIDE DEF t2
<1>6. ASSUME NEW l, l.uptime = snap.uptime, l.net = snap.net, l.checked_at = clock
      PROVE  Remembered(l, t2.latest, m)
  BY <1>2, <1>3, <1>5, <1>6 DEF Remembered
<1>7. CASE before.checked_at <= 0
  <2>1. stored = [entry EXCEPT !.latest = fresh]
    BY <1>7 DEF Stored
  <2>2. fresh = [snap EXCEPT !.rebooted = FALSE]
    BY <1>4 DEF Snapshots
  <2>3. /\ fresh \in Snapshots /\ fresh.checked_at = clock /\ fresh.net_delta = None
        /\ fresh.uptime = snap.uptime /\ fresh.net = snap.net /\ fresh.rebooted = FALSE
        /\ fresh.level = snap.level
    BY <1>4, <2>2 DEF Snapshots
  <2>4. \A th, ign : "crit" \in Contributions(fresh, th, ign) <=> "crit" \in Contributions(snap, th, ign)
    <3>1. AtLeast(None, NetWarn, NetCrit) # "crit"
      BY HealthReportAssumption DEF AtLeast, None
    <3>2. None \in Int
      BY DEF None
    <3> QED
      BY <1>4, <3>1, <3>2, NewErrorsContribute
  <2> HIDE DEF fresh
  <2>5. entry.history = <<>>
    <3>1. Len(entry.history) \in Nat /\ entry.history \in Seq(Snapshots)
      BY <1>1, LenProperties DEF Entries
    <3>2. ~(Len(entry.history) >= 1)
      <4>1. SUFFICES ASSUME Len(entry.history) >= 1 PROVE FALSE
        OBVIOUS
      <4>2. 1 \in 1 .. Len(entry.history)
        BY <3>1, <4>1
      <4>3. 0 < entry.history[1].checked_at /\ entry.history[1].checked_at < before.checked_at
        BY <1>1, <4>2 DEF Past
      <4>4. entry.history[1].checked_at \in Nat
        <5>1. entry.history[1] \in Snapshots
          BY <3>1, <4>2, ElementOfSeq
        <5> QED
          BY <5>1 DEF Snapshots
      <4> QED
        BY <1>1, <1>7, <4>3, <4>4
    <3> QED
      BY <3>1, <3>2, EmptySeq
  <2>6. /\ stored \in Entries /\ stored.latest = fresh /\ stored.history = <<>>
    BY <1>1, <2>1, <2>3, <2>5 DEF Entries
  <2> HIDE DEF stored
  <2>7. LevelIsMade(stored.latest, t2.as, s)
    <3>1. made \in Settings => made = as
      BY NoneIsNoSettings
    <3> QED
      BY <1>3, <2>3, <2>4, <2>6, <3>1 DEF LevelIsMade
  <2>8. Remembered(stored.latest, t2.latest, m)
    BY <1>6, <2>3, <2>6
  <2>9. Past(stored)
    <3>1. Len(<<>>) = 0 /\ 0 <= MaxHistory /\ \A i \in 1 .. 0 : FALSE
      BY HealthReportAssumption
    <3> QED
      BY <2>6, <3>1 DEF Past
  <2>10. Changed(stored, t2)
    BY <2>3, <2>6 DEF Changed
  <2> QED
    BY <1>3, <2>6, <2>7, <2>8, <2>9, <2>10 DEF Sound, stored, t2
<1>8. CASE before.checked_at > 0
  <2> DEFINE history == Pushed(entry.history, before)
  <2>1. stored = [latest |-> latest, history |-> history]
    <3>1. ~(before.checked_at <= 0) /\ ~(snap.checked_at <= 0) /\ before.checked_at # snap.checked_at
      BY <1>1, <1>4, <1>8
    <3> QED
      BY <3>1 DEF Stored, Compared
  <2>2. /\ latest \in Snapshots /\ latest.checked_at = clock
        /\ latest.uptime = snap.uptime /\ latest.net = snap.net
        /\ latest.net_delta = Growth(snap.net, before.net)
        /\ latest.rebooted = RebootedSince(snap, before)
        /\ \A th : AsBad(snap, th, now.ign[s]) => AsBad(latest, th, now.ign[s])
    BY <1>1, ComparedIs
  <2> HIDE DEF latest, fresh
  <2>3. /\ history \in Seq(Snapshots) /\ history # <<>> /\ history[1] = before
        /\ Past([latest |-> latest, history |-> history])
    BY <1>1, <1>8, <2>2, PushedKeepsOrder
  <2> HIDE DEF history
  <2>4. stored \in Entries /\ stored.latest = latest /\ stored.history = history
    BY <2>1, <2>2, <2>3 DEF Entries
  <2>5. LevelIsMade(stored.latest, t2.as, s)
    <3>1. made \in Settings => made = as /\ as = now
      BY NoneIsNoSettings
    <3> QED
      BY <1>3, <2>2, <2>4, <3>1 DEF LevelIsMade, AsBad
  <2>6. Remembered(stored.latest, t2.latest, m)
    BY <1>6, <2>2, <2>4
  <2>7. Past(stored)
    BY <2>1, <2>3
  <2> DEFINE real == m.total - t.latest.errors
             grown == m.starts > t.latest.starts
  <2>8. RebootedSince(snap, before) => grown
    <3>1. SUFFICES ASSUME RebootedSince(snap, before), ~grown PROVE FALSE
      OBVIOUS
    <3>2. t.latest.starts = m.starts
      BY <1>1, <1>2, <1>3, <3>1 DEF Remembered
    <3>3. before.uptime \in {None, before.checked_at - m.up}
      BY <1>1, <3>2 DEF Remembered
    <3>4. /\ snap.uptime >= 0 /\ before.uptime >= 0
          /\ snap.uptime + 3 < before.uptime + (clock - before.checked_at)
      BY <1>4, <3>1 DEF RebootedSince
    <3>5. snap.uptime = clock - m.up /\ before.uptime = before.checked_at - m.up
      BY <1>5, <3>3, <3>4 DEF None
    <3> QED
      BY <1>1, <1>2, <3>4, <3>5
  <2>9. ASSUME Growth(snap.net, before.net) # None
        PROVE  /\ Growth(snap.net, before.net) \in 0 .. real
               /\ ~grown => Growth(snap.net, before.net) = real
    <3>1. /\ snap.net >= 0 /\ before.net >= 0
          /\ Growth(snap.net, before.net) = IF snap.net > before.net THEN snap.net - before.net ELSE 0
      BY <1>1, <1>5, <2>9 DEF Growth
    <3>2. snap.net = m.errors
      BY <1>5, <3>1 DEF None
    <3>3. t.latest.starts <= m.starts /\ t.latest.errors <= m.total
      BY <1>1 DEF Remembered
    <3>4. CASE t.latest.starts = m.starts
      <4>1. before.net = m.errors - real
        BY <1>1, <3>1, <3>4 DEF Remembered, None
      <4> QED
        BY <1>1, <1>2, <1>3, <3>1, <3>2, <3>3, <4>1
    <3>5. CASE t.latest.starts < m.starts
      <4>1. m.errors <= real
        BY <1>1, <3>5 DEF Remembered
      <4> QED
        BY <1>1, <1>2, <1>3, <3>1, <3>2, <3>3, <3>5, <4>1
    <3> QED
      BY <1>2, <1>3, <3>3, <3>4, <3>5
  <2>10. Changed(stored, t2)
    BY <1>3, <2>2, <2>3, <2>4, <2>8, <2>9 DEF Changed
  <2> HIDE DEF stored
  <2> QED
    BY <1>3, <2>4, <2>5, <2>6, <2>7, <2>10 DEF Sound, stored, t2
<1> QED
  BY <1>1, <1>7, <1>8

\* reevaluate_cached makes the level of an entry anew, and nothing else.
LEMMA AppliedIsSound ==
  ASSUME NEW entry, NEW t, NEW m, NEW s, Sound(entry, t, m, s), NEW new \in Settings
  PROVE  Sound([entry EXCEPT !.latest = Applied(entry.latest, new.th, new.ign[s])],
               [t EXCEPT !.as = new], m, s)
<1> DEFINE snap == entry.latest
           th == new.th
           ign == new.ign[s]
           applied == Applied(snap, th, ign)
           e2 == [entry EXCEPT !.latest = applied]
           t2 == [t EXCEPT !.as = new]
<1>1. entry \in Entries /\ t \in Truths /\ snap \in Snapshots
  BY DEF Sound, Entries
<1> HIDE DEF th, ign, snap
<1>2. /\ applied \in Snapshots /\ applied = [snap EXCEPT !.level = applied.level]
      /\ snap.level \in {"offline", "unsupported"} => applied = snap
      /\ snap.level \notin {"offline", "unsupported"} =>
           (applied.level = "crit" <=> "crit" \in Contributions(snap, th, ign))
  BY <1>1, AppliedIs
<1>3. Contributions(applied, th, ign) = Contributions(snap, th, ign)
  BY <1>1, <1>2, LevelContributesNothing
<1> HIDE DEF applied
<1>4. /\ applied.checked_at = snap.checked_at /\ applied.uptime = snap.uptime
      /\ applied.net = snap.net /\ applied.net_delta = snap.net_delta
      /\ applied.rebooted = snap.rebooted
  BY <1>1, <1>2 DEF Snapshots
<1>5. /\ e2 \in Entries /\ e2.latest = applied /\ e2.history = entry.history
      /\ t2 \in Truths /\ t2.as = new /\ t2.latest = t.latest /\ t2.before = t.before
  BY <1>1, <1>2 DEF Entries, Truths
<1> HIDE DEF e2, t2
<1>6. LevelIsMade(e2.latest, t2.as, s)
  BY <1>2, <1>3, <1>5 DEF LevelIsMade, th, ign
<1>7. Remembered(e2.latest, t2.latest, m) /\ Past(e2) /\ Changed(e2, t2)
  BY <1>4, <1>5 DEF Sound, Remembered, Past, Changed, snap
<1>8. Sound(e2, t2, m, s)
  BY <1>5, <1>6, <1>7 DEF Sound
<1> QED
  BY <1>8 DEF e2, t2, applied, snap, th, ign

\* The machine counts an error, or starts again: what was known of it is as true.
LEMMA MachineMovesOn ==
  ASSUME NEW entry, NEW t, NEW m \in Machines, NEW s, Sound(entry, t, m, s), m.errors <= m.total,
         NEW k \in Machines,
         \/ /\ k.up = m.up /\ k.starts = m.starts
            /\ k.errors = m.errors + 1 /\ k.total = m.total + 1
         \/ k.errors = 0 /\ k.starts = m.starts + 1 /\ k.total = m.total
  PROVE  Sound(entry, t, k, s)
<1>1. /\ entry \in Entries /\ t \in Truths /\ Remembered(entry.latest, t.latest, m)
      /\ m.errors \in Nat /\ m.starts \in Nat /\ m.total \in Nat
      /\ t.latest.starts \in Nat /\ t.latest.errors \in Nat
  BY DEF Sound, Machines, Truths, Counts
<1>2. Remembered(entry.latest, t.latest, k)
  BY <1>1 DEF Remembered
<1> QED
  BY <1>2 DEF Sound

\* snapshot_from_json of what was written changes nothing that is compared or counted.
LEMMA RereadIs ==
  ASSUME NEW snap \in Snapshots
  PROVE  LET reread == Reread(snap) IN
         /\ reread \in Snapshots
         /\ reread.checked_at = snap.checked_at /\ reread.uptime = snap.uptime
         /\ reread.net = snap.net /\ reread.net_delta = snap.net_delta
         /\ reread.rebooted = snap.rebooted
         /\ \A as, s : LevelIsMade(snap, as, s) => LevelIsMade(reread, as, s)
<1> DEFINE level == IF snap.level = "ok" /\ ~HasReadings(snap) THEN "unknown" ELSE snap.level
           unhealthy == IF snap.docker /\ snap.unhealthy < 0 THEN 0 ELSE snap.unhealthy
           reread == Reread(snap)
<1>1. reread = [snap EXCEPT !.level = level, !.unhealthy = unhealthy]
  BY DEF Reread
<1>2. /\ level \in Levels /\ (level = "crit" <=> snap.level = "crit")
      /\ snap.level \in {"offline", "unsupported"} => level = snap.level
  BY DEF Snapshots, Levels, Four
<1>3. unhealthy \in Int /\ (unhealthy > 0 <=> snap.unhealthy > 0)
      /\ (unhealthy > 0 => unhealthy = snap.unhealthy)
  BY DEF Snapshots
<1> HIDE DEF level, unhealthy, reread
<1>4. /\ reread \in Snapshots /\ reread.level = level /\ reread.unhealthy = unhealthy
      /\ reread.checked_at = snap.checked_at /\ reread.uptime = snap.uptime
      /\ reread.net = snap.net /\ reread.net_delta = snap.net_delta
      /\ reread.rebooted = snap.rebooted
  BY <1>1, <1>2, <1>3 DEF Snapshots
<1>5. /\ reread.gauge = snap.gauge /\ reread.disks = snap.disks /\ reread.nproc = snap.nproc
      /\ reread.load1 = snap.load1 /\ reread.load15 = snap.load15
      /\ reread.reboot_required = snap.reboot_required /\ reread.units = snap.units
      /\ reread.oom = snap.oom /\ reread.ssh = snap.ssh
      /\ reread.synced = snap.synced /\ reread.offset = snap.offset
  BY <1>1 DEF Snapshots
<1>6. ASSUME NEW th, NEW ign PROVE Contributions(reread, th, ign) = Contributions(snap, th, ign)
  <2>1. LoadPct(reread) = LoadPct(snap)
    BY <1>5 DEF LoadPct
  <2>2. {ByThree(reread.unhealthy) : x \in {y \in {"docker"} \ ign : reread.unhealthy > 0}}
          = {ByThree(snap.unhealthy) : x \in {y \in {"docker"} \ ign : snap.unhealthy > 0}}
    BY <1>3, <1>4
  <2> QED
    BY <1>4, <1>5, <2>1, <2>2 DEF Contributions
<1>7. ASSUME NEW as, NEW s, LevelIsMade(snap, as, s) PROVE LevelIsMade(reread, as, s)
  BY <1>2, <1>4, <1>6, <1>7 DEF LevelIsMade
<1> QED
  BY <1>4, <1>7 DEF reread

\* load_health_cache leaves nothing out of a past that has its times.
LEMMA PastIsKept ==
  ASSUME NEW q \in Seq(Snapshots), \A i \in 1 .. Len(q) : q[i].checked_at > 0
  PROVE  FoldLeft(AndPast, <<>>, q) = q
<1> DEFINE N == Len(q)
<1>1. PICK run \in [0 .. N -> Seq(Snapshots)] :
        /\ run[0] = <<>> /\ run[N] = FoldLeft(AndPast, <<>>, q)
        /\ \A n \in 1 .. N : run[n] = AndPast(run[n - 1], q[n])
  BY RunOfPast
<1>2. N \in Nat /\ \A i \in 1 .. N : q[i] \in Snapshots
  BY LenProperties, ElementOfSeq
<1> DEFINE Good == {n \in 0 .. N : Len(run[n]) = n /\ \A i \in 1 .. n : run[n][i] = q[i]}
<1>3. 0 \in Good
  <2>1. 0 \in 0 .. N /\ Len(<<>>) = 0 /\ \A i \in 1 .. 0 : FALSE
    BY <1>2
  <2> QED
    BY <1>1, <2>1
<1>4. ASSUME NEW n \in 1 .. N, n - 1 \in Good PROVE n \in Good
  <2>1. n - 1 \in 0 .. N /\ n \in 0 .. N /\ n - 1 + 1 = n
    BY <1>2
  <2> DEFINE kept == run[n - 1]
  <2>2. kept \in Seq(Snapshots) /\ Len(kept) = n - 1 /\ \A i \in 1 .. n - 1 : kept[i] = q[i]
    BY <1>4, <2>1
  <2>3. run[n] = Append(kept, q[n])
    BY <1>1 DEF AndPast
  <2> HIDE DEF kept
  <2>4. /\ Len(Append(kept, q[n])) = n /\ Append(kept, q[n])[n] = q[n]
        /\ \A i \in 1 .. n - 1 : Append(kept, q[n])[i] = kept[i]
    <3>1. q[n] \in Snapshots
      BY <1>2
    <3>2. /\ Len(Append(kept, q[n])) = Len(kept) + 1 /\ Append(kept, q[n])[Len(kept) + 1] = q[n]
          /\ \A i \in 1 .. Len(kept) : Append(kept, q[n])[i] = kept[i]
      BY <2>2, <3>1, AppendProperties
    <3> QED
      BY <2>1, <2>2, <3>2
  <2>5. \A i \in 1 .. n : i = n \/ i \in 1 .. n - 1
    BY <1>2
  <2>6. \A i \in 1 .. n : run[n][i] = q[i]
    BY <2>2, <2>3, <2>4, <2>5
  <2> QED
    BY <2>1, <2>3, <2>4, <2>6
<1>5. Good \in SUBSET (0 .. N)
  OBVIOUS
<1> HIDE DEF Good, N
<1>6. Good = 0 .. N
  BY <1>2, <1>3, <1>4, <1>5, Below
<1>7. N \in 0 .. N
  BY <1>2
<1>8. run[N] \in Seq(Snapshots) /\ Len(run[N]) = N /\ \A i \in 1 .. N : run[N][i] = q[i]
  BY <1>6, <1>7 DEF Good
<1>9. run[N] = q
  BY <1>8, SeqEqual DEF N
<1> QED
  BY <1>1, <1>9

\* A restart: what is read of the file is as sound as what was written.
LEMMA LoadedIsSound ==
  ASSUME NEW entry, NEW t, NEW m, NEW s, Sound(entry, t, m, s)
  PROVE  Sound(Loaded(entry), t, m, s)
<1> DEFINE snap == entry.latest
           old == entry.history
           N == Len(old)
           reread == Reread(snap)
           new == [i \in 1 .. N |-> Reread(old[i])]
           loaded == Loaded(entry)
<1>1. /\ entry \in Entries /\ t \in Truths /\ Past(entry) /\ snap \in Snapshots
      /\ old \in Seq(Snapshots) /\ Changed(entry, t)
      /\ Remembered(snap, t.latest, m) /\ LevelIsMade(snap, t.as, s)
  BY DEF Sound, Entries
<1>2. N \in Nat /\ N <= MaxHistory /\ MaxHistory \in Nat /\ \A i \in 1 .. N : old[i] \in Snapshots
  BY <1>1, HealthReportAssumption, LenProperties, ElementOfSeq DEF Past
<1>3. FoldLeft(AndPast, <<>>, old) = old
  <2>1. \A i \in 1 .. Len(old) : old[i].checked_at > 0
    <3>1. \A i \in 1 .. N : 0 < old[i].checked_at /\ old[i].checked_at \in Nat
      BY <1>1, <1>2 DEF Past, Snapshots
    <3> QED
      BY <3>1
  <2> QED
    BY <1>1, <2>1, PastIsKept
<1>4. Min({MaxHistory, N}) = N
  <2>1. {MaxHistory, N} \in SUBSET Nat
    BY <1>2
  <2>2. Min({MaxHistory, N}) \in {MaxHistory, N} /\ Min({MaxHistory, N}) <= N
    BY <2>1, MinIsThere
  <2> QED
    BY <1>2, <2>2
<1>5. loaded = [latest |-> reread, history |-> new]
  BY <1>3, <1>4 DEF Loaded
<1>6. /\ reread \in Snapshots /\ reread.checked_at = snap.checked_at /\ reread.uptime = snap.uptime
      /\ reread.net = snap.net /\ reread.net_delta = snap.net_delta
      /\ reread.rebooted = snap.rebooted /\ LevelIsMade(reread, t.as, s)
  BY <1>1, RereadIs
<1>7. \A i \in 1 .. N : /\ new[i] \in Snapshots /\ new[i].checked_at = old[i].checked_at
                        /\ new[i].net = old[i].net
  BY <1>2, RereadIs
<1>8. new \in Seq(Snapshots) /\ Len(new) = N
  <2>1. new \in [1 .. N -> Snapshots]
    BY <1>7
  <2>2. new \in Seq(Snapshots) /\ DOMAIN new = 1 .. N
    BY <1>2, <2>1, SeqDef
  <2> HIDE DEF new
  <2> QED
    BY <1>2, <2>2, LenProperties
<1> HIDE DEF new, reread, loaded
<1>9. loaded \in Entries /\ loaded.latest = reread /\ loaded.history = new
  BY <1>5, <1>6, <1>8 DEF Entries
<1>10. Past(loaded)
  <2>1. \A i \in 1 .. N : \A j \in 1 .. i - 1 : j \in 1 .. N
    BY <1>2
  <2> QED
    BY <1>1, <1>2, <1>6, <1>7, <1>8, <1>9, <2>1 DEF Past
<1>11. new # <<>> => old # <<>> /\ new[1].net = old[1].net
  <2>1. new # <<>> => N # 0
    BY <1>8, EmptySeq
  <2>2. N # 0 => 1 \in 1 .. N
    BY <1>2
  <2>3. N # 0 => old # <<>>
    BY <1>1, EmptySeq
  <2> QED
    BY <1>7, <2>1, <2>2, <2>3
<1>12. Changed(loaded, t)
  BY <1>1, <1>6, <1>9, <1>11 DEF Changed
<1>13. Remembered(loaded.latest, t.latest, m)
  BY <1>1, <1>6, <1>9 DEF Remembered
<1> QED
  BY <1>1, <1>6, <1>9, <1>10, <1>12, <1>13 DEF Sound, loaded

-----------------------------------------------------------------------------
(* The steps of the whole                                                   *)

LEMMA InitHolds == Init => IInv
<1> SUFFICES ASSUME Init PROVE IInv
  OBVIOUS
<1>1. NoSnapshot \in Snapshots
  BY ReadingKeeps
<1>2. NoEntry \in Entries /\ NoEntry.latest = NoSnapshot /\ NoEntry.history = <<>>
  BY <1>1 DEF NoEntry, Entries
<1>3. NoTruth \in Truths
  BY DEF NoTruth, Truths, Counts
<1>4. Types
  <2>1. \A s \in Servers : machine[s] = [up |-> 0, errors |-> 0, starts |-> 0, total |-> 0]
    BY DEF Init
  <2>2. machine \in [Servers -> Machines]
    BY DEF Init, Machines
  <2>3. entries \in [Servers -> Entries] /\ truth \in [Servers -> Truths]
    BY <1>2, <1>3 DEF Init
  <2>4. file \in [entries : [Servers -> Entries], truth : [Servers -> Truths]]
    BY <2>3 DEF Init
  <2> QED
    BY <2>1, <2>2, <2>3, <2>4 DEF Init, Types
<1>5. ASSUME NEW s \in Servers PROVE Sound(NoEntry, NoTruth, machine[s], s)
  <2>1. /\ machine[s].up = 0 /\ machine[s].errors = 0 /\ machine[s].starts = 0
        /\ machine[s].total = 0
    BY DEF Init
  <2>2. LevelIsMade(NoSnapshot, NoTruth.as, s)
    BY NoneIsNoSettings DEF LevelIsMade, NoTruth
  <2>3. /\ NoSnapshot.uptime = None /\ NoSnapshot.net = None /\ NoSnapshot.net_delta = None
        /\ NoSnapshot.rebooted = FALSE
    BY DEF NoSnapshot
  <2>4. Remembered(NoSnapshot, NoTruth.latest, machine[s])
    BY <2>1, <2>3 DEF Remembered, NoTruth
  <2>5. Past(NoEntry)
    <3>1. Len(<<>>) = 0 /\ 0 <= MaxHistory /\ \A i \in 1 .. 0 : FALSE
      BY HealthReportAssumption
    <3> QED
      BY <1>2, <3>1 DEF Past
  <2>6. Changed(NoEntry, NoTruth)
    BY <1>2, <2>3 DEF Changed
  <2> QED
    BY <1>2, <1>3, <2>2, <2>4, <2>5, <2>6 DEF Sound
<1>6. \A s \in Servers : /\ entries[s] = NoEntry /\ truth[s] = NoTruth
                         /\ file.entries[s] = NoEntry /\ file.truth[s] = NoTruth
  BY DEF Init
<1>7. Checking
  BY DEF Init, Checking
<1> QED
  BY <1>4, <1>5, <1>6, <1>7 DEF IInv

LEMMA ElapseHolds == IInv /\ Elapse => IInv'
<1> SUFFICES ASSUME IInv, Elapse PROVE IInv'
  OBVIOUS
<1>1. clock' \in Nat /\ clock <= clock' /\ clock' > 0
  BY DEF IInv, Types, Elapse
<1>2. UNCHANGED <<machine, settings, check, entries, file, truth>>
  BY DEF Elapse
<1>3. Types'
  <2>1. \A s \in Servers : machine[s].up <= clock'
    <3>1. \A s \in Servers : machine[s].up \in Nat /\ machine[s].up <= clock
      BY DEF IInv, Types, Machines
    <3>2. clock \in Nat
      BY DEF IInv, Types
    <3> QED
      BY <1>1, <3>1, <3>2
  <2> QED
    BY <1>1, <1>2, <2>1 DEF IInv, Types
<1>4. Checking'
  <2>1. ASSUME check # NoCheck PROVE entries[check[1]].latest.checked_at < clock'
    <3>1. check \in Servers \X Settings /\ entries[check[1]].latest.checked_at < clock
      BY <2>1 DEF IInv, Checking
    <3>2. entries[check[1]].latest.checked_at \in Nat /\ clock \in Nat
      BY <3>1 DEF IInv, Types, Entries, Snapshots
    <3> QED
      BY <1>1, <3>1, <3>2
  <2> QED
    BY <1>2, <2>1 DEF IInv, Checking
<1> QED
  BY <1>2, <1>3, <1>4 DEF IInv

\* NetErrors and Reboot
LEMMA MachineStepHolds ==
  ASSUME IInv, NEW s \in Servers, NEW m \in Machines, machine' = [machine EXCEPT ![s] = m],
         \/ /\ m.up = machine[s].up /\ m.starts = machine[s].starts
            /\ m.errors = machine[s].errors + 1 /\ m.total = machine[s].total + 1
         \/ m.errors = 0 /\ m.starts = machine[s].starts + 1 /\ m.total = machine[s].total,
         m.up <= clock,
         UNCHANGED <<clock, settings, check, entries, file, truth>>
  PROVE  IInv'
<1>1. /\ machine \in [Servers -> Machines]
      /\ \A r \in Servers : machine[r].up <= clock /\ machine[r].errors <= machine[r].total
  BY DEF IInv, Types
<1>2. machine' \in [Servers -> Machines] /\ \A r \in Servers : machine'[r] = IF r = s THEN m ELSE machine[r]
  BY <1>1
<1>3. m.errors <= m.total
  <2>1. machine[s] \in Machines /\ machine[s].errors <= machine[s].total
    BY <1>1
  <2> QED
    BY <2>1 DEF Machines
<1>4. Types'
  <2>1. \A r \in Servers : machine'[r].up <= clock' /\ machine'[r].errors <= machine'[r].total
    BY <1>1, <1>2, <1>3
  <2> QED
    BY <1>2, <2>1 DEF IInv, Types
<1>5. ASSUME NEW r \in Servers, NEW e, NEW t, Sound(e, t, machine[r], r)
      PROVE  Sound(e, t, machine'[r], r)
  <2>1. CASE r = s
    <3>1. machine[s] \in Machines
      BY <1>1
    <3> QED
      BY <1>1, <1>2, <1>5, <2>1, <3>1, MachineMovesOn
  <2>2. CASE r # s
    BY <1>2, <1>5, <2>2
  <2> QED
    BY <2>1, <2>2
<1>6. ASSUME NEW r \in Servers
      PROVE  /\ Sound(entries[r], truth[r], machine'[r], r)
             /\ Sound(file.entries[r], file.truth[r], machine'[r], r)
  BY <1>5 DEF IInv
<1>7. Checking'
  BY DEF IInv, Checking
<1> QED
  BY <1>4, <1>6, <1>7 DEF IInv

LEMMA NetErrorsHolds == ASSUME IInv, NEW s \in Servers, NetErrors(s) PROVE IInv'
<1> DEFINE k == machine[s]
           m == [k EXCEPT !.errors = k.errors + 1, !.total = k.total + 1]
<1>1. k \in Machines /\ k.up <= clock
  BY DEF IInv, Types
<1>2. machine' = [machine EXCEPT ![s] = m]
  BY DEF NetErrors, IInv, Types
<1>3. /\ m \in Machines /\ m.up = k.up /\ m.starts = k.starts
      /\ m.errors = k.errors + 1 /\ m.total = k.total + 1
  <2> HIDE DEF k
  <2>1. k.errors + 1 \in Nat /\ k.total + 1 \in Nat
    BY <1>1 DEF Machines
  <2> QED
    BY <1>1, <2>1 DEF Machines
<1>4. UNCHANGED <<clock, settings, check, entries, file, truth>>
  BY DEF NetErrors
<1> HIDE DEF m
<1> QED
  BY <1>1, <1>2, <1>3, <1>4, MachineStepHolds

LEMMA RebootHolds == ASSUME IInv, NEW s \in Servers, Reboot(s) PROVE IInv'
<1> DEFINE k == machine[s]
           m == [up |-> clock, errors |-> 0, starts |-> k.starts + 1, total |-> k.total]
<1>1. k \in Machines /\ clock \in Nat
  BY DEF IInv, Types
<1>2. machine' = [machine EXCEPT ![s] = m]
  BY DEF Reboot, IInv, Types
<1>3. /\ m \in Machines /\ m.up = clock /\ m.starts = k.starts + 1
      /\ m.errors = 0 /\ m.total = k.total
  <2> HIDE DEF k
  <2>1. k.starts + 1 \in Nat
    BY <1>1 DEF Machines
  <2> QED
    BY <1>1, <2>1 DEF Machines
<1>4. UNCHANGED <<clock, settings, check, entries, file, truth>>
  BY DEF Reboot
<1>5. m.up <= clock
  BY <1>1, <1>3
<1> HIDE DEF m
<1> QED
  BY <1>2, <1>3, <1>4, <1>5, MachineStepHolds

LEMMA StartCheckHolds == ASSUME IInv, NEW s \in Servers, StartCheck(s) PROVE IInv'
<1>1. UNCHANGED <<machine, clock, settings, entries, file, truth>> /\ check' = <<s, settings>>
  BY DEF StartCheck
<1>2. Types'
  BY <1>1 DEF IInv, Types
<1>3. Checking'
  <2>1. check' \in Servers \X Settings /\ check'[1] = s
    BY <1>1 DEF IInv, Types
  <2>2. entries[s].latest.checked_at < clock
    BY DEF StartCheck
  <2> QED
    BY <1>1, <2>1, <2>2 DEF Checking
<1> QED
  BY <1>1, <1>2, <1>3 DEF IInv

\* FinishCheck and FailCheck
LEMMA StoreHolds ==
  ASSUME IInv, check # NoCheck, NEW snap, Store(snap), OfNow(snap, machine[check[1]]),
         LevelIsMade(snap, check[2], check[1])
  PROVE  IInv'
<1> DEFINE s == check[1]
           as == check[2]
           m == machine[s]
           e == Stored(entries[s], snap, settings.ign[s])
           t == [as |-> IF as = settings THEN settings ELSE <<>>,
                 latest |-> [starts |-> m.starts, errors |-> m.total],
                 before |-> truth[s].latest]
<1>1. s \in Servers /\ as \in Settings /\ entries[s].latest.checked_at < clock
  BY DEF IInv, Checking
<1>2. /\ m \in Machines /\ m.up <= clock /\ m.errors <= m.total /\ clock \in Nat
      /\ settings \in Settings /\ Sound(entries[s], truth[s], m, s)
      /\ entries \in [Servers -> Entries] /\ truth \in [Servers -> Truths]
  BY <1>1 DEF IInv, Types
<1>3. /\ entries' = [entries EXCEPT ![s] = e] /\ truth' = [truth EXCEPT ![s] = t]
      /\ \/ file' = [entries |-> entries', truth |-> truth']
         \/ file' = file
      /\ check' = NoCheck /\ UNCHANGED <<machine, clock, settings>>
  BY DEF Store
<1>4. OfNow(snap, m) /\ LevelIsMade(snap, as, s)
  OBVIOUS
<1> HIDE DEF s, as, m
<1>5. Sound(e, t, m, s)
  BY <1>1, <1>2, <1>4, StoredIsSound
<1>6. e \in Entries /\ t \in Truths
  BY <1>5 DEF Sound
<1> HIDE DEF e, t
<1>7. /\ entries' \in [Servers -> Entries] /\ truth' \in [Servers -> Truths]
      /\ \A r \in Servers : entries'[r] = (IF r = s THEN e ELSE entries[r])
                            /\ truth'[r] = (IF r = s THEN t ELSE truth[r])
  BY <1>2, <1>3, <1>6
<1>8. \A r \in Servers : Sound(entries'[r], truth'[r], machine'[r], r)
  BY <1>3, <1>5, <1>7 DEF IInv, m
<1>9. /\ file' \in [entries : [Servers -> Entries], truth : [Servers -> Truths]]
      /\ \A r \in Servers : Sound(file'.entries[r], file'.truth[r], machine'[r], r)
  <2>1. CASE file' = file
    BY <1>3, <2>1 DEF IInv, Types
  <2>2. CASE file' = [entries |-> entries', truth |-> truth']
    <3>1. file'.entries = entries' /\ file'.truth = truth'
      BY <2>2
    <3> QED
      BY <1>7, <1>8, <2>2, <3>1
  <2> QED
    BY <1>3, <2>1, <2>2
<1>10. Types'
  BY <1>3, <1>7, <1>9 DEF IInv, Types
<1>11. Checking'
  BY <1>3 DEF Checking
<1> QED
  BY <1>8, <1>9, <1>10, <1>11 DEF IInv

LEMMA FinishCheckHolds == ASSUME IInv, NEW output \in Outputs, FinishCheck(output) PROVE IInv'
<1> DEFINE s == check[1]
           as == check[2]
           m == machine[s]
           snap == Checked(output, s, as, m)
<1>1. check # NoCheck /\ Store(snap)
  BY DEF FinishCheck
<1>2. s \in Servers /\ as \in Settings
  BY <1>1 DEF IInv, Checking
<1>3. m.errors \in Nat /\ clock - m.up \in Nat /\ clock \in Nat
  <2>1. m \in Machines /\ m.up <= clock /\ clock \in Nat
    BY <1>2 DEF IInv, Types
  <2>2. m.errors \in Nat /\ m.up \in Nat
    BY <2>1 DEF Machines
  <2> QED
    BY <2>1, <2>2
<1>4. OfNow(snap, m) /\ LevelIsMade(snap, as, s)
  <2> HIDE DEF s, as, m
  <2> QED
    BY <1>2, <1>3, CheckedIs
<1> HIDE DEF snap
<1> QED
  BY <1>1, <1>4, StoreHolds

LEMMA FailCheckHolds == ASSUME IInv, FailCheck PROVE IInv'
<1>1. check # NoCheck /\ Store(Offline)
  BY DEF FailCheck
<1>2. clock \in Nat
  BY DEF IInv, Types
<1>3. OfNow(Offline, machine[check[1]]) /\ LevelIsMade(Offline, check[2], check[1])
  BY <1>2, OfflineIs
<1> QED
  BY <1>1, <1>3, StoreHolds

LEMMA ChangeSettingsHolds == IInv /\ ChangeSettings => IInv'
<1> SUFFICES ASSUME IInv, ChangeSettings PROVE IInv'
  OBVIOUS
<1>1. PICK new \in Settings \ {settings} :
        /\ settings' = new
        /\ entries' = [s \in Servers |-> [entries[s] EXCEPT !.latest =
                         Applied(entries[s].latest, new.th, new.ign[s])]]
        /\ truth' = [s \in Servers |-> [truth[s] EXCEPT !.as = new]]
        /\ UNCHANGED <<machine, clock, check, file>>
  BY DEF ChangeSettings
<1>2. ASSUME NEW s \in Servers PROVE Sound(entries'[s], truth'[s], machine'[s], s)
  <2> DEFINE e == entries[s]
             t == truth[s]
             m == machine[s]
  <2>1. Sound(e, t, m, s)
    BY DEF IInv
  <2>2. /\ entries'[s] = [e EXCEPT !.latest = Applied(e.latest, new.th, new.ign[s])]
        /\ truth'[s] = [t EXCEPT !.as = new] /\ machine'[s] = m
    BY <1>1
  <2> HIDE DEF e, t, m
  <2> QED
    BY <2>1, <2>2, AppliedIsSound
<1>3. ASSUME NEW s \in Servers PROVE entries'[s] \in Entries /\ truth'[s] \in Truths
  BY <1>2 DEF Sound
<1>4. entries' \in [Servers -> Entries] /\ truth' \in [Servers -> Truths]
  <2>1. entries' = [s \in Servers |-> entries'[s]] /\ truth' = [s \in Servers |-> truth'[s]]
    BY <1>1
  <2> QED
    BY <1>3, <2>1
<1>5. Types'
  BY <1>1, <1>4 DEF IInv, Types
<1>6. Checking'
  <2>1. ASSUME check # NoCheck PROVE entries'[check[1]].latest.checked_at < clock
    <3> DEFINE s == check[1]
               e == entries[s]
               applied == Applied(e.latest, new.th, new.ign[s])
    <3>1. s \in Servers /\ e.latest.checked_at < clock /\ e \in Entries
      BY <2>1 DEF IInv, Checking, Types
    <3>2. entries'[s] = [e EXCEPT !.latest = applied]
      BY <1>1, <3>1
    <3>3. e.latest \in Snapshots
      BY <3>1 DEF Entries
    <3> HIDE DEF e
    <3>4. applied = [e.latest EXCEPT !.level = applied.level]
      BY <3>3, AppliedIs
    <3> HIDE DEF applied
    <3>5. applied.checked_at = e.latest.checked_at
      BY <3>3, <3>4 DEF Snapshots
    <3>6. entries'[s].latest = applied
      BY <3>1, <3>2 DEF Entries
    <3> QED
      BY <3>1, <3>5, <3>6
  <2> QED
    BY <1>1, <2>1 DEF IInv, Checking
<1> QED
  BY <1>1, <1>2, <1>5, <1>6 DEF IInv

LEMMA RestartHolds == IInv /\ Restart => IInv'
<1> SUFFICES ASSUME IInv, Restart PROVE IInv'
  OBVIOUS
<1>1. /\ entries' = [s \in Servers |-> Loaded(file.entries[s])]
      /\ truth' = file.truth /\ check' = NoCheck
      /\ UNCHANGED <<machine, clock, settings, file>>
  BY DEF Restart
<1>2. ASSUME NEW s \in Servers PROVE Sound(entries'[s], truth'[s], machine'[s], s)
  <2>1. Sound(file.entries[s], file.truth[s], machine[s], s)
    BY DEF IInv
  <2>2. Sound(Loaded(file.entries[s]), file.truth[s], machine[s], s)
    BY <2>1, LoadedIsSound
  <2> QED
    BY <1>1, <2>2
<1>3. ASSUME NEW s \in Servers PROVE entries'[s] \in Entries
  BY <1>2 DEF Sound
<1>4. entries' \in [Servers -> Entries] /\ truth' \in [Servers -> Truths]
  <2>1. entries' = [s \in Servers |-> entries'[s]]
    BY <1>1
  <2>2. file.truth \in [Servers -> Truths]
    BY DEF IInv, Types
  <2> QED
    BY <1>1, <1>3, <2>1, <2>2
<1>5. Types'
  BY <1>1, <1>4 DEF IInv, Types
<1>6. Checking'
  BY <1>1 DEF Checking
<1> QED
  BY <1>1, <1>2, <1>5, <1>6 DEF IInv

LEMMA NextHolds == IInv /\ [Next]_vars => IInv'
<1> SUFFICES ASSUME IInv, [Next]_vars PROVE IInv'
  OBVIOUS
<1>1. CASE Elapse
  BY <1>1, ElapseHolds
<1>2. CASE \E s \in Servers : NetErrors(s) \/ Reboot(s) \/ StartCheck(s)
  BY <1>2, NetErrorsHolds, RebootHolds, StartCheckHolds
<1>3. CASE \E output \in Outputs : FinishCheck(output)
  BY <1>3, FinishCheckHolds
<1>4. CASE FailCheck
  BY <1>4, FailCheckHolds
<1>5. CASE ChangeSettings
  BY <1>5, ChangeSettingsHolds
<1>6. CASE Restart
  BY <1>6, RestartHolds
<1>7. CASE UNCHANGED vars
  BY <1>7 DEF vars, IInv, Types, Checking
<1> QED
  BY <1>1, <1>2, <1>3, <1>4, <1>5, <1>6, <1>7 DEF Next

\* What is known of every server is sound in every state, in memory and in the file, over
\* checks that end, fail or are cut off, changes of the settings, reboots and restarts.
THEOREM InvariantHolds == Spec => []IInv
<1>1. Init => IInv
  BY InitHolds
<1>2. IInv /\ [Next]_vars => IInv'
  BY NextHolds
<1> QED
  BY <1>1, <1>2, PTL DEF Spec

-----------------------------------------------------------------------------
(* The properties                                                           *)

\* An alert has its reasons and a reason is an alert, and no badge is worse than its row.
THEOREM AlertsAreExplained == Spec => []AlertsExplained
<1>1. IInv => AlertsExplained
  <2>1. IInv => settings \in Settings /\ \A s \in Servers : entries[s].latest \in Snapshots
    BY DEF IInv, Types, Entries
  <2> QED
    BY <2>1, AllExplained
<1> QED
  BY <1>1, InvariantHolds, PTL

\* The button of the main window counts the servers whose rows are red.
THEOREM ButtonCountsRed == Spec => []ButtonAgrees
<1>1. ASSUME IInv, NEW s \in settings.enabled, truth[s].as = settings
      PROVE  s \in FleetAlert <=> Row(s).level \in {"crit", "offline"}
  <2> DEFINE snap == entries[s].latest
  <2>1. settings \in Settings /\ s \in Servers
    BY <1>1, SettingsAssumption DEF IInv, Types
  <2>2. LevelIsMade(snap, settings, s) /\ snap \in Snapshots
    BY <1>1, <2>1 DEF IInv, Sound, Entries
  <2>3. s \in FleetAlert <=> snap.level \in {"crit", "offline"}
    BY <1>1 DEF FleetAlert
  <2>4. Row(s) = Applied(snap, settings.th, settings.ign[s])
    BY DEF Row
  <2> HIDE DEF snap
  <2>5. CASE snap.level \in {"offline", "unsupported"}
    <3>1. Row(s) = snap
      BY <2>2, <2>4, <2>5, AppliedIs
    <3> QED
      BY <2>3, <3>1
  <2>6. CASE snap.level \notin {"offline", "unsupported"}
    <3>1. /\ Row(s).level \in Four
          /\ Row(s).level = "crit" <=> "crit" \in Contributions(snap, settings.th, settings.ign[s])
      BY <2>2, <2>4, <2>6, AppliedIs
    <3> QED
      BY <2>1, <2>2, <2>3, <2>6, <3>1 DEF LevelIsMade, Four
  <2> QED
    BY <2>5, <2>6
<1>2. IInv => ButtonAgrees
  BY <1>1 DEF ButtonAgrees
<1> QED
  BY <1>2, InvariantHolds, PTL

\* The curves of a card are drawn in the order of their times.
LEMMA PointsInOrder ==
  ASSUME NEW entry \in Entries, Past(entry),
         NEW i \in 1 .. Len(SparkPoints(entry)) - 1
  PROVE  SparkPoints(entry)[i].checked_at < SparkPoints(entry)[i + 1].checked_at
<1> DEFINE old == entry.history
           N == Len(old)
           back == Reverse(old)
           last == IF entry.latest.checked_at > 0 THEN <<entry.latest>> ELSE <<>>
           points == SparkPoints(entry)
<1>1. old \in Seq(Snapshots) /\ N \in Nat /\ entry.latest \in Snapshots
  BY LenProperties DEF Entries
<1>2. \A j \in 1 .. N : old[j] \in Snapshots
  BY <1>1, ElementOfSeq
<1>3. /\ back \in Seq(Snapshots) /\ Len(back) = N
      /\ \A j \in 1 .. N : back[j] = old[(N - j) + 1]
  <2>1. back = [j \in 1 .. N |-> old[(N - j) + 1]]
    BY DEF Reverse
  <2>2. \A j \in 1 .. N : (N - j) + 1 \in 1 .. N
    BY <1>1
  <2>3. back \in [1 .. N -> Snapshots]
    BY <1>2, <2>1, <2>2
  <2>4. back \in Seq(Snapshots) /\ DOMAIN back = 1 .. N
    BY <1>1, <2>3, SeqDef
  <2>5. Len(back) = N
    <3> HIDE DEF back
    <3> QED
      BY <1>1, <2>4, LenProperties
  <2> QED
    BY <2>1, <2>4, <2>5
<1> HIDE DEF back
<1>4. last \in Seq(Snapshots) /\ Len(last) \in {0, 1} /\ (Len(last) = 1 => last[1] = entry.latest)
  BY <1>1
<1> HIDE DEF last
<1>5. /\ Len(points) = N + Len(last)
      /\ \A j \in 1 .. N + Len(last) : points[j] = IF j <= N THEN back[j] ELSE last[j - N]
  <2>1. points = back \o last
    BY DEF SparkPoints, back, last
  <2>2. /\ Len(back \o last) = Len(back) + Len(last)
        /\ \A j \in 1 .. Len(back) + Len(last) :
             (back \o last)[j] = IF j <= Len(back) THEN back[j] ELSE last[j - Len(back)]
    BY <1>3, <1>4, ConcatProperties
  <2> HIDE DEF points
  <2> QED
    BY <1>3, <2>1, <2>2
<1> HIDE DEF points
<1>6. i \in Int /\ 1 <= i /\ i + 1 <= N + Len(last) /\ i <= N
  <2>1. i \in 1 .. (N + Len(last)) - 1
    BY <1>5 DEF points
  <2>2. CASE Len(last) = 0
    <3> HIDE DEF N
    <3> QED
      BY <1>1, <2>1, <2>2
  <2>3. CASE Len(last) = 1
    <3> HIDE DEF N
    <3> QED
      BY <1>1, <2>1, <2>3
  <2> QED
    BY <1>4, <2>2, <2>3
<1>7. points[i] = old[(N - i) + 1]
  <2>1. i \in 1 .. N + Len(last) /\ i \in 1 .. N
    BY <1>1, <1>4, <1>6
  <2> QED
    BY <1>3, <1>5, <1>6, <2>1
<1>8. CASE i + 1 <= N
  <2>1. points[i + 1] = old[N - i]
    <3>1. i + 1 \in 1 .. N + Len(last) /\ i + 1 \in 1 .. N /\ (N - (i + 1)) + 1 = N - i
      BY <1>1, <1>4, <1>6, <1>8
    <3> QED
      BY <1>3, <1>5, <1>8, <3>1
  <2>2. (N - i) + 1 \in 1 .. N /\ N - i \in 1 .. ((N - i) + 1) - 1
    BY <1>1, <1>6, <1>8
  <2>3. old[(N - i) + 1].checked_at < old[N - i].checked_at
    BY <2>2 DEF Past
  <2> QED
    BY <1>7, <2>1, <2>3 DEF points
<1>9. CASE i + 1 > N
  <2>1. i = N /\ Len(last) = 1
    BY <1>1, <1>4, <1>6, <1>9
  <2>2. points[i + 1] = entry.latest
    <3>1. i + 1 \in 1 .. N + Len(last) /\ ~(i + 1 <= N) /\ (i + 1) - N = 1
      BY <1>1, <1>6, <2>1
    <3> QED
      BY <1>4, <1>5, <2>1, <3>1
  <2>3. points[i] = old[1] /\ 1 \in 1 .. N
    BY <1>1, <1>6, <1>7, <2>1
  <2>4. old[1].checked_at < entry.latest.checked_at
    BY <2>3 DEF Past
  <2> QED
    BY <2>2, <2>3, <2>4 DEF points
<1> QED
  BY <1>1, <1>6, <1>8, <1>9

\* What is said to have changed has changed, over restarts and reboots at any time.
THEOREM OnlyRealChanges == Spec => []ChangesAreReal
<1>1. ASSUME IInv, NEW s \in Servers
      PROVE  LET now == entries[s].latest
                 real == truth[s].latest.errors - truth[s].before.errors
                 again == truth[s].latest.starts > truth[s].before.starts
                 points == SparkPoints(entries[s])
             IN /\ now.rebooted => again
                /\ now.net_delta # None => /\ now.net_delta \in 0..real
                                           /\ ~again => now.net_delta = real
                /\ (entries[s].history # <<>> /\ entries[s].history[1].checked_at # now.checked_at) =>
                     Trend(now, entries[s].history[1]).net = now.net_delta
                /\ \A i \in 1..(Len(points) - 1) : points[i].checked_at < points[i + 1].checked_at
  <2> DEFINE entry == entries[s]
             t == truth[s]
             now == entry.latest
             old == entry.history
  <2>1. entry \in Entries /\ Past(entry) /\ Changed(entry, t)
    BY <1>1 DEF IInv, Sound
  <2>2. \A i \in 1..(Len(SparkPoints(entry)) - 1) :
          SparkPoints(entry)[i].checked_at < SparkPoints(entry)[i + 1].checked_at
    BY <2>1, PointsInOrder
  <2>3. ASSUME old # <<>> PROVE Trend(now, old[1]).net = now.net_delta
    <3>1. old \in Seq(Snapshots) /\ Len(old) \in Nat
      BY <2>1, LenProperties DEF Entries
    <3>2. 1 \in 1 .. Len(old)
      BY <2>3, <3>1, EmptySeq
    <3>3. 0 < old[1].checked_at /\ old[1].checked_at < now.checked_at
      BY <2>1, <3>2 DEF Past
    <3>4. old[1].checked_at \in Nat /\ now.checked_at \in Nat
      <4>1. old[1] \in Snapshots /\ now \in Snapshots
        BY <2>1, <3>1, <3>2, ElementOfSeq DEF Entries
      <4> QED
        BY <4>1 DEF Snapshots
    <3>5. old[1].checked_at > 0 /\ now.checked_at > 0
      BY <3>3, <3>4
    <3>6. Trend(now, old[1]).net = Growth(now.net, old[1].net)
      <4> HIDE DEF now, old
      <4> QED
        BY <3>5 DEF Trend
    <3> QED
      BY <2>1, <2>3, <3>6 DEF Changed
  <2> QED
    BY <2>1, <2>2, <2>3 DEF Changed
<1>2. IInv => ChangesAreReal
  BY <1>1 DEF ChangesAreReal
<1> QED
  BY <1>2, InvariantHolds, PTL
===============================================================================
