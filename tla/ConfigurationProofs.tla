------------------------- MODULE ConfigurationProofs -------------------------
(***************************************************************************)
(* What holds of Configuration for every value of its constants: whatever  *)
(* is added, moved, copied, deleted, saved or not saved, every group,      *)
(* command and bundle belongs to a server that exists, and every command   *)
(* to a group of its own server; the order of the commands changes by      *)
(* moves only, and bundles keep to the commands of their server. And what  *)
(* holds of ConfigTransfer: imports of any files leave every reference     *)
(* whole, a second import of a file adds nothing, and neither does that of *)
(* an own export, which brings everything back when it replaces all.       *)
(***************************************************************************)
EXTENDS ConfigTransfer, SequenceTheorems, WellFoundedInduction, TLAPS

Parts == {"servers", "groups", "commands", "order", "bundles", "last_group", "last_server"}

\* The parts of a configuration that refer to each other: their ids have been
\* issued, and what they hold has the fields by which it refers and is referred to.
Shaped(cfg, n) ==
  /\ DOMAIN cfg = Parts
  /\ DOMAIN cfg.servers \subseteq 1 .. n
  /\ DOMAIN cfg.groups \subseteq 1 .. n
  /\ DOMAIN cfg.commands \subseteq 1 .. n
  /\ DOMAIN cfg.bundles \subseteq 1 .. n
  /\ \A g \in DOMAIN cfg.groups : {"server", "name"} \subseteq DOMAIN cfg.groups[g] /\ cfg.groups[g].name # NoName
  /\ \A c \in DOMAIN cfg.commands : {"server", "group"} \subseteq DOMAIN cfg.commands[c]
  /\ \A b \in DOMAIN cfg.bundles : "server" \in DOMAIN cfg.bundles[b]

Good(cfg, n) == Shaped(cfg, n) /\ References(cfg)

IInv ==
  /\ issued \in Nat
  /\ Good(config, issued) /\ Good(file, issued)
  /\ shown \in {NoId} \cup DOMAIN config.servers
  /\ tab \in {NoId} \cup GroupsFor(config, shown)

\* The parts References looks at are the same in both.
Alike(cfg, other) ==
  /\ cfg.servers = other.servers /\ cfg.groups = other.groups
  /\ cfg.commands = other.commands /\ cfg.bundles = other.bundles

-----------------------------------------------------------------------------
(* What a loop over a vector keeps                                          *)

\* What is true of 0 and of the next of every n up to N is true of all up to N.
LEMMA Below ==
  ASSUME NEW N \in Nat, NEW True \in SUBSET (0 .. N),
         0 \in True, \A n \in 1 .. N : n - 1 \in True => n \in True
  PROVE  True = 0 .. N
  <1> DEFINE R == {p \in Nat \X Nat : p[1] < p[2]}
             S == (0 .. N) \ True
  <1>1. SUFFICES ASSUME S # {} PROVE FALSE
    OBVIOUS
  <1>2. IsWellFoundedOn(R, Nat)
    BY NatLessThanWellFounded DEF OpToRel
  <1>3. S \subseteq Nat
    OBVIOUS
  <1>4. PICK x \in S : \A y \in S : ~(<<y, x>> \in R)
    BY <1>1, <1>2, <1>3, WFMin
  <1>5. x \in 1 .. N /\ x \notin True
    OBVIOUS
  <1>6. x - 1 \in S
    BY <1>5
  <1>7. <<x - 1, x>> \in Nat \X Nat /\ <<x - 1, x>>[1] < <<x - 1, x>>[2]
    BY <1>5
  <1>8. QED
    BY <1>4, <1>6, <1>7

LEMMA NothingInEmpty == DOMAIN <<>> = {}
  OBVIOUS

\* One more element, kept or not.
NextKept(s, S, n, before) == IF s[n] \in S THEN Append(before, s[n]) ELSE before

\* The function g goes through the first n elements as the loop does.
KeepsUpTo(s, S, n, g) ==
  g = [m \in 0 .. n |-> IF m = 0 THEN <<>> ELSE NextKept(s, S, m, g[m - 1])]

\* There is such a function for every n: the loop ends.
LEMMA LoopIsThere ==
  ASSUME NEW s \in Seq(Nat), NEW S, NEW n \in 0 .. Len(s)
  PROVE  \E g : KeepsUpTo(s, S, n, g)
  <1> DEFINE There == {m \in 0 .. Len(s) : \E g : KeepsUpTo(s, S, m, g)}
  <1>1. Len(s) \in Nat
    BY LenProperties
  <1>2. 0 \in There
    <2> DEFINE g == [m \in {0} |-> <<>>]
    <2>1. 0 .. 0 = {0}
      OBVIOUS
    <2>2. KeepsUpTo(s, S, 0, g)
      BY <2>1 DEF KeepsUpTo
    <2>3. QED
      BY <1>1, <2>2
  <1>3. ASSUME NEW m \in 1 .. Len(s), m - 1 \in There
        PROVE  m \in There
    <2>1. PICK g : KeepsUpTo(s, S, m - 1, g)
      BY <1>3
    <2> DEFINE h == [k \in 0 .. m |-> IF k = m THEN NextKept(s, S, m, g[m - 1]) ELSE g[k]]
    <2>2. ASSUME NEW k \in 0 .. m
          PROVE  h[k] = IF k = 0 THEN <<>> ELSE NextKept(s, S, k, h[k - 1])
      <3>1. CASE k = m
        <4>1. h[k - 1] = g[m - 1] /\ h[k] = NextKept(s, S, m, g[m - 1]) /\ k # 0
          BY <3>1
        <4>2. QED
          BY <3>1, <4>1
      <3>2. CASE k = 0
        <4>1. h[k] = g[k] /\ 0 \in 0 .. m - 1
          BY <3>2
        <4>2. g[0] = <<>>
          BY <2>1, <4>1 DEF KeepsUpTo
        <4>3. QED
          BY <3>2, <4>1, <4>2
      <3>3. CASE k # m /\ k # 0
        <4>1. h[k] = g[k] /\ h[k - 1] = g[k - 1] /\ k \in 0 .. m - 1
          BY <3>3
        <4>2. g[k] = NextKept(s, S, k, g[k - 1])
          BY <2>1, <3>3, <4>1 DEF KeepsUpTo
        <4>3. QED
          BY <3>3, <4>1, <4>2
      <3>4. QED
        BY <3>1, <3>2, <3>3
    <2>3. h = [k \in 0 .. m |-> h[k]]
      OBVIOUS
    <2> HIDE DEF h
    <2>4. KeepsUpTo(s, S, m, h)
      BY <2>2, <2>3 DEF KeepsUpTo
    <2>5. m \in 0 .. Len(s)
      OBVIOUS
    <2>6. QED
      BY <2>4, <2>5
  <1> HIDE DEF There
  <1>4. There = 0 .. Len(s)
    <2>1. There \in SUBSET (0 .. Len(s))
      BY DEF There
    <2>2. QED
      BY <1>1, <1>2, <1>3, <2>1, Below
  <1>5. QED
    BY <1>4 DEF There

\* The loop goes on from element to element.
LEMMA KeptOneByOne ==
  ASSUME NEW s \in Seq(Nat), NEW S
  PROVE  /\ KeptSoFar(s, S)[0] = <<>>
         /\ \A n \in 1 .. Len(s) : KeptSoFar(s, S)[n] = NextKept(s, S, n, KeptSoFar(s, S)[n - 1])
  <1> DEFINE kept == KeptSoFar(s, S)
  <1>1. Len(s) \in Nat
    BY LenProperties
  <1>2. PICK g : KeepsUpTo(s, S, Len(s), g)
    <2>1. Len(s) \in 0 .. Len(s)
      BY <1>1
    <2>2. QED
      BY <2>1, LoopIsThere
  <1>3. kept = CHOOSE h : h = [n \in 0 .. Len(s) |->
                                 IF n = 0 THEN <<>>
                                 ELSE IF s[n] \in S THEN Append(h[n - 1], s[n])
                                 ELSE h[n - 1]]
    BY DEF KeptSoFar
  <1>4. kept = [n \in 0 .. Len(s) |->
                  IF n = 0 THEN <<>>
                  ELSE IF s[n] \in S THEN Append(kept[n - 1], s[n])
                  ELSE kept[n - 1]]
    BY <1>2, <1>3 DEF KeepsUpTo, NextKept
  <1> HIDE DEF kept
  <1>5. kept[0] = <<>>
    BY <1>1, <1>4
  <1>6. ASSUME NEW n \in 1 .. Len(s)
        PROVE  kept[n] = NextKept(s, S, n, kept[n - 1])
    <2>1. n \in 0 .. Len(s) /\ n # 0
      OBVIOUS
    <2>2. QED
      BY <1>4, <2>1 DEF NextKept
  <1>7. QED
    BY <1>5, <1>6 DEF kept

\* c stands in s, and d behind it.
Ahead(s, c, d) == \E i, j \in DOMAIN s : i < j /\ s[i] = c /\ s[j] = d

\* k is what of the first n elements of s is in S, in the same order.
KeptOf(s, S, n, k) ==
  /\ k \in Seq(Nat)
  /\ \A i \in DOMAIN k : k[i] \in S /\ \E j \in 1 .. n : s[j] = k[i]
  /\ \A j \in 1 .. n : s[j] \in S => \E i \in DOMAIN k : k[i] = s[j]
  /\ \A a, b \in 1 .. n : a < b /\ s[a] \in S /\ s[b] \in S => Ahead(k, s[a], s[b])
  /\ IsInjective(s) => IsInjective(k)

LEMMA OneElementKept ==
  ASSUME NEW s \in Seq(Nat), NEW S, NEW n \in 1 .. Len(s), NEW k, KeptOf(s, S, n - 1, k)
  PROVE  KeptOf(s, S, n, NextKept(s, S, n, k))
  <1>1. /\ n \in Nat /\ n - 1 \in Nat /\ 1 .. n = (1 .. (n - 1)) \cup {n} /\ n \notin 1 .. (n - 1)
        /\ DOMAIN s = 1 .. Len(s) /\ 1 .. n \subseteq DOMAIN s
        /\ \A j \in 1 .. (n - 1) : j < n
    BY LenProperties
  <1>2. s[n] \in Nat
    BY ElementOfSeq
  <1>3. k \in Seq(Nat) /\ DOMAIN k = 1 .. Len(k) /\ Len(k) \in Nat
    BY LenProperties DEF KeptOf
  <1>4. \A a, b \in 1 .. n : a < b => a \in 1 .. (n - 1)
    BY <1>1
  <1>5. CASE s[n] \notin S
    <2>1. NextKept(s, S, n, k) = k
      BY <1>5 DEF NextKept
    <2>2. ASSUME NEW a \in 1 .. n, NEW b \in 1 .. n, a < b, s[a] \in S, s[b] \in S
          PROVE  Ahead(k, s[a], s[b])
      <3>1. a \in 1 .. (n - 1) /\ b \in 1 .. (n - 1)
        BY <1>1, <1>5, <2>2
      <3>2. QED
        BY <2>2, <3>1 DEF KeptOf
    <2>3. \A j \in 1 .. n : s[j] \in S => \E i \in DOMAIN k : k[i] = s[j]
      BY <1>1, <1>5 DEF KeptOf
    <2>4. \A i \in DOMAIN k : k[i] \in S /\ \E j \in 1 .. n : s[j] = k[i]
      BY <1>1 DEF KeptOf
    <2>5. IsInjective(s) => IsInjective(k)
      BY DEF KeptOf
    <2>6. QED
      BY <1>3, <2>1, <2>2, <2>3, <2>4, <2>5 DEF KeptOf
  <1>6. CASE s[n] \in S
    <2> DEFINE m == Append(k, s[n])
    <2>1. NextKept(s, S, n, k) = m
      BY <1>6 DEF NextKept
    <2>2. /\ m \in Seq(Nat) /\ Len(m) = Len(k) + 1
          /\ m[Len(k) + 1] = s[n] /\ \A i \in 1 .. Len(k) : m[i] = k[i]
      BY <1>2, <1>3, AppendProperties
    <2> HIDE DEF m
    <2>3. /\ DOMAIN m = (1 .. Len(k)) \cup {Len(k) + 1}
          /\ \A i \in DOMAIN k : i \in DOMAIN m /\ i < Len(k) + 1 /\ m[i] = k[i]
          /\ Len(k) + 1 \in DOMAIN m /\ Len(k) + 1 \notin DOMAIN k
      <3>1. DOMAIN m = 1 .. Len(m)
        BY <2>2, LenProperties
      <3>2. QED
        BY <1>3, <2>2, <3>1
    <2>4. \A i \in DOMAIN m : i = Len(k) + 1 \/ i \in DOMAIN k
      BY <1>3, <2>3
    <2>5. ASSUME NEW i \in DOMAIN m
          PROVE  m[i] \in S /\ \E j \in 1 .. n : s[j] = m[i]
      <3>1. CASE i = Len(k) + 1
        BY <1>1, <1>6, <2>2, <3>1
      <3>2. CASE i \in DOMAIN k
        BY <1>1, <2>3, <3>2 DEF KeptOf
      <3>3. QED
        BY <2>4, <3>1, <3>2
    <2>6. ASSUME NEW j \in 1 .. n, s[j] \in S
          PROVE  \E i \in DOMAIN m : m[i] = s[j]
      <3>1. CASE j = n
        BY <2>2, <2>3, <3>1
      <3>2. CASE j \in 1 .. (n - 1)
        <4>1. PICK i \in DOMAIN k : k[i] = s[j]
          BY <2>6, <3>2 DEF KeptOf
        <4>2. QED
          BY <2>3, <4>1
      <3>3. QED
        BY <1>1, <3>1, <3>2
    <2>7. ASSUME NEW a \in 1 .. n, NEW b \in 1 .. n, a < b, s[a] \in S, s[b] \in S
          PROVE  Ahead(m, s[a], s[b])
      <3>1. a \in 1 .. (n - 1)
        BY <1>4, <2>7
      <3>2. CASE b = n
        <4>1. PICK i \in DOMAIN k : k[i] = s[a]
          BY <2>7, <3>1 DEF KeptOf
        <4>2. i \in DOMAIN m /\ i < Len(k) + 1 /\ m[i] = s[a] /\ m[Len(k) + 1] = s[b]
          BY <2>2, <2>3, <3>2, <4>1
        <4>3. QED
          BY <2>3, <4>2 DEF Ahead
      <3>3. CASE b \in 1 .. (n - 1)
        <4>1. Ahead(k, s[a], s[b])
          BY <2>7, <3>1, <3>3 DEF KeptOf
        <4>2. PICK i \in DOMAIN k, j \in DOMAIN k : i < j /\ k[i] = s[a] /\ k[j] = s[b]
          BY <4>1 DEF Ahead
        <4>3. i \in DOMAIN m /\ j \in DOMAIN m /\ m[i] = s[a] /\ m[j] = s[b]
          BY <2>3, <4>2
        <4>4. QED
          BY <4>2, <4>3 DEF Ahead
      <3>4. QED
        BY <1>1, <3>2, <3>3
    <2>8. ASSUME IsInjective(s)
          PROVE  IsInjective(m)
      <3>1. IsInjective(k)
        BY <2>8 DEF KeptOf
      <3>2. ASSUME NEW i \in DOMAIN k
            PROVE  m[i] # m[Len(k) + 1]
        <4>1. PICK j \in 1 .. (n - 1) : s[j] = k[i]
          BY DEF KeptOf
        <4>2. j \in DOMAIN s /\ n \in DOMAIN s /\ j # n
          BY <1>1
        <4>3. s[j] # s[n]
          BY <2>8, <4>2 DEF IsInjective
        <4>4. QED
          BY <2>2, <2>3, <4>1, <4>3
      <3>3. ASSUME NEW i \in DOMAIN m, NEW j \in DOMAIN m, m[i] = m[j]
            PROVE  i = j
        <4>1. CASE i \in DOMAIN k /\ j \in DOMAIN k
          BY <2>3, <3>1, <3>3, <4>1 DEF IsInjective
        <4>2. CASE i = Len(k) + 1 /\ j = Len(k) + 1
          BY <4>2
        <4>3. CASE i \in DOMAIN k /\ j = Len(k) + 1
          BY <3>2, <3>3, <4>3
        <4>4. CASE i = Len(k) + 1 /\ j \in DOMAIN k
          BY <3>2, <3>3, <4>4
        <4>5. QED
          BY <2>4, <4>1, <4>2, <4>3, <4>4
      <3>4. QED
        BY <3>3 DEF IsInjective
    <2>9. KeptOf(s, S, n, m)
      BY <2>2, <2>5, <2>6, <2>7, <2>8 DEF KeptOf
    <2>10. QED
      BY <2>1, <2>9
  <1>7. QED
    BY <1>5, <1>6

\* What is kept is what of s is in S, each as often and in the order in which it was.
LEMMA AmongKeeps ==
  ASSUME NEW s \in Seq(Nat), NEW S
  PROVE  /\ Among(s, S) \in Seq(Nat)
         /\ Range(Among(s, S)) = Range(s) \cap S
         /\ \A c, d \in S : Ahead(s, c, d) => Ahead(Among(s, S), c, d)
         /\ IsInjective(s) => IsInjective(Among(s, S))
  <1> DEFINE Right == {n \in 0 .. Len(s) : KeptOf(s, S, n, KeptSoFar(s, S)[n])}
             k == Among(s, S)
  <1>1. Len(s) \in Nat /\ DOMAIN s = 1 .. Len(s)
    BY LenProperties
  <1>2. 0 \in Right
    <2>1. 1 .. 0 = {} /\ <<>> \in Seq(Nat) /\ DOMAIN <<>> = {}
      BY NothingInEmpty
    <2>2. KeptOf(s, S, 0, <<>>)
      BY <2>1 DEF KeptOf, IsInjective
    <2>3. QED
      BY <1>1, <2>2, KeptOneByOne
  <1>3. ASSUME NEW n \in 1 .. Len(s), n - 1 \in Right
        PROVE  n \in Right
    <2>1. KeptOf(s, S, n - 1, KeptSoFar(s, S)[n - 1])
      BY <1>3
    <2>2. KeptOf(s, S, n, NextKept(s, S, n, KeptSoFar(s, S)[n - 1]))
      BY <2>1, OneElementKept
    <2>3. KeptSoFar(s, S)[n] = NextKept(s, S, n, KeptSoFar(s, S)[n - 1])
      BY KeptOneByOne
    <2>4. n \in 0 .. Len(s)
      BY <1>1
    <2>5. QED
      BY <2>2, <2>3, <2>4
  <1>4. KeptOf(s, S, Len(s), k)
    <2>1. Right = 0 .. Len(s)
      <3>1. Right \in SUBSET (0 .. Len(s))
        OBVIOUS
      <3> HIDE DEF Right
      <3>2. QED
        BY <1>1, <1>2, <1>3, <3>1, Below
    <2>2. Len(s) \in Right
      BY <1>1, <2>1
    <2>3. QED
      BY <2>2 DEF Among
  <1> HIDE DEF Right, k
  <1>5. Range(k) = Range(s) \cap S
    <2>1. ASSUME NEW i \in DOMAIN k
          PROVE  k[i] \in Range(s) \cap S
      BY <1>1, <1>4 DEF KeptOf, Range
    <2>2. ASSUME NEW j \in DOMAIN s, s[j] \in S
          PROVE  s[j] \in Range(k)
      <3>1. \E i \in DOMAIN k : k[i] = s[j]
        BY <1>1, <1>4, <2>2 DEF KeptOf
      <3>2. QED
        BY <3>1 DEF Range
    <2>3. QED
      BY <2>1, <2>2 DEF Range
  <1>6. ASSUME NEW c \in S, NEW d \in S, Ahead(s, c, d)
        PROVE  Ahead(k, c, d)
    <2>1. PICK i \in DOMAIN s, j \in DOMAIN s : i < j /\ s[i] = c /\ s[j] = d
      BY <1>6 DEF Ahead
    <2>2. s[i] \in S /\ s[j] \in S /\ i \in 1 .. Len(s) /\ j \in 1 .. Len(s)
      BY <1>1, <2>1
    <2>3. Ahead(k, s[i], s[j])
      BY <1>4, <2>1, <2>2 DEF KeptOf
    <2>4. QED
      BY <2>1, <2>3
  <1>7. QED
    BY <1>4, <1>5, <1>6 DEF KeptOf, k

-----------------------------------------------------------------------------
(* What the steps share                                                     *)

\* More ids may be issued.
LEMMA GoodGrows ==
  ASSUME NEW cfg, NEW n \in Nat, NEW m \in Nat, n <= m, Good(cfg, n)
  PROVE  Good(cfg, m)
  <1>1. 1 .. n \subseteq 1 .. m
    OBVIOUS
  <1>2. Shaped(cfg, m)
    BY <1>1 DEF Good, Shaped
  <1>3. QED
    BY <1>2 DEF Good

LEMMA GoodAlike ==
  ASSUME NEW cfg, NEW other, NEW n, Good(cfg, n), Alike(cfg, other), DOMAIN other = Parts
  PROVE  Good(other, n)
  BY DEF Good, Shaped, References, Alike, GroupsFor

\* persist changes only what it remembers of the selection.
LEMMA RememberedAlike ==
  ASSUME NEW cfg, NEW n, NEW s, NEW t, Good(cfg, n)
  PROVE  /\ Alike(cfg, Remembered(cfg, s, t))
         /\ DOMAIN Remembered(cfg, s, t) = Parts
  BY DEF Good, Shaped, Parts, Alike, Remembered

LEMMA RememberGroupGood ==
  ASSUME NEW cfg, NEW n, NEW s, NEW g, Good(cfg, n)
  PROVE  /\ Good(RememberGroup(cfg, s, g), n)
         /\ Alike(cfg, RememberGroup(cfg, s, g))
  <1>1. Alike(cfg, RememberGroup(cfg, s, g)) /\ DOMAIN RememberGroup(cfg, s, g) = Parts
    BY DEF Good, Shaped, Parts, Alike, RememberGroup
  <1>2. QED
    BY <1>1, GoodAlike

\* A handler that ends with a good configuration leaves memory and file good.
LEMMA PersistKeeps ==
  ASSUME IInv, NEW cfg, NEW s, NEW t, issued' \in Nat, issued <= issued',
         Good(cfg, issued'), Persist(cfg, s, t)
  PROVE  Good(config', issued') /\ Good(file', issued') /\ Alike(cfg, config')
  <1>1. Alike(cfg, config') /\ DOMAIN config' = Parts
    BY RememberedAlike DEF Persist
  <1>2. Good(config', issued')
    BY <1>1, GoodAlike
  <1>3. Good(file, issued')
    BY GoodGrows DEF IInv
  <1>4. file' = config' \/ file' = file
    BY DEF Persist, SaveConfig
  <1>5. QED
    BY <1>1, <1>2, <1>3, <1>4

\* The lists show a server that exists and one of its groups.
LEMMA RefreshKeeps ==
  ASSUME NEW keep, RefreshServers(keep)
  PROVE  /\ shown' \in {NoId} \cup DOMAIN config'.servers
         /\ tab' \in {NoId} \cup GroupsFor(config', shown')
  <1>1. shown' \in {NoId} \cup DOMAIN config'.servers
    BY DEF RefreshServers, Row
  <1>2. tab' \in {NoId} \cup GroupsFor(config', shown')
    BY DEF RefreshServers, TabOf
  <1>3. QED
    BY <1>1, <1>2

\* A handler ends with ids issued and with a good configuration, in memory and saved.
LEMMA HandlerKeeps ==
  ASSUME IInv, NEW cfg, NEW s, NEW ids \in Nat, Handler(cfg, s, ids), Good(cfg, issued + ids)
  PROVE  /\ issued' \in Nat
         /\ Good(config', issued') /\ Good(file', issued')
         /\ Alike(cfg, config')
  <1>1. issued' = issued + ids /\ issued' \in Nat /\ issued <= issued'
    BY DEF Handler, IInv
  <1>2. Persist(cfg, s, tab)
    BY DEF Handler
  <1>3. QED
    BY <1>1, <1>2, PersistKeeps

\* The three ways in which handlers bring the lists up to date.
LEMMA RefreshEnds ==
  ASSUME IInv, NEW cfg, NEW s, NEW ids \in Nat, NEW keep,
         Handler(cfg, s, ids), Good(cfg, issued + ids), RefreshServers(keep)
  PROVE  IInv'
  BY HandlerKeeps, RefreshKeeps DEF IInv, Good, Shaped, References, GroupsFor, NoId

LEMMA TabsEnd ==
  ASSUME IInv, NEW cfg, NEW s, NEW ids \in Nat,
         Handler(cfg, s, ids), Good(cfg, issued + ids), RebuildTabs,
         DOMAIN config.servers \subseteq DOMAIN cfg.servers
  PROVE  IInv'
  <1>1. issued' \in Nat /\ Good(config', issued') /\ Good(file', issued') /\ Alike(cfg, config')
    BY HandlerKeeps
  <1>2. shown' = shown /\ shown' \in {NoId} \cup DOMAIN config'.servers
    BY <1>1 DEF RebuildTabs, Alike, IInv
  <1>3. tab' \in {NoId} \cup GroupsFor(config', shown')
    BY <1>2 DEF RebuildTabs, TabOf
  <1>4. QED
    BY <1>1, <1>2, <1>3 DEF IInv, Good, Shaped, References, GroupsFor

LEMMA CommandsEnd ==
  ASSUME IInv, NEW cfg, NEW s, NEW ids \in Nat,
         Handler(cfg, s, ids), Good(cfg, issued + ids), RefreshCommands,
         cfg.servers = config.servers, cfg.groups = config.groups
  PROVE  IInv'
  <1>1. issued' \in Nat /\ Good(config', issued') /\ Good(file', issued') /\ Alike(cfg, config')
    BY HandlerKeeps
  <1>2. shown' = shown /\ tab' = tab /\ config'.servers = config.servers /\ config'.groups = config.groups
    BY <1>1 DEF RefreshCommands, Alike
  <1>3. GroupsFor(config', shown') = GroupsFor(config, shown)
    BY <1>2 DEF GroupsFor
  <1>4. QED
    BY <1>1, <1>2, <1>3 DEF IInv, Good, Shaped, References, GroupsFor

-----------------------------------------------------------------------------
(* Servers                                                                  *)

\* A configuration stays good when its servers become more, or are changed.
LEMMA ServersGood ==
  ASSUME NEW cfg, NEW n \in Nat, NEW m \in Nat, NEW servers, n <= m, Good(cfg, n),
         DOMAIN cfg.servers \subseteq DOMAIN servers, DOMAIN servers \subseteq 1 .. m
  PROVE  Good([cfg EXCEPT !.servers = servers], m)
  <1> DEFINE new == [cfg EXCEPT !.servers = servers]
  <1>1. /\ DOMAIN new = Parts /\ new.servers = servers /\ new.groups = cfg.groups
        /\ new.commands = cfg.commands /\ new.bundles = cfg.bundles
    BY DEF Good, Shaped, Parts
  <1>2. Good(cfg, m)
    BY GoodGrows
  <1>3. Shaped(new, m)
    BY <1>1, <1>2 DEF Good, Shaped
  <1>4. References(new)
    BY <1>1, <1>2 DEF Good, References, GroupsFor
  <1>5. QED
    BY <1>3, <1>4 DEF Good

LEMMA AddServerKeeps ==
  ASSUME IInv, NEW n, NEW h, AddServer(n, h)
  PROVE  IInv'
  <1> DEFINE servers == Put(config.servers, issued + 1, [name |-> n, host |-> h])
             cfg == [config EXCEPT !.servers = servers]
  <1>1. issued \in Nat /\ issued + 1 \in Nat /\ issued <= issued + 1
    BY DEF IInv
  <1>2. DOMAIN servers = DOMAIN config.servers \cup {issued + 1}
    BY DEF Put
  <1>3. DOMAIN config.servers \subseteq 1 .. issued
    BY DEF IInv, Good, Shaped
  <1>4. Good(cfg, issued + 1)
    <2>1. DOMAIN servers \subseteq 1 .. issued + 1
      BY <1>1, <1>2, <1>3
    <2>2. QED
      BY <1>1, <1>2, <2>1, ServersGood DEF IInv
  <1>5. Handler(cfg, shown, 1) /\ RefreshServers(issued + 1)
    BY DEF AddServer
  <1>6. QED
    BY <1>4, <1>5, RefreshEnds

LEMMA EditServerKeeps ==
  ASSUME IInv, NEW n, NEW h, EditServer(n, h)
  PROVE  IInv'
  <1> DEFINE servers == [config.servers EXCEPT ![shown] = [name |-> n, host |-> h]]
             cfg == [config EXCEPT !.servers = servers]
  <1>1. Good(cfg, issued + 0)
    <2>1. DOMAIN servers = DOMAIN config.servers /\ DOMAIN servers \subseteq 1 .. issued
      BY DEF IInv, Good, Shaped
    <2>2. issued \in Nat /\ issued + 0 = issued
      BY DEF IInv
    <2>3. QED
      BY <2>1, <2>2, ServersGood DEF IInv
  <1>2. Handler(cfg, shown, 0) /\ RefreshServers(shown)
    BY DEF EditServer
  <1>3. QED
    BY <1>1, <1>2, RefreshEnds

\* Without a server and all that is its own, the rest is good.
LEMMA DropServerGood ==
  ASSUME NEW cfg, NEW n, NEW s, Good(cfg, n)
  PROVE  Good(DropServer(cfg, s), n)
  <1> DEFINE new == DropServer(cfg, s)
  <1>1. /\ DOMAIN new = Parts
        /\ new.servers = Without(cfg.servers, {s})
        /\ new.groups = Without(cfg.groups, GroupsFor(cfg, s))
        /\ new.commands = Without(cfg.commands, CommandsFor(cfg, s))
        /\ new.bundles = Without(cfg.bundles, BundlesFor(cfg, s))
    BY DEF Good, Shaped, Parts, DropServer
  <1>2. /\ DOMAIN new.servers = DOMAIN cfg.servers \ {s}
        /\ DOMAIN new.groups = {g \in DOMAIN cfg.groups : cfg.groups[g].server # s}
        /\ DOMAIN new.commands = {c \in DOMAIN cfg.commands : cfg.commands[c].server # s}
        /\ DOMAIN new.bundles = {b \in DOMAIN cfg.bundles : cfg.bundles[b].server # s}
    BY <1>1 DEF Without, Keep, GroupsFor, CommandsFor, BundlesFor
  <1>3. /\ \A g \in DOMAIN new.groups : new.groups[g] = cfg.groups[g]
        /\ \A c \in DOMAIN new.commands : new.commands[c] = cfg.commands[c]
        /\ \A b \in DOMAIN new.bundles : new.bundles[b] = cfg.bundles[b]
    BY <1>1 DEF Without, Keep
  <1>4. Shaped(new, n)
    BY <1>1, <1>2, <1>3 DEF Good, Shaped
  <1>5. References(new)
    BY <1>2, <1>3 DEF Good, References, GroupsFor
  <1>6. QED
    BY <1>4, <1>5 DEF Good

LEMMA DeleteServerKeeps ==
  ASSUME IInv, DeleteServer
  PROVE  IInv'
  <1> DEFINE cfg == DropServer(config, shown)
  <1>1. Good(cfg, issued + 0)
    BY DropServerGood DEF IInv
  <1>2. PICK s, keep : Handler(cfg, s, 0) /\ RefreshServers(keep)
    BY DEF DeleteServer
  <1>3. QED
    BY <1>1, <1>2, RefreshEnds

LEMMA SelectServerKeeps ==
  ASSUME IInv, NEW s \in DOMAIN config.servers, SelectServer(s)
  PROVE  IInv'
  BY DEF IInv, SelectServer, TabOf, Good, Shaped, References, GroupsFor

\* The ids of the copies are the next ones, as many as there have been before.
LEMMA CopyOfRange ==
  ASSUME issued \in Nat, NEW x \in 1 .. issued
  PROVE  /\ CopyOf(x) \in 1 .. issued + issued
         /\ CopyOf(x) \notin 1 .. issued
         /\ CopyOf(x) - issued = x
  BY DEF CopyOf

\* A copied server has copies of its groups, which its copied commands refer to.
LEMMA CopiesGood ==
  ASSUME issued \in Nat, NEW cfg, NEW n, Good(cfg, issued), shown \in DOMAIN cfg.servers,
         NEW B, B \subseteq BundlesFor(cfg, shown)
  PROVE  Good(Copies(cfg, n, B), issued + issued)
  <1> DEFINE new == Copies(cfg, n, B)
             G == GroupsFor(cfg, shown)
             C == CommandsFor(cfg, shown)
             s == CopyOf(shown)
             copied(S) == {CopyOf(x) : x \in S}
  <1>1. DOMAIN new = Parts
    BY DEF Good, Shaped, Parts, Copies
  <1>2. new.servers = Put(cfg.servers, s, [name |-> n, host |-> cfg.servers[shown].host])
    BY DEF Good, Shaped, Parts, Copies
  <1>3. new.groups = [g \in DOMAIN cfg.groups \cup copied(G) |->
                        IF g \in DOMAIN cfg.groups THEN cfg.groups[g]
                        ELSE [server |-> s, name |-> cfg.groups[g - issued].name]]
    BY DEF Good, Shaped, Parts, Copies
  <1>4. new.commands = [c \in DOMAIN cfg.commands \cup copied(C) |->
                          IF c \in DOMAIN cfg.commands THEN cfg.commands[c]
                          ELSE LET old == cfg.commands[c - issued] IN
                               [server |-> s, group |-> IF old.group \in G THEN CopyOf(old.group) ELSE NoId,
                                name |-> old.name]]
    BY DEF Good, Shaped, Parts, Copies
  <1>5. /\ DOMAIN new.bundles = DOMAIN cfg.bundles \cup copied(B)
        /\ \A b \in DOMAIN cfg.bundles : new.bundles[b] = cfg.bundles[b]
        /\ \A b \in DOMAIN new.bundles \ DOMAIN cfg.bundles :
             "server" \in DOMAIN new.bundles[b] /\ new.bundles[b].server = s
    BY DEF Good, Shaped, Parts, Copies
  <1>6. /\ G \subseteq 1 .. issued /\ C \subseteq 1 .. issued /\ B \subseteq 1 .. issued
        /\ shown \in 1 .. issued /\ G \subseteq DOMAIN cfg.groups /\ C \subseteq DOMAIN cfg.commands
    BY DEF Good, Shaped, GroupsFor, CommandsFor, BundlesFor
  <1>7. \A x \in 1 .. issued : /\ CopyOf(x) \in 1 .. issued + issued
                               /\ CopyOf(x) \notin 1 .. issued
                               /\ CopyOf(x) - issued = x
    BY CopyOfRange
  <1>8. 1 .. issued \subseteq 1 .. issued + issued
    OBVIOUS
  <1>9. DOMAIN new.servers = DOMAIN cfg.servers \cup {s}
    BY <1>2 DEF Put
  <1>10. \A c \in DOMAIN new.commands \ DOMAIN cfg.commands :
           /\ {"server", "group"} \subseteq DOMAIN new.commands[c]
           /\ new.commands[c].server = s
           /\ new.commands[c].group \in {NoId} \cup copied(G)
    <2>1. SUFFICES ASSUME NEW c \in DOMAIN new.commands, c \notin DOMAIN cfg.commands
                   PROVE  /\ {"server", "group"} \subseteq DOMAIN new.commands[c]
                          /\ new.commands[c].server = s
                          /\ new.commands[c].group \in {NoId} \cup copied(G)
      OBVIOUS
    <2>2. new.commands[c] = LET old == cfg.commands[c - issued] IN
                              [server |-> s, group |-> IF old.group \in G THEN CopyOf(old.group) ELSE NoId,
                               name |-> old.name]
      BY <1>4, <2>1
    <2>3. QED
      BY <2>2
  <1>11. ASSUME NEW g \in copied(G)
         PROVE  /\ g \in DOMAIN new.groups /\ new.groups[g].server = s
                /\ {"server", "name"} \subseteq DOMAIN new.groups[g] /\ new.groups[g].name # NoName
    <2>1. PICK x \in G : g = CopyOf(x)
      OBVIOUS
    <2>2. g \in DOMAIN new.groups /\ g \notin DOMAIN cfg.groups /\ g - issued = x
      BY <1>3, <1>6, <1>7, <2>1 DEF Good, Shaped
    <2>3. new.groups[g] = [server |-> s, name |-> cfg.groups[x].name] /\ x \in DOMAIN cfg.groups
      BY <1>3, <1>6, <2>2
    <2> HIDE DEF new, s
    <2>4. QED
      BY <2>2, <2>3 DEF Good, Shaped
  <1>12. \A g \in DOMAIN new.groups \ DOMAIN cfg.groups : g \in copied(G)
    BY <1>3
  <1>13. /\ \A g \in DOMAIN cfg.groups : g \in DOMAIN new.groups /\ new.groups[g] = cfg.groups[g]
         /\ \A c \in DOMAIN cfg.commands : new.commands[c] = cfg.commands[c]
    BY <1>3, <1>4
  <1>14. Shaped(new, issued + issued)
    <2>1. /\ DOMAIN cfg.servers \subseteq 1 .. issued + issued
          /\ DOMAIN cfg.groups \subseteq 1 .. issued + issued
          /\ DOMAIN cfg.commands \subseteq 1 .. issued + issued
          /\ DOMAIN cfg.bundles \subseteq 1 .. issued + issued
      BY <1>8 DEF Good, Shaped
    <2>2. /\ s \in 1 .. issued + issued
          /\ copied(G) \subseteq 1 .. issued + issued
          /\ copied(C) \subseteq 1 .. issued + issued
          /\ copied(B) \subseteq 1 .. issued + issued
      <3> HIDE DEF G, C
      <3>1. QED
        BY <1>6, <1>7
    <2>3. /\ DOMAIN new.servers \subseteq 1 .. issued + issued
          /\ DOMAIN new.groups \subseteq 1 .. issued + issued
          /\ DOMAIN new.commands \subseteq 1 .. issued + issued
          /\ DOMAIN new.bundles \subseteq 1 .. issued + issued
      <3>1. /\ DOMAIN new.groups = DOMAIN cfg.groups \cup copied(G)
            /\ DOMAIN new.commands = DOMAIN cfg.commands \cup copied(C)
        BY <1>3, <1>4
      <3> HIDE DEF new, s, copied, G, C
      <3>2. QED
        BY <1>5, <1>9, <2>1, <2>2, <3>1
    <2>4. \A g \in DOMAIN new.groups : {"server", "name"} \subseteq DOMAIN new.groups[g] /\ new.groups[g].name # NoName
      BY <1>11, <1>12, <1>13 DEF Good, Shaped
    <2>5. \A c \in DOMAIN new.commands : {"server", "group"} \subseteq DOMAIN new.commands[c]
      BY <1>10, <1>13 DEF Good, Shaped
    <2>6. \A b \in DOMAIN new.bundles : "server" \in DOMAIN new.bundles[b]
      BY <1>5 DEF Good, Shaped
    <2>7. QED
      BY <1>1, <2>3, <2>4, <2>5, <2>6 DEF Shaped
  <1>15. References(new)
    <2>1. \A g \in DOMAIN new.groups : new.groups[g].server \in DOMAIN new.servers
      BY <1>9, <1>11, <1>12, <1>13 DEF Good, References
    <2>2. \A c \in DOMAIN new.commands : new.commands[c].server \in DOMAIN new.servers
      BY <1>9, <1>10, <1>13 DEF Good, References
    <2>3. \A c \in DOMAIN new.commands :
            new.commands[c].group \in {NoId} \cup GroupsFor(new, new.commands[c].server)
      <3>1. ASSUME NEW c \in DOMAIN cfg.commands
            PROVE  new.commands[c].group \in {NoId} \cup GroupsFor(new, new.commands[c].server)
        BY <1>13, <3>1 DEF Good, References, GroupsFor
      <3>2. ASSUME NEW c \in DOMAIN new.commands, c \notin DOMAIN cfg.commands
            PROVE  new.commands[c].group \in {NoId} \cup GroupsFor(new, new.commands[c].server)
        BY <1>10, <1>11, <3>2 DEF GroupsFor
      <3>3. QED
        BY <3>1, <3>2
    <2>4. \A b \in DOMAIN new.bundles : new.bundles[b].server \in DOMAIN new.servers
      BY <1>5, <1>9 DEF Good, References
    <2>5. QED
      BY <2>1, <2>2, <2>3, <2>4 DEF References
  <1>16. QED
    BY <1>14, <1>15 DEF Good

LEMMA DuplicateServerKeeps ==
  ASSUME IInv, NEW n, DuplicateServer(n)
  PROVE  IInv'
  <1>1. issued \in Nat /\ Good(config, issued) /\ shown \in DOMAIN config.servers
    BY DEF IInv, DuplicateServer
  <1>2. PICK B \in {CopiedBundles(config), {}} : Handler(Copies(config, n, B), shown, issued)
    BY DEF DuplicateServer
  <1>3. Good(Copies(config, n, B), issued + issued)
    BY <1>1, CopiesGood DEF CopiedBundles
  <1>4. RefreshServers(CopyOf(shown))
    BY DEF DuplicateServer
  <1>5. QED
    BY <1>1, <1>2, <1>3, <1>4, RefreshEnds

-----------------------------------------------------------------------------
(* Groups                                                                   *)

LEMMA AddGroupKeeps ==
  ASSUME IInv, NEW n \in Names, AddGroup(n)
  PROVE  IInv'
  <1> DEFINE old == RememberGroup(config, shown, issued + 1)
             groups == Put(old.groups, issued + 1, [server |-> shown, name |-> n])
             cfg == [old EXCEPT !.groups = groups]
  <1>1. issued \in Nat /\ issued + 1 \in Nat /\ shown \in DOMAIN config.servers
    BY DEF IInv, AddGroup
  <1>2. Good(old, issued) /\ Alike(config, old)
    BY RememberGroupGood DEF IInv
  <1>3. /\ DOMAIN groups = DOMAIN old.groups \cup {issued + 1}
        /\ groups[issued + 1] = [server |-> shown, name |-> n]
        /\ \A g \in DOMAIN old.groups : groups[g] = old.groups[g]
    <2>1. issued + 1 \notin DOMAIN old.groups
      BY <1>1, <1>2 DEF Good, Shaped
    <2>2. QED
      BY <2>1 DEF Put
  <1>4. /\ DOMAIN cfg = Parts /\ cfg.servers = old.servers /\ cfg.groups = groups
        /\ cfg.commands = old.commands /\ cfg.bundles = old.bundles
    BY <1>2 DEF Good, Shaped, Parts
  <1>5. Good(old, issued + 1)
    BY <1>1, <1>2, GoodGrows
  <1>6. Shaped(cfg, issued + 1)
    <2> HIDE DEF cfg, groups, old
    <2>1. DOMAIN groups \subseteq 1 .. issued + 1
      BY <1>1, <1>3, <1>5 DEF Good, Shaped
    <2>2. {"server", "name"} \subseteq DOMAIN groups[issued + 1] /\ groups[issued + 1].name # NoName
      BY <1>3, NameAssumption
    <2>3. QED
      BY <1>3, <1>4, <1>5, <2>1, <2>2 DEF Good, Shaped
  <1>7. References(cfg)
    <2> HIDE DEF cfg, groups, old
    <2>1. QED
      BY <1>1, <1>2, <1>3, <1>4 DEF Good, References, GroupsFor, Alike
  <1>8. DOMAIN cfg.servers = DOMAIN config.servers
    BY <1>2, <1>4 DEF Alike
  <1>9. Handler(cfg, shown, 1) /\ RebuildTabs
    BY DEF AddGroup
  <1>10. QED
    BY <1>6, <1>7, <1>8, <1>9, TabsEnd DEF Good

LEMMA RenameGroupKeeps ==
  ASSUME IInv, NEW g \in GroupsFor(config, shown), NEW n \in Names, RenameGroup(g, n)
  PROVE  IInv'
  <1> DEFINE groups == [config.groups EXCEPT ![g] = [config.groups[g] EXCEPT !.name = n]]
             cfg == [config EXCEPT !.groups = groups]
  <1>1. /\ DOMAIN groups = DOMAIN config.groups
        /\ \A h \in DOMAIN groups :
             /\ {"server", "name"} \subseteq DOMAIN groups[h] /\ groups[h].name # NoName
             /\ groups[h].server = config.groups[h].server
    <2>1. \A h \in DOMAIN config.groups :
            {"server", "name"} \subseteq DOMAIN config.groups[h] /\ config.groups[h].name # NoName
      BY DEF IInv, Good, Shaped
    <2>2. n # NoName
      BY NameAssumption
    <2>3. QED
      BY <2>1, <2>2
  <1>2. /\ DOMAIN cfg = Parts /\ cfg.servers = config.servers /\ cfg.groups = groups
        /\ cfg.commands = config.commands /\ cfg.bundles = config.bundles
    BY DEF IInv, Good, Shaped, Parts
  <1>3. Good(cfg, issued)
    <2> HIDE DEF cfg, groups
    <2>1. QED
      BY <1>1, <1>2 DEF IInv, Good, Shaped, References, GroupsFor
  <1>4. issued = issued + 0
    BY DEF IInv
  <1>5. Handler(cfg, shown, 0) /\ RebuildTabs
    BY DEF RenameGroup
  <1>6. QED
    BY <1>2, <1>3, <1>4, <1>5, TabsEnd

\* The commands of a deleted group are left without one.
LEMMA RemoveGroupGood ==
  ASSUME NEW cfg, NEW n, NEW g, Good(cfg, n)
  PROVE  Good(RemoveGroup(cfg, g), n) /\ RemoveGroup(cfg, g).servers = cfg.servers
  <1> DEFINE new == RemoveGroup(cfg, g)
  <1>1. /\ DOMAIN new = Parts
        /\ new.servers = cfg.servers /\ new.bundles = cfg.bundles
        /\ new.groups = Without(cfg.groups, {g})
        /\ new.commands = [c \in DOMAIN cfg.commands |->
             IF cfg.commands[c].group = g THEN [cfg.commands[c] EXCEPT !.group = NoId] ELSE cfg.commands[c]]
    BY DEF Good, Shaped, Parts, RemoveGroup
  <1>2. /\ DOMAIN new.groups = DOMAIN cfg.groups \ {g}
        /\ \A h \in DOMAIN new.groups : new.groups[h] = cfg.groups[h]
    BY <1>1 DEF Without, Keep
  <1>3. /\ DOMAIN new.commands = DOMAIN cfg.commands
        /\ \A c \in DOMAIN new.commands :
             /\ {"server", "group"} \subseteq DOMAIN new.commands[c]
             /\ new.commands[c].server = cfg.commands[c].server
             /\ new.commands[c].group = IF cfg.commands[c].group = g THEN NoId ELSE cfg.commands[c].group
    BY <1>1 DEF Good, Shaped
  <1> HIDE DEF new
  <1>4. Shaped(new, n)
    BY <1>1, <1>2, <1>3 DEF Good, Shaped
  <1>5. ASSUME NEW c \in DOMAIN new.commands
        PROVE  /\ new.commands[c].server \in DOMAIN new.servers
               /\ new.commands[c].group \in {NoId} \cup GroupsFor(new, new.commands[c].server)
    <2>1. /\ cfg.commands[c].server \in DOMAIN cfg.servers
          /\ cfg.commands[c].group \in {NoId} \cup GroupsFor(cfg, cfg.commands[c].server)
      BY <1>3, <1>5 DEF Good, References
    <2>2. CASE cfg.commands[c].group \in {NoId, g}
      BY <1>1, <1>3, <1>5, <2>1, <2>2
    <2>3. CASE cfg.commands[c].group \notin {NoId, g}
      BY <1>1, <1>2, <1>3, <1>5, <2>1, <2>3 DEF GroupsFor
    <2>4. QED
      BY <2>2, <2>3
  <1>6. References(new)
    BY <1>1, <1>2, <1>5 DEF Good, References
  <1>7. QED
    BY <1>1, <1>4, <1>6 DEF Good, new

LEMMA DeleteGroupKeeps ==
  ASSUME IInv, NEW g, DeleteGroup(g)
  PROVE  IInv'
  <1> DEFINE old == RememberGroup(config, shown, NoId)
             cfg == RemoveGroup(old, g)
  <1>1. Good(old, issued) /\ Alike(config, old)
    BY RememberGroupGood DEF IInv
  <1>2. Good(cfg, issued) /\ cfg.servers = config.servers
    BY <1>1, RemoveGroupGood DEF Alike
  <1>3. issued = issued + 0
    BY DEF IInv
  <1>4. Handler(cfg, shown, 0) /\ RebuildTabs
    BY DEF DeleteGroup
  <1>5. QED
    BY <1>2, <1>3, <1>4, TabsEnd

LEMMA SelectTabKeeps ==
  ASSUME IInv, NEW g \in {NoId} \cup GroupsFor(config, shown), SelectTab(g)
  PROVE  IInv'
  <1>1. Good(config', issued) /\ Alike(config, config')
    BY RememberGroupGood DEF IInv, SelectTab
  <1>2. QED
    BY <1>1 DEF IInv, SelectTab, Good, Shaped, References, GroupsFor, Alike

-----------------------------------------------------------------------------
(* Commands                                                                 *)

\* A command that is put in place of another one or of none, on a server that exists
\* and in none of its groups or one of them.
LEMMA WithCommandGood ==
  ASSUME NEW cfg, NEW n \in Nat, NEW m \in Nat, n <= m, Good(cfg, n),
         NEW c \in 1 .. m, NEW cmd, {"server", "group"} \subseteq DOMAIN cmd,
         cmd.server \in DOMAIN cfg.servers, cmd.group \in {NoId} \cup GroupsFor(cfg, cmd.server)
  PROVE  /\ Good(WithCommand(cfg, c, cmd), m)
         /\ WithCommand(cfg, c, cmd).servers = cfg.servers
         /\ WithCommand(cfg, c, cmd).groups = cfg.groups
  <1> DEFINE new == WithCommand(cfg, c, cmd)
  <1>1. /\ DOMAIN new = Parts /\ new.servers = cfg.servers /\ new.groups = cfg.groups
        /\ new.bundles = cfg.bundles /\ new.commands = Put(cfg.commands, c, cmd)
    BY DEF Good, Shaped, Parts, WithCommand
  <1>2. /\ DOMAIN new.commands = DOMAIN cfg.commands \cup {c}
        /\ new.commands[c] = cmd
        /\ \A d \in DOMAIN cfg.commands \ {c} : new.commands[d] = cfg.commands[d]
    BY <1>1 DEF Put
  <1>3. Good(cfg, m)
    BY GoodGrows
  <1> HIDE DEF new
  <1>4. Shaped(new, m)
    BY <1>1, <1>2, <1>3 DEF Good, Shaped
  <1>5. References(new)
    BY <1>1, <1>2, <1>3 DEF Good, References, GroupsFor
  <1>6. QED
    BY <1>1, <1>4, <1>5 DEF Good, new

LEMMA CommandAcceptedKeeps ==
  ASSUME IInv, NEW c, NEW n, NEW s, NEW g, NEW ids \in {0, 1}, c \in 1 .. issued + ids,
         CommandAccepted(c, n, s, g, ids)
  PROVE  IInv'
  <1> DEFINE cmd == [server |-> s, group |-> g, name |-> n]
             cfg == WithCommand(config, c, cmd)
  <1>1. issued \in Nat /\ issued + ids \in Nat /\ issued <= issued + ids
    BY DEF IInv
  <1>2. s \in DOMAIN config.servers /\ g \in {NoId} \cup GroupsFor(config, s)
    BY DEF CommandAccepted, Chosen, IsFirst
  <1>3. Good(cfg, issued + ids)
    BY <1>1, <1>2, WithCommandGood DEF IInv
  <1>4. Good(RememberGroup(cfg, s, g), issued + ids)
    BY <1>3, RememberGroupGood
  <1>5. Handler(RememberGroup(cfg, s, g), shown, ids) /\ RefreshServers(s)
    BY DEF CommandAccepted
  <1>6. QED
    BY <1>4, <1>5, RefreshEnds

LEMMA AddCommandKeeps ==
  ASSUME IInv, NEW n, NEW s, NEW g, AddCommand(n, s, g)
  PROVE  IInv'
  <1>1. issued + 1 \in 1 .. issued + 1
    BY DEF IInv
  <1>2. QED
    BY <1>1, CommandAcceptedKeeps DEF AddCommand

LEMMA EditCommandKeeps ==
  ASSUME IInv, NEW c, NEW n, NEW s, NEW g, EditCommand(c, n, s, g)
  PROVE  IInv'
  <1>1. c \in 1 .. issued + 0
    BY DEF IInv, Good, Shaped, EditCommand, Visible, InList, CommandsFor
  <1>2. QED
    BY <1>1, CommandAcceptedKeeps DEF EditCommand

LEMMA AddPresetsKeeps ==
  ASSUME IInv, NEW names \in Seq(Names), AddPresets(names)
  PROVE  IInv'
  <1> DEFINE new == [i \in 1 .. Len(names) |-> issued + i]
             commands == [c \in DOMAIN config.commands \cup Range(new) |->
                            IF c \in DOMAIN config.commands THEN config.commands[c]
                            ELSE [server |-> shown, group |-> tab, name |-> names[c - issued]]]
             cfg == [config EXCEPT !.commands = commands, !.order = @ \o new]
  <1>1. /\ issued \in Nat /\ Len(names) \in Nat
        /\ issued + Len(names) \in Nat /\ issued <= issued + Len(names)
    BY DEF IInv
  <1>2. shown \in DOMAIN config.servers /\ tab \in {NoId} \cup GroupsFor(config, shown)
    BY DEF IInv, AddPresets
  <1>3. /\ DOMAIN cfg = Parts /\ cfg.servers = config.servers /\ cfg.groups = config.groups
        /\ cfg.commands = commands /\ cfg.bundles = config.bundles
    BY DEF IInv, Good, Shaped, Parts
  <1>4. Range(new) \subseteq 1 .. issued + Len(names)
    BY <1>1 DEF Range
  <1>5. /\ DOMAIN commands = DOMAIN config.commands \cup Range(new)
        /\ \A c \in DOMAIN config.commands : commands[c] = config.commands[c]
        /\ \A c \in DOMAIN commands \ DOMAIN config.commands :
             /\ {"server", "group"} \subseteq DOMAIN commands[c]
             /\ commands[c].server = shown /\ commands[c].group = tab
    <2>1. ASSUME NEW c \in DOMAIN commands, c \notin DOMAIN config.commands
          PROVE  commands[c] = [server |-> shown, group |-> tab, name |-> names[c - issued]]
      BY <2>1
    <2>2. ASSUME NEW c \in DOMAIN commands, c \notin DOMAIN config.commands
          PROVE  /\ {"server", "group"} \subseteq DOMAIN commands[c]
                 /\ commands[c].server = shown /\ commands[c].group = tab
      <3> HIDE DEF commands
      <3>1. QED
        BY <2>1, <2>2
    <2>3. QED
      BY <2>2
  <1>6. Good(config, issued + Len(names))
    BY <1>1, GoodGrows DEF IInv
  <1>7. Handler(cfg, shown, Len(names)) /\ RefreshCommands
    BY DEF AddPresets
  <1> HIDE DEF cfg, commands, new
  <1>8. Shaped(cfg, issued + Len(names))
    <2>1. DOMAIN commands \subseteq 1 .. issued + Len(names)
      BY <1>4, <1>5, <1>6 DEF Good, Shaped
    <2>2. \A c \in DOMAIN commands : {"server", "group"} \subseteq DOMAIN commands[c]
      BY <1>5, <1>6 DEF Good, Shaped
    <2>3. QED
      BY <1>3, <1>6, <2>1, <2>2 DEF Good, Shaped
  <1>9. References(cfg)
    <2>1. ASSUME NEW c \in DOMAIN commands
          PROVE  /\ commands[c].server \in DOMAIN config.servers
                 /\ commands[c].group \in {NoId} \cup GroupsFor(config, commands[c].server)
      <3>1. CASE c \in DOMAIN config.commands
        BY <1>5, <1>6, <3>1 DEF Good, References
      <3>2. CASE c \notin DOMAIN config.commands
        BY <1>2, <1>5, <2>1, <3>2
      <3>3. QED
        BY <3>1, <3>2
    <2>2. QED
      BY <1>3, <1>6, <2>1 DEF Good, References, GroupsFor
  <1>10. QED
    BY <1>1, <1>3, <1>7, <1>8, <1>9, CommandsEnd DEF Good

LEMMA DuplicateCommandKeeps ==
  ASSUME IInv, NEW c, NEW n, DuplicateCommand(c, n)
  PROVE  IInv'
  <1> DEFINE cmd == [config.commands[c] EXCEPT !.name = n]
             cfg == WithCommand(config, issued + 1, cmd)
  <1>1. issued \in Nat /\ issued + 1 \in Nat /\ issued <= issued + 1 /\ issued + 1 \in 1 .. issued + 1
    BY DEF IInv
  <1>2. c \in DOMAIN config.commands
    BY DEF DuplicateCommand, Visible, InList, CommandsFor
  <1>3. /\ {"server", "group"} \subseteq DOMAIN cmd
        /\ cmd.server = config.commands[c].server /\ cmd.group = config.commands[c].group
    BY <1>2 DEF IInv, Good, Shaped
  <1>4. /\ cmd.server \in DOMAIN config.servers
        /\ cmd.group \in {NoId} \cup GroupsFor(config, cmd.server)
    BY <1>2, <1>3 DEF IInv, Good, References
  <1> HIDE DEF cmd
  <1>5. Good(cfg, issued + 1) /\ cfg.servers = config.servers /\ cfg.groups = config.groups
    BY <1>1, <1>3, <1>4, WithCommandGood DEF IInv
  <1>6. Handler(cfg, shown, 1) /\ RefreshCommands
    BY DEF DuplicateCommand, cmd
  <1>7. QED
    BY <1>5, <1>6, CommandsEnd

\* A configuration stays good when it loses commands and its bundles lose steps.
LEMMA DropCommandsGood ==
  ASSUME NEW cfg, NEW n, NEW C, Good(cfg, n)
  PROVE  /\ Good(DropCommands(cfg, C), n)
         /\ DropCommands(cfg, C).servers = cfg.servers
         /\ DropCommands(cfg, C).groups = cfg.groups
  <1> DEFINE new == DropCommands(cfg, C)
  <1>1. /\ DOMAIN new = Parts /\ new.servers = cfg.servers /\ new.groups = cfg.groups
        /\ new.commands = Without(cfg.commands, C)
        /\ DOMAIN new.bundles = DOMAIN cfg.bundles
        /\ \A b \in DOMAIN cfg.bundles :
             "server" \in DOMAIN new.bundles[b] /\ new.bundles[b].server = cfg.bundles[b].server
    BY DEF Good, Shaped, Parts, DropCommands, DropSteps
  <1>2. /\ DOMAIN new.commands = DOMAIN cfg.commands \ C
        /\ \A c \in DOMAIN new.commands : new.commands[c] = cfg.commands[c]
    BY <1>1 DEF Without, Keep
  <1> HIDE DEF new
  <1>3. Shaped(new, n)
    BY <1>1, <1>2 DEF Good, Shaped
  <1>4. References(new)
    BY <1>1, <1>2 DEF Good, References, GroupsFor
  <1>5. QED
    BY <1>1, <1>3, <1>4 DEF Good, new

LEMMA DeleteCommandsKeeps ==
  ASSUME IInv, NEW C, DeleteCommands(C)
  PROVE  IInv'
  <1>1. Good(DropCommands(config, C), issued + 0)
    BY DropCommandsGood DEF IInv
  <1>2. QED
    BY <1>1, DropCommandsGood, CommandsEnd DEF IInv, DeleteCommands

LEMMA MoveToGroupKeeps ==
  ASSUME IInv, NEW C, NEW g, MoveToGroup(C, g)
  PROVE  IInv'
  <1> DEFINE commands == [c \in DOMAIN config.commands |->
                            IF c \in C THEN [config.commands[c] EXCEPT !.group = g] ELSE config.commands[c]]
             cfg == [config EXCEPT !.commands = commands]
  <1>1. /\ DOMAIN cfg = Parts /\ cfg.servers = config.servers /\ cfg.groups = config.groups
        /\ cfg.commands = commands /\ cfg.bundles = config.bundles
    BY DEF IInv, Good, Shaped, Parts
  <1>2. /\ DOMAIN commands = DOMAIN config.commands
        /\ \A c \in DOMAIN commands :
             /\ {"server", "group"} \subseteq DOMAIN commands[c]
             /\ commands[c].server = config.commands[c].server
             /\ commands[c].group = IF c \in C THEN g ELSE config.commands[c].group
    BY DEF IInv, Good, Shaped
  <1>3. /\ g \in {NoId} \cup GroupsFor(config, shown)
        /\ \A c \in C : c \in DOMAIN config.commands /\ config.commands[c].server = shown
    BY DEF MoveToGroup, Visible, InList, CommandsFor
  <1>4. Handler(RememberGroup(cfg, shown, g), shown, 0) /\ RebuildTabs
    BY DEF MoveToGroup
  <1> HIDE DEF cfg, commands
  <1>5. Shaped(cfg, issued)
    BY <1>1, <1>2 DEF IInv, Good, Shaped
  <1>6. References(cfg)
    BY <1>1, <1>2, <1>3 DEF IInv, Good, References, GroupsFor
  <1>7. /\ Good(RememberGroup(cfg, shown, g), issued)
        /\ RememberGroup(cfg, shown, g).servers = config.servers
    BY <1>1, <1>5, <1>6, RememberGroupGood DEF Good, Alike
  <1>8. issued + 0 = issued
    BY DEF IInv
  <1>9. QED
    BY <1>4, <1>7, <1>8, TabsEnd

LEMMA MoveCommandKeeps ==
  ASSUME IInv, NEW i, NEW j, MoveCommand(i, j)
  PROVE  IInv'
  <1> DEFINE cfg == Moved(config, i, j)
  <1>1. Alike(config, cfg) /\ DOMAIN cfg = Parts
    BY DEF Moved, Alike, IInv, Good, Shaped, Parts
  <1>2. Good(cfg, issued) /\ issued + 0 = issued
    BY <1>1, GoodAlike DEF IInv
  <1>3. Handler(cfg, shown, 0) /\ RefreshCommands
    BY DEF MoveCommand
  <1>4. QED
    BY <1>1, <1>2, <1>3, CommandsEnd DEF Alike

-----------------------------------------------------------------------------
(* Bundles                                                                  *)

LEMMA BundleAcceptedKeeps ==
  ASSUME IInv, NEW b, NEW n, NEW steps, NEW ids \in {0, 1}, b \in 1 .. issued + ids,
         BundleAccepted(b, n, steps, ids)
  PROVE  IInv'
  <1> DEFINE bundle == [server |-> shown, name |-> n, steps |-> steps]
             cfg == [config EXCEPT !.bundles = Put(config.bundles, b, bundle)]
  <1>1. issued \in Nat /\ issued + ids \in Nat /\ issued <= issued + ids
    BY DEF IInv
  <1>2. /\ DOMAIN cfg = Parts /\ cfg.servers = config.servers /\ cfg.groups = config.groups
        /\ cfg.commands = config.commands
        /\ DOMAIN cfg.bundles = DOMAIN config.bundles \cup {b}
        /\ cfg.bundles[b] = bundle
        /\ \A d \in DOMAIN config.bundles \ {b} : cfg.bundles[d] = config.bundles[d]
    BY DEF IInv, Good, Shaped, Parts, Put
  <1>3. shown \in DOMAIN config.servers
    BY DEF IInv, BundleAccepted
  <1>4. "server" \in DOMAIN bundle /\ bundle.server = shown
    OBVIOUS
  <1>5. Handler(cfg, shown, ids) /\ RefreshCommands
    BY DEF BundleAccepted
  <1>6. Good(config, issued + ids)
    BY <1>1, GoodGrows DEF IInv
  <1> HIDE DEF cfg, bundle
  <1>7. Shaped(cfg, issued + ids)
    BY <1>2, <1>4, <1>6 DEF Good, Shaped
  <1>8. References(cfg)
    BY <1>2, <1>3, <1>4, <1>6 DEF Good, References, GroupsFor
  <1>9. QED
    BY <1>1, <1>2, <1>5, <1>7, <1>8, CommandsEnd DEF Good

LEMMA AddBundleKeeps ==
  ASSUME IInv, NEW n, NEW steps, AddBundle(n, steps)
  PROVE  IInv'
  <1>1. issued + 1 \in 1 .. issued + 1
    BY DEF IInv
  <1>2. QED
    BY <1>1, BundleAcceptedKeeps DEF AddBundle

LEMMA EditBundleKeeps ==
  ASSUME IInv, NEW b, NEW n, NEW steps, EditBundle(b, n, steps)
  PROVE  IInv'
  <1>1. b \in 1 .. issued + 0
    BY DEF IInv, Good, Shaped, EditBundle, BundlesFor
  <1>2. QED
    BY <1>1, BundleAcceptedKeeps DEF EditBundle

LEMMA DeleteBundleKeeps ==
  ASSUME IInv, NEW b, DeleteBundle(b)
  PROVE  IInv'
  <1> DEFINE cfg == [config EXCEPT !.bundles = Without(config.bundles, {b})]
  <1>1. /\ DOMAIN cfg = Parts /\ cfg.servers = config.servers /\ cfg.groups = config.groups
        /\ cfg.commands = config.commands
        /\ DOMAIN cfg.bundles = DOMAIN config.bundles \ {b}
        /\ \A d \in DOMAIN cfg.bundles : cfg.bundles[d] = config.bundles[d]
    BY DEF IInv, Good, Shaped, Parts, Without, Keep
  <1>2. Handler(cfg, shown, 0) /\ RefreshCommands
    BY DEF DeleteBundle
  <1> HIDE DEF cfg
  <1>3. Good(cfg, issued + 0)
    BY <1>1 DEF IInv, Good, Shaped, References, GroupsFor
  <1>4. QED
    BY <1>1, <1>2, <1>3, CommandsEnd

-----------------------------------------------------------------------------
(* Layout and restart                                                       *)

LEMMA SaveLayoutKeeps ==
  ASSUME IInv, SaveLayout
  PROVE  IInv'
  <1>1. issued' = issued /\ issued' \in Nat /\ Persist(config, shown, tab)
    BY DEF SaveLayout, IInv
  <1>2. Good(config', issued') /\ Good(file', issued') /\ Alike(config, config')
    BY <1>1, PersistKeeps DEF IInv
  <1>3. QED
    BY <1>1, <1>2 DEF IInv, SaveLayout, RefreshCommands, GroupsFor, Alike

\* What is dropped on loading is in no good configuration.
LEMMA LoadedGood ==
  ASSUME NEW cfg, NEW n \in Nat, Good(cfg, n)
  PROVE  Good(Loaded(cfg), n)
  <1> DEFINE new == Loaded(cfg)
  <1>1. /\ DOMAIN new = Parts /\ new.servers = cfg.servers /\ new.commands = cfg.commands
        /\ new.groups = Keep(cfg.groups, {g \in DOMAIN cfg.groups : cfg.groups[g].server # NoId})
        /\ new.bundles = Keep(cfg.bundles, {b \in DOMAIN cfg.bundles : cfg.bundles[b].server # NoId})
    BY DEF Good, Shaped, Parts, Loaded
  <1>2. NoId \notin DOMAIN cfg.servers
    BY DEF Good, Shaped, NoId
  <1>3. /\ DOMAIN new.groups = DOMAIN cfg.groups
        /\ \A g \in DOMAIN new.groups : new.groups[g] = cfg.groups[g]
    <2>1. \A g \in DOMAIN cfg.groups : cfg.groups[g].server # NoId
      BY <1>2 DEF Good, References
    <2>2. new.groups = Keep(cfg.groups, DOMAIN cfg.groups)
      <3>1. {g \in DOMAIN cfg.groups : cfg.groups[g].server # NoId} = DOMAIN cfg.groups
        BY <2>1
      <3> HIDE DEF new
      <3>2. QED
        BY <1>1, <3>1
    <2> HIDE DEF new
    <2>3. QED
      BY <2>2 DEF Keep
  <1>4. /\ DOMAIN new.bundles = DOMAIN cfg.bundles
        /\ \A b \in DOMAIN new.bundles : new.bundles[b] = cfg.bundles[b]
    <2>1. \A b \in DOMAIN cfg.bundles : cfg.bundles[b].server # NoId
      BY <1>2 DEF Good, References
    <2>2. new.bundles = Keep(cfg.bundles, DOMAIN cfg.bundles)
      <3>1. {b \in DOMAIN cfg.bundles : cfg.bundles[b].server # NoId} = DOMAIN cfg.bundles
        BY <2>1
      <3> HIDE DEF new
      <3>2. QED
        BY <1>1, <3>1
    <2> HIDE DEF new
    <2>3. QED
      BY <2>2 DEF Keep
  <1> HIDE DEF new
  <1>5. Shaped(new, n)
    BY <1>1, <1>3, <1>4 DEF Good, Shaped
  <1>6. References(new)
    <2>1. \A s : GroupsFor(new, s) = GroupsFor(cfg, s)
      BY <1>3 DEF GroupsFor
    <2>2. QED
      BY <1>1, <1>3, <1>4, <2>1 DEF Good, References
  <1>7. QED
    BY <1>5, <1>6 DEF Good, new

LEMMA RestartKeeps ==
  ASSUME IInv, Restart
  PROVE  IInv'
  <1>1. issued' = issued /\ file' = config' /\ config' = Loaded(file) /\ RefreshServers(config'.last_server)
    BY DEF Restart
  <1>2. Good(config', issued)
    BY <1>1, LoadedGood DEF IInv
  <1>3. /\ shown' \in {NoId} \cup DOMAIN config'.servers
        /\ tab' \in {NoId} \cup GroupsFor(config', shown')
    BY <1>1, RefreshKeeps
  <1>4. QED
    BY <1>1, <1>2, <1>3 DEF IInv, Good, Shaped, References, GroupsFor

-----------------------------------------------------------------------------
(* The theorem                                                              *)

LEMMA InitGood == Init => IInv
  <1> SUFFICES ASSUME Init
               PROVE  IInv
    OBVIOUS
  <1>1. SavedIds \in Nat /\ References(Saved)
    BY ConfigurationAssumption
  <1>2. Shaped(Saved, SavedIds)
    <2>1. ASSUME NEW g \in DOMAIN Saved.groups
          PROVE  {"server", "name"} \subseteq DOMAIN Saved.groups[g] /\ Saved.groups[g].name # NoName
      BY ConfigurationAssumption, NameAssumption DEF IsConfig
    <2>2. QED
      BY <2>1, ConfigurationAssumption DEF IsConfig, Shaped, Parts
  <1>3. Good(Saved, SavedIds) /\ Good(Loaded(Saved), SavedIds)
    BY <1>1, <1>2, LoadedGood DEF Good
  <1>4. /\ shown \in {NoId} \cup DOMAIN config.servers
        /\ tab \in {NoId} \cup GroupsFor(config, shown)
    BY DEF Init, Row, TabOf, Loaded
  <1>5. QED
    BY <1>1, <1>3, <1>4 DEF Init, IInv

LEMMA ServerStepKeeps ==
  ASSUME IInv, ServerStep
  PROVE  IInv'
  BY AddServerKeeps, EditServerKeeps, DuplicateServerKeeps, DeleteServerKeeps, SelectServerKeeps DEF ServerStep

LEMMA GroupStepKeeps ==
  ASSUME IInv, GroupStep
  PROVE  IInv'
  BY AddGroupKeeps, RenameGroupKeeps, DeleteGroupKeeps, SelectTabKeeps DEF GroupStep

LEMMA CommandStepKeeps ==
  ASSUME IInv, CommandStep
  PROVE  IInv'
  <1>1. ASSUME NEW n \in 1 .. MaxPresets, NEW names \in [1 .. n -> Names], AddPresets(names)
        PROVE  IInv'
    <2>1. names \in Seq(Names)
      BY ConfigurationAssumption
    <2>2. QED
      BY <1>1, <2>1, AddPresetsKeeps
  <1>2. QED
    BY <1>1, AddCommandKeeps, EditCommandKeeps, DuplicateCommandKeeps, DeleteCommandsKeeps,
       MoveToGroupKeeps, MoveCommandKeeps DEF CommandStep

LEMMA BundleStepKeeps ==
  ASSUME IInv, BundleStep
  PROVE  IInv'
  BY AddBundleKeeps, EditBundleKeeps, DeleteBundleKeeps DEF BundleStep

LEMMA NextKeeps == IInv /\ [Next]_vars => IInv'
  <1> SUFFICES ASSUME IInv, [Next]_vars
               PROVE  IInv'
    OBVIOUS
  <1>1. CASE Next
    BY <1>1, ServerStepKeeps, GroupStepKeeps, CommandStepKeeps, BundleStepKeeps, SaveLayoutKeeps,
       RestartKeeps DEF Next
  <1>2. CASE UNCHANGED vars
    BY <1>2 DEF vars, IInv, Good, Shaped, References, GroupsFor
  <1>3. QED
    BY <1>1, <1>2

\* After any sequence of edits, saves that succeed or fail, and restarts, no group,
\* command or bundle, in memory or in config.json, refers to what has been deleted.
THEOREM ReferencesAlwaysHold == Spec => []ReferencesHold
  <1>1. IInv => ReferencesHold
    BY DEF IInv, Good, ReferencesHold
  <1>2. QED
    BY InitGood, NextKeeps, <1>1, PTL DEF Spec

-----------------------------------------------------------------------------
(* The vector of the commands, and the steps of bundles                     *)

\* Every command is in the vector once, and nothing else; bundles have sequences of ids.
OrderListed(cfg) == cfg.order \in Seq(Nat) /\ IsInjective(cfg.order) /\ Range(cfg.order) = DOMAIN cfg.commands
StepsListed(cfg) ==
  \A b \in DOMAIN cfg.bundles : "steps" \in DOMAIN cfg.bundles[b] /\ cfg.bundles[b].steps \in Seq(Nat)
Listed(cfg) == OrderListed(cfg) /\ StepsListed(cfg)

\* The inductive invariant, on IInv.
ListInv == Listed(config) /\ Listed(file)

\* What OrderKept and StepsStayLocal say of one step.
OrderStays ==
  config' # Loaded(file) =>
    \A c, d \in DOMAIN config.commands :
      (Before(config, c, d) /\ SameList(config, c, d) /\ SameList(config', c, d) /\ ~Before(config', c, d))
      => /\ {c, d} \subseteq Visible
         /\ ~\E e \in Visible : Before(config, c, e) /\ Before(config, e, d)
         /\ Before(config', d, c)

StepsStay ==
  (/\ StepsLocal(config) /\ StepsLocal(file)
   /\ \A c \in DOMAIN config.commands \cap DOMAIN config'.commands :
        config'.commands[c].server = config.commands[c].server)
  => StepsLocal(config')

\* The configuration new comes of old by a handler that moves no command.
SameServers(old, new) ==
  \A c \in DOMAIN old.commands \cap DOMAIN new.commands : new.commands[c].server = old.commands[c].server
KeepsOrder(old, new) ==
  \A c, d \in DOMAIN old.commands \cap DOMAIN new.commands : Before(old, c, d) => Before(new, c, d)
KeepsSteps(old, new) == StepsLocal(old) /\ SameServers(old, new) => StepsLocal(new)
Follows(old, new) == Listed(new) /\ KeepsOrder(old, new) /\ KeepsSteps(old, new)

\* Neither commands nor bundles are other ones.
Unmoved(cfg, other) == other.order = cfg.order /\ other.commands = cfg.commands /\ other.bundles = cfg.bundles

LEMMA SameFollows ==
  ASSUME NEW old, NEW cfg, NEW other, Follows(old, cfg), Unmoved(cfg, other)
  PROVE  Follows(old, other)
  <1>1. Listed(other)
    BY DEF Follows, Unmoved, Listed, OrderListed, StepsListed
  <1>2. KeepsOrder(old, other)
    BY DEF Follows, Unmoved, KeepsOrder, Before
  <1>3. KeepsSteps(old, other)
    BY DEF Follows, Unmoved, KeepsSteps, SameServers, StepsLocal, CommandsFor
  <1>4. QED
    BY <1>1, <1>2, <1>3 DEF Follows

\* Steps stay what they are when commands only become more.
LEMMA MoreCommandsKeepSteps ==
  ASSUME NEW old, NEW new, new.bundles = old.bundles, DOMAIN old.commands \subseteq DOMAIN new.commands
  PROVE  KeepsSteps(old, new)
  <1> SUFFICES ASSUME StepsLocal(old), SameServers(old, new),
                      NEW b \in DOMAIN new.bundles, NEW c \in Range(new.bundles[b].steps)
               PROVE  c \in CommandsFor(new, new.bundles[b].server)
    BY DEF KeepsSteps, StepsLocal
  <1>1. c \in DOMAIN old.commands /\ old.commands[c].server = new.bundles[b].server
    BY DEF StepsLocal, CommandsFor
  <1>2. QED
    BY <1>1 DEF SameServers, CommandsFor

\* The vector stays as it is.
LEMMA PlainFollows ==
  ASSUME NEW old, NEW new, Listed(old), new.order = old.order, new.bundles = old.bundles,
         DOMAIN new.commands = DOMAIN old.commands
  PROVE  Follows(old, new)
  <1>1. Listed(new)
    BY DEF Listed, OrderListed, StepsListed
  <1>2. KeepsOrder(old, new)
    BY DEF KeepsOrder, Before
  <1>3. QED
    BY <1>1, <1>2, MoreCommandsKeepSteps DEF Follows

\* New commands are put behind the others.
LEMMA OrderGrows ==
  ASSUME NEW old, NEW new, OrderListed(old), NEW more \in Seq(Nat), IsInjective(more),
         Range(more) \cap DOMAIN old.commands = {},
         new.order = old.order \o more, DOMAIN new.commands = DOMAIN old.commands \cup Range(more)
  PROVE  OrderListed(new) /\ KeepsOrder(old, new)
  <1> DEFINE s == old.order
             t == new.order
             n == Len(old.order)
  <1>1. /\ s \in Seq(Nat) /\ n \in Nat /\ DOMAIN s = 1 .. n
        /\ Len(more) \in Nat /\ DOMAIN more = 1 .. Len(more)
    BY LenProperties DEF OrderListed
  <1>2. t \in Seq(Nat) /\ Len(t) = n + Len(more)
    BY <1>1, ConcatProperties
  <1>3. \A i \in 1 .. n + Len(more) : t[i] = IF i <= n THEN s[i] ELSE more[i - n]
    BY <1>1, ConcatProperties
  <1>4. DOMAIN t = 1 .. n + Len(more)
    BY <1>2, LenProperties
  <1> HIDE DEF s, t, n
  <1>5. /\ \A i \in DOMAIN s : i \in DOMAIN t /\ t[i] = s[i]
        /\ \A i \in DOMAIN more : n + i \in DOMAIN t /\ t[n + i] = more[i]
    <2>1. ASSUME NEW i \in DOMAIN s
          PROVE  i \in 1 .. n + Len(more) /\ i <= n
      BY <1>1
    <2>2. ASSUME NEW i \in DOMAIN more
          PROVE  n + i \in 1 .. n + Len(more) /\ ~(n + i <= n) /\ (n + i) - n = i
      BY <1>1
    <2>3. QED
      BY <1>3, <1>4, <2>1, <2>2
  <1>6. ASSUME NEW i \in DOMAIN t
        PROVE  \/ i \in DOMAIN s /\ t[i] = s[i]
               \/ i - n \in DOMAIN more /\ t[i] = more[i - n] /\ i = n + (i - n)
    <2>1. i \in 1 .. n + Len(more)
      BY <1>4
    <2>2. CASE i <= n
      BY <1>1, <1>3, <2>1, <2>2
    <2>3. CASE ~(i <= n)
      <3>1. i - n \in 1 .. Len(more) /\ i = n + (i - n)
        BY <1>1, <2>1, <2>3
      <3>2. QED
        BY <1>1, <1>3, <2>1, <2>3, <3>1
    <2>4. QED
      BY <2>2, <2>3
  <1>7. /\ IsInjective(s) /\ Range(s) = DOMAIN old.commands
        /\ \A i \in DOMAIN s, j \in DOMAIN more : s[i] # more[j]
    BY DEF OrderListed, Range, s
  <1>8. IsInjective(t)
    <2> SUFFICES ASSUME NEW i \in DOMAIN t, NEW j \in DOMAIN t, t[i] = t[j] PROVE i = j
      BY DEF IsInjective
    <2>1. CASE i \in DOMAIN s /\ t[i] = s[i] /\ j \in DOMAIN s /\ t[j] = s[j]
      BY <1>7, <2>1 DEF IsInjective
    <2>2. CASE i - n \in DOMAIN more /\ t[i] = more[i - n] /\ j - n \in DOMAIN more /\ t[j] = more[j - n]
      <3>1. i - n = j - n
        BY <2>2 DEF IsInjective
      <3>2. i \in Int /\ j \in Int
        BY <1>4
      <3>3. QED
        BY <1>1, <3>1, <3>2
    <2>3. QED
      BY <1>6, <1>7, <2>1, <2>2
  <1>9. Range(t) = DOMAIN new.commands
    <2>1. \A i \in DOMAIN t : t[i] \in Range(s) \cup Range(more)
      BY <1>6 DEF Range
    <2>2. \A i \in DOMAIN s : s[i] \in Range(t)
      BY <1>5 DEF Range
    <2>3. \A i \in DOMAIN more : more[i] \in Range(t)
      BY <1>5 DEF Range
    <2>4. Range(t) = Range(s) \cup Range(more)
      BY <2>1, <2>2, <2>3 DEF Range
    <2>5. QED
      BY <1>7, <2>4
  <1>10. OrderListed(new)
    BY <1>2, <1>8, <1>9 DEF OrderListed, t
  <1>11. ASSUME NEW c, NEW d, Before(old, c, d)
         PROVE  Before(new, c, d)
    <2>1. PICK i \in DOMAIN s, j \in DOMAIN s : i < j /\ s[i] = c /\ s[j] = d
      BY <1>11 DEF Before, s
    <2>2. i \in DOMAIN t /\ j \in DOMAIN t /\ t[i] = c /\ t[j] = d
      BY <1>5, <2>1
    <2>3. QED
      BY <2>1, <2>2 DEF Before, t
  <1>12. QED
    BY <1>10, <1>11 DEF KeepsOrder

\* Commands are erased.
LEMMA OrderShrinks ==
  ASSUME NEW old, NEW new, OrderListed(old), NEW S,
         new.order = Besides(old.order, S), DOMAIN new.commands = DOMAIN old.commands \ S
  PROVE  OrderListed(new) /\ KeepsOrder(old, new)
  <1> DEFINE s == old.order
             T == DOMAIN old.commands \ S
  <1>1. s \in Seq(Nat) /\ IsInjective(s) /\ Range(s) = DOMAIN old.commands
    BY DEF OrderListed
  <1>2. new.order = Among(s, T)
    BY <1>1 DEF Besides
  <1> HIDE DEF s, T
  <1>3. /\ Among(s, T) \in Seq(Nat)
        /\ Range(Among(s, T)) = Range(s) \cap T
        /\ \A c, d \in T : Ahead(s, c, d) => Ahead(Among(s, T), c, d)
        /\ IsInjective(Among(s, T))
    BY <1>1, AmongKeeps
  <1>4. OrderListed(new)
    <2>1. Range(s) \cap T = DOMAIN new.commands
      BY <1>1 DEF T
    <2>2. QED
      BY <1>2, <1>3, <2>1 DEF OrderListed
  <1>5. \A c, d : /\ Before(old, c, d) <=> Ahead(s, c, d)
                  /\ Before(new, c, d) <=> Ahead(Among(s, T), c, d)
    BY <1>2 DEF Before, Ahead, s
  <1>6. \A c \in DOMAIN new.commands : c \in T
    BY DEF T
  <1>7. KeepsOrder(old, new)
    BY <1>3, <1>5, <1>6 DEF KeepsOrder
  <1>8. QED
    BY <1>4, <1>7

\* The result of a handler is what is in memory, and in the file or not.
LEMMA FollowsEnds ==
  ASSUME Follows(config, config'), Listed(file')
  PROVE  ListInv' /\ OrderStays /\ StepsStay
  <1>1. ListInv'
    BY DEF Follows, ListInv
  <1>2. OrderStays
    BY DEF Follows, KeepsOrder, OrderStays, SameList
  <1>3. StepsStay
    BY DEF Follows, KeepsSteps, SameServers, StepsStay
  <1>4. QED
    BY <1>1, <1>2, <1>3

LEMMA PersistLists ==
  ASSUME ListInv, NEW cfg, NEW s, NEW t, Persist(cfg, s, t), DOMAIN cfg = Parts, Listed(cfg)
  PROVE  Unmoved(cfg, config') /\ Listed(config') /\ Listed(file')
  <1>1. config' = Remembered(cfg, s, t)
    BY DEF Persist
  <1>2. Unmoved(cfg, config')
    BY <1>1 DEF Remembered, Unmoved, Parts
  <1>3. Listed(config')
    BY <1>2 DEF Unmoved, Listed, OrderListed, StepsListed
  <1>4. file' = config' \/ file' = file
    BY DEF Persist, SaveConfig
  <1>5. QED
    BY <1>2, <1>3, <1>4 DEF ListInv

LEMMA HandlerLists ==
  ASSUME ListInv, NEW cfg, NEW s, NEW ids, Handler(cfg, s, ids), DOMAIN cfg = Parts, Follows(config, cfg)
  PROVE  ListInv' /\ OrderStays /\ StepsStay
  <1>1. Unmoved(cfg, config') /\ Listed(file')
    BY PersistLists DEF Handler, Follows
  <1>2. Follows(config, config')
    BY <1>1, SameFollows
  <1>3. QED
    BY <1>1, <1>2, FollowsEnds

LEMMA PlainLists ==
  ASSUME ListInv, NEW cfg, NEW s, NEW ids, Handler(cfg, s, ids), DOMAIN cfg = Parts,
         cfg.order = config.order, cfg.bundles = config.bundles, DOMAIN cfg.commands = DOMAIN config.commands
  PROVE  ListInv' /\ OrderStays /\ StepsStay
  <1>1. Follows(config, cfg)
    BY PlainFollows DEF ListInv
  <1>2. QED
    BY <1>1, HandlerLists

-----------------------------------------------------------------------------
(* Servers and groups, again                                                *)

LEMMA PartsThere == IInv => DOMAIN config = Parts /\ DOMAIN file = Parts /\ issued \in Nat
  BY DEF IInv, Good, Shaped

LEMMA AddServerLists ==
  ASSUME IInv, ListInv, NEW n, NEW h, AddServer(n, h)
  PROVE  ListInv' /\ OrderStays /\ StepsStay
  <1> DEFINE cfg == [config EXCEPT !.servers = Put(config.servers, issued + 1, [name |-> n, host |-> h])]
  <1>1. Handler(cfg, shown, 1)
    BY DEF AddServer
  <1>2. /\ DOMAIN cfg = Parts /\ cfg.order = config.order /\ cfg.bundles = config.bundles
        /\ cfg.commands = config.commands
    BY PartsThere DEF Parts
  <1> HIDE DEF cfg
  <1>3. QED
    BY <1>1, <1>2, PlainLists

LEMMA EditServerLists ==
  ASSUME IInv, ListInv, NEW n, NEW h, EditServer(n, h)
  PROVE  ListInv' /\ OrderStays /\ StepsStay
  <1> DEFINE cfg == [config EXCEPT !.servers[shown] = [name |-> n, host |-> h]]
  <1>1. Handler(cfg, shown, 0)
    BY DEF EditServer
  <1>2. /\ DOMAIN cfg = Parts /\ cfg.order = config.order /\ cfg.bundles = config.bundles
        /\ cfg.commands = config.commands
    BY PartsThere DEF Parts
  <1> HIDE DEF cfg
  <1>3. QED
    BY <1>1, <1>2, PlainLists

\* With a server go its commands, out of the vector, and its bundles: those of the
\* other servers have none of them for a step.
LEMMA DropServerFollows ==
  ASSUME NEW cfg, DOMAIN cfg = Parts, Listed(cfg), NEW s
  PROVE  Follows(cfg, DropServer(cfg, s))
  <1> DEFINE new == DropServer(cfg, s)
             C == CommandsFor(cfg, s)
  <1>1. /\ new.commands = Without(cfg.commands, C)
        /\ new.bundles = Without(cfg.bundles, BundlesFor(cfg, s))
        /\ new.order = Besides(cfg.order, C)
    BY DEF DropServer, Parts
  <1>2. /\ DOMAIN new.commands = DOMAIN cfg.commands \ C
        /\ \A c \in DOMAIN new.commands : new.commands[c] = cfg.commands[c]
        /\ DOMAIN new.bundles = DOMAIN cfg.bundles \ BundlesFor(cfg, s)
        /\ \A b \in DOMAIN new.bundles : new.bundles[b] = cfg.bundles[b]
    BY <1>1 DEF Without, Keep
  <1> HIDE DEF new, C
  <1>3. OrderListed(new) /\ KeepsOrder(cfg, new)
    BY <1>1, <1>2, OrderShrinks DEF Listed
  <1>4. StepsListed(new)
    BY <1>2 DEF Listed, StepsListed
  <1>5. ASSUME StepsLocal(cfg), NEW b \in DOMAIN new.bundles, NEW c \in Range(new.bundles[b].steps)
        PROVE  c \in CommandsFor(new, new.bundles[b].server)
    <2>1. b \in DOMAIN cfg.bundles /\ new.bundles[b] = cfg.bundles[b] /\ cfg.bundles[b].server # s
      BY <1>2 DEF BundlesFor
    <2>2. c \in DOMAIN cfg.commands /\ cfg.commands[c].server = cfg.bundles[b].server
      BY <1>5, <2>1 DEF StepsLocal, CommandsFor
    <2>3. c \in DOMAIN new.commands
      BY <1>2, <2>1, <2>2 DEF C, CommandsFor
    <2>4. QED
      BY <1>2, <2>1, <2>2, <2>3 DEF CommandsFor
  <1>6. KeepsSteps(cfg, new)
    BY <1>5 DEF KeepsSteps, StepsLocal
  <1>7. QED
    BY <1>3, <1>4, <1>6 DEF Follows, Listed, new

LEMMA DeleteServerLists ==
  ASSUME IInv, ListInv, DeleteServer
  PROVE  ListInv' /\ OrderStays /\ StepsStay
  <1> DEFINE cfg == DropServer(config, shown)
  <1>1. PICK s : Handler(cfg, s, 0)
    BY DEF DeleteServer
  <1>2. DOMAIN cfg = Parts
    BY PartsThere DEF DropServer, Parts
  <1>3. Follows(config, cfg)
    BY PartsThere, DropServerFollows DEF ListInv
  <1> HIDE DEF cfg
  <1>4. QED
    BY <1>1, <1>2, <1>3, HandlerLists

\* The commands of a copied server are put behind the others, in their order, and the
\* steps of its bundles are among them.
LEMMA CopiesFollow ==
  ASSUME issued \in Nat, NEW cfg, NEW n, Good(cfg, issued), Listed(cfg), shown \in DOMAIN cfg.servers,
         NEW B, B \subseteq BundlesFor(cfg, shown)
  PROVE  DOMAIN Copies(cfg, n, B) = Parts /\ Follows(cfg, Copies(cfg, n, B))
  <1> DEFINE new == Copies(cfg, n, B)
             G == GroupsFor(cfg, shown)
             C == CommandsFor(cfg, shown)
             s == CopyOf(shown)
             copied(S) == {CopyOf(x) : x \in S}
             old == Among(cfg.order, C)
             more == [i \in DOMAIN old |-> CopyOf(old[i])]
             steps(b) == StepsAmong(cfg, b - issued, C)
  <1>1. DOMAIN new = Parts
    BY DEF Good, Shaped, Parts, Copies
  <1>2. new.order = cfg.order \o more
    BY DEF Good, Shaped, Parts, Copies
  <1>3. new.commands = [c \in DOMAIN cfg.commands \cup copied(C) |->
                          IF c \in DOMAIN cfg.commands THEN cfg.commands[c]
                          ELSE LET was == cfg.commands[c - issued] IN
                               [server |-> s, group |-> IF was.group \in G THEN CopyOf(was.group) ELSE NoId,
                                name |-> was.name]]
    BY DEF Good, Shaped, Parts, Copies
  <1>4. new.bundles = [b \in DOMAIN cfg.bundles \cup copied(B) |->
                         IF b \in DOMAIN cfg.bundles THEN cfg.bundles[b]
                         ELSE [server |-> s, name |-> cfg.bundles[b - issued].name,
                               steps |-> [i \in DOMAIN steps(b) |-> CopyOf(steps(b)[i])]]]
    BY DEF Good, Shaped, Parts, Copies
  <1>5. /\ C \subseteq 1 .. issued /\ B \subseteq DOMAIN cfg.bundles /\ B \subseteq 1 .. issued
        /\ C \subseteq DOMAIN cfg.commands
        /\ DOMAIN cfg.commands \subseteq 1 .. issued /\ DOMAIN cfg.bundles \subseteq 1 .. issued
    BY DEF Good, Shaped, CommandsFor, BundlesFor
  <1>6. \A x \in 1 .. issued : /\ CopyOf(x) \in 1 .. issued + issued
                               /\ CopyOf(x) \notin 1 .. issued
                               /\ CopyOf(x) - issued = x
    BY CopyOfRange
  <1>7. \A c \in copied(C) : /\ c \in DOMAIN new.commands /\ c \notin DOMAIN cfg.commands
                             /\ new.commands[c].server = s
    <2> SUFFICES ASSUME NEW c \in copied(C)
                 PROVE  /\ c \in DOMAIN new.commands /\ c \notin DOMAIN cfg.commands
                        /\ new.commands[c].server = s
      OBVIOUS
    <2> HIDE DEF C, G, s, copied
    <2>1. c \notin DOMAIN cfg.commands
      BY <1>5, <1>6 DEF copied
    <2>2. c \in DOMAIN new.commands
      BY <1>3
    <2>3. new.commands[c] = LET was == cfg.commands[c - issued] IN
                               [server |-> s, group |-> IF was.group \in G THEN CopyOf(was.group) ELSE NoId,
                                name |-> was.name]
      BY <1>3, <2>1, <2>2
    <2>4. QED
      BY <2>1, <2>2, <2>3
  <1>8. /\ DOMAIN new.commands = DOMAIN cfg.commands \cup copied(C)
        /\ \A c \in DOMAIN cfg.commands : new.commands[c] = cfg.commands[c]
    BY <1>3
  <1>9. DOMAIN new.bundles = DOMAIN cfg.bundles \cup copied(B)
    BY <1>4
  <1>10. /\ \A b \in DOMAIN cfg.bundles : new.bundles[b] = cfg.bundles[b]
         /\ \A b \in DOMAIN new.bundles \ DOMAIN cfg.bundles :
              new.bundles[b] = [server |-> s, name |-> cfg.bundles[b - issued].name,
                                steps |-> [i \in DOMAIN steps(b) |-> CopyOf(steps(b)[i])]]
    BY <1>4
  <1>11. cfg.order \in Seq(Nat) /\ IsInjective(cfg.order) /\ Range(cfg.order) = DOMAIN cfg.commands
    BY DEF Listed, OrderListed
  <1>12. old \in Seq(Nat) /\ Range(old) = C /\ IsInjective(old)
    <2> HIDE DEF C
    <2>1. /\ Among(cfg.order, C) \in Seq(Nat) /\ IsInjective(Among(cfg.order, C))
          /\ Range(Among(cfg.order, C)) = Range(cfg.order) \cap C
      BY <1>11, AmongKeeps
    <2>2. QED
      BY <1>5, <1>11, <2>1
  <1>13. \A i \in DOMAIN old : old[i] \in C /\ old[i] \in 1 .. issued
    BY <1>5, <1>12 DEF Range
  <1> HIDE DEF C, G, s, old, new, copied
  <1>14. more \in Seq(Nat) /\ DOMAIN more = DOMAIN old /\ \A i \in DOMAIN old : more[i] = CopyOf(old[i])
    <2>1. DOMAIN old = 1 .. Len(old) /\ Len(old) \in Nat
      BY <1>12, LenProperties
    <2>2. \A i \in DOMAIN old : CopyOf(old[i]) \in Nat
      BY <1>6, <1>13
    <2>3. QED
      BY <2>1, <2>2
  <1> HIDE DEF more
  <1>15. IsInjective(more)
    <2> SUFFICES ASSUME NEW i \in DOMAIN old, NEW j \in DOMAIN old, more[i] = more[j] PROVE i = j
      BY <1>14 DEF IsInjective
    <2>1. CopyOf(old[i]) - issued = CopyOf(old[j]) - issued
      BY <1>14
    <2>2. old[i] = old[j]
      BY <1>6, <1>13, <2>1
    <2>3. QED
      BY <1>12, <2>2 DEF IsInjective
  <1>16. Range(more) = copied(C)
    <2>1. \A i \in DOMAIN old : more[i] \in copied(C)
      BY <1>13, <1>14 DEF copied
    <2>2. ASSUME NEW x \in C
          PROVE  CopyOf(x) \in Range(more)
      <3>1. PICK i \in DOMAIN old : old[i] = x
        BY <1>12 DEF Range
      <3>2. QED
        BY <1>14, <3>1 DEF Range
    <2>3. QED
      BY <1>14, <2>1, <2>2 DEF Range, copied
  <1>17. OrderListed(new) /\ KeepsOrder(cfg, new)
    <2>1. Range(more) \cap DOMAIN cfg.commands = {}
      BY <1>7, <1>16
    <2>2. QED
      BY <1>2, <1>8, <1>14, <1>15, <1>16, <2>1, OrderGrows DEF Listed
  <1>18. \A b \in DOMAIN new.bundles \ DOMAIN cfg.bundles :
           /\ b - issued \in DOMAIN cfg.bundles /\ cfg.bundles[b - issued].steps \in Seq(Nat)
    BY <1>5, <1>6, <1>9 DEF copied, Listed, StepsListed
  <1>19. ASSUME NEW b \in DOMAIN new.bundles, b \notin DOMAIN cfg.bundles
         PROVE  /\ "steps" \in DOMAIN new.bundles[b] /\ new.bundles[b].steps \in Seq(Nat)
                /\ new.bundles[b].server = s
                /\ \A c \in Range(new.bundles[b].steps) : c \in copied(C)
    <2> DEFINE f == StepsAmong(cfg, b - issued, C)
               g == [i \in DOMAIN f |-> CopyOf(f[i])]
    <2>1. f \in Seq(Nat) /\ Range(f) \subseteq C
      BY <1>18, <1>19, AmongKeeps DEF StepsAmong
    <2>2. new.bundles[b] = [server |-> s, name |-> cfg.bundles[b - issued].name, steps |-> g]
      BY <1>10, <1>19
    <2> HIDE DEF f
    <2>3. \A i \in DOMAIN f : f[i] \in C /\ CopyOf(f[i]) \in Nat
      BY <1>5, <1>6, <2>1 DEF Range
    <2>4. g \in Seq(Nat)
      <3>1. DOMAIN f = 1 .. Len(f) /\ Len(f) \in Nat
        BY <2>1, LenProperties
      <3>2. QED
        BY <2>3, <3>1
    <2>5. \A i \in DOMAIN g : g[i] \in copied(C)
      BY <2>3 DEF copied
    <2> HIDE DEF g
    <2>6. QED
      BY <2>2, <2>4, <2>5 DEF Range
  <1>20. StepsListed(new)
    <2>1. ASSUME NEW b \in DOMAIN cfg.bundles
          PROVE  "steps" \in DOMAIN new.bundles[b] /\ new.bundles[b].steps \in Seq(Nat)
      <3>1. new.bundles[b] = cfg.bundles[b]
        BY <1>10
      <3>2. QED
        BY <3>1 DEF Listed, StepsListed
    <2>2. QED
      BY <1>19, <2>1 DEF StepsListed
  <1>21. ASSUME StepsLocal(cfg), NEW b \in DOMAIN new.bundles, NEW c \in Range(new.bundles[b].steps)
         PROVE  c \in CommandsFor(new, new.bundles[b].server)
    <2>1. CASE b \in DOMAIN cfg.bundles
      <3>1. c \in DOMAIN cfg.commands /\ cfg.commands[c].server = new.bundles[b].server
        BY <1>10, <1>21, <2>1 DEF StepsLocal, CommandsFor
      <3>2. QED
        BY <1>8, <3>1 DEF CommandsFor
    <2>2. CASE b \notin DOMAIN cfg.bundles
      BY <1>7, <1>19, <1>21, <2>2 DEF CommandsFor
    <2>3. QED
      BY <2>1, <2>2
  <1>22. KeepsSteps(cfg, new)
    BY <1>21 DEF KeepsSteps, StepsLocal
  <1>23. QED
    BY <1>1, <1>17, <1>20, <1>22 DEF Follows, Listed, new

LEMMA DuplicateServerLists ==
  ASSUME IInv, ListInv, NEW n, DuplicateServer(n)
  PROVE  ListInv' /\ OrderStays /\ StepsStay
  <1>1. issued \in Nat /\ Good(config, issued) /\ shown \in DOMAIN config.servers
    BY DEF IInv, DuplicateServer
  <1>2. PICK B \in {CopiedBundles(config), {}} : Handler(Copies(config, n, B), shown, issued)
    BY DEF DuplicateServer
  <1>3. DOMAIN Copies(config, n, B) = Parts /\ Follows(config, Copies(config, n, B))
    BY <1>1, CopiesFollow DEF CopiedBundles, ListInv
  <1>4. QED
    BY <1>2, <1>3, HandlerLists

LEMMA AddGroupLists ==
  ASSUME IInv, ListInv, NEW n, AddGroup(n)
  PROVE  ListInv' /\ OrderStays /\ StepsStay
  <1> DEFINE cfg == [RememberGroup(config, shown, issued + 1) EXCEPT
                       !.groups = Put(@, issued + 1, [server |-> shown, name |-> n])]
  <1>1. Handler(cfg, shown, 1)
    BY DEF AddGroup
  <1>2. /\ DOMAIN cfg = Parts /\ cfg.order = config.order /\ cfg.bundles = config.bundles
        /\ cfg.commands = config.commands
    BY PartsThere DEF Parts, RememberGroup
  <1> HIDE DEF cfg
  <1>3. QED
    BY <1>1, <1>2, PlainLists

LEMMA RenameGroupLists ==
  ASSUME IInv, ListInv, NEW g, NEW n, RenameGroup(g, n)
  PROVE  ListInv' /\ OrderStays /\ StepsStay
  <1> DEFINE cfg == [config EXCEPT !.groups[g].name = n]
  <1>1. Handler(cfg, shown, 0)
    BY DEF RenameGroup
  <1>2. /\ DOMAIN cfg = Parts /\ cfg.order = config.order /\ cfg.bundles = config.bundles
        /\ cfg.commands = config.commands
    BY PartsThere DEF Parts
  <1> HIDE DEF cfg
  <1>3. QED
    BY <1>1, <1>2, PlainLists

LEMMA DeleteGroupLists ==
  ASSUME IInv, ListInv, NEW g, DeleteGroup(g)
  PROVE  ListInv' /\ OrderStays /\ StepsStay
  <1> DEFINE cfg == RemoveGroup(RememberGroup(config, shown, NoId), g)
  <1>1. Handler(cfg, shown, 0)
    BY DEF DeleteGroup
  <1>2. /\ DOMAIN cfg = Parts /\ cfg.order = config.order /\ cfg.bundles = config.bundles
        /\ DOMAIN cfg.commands = DOMAIN config.commands
    BY PartsThere DEF Parts, RememberGroup, RemoveGroup
  <1> HIDE DEF cfg
  <1>3. QED
    BY <1>1, <1>2, PlainLists

LEMMA SelectTabLists ==
  ASSUME IInv, ListInv, NEW g, SelectTab(g)
  PROVE  ListInv' /\ OrderStays /\ StepsStay
  <1>1. config' = RememberGroup(config, shown, g) /\ file' = file
    BY DEF SelectTab
  <1>2. config'.order = config.order /\ config'.bundles = config.bundles /\ config'.commands = config.commands
    BY <1>1, PartsThere DEF Parts, RememberGroup
  <1>3. Follows(config, config')
    BY <1>2, PlainFollows DEF ListInv
  <1>4. QED
    BY <1>1, <1>3, FollowsEnds DEF ListInv

\* Nothing of the configuration is changed.
LEMMA NothingLists ==
  ASSUME ListInv, UNCHANGED <<config, file>>
  PROVE  ListInv' /\ OrderStays /\ StepsStay
  BY FollowsEnds, PlainFollows DEF ListInv

-----------------------------------------------------------------------------
(* Commands, again                                                          *)

\* A command is put in the place of one that is there, or behind all of them.
LEMMA WithCommandFollows ==
  ASSUME NEW cfg, DOMAIN cfg = Parts, Listed(cfg), NEW c \in Nat, NEW cmd
  PROVE  DOMAIN WithCommand(cfg, c, cmd) = Parts /\ Follows(cfg, WithCommand(cfg, c, cmd))
  <1> DEFINE new == WithCommand(cfg, c, cmd)
  <1>1. /\ DOMAIN new = Parts /\ new.bundles = cfg.bundles
        /\ DOMAIN new.commands = DOMAIN cfg.commands \cup {c}
        /\ new.order = IF c \in DOMAIN cfg.commands THEN cfg.order ELSE Append(cfg.order, c)
    BY DEF WithCommand, Parts, Put
  <1> HIDE DEF new
  <1>2. CASE c \in DOMAIN cfg.commands
    <2>1. new.order = cfg.order /\ DOMAIN new.commands = DOMAIN cfg.commands
      BY <1>1, <1>2
    <2>2. QED
      BY <1>1, <2>1, PlainFollows DEF new
  <1>3. CASE c \notin DOMAIN cfg.commands
    <2> DEFINE more == <<c>>
    <2>1. more \in Seq(Nat) /\ DOMAIN more = {1} /\ more[1] = c
      OBVIOUS
    <2>2. cfg.order \o more = Append(cfg.order, c)
      BY DEF Listed, OrderListed
    <2> HIDE DEF more
    <2>3. Range(more) = {c} /\ IsInjective(more)
      BY <2>1 DEF Range, IsInjective
    <2>4. /\ new.order = cfg.order \o more /\ DOMAIN new.commands = DOMAIN cfg.commands \cup Range(more)
          /\ Range(more) \cap DOMAIN cfg.commands = {}
      BY <1>1, <1>3, <2>2, <2>3
    <2>5. OrderListed(new) /\ KeepsOrder(cfg, new)
      BY <2>1, <2>3, <2>4, OrderGrows DEF Listed
    <2>6. StepsListed(new)
      BY <1>1 DEF Listed, StepsListed
    <2>7. KeepsSteps(cfg, new)
      BY <1>1, MoreCommandsKeepSteps
    <2>8. QED
      BY <1>1, <2>5, <2>6, <2>7 DEF Follows, Listed, new
  <1>4. QED
    BY <1>2, <1>3

LEMMA CommandAcceptedLists ==
  ASSUME IInv, ListInv, NEW c \in Nat, NEW n, NEW s, NEW g, NEW ids, CommandAccepted(c, n, s, g, ids)
  PROVE  ListInv' /\ OrderStays /\ StepsStay
  <1> DEFINE mid == WithCommand(config, c, [server |-> s, group |-> g, name |-> n])
             cfg == RememberGroup(mid, s, g)
  <1>1. Handler(cfg, shown, ids)
    BY DEF CommandAccepted
  <1>2. DOMAIN mid = Parts /\ Follows(config, mid)
    BY PartsThere, WithCommandFollows DEF ListInv
  <1> HIDE DEF mid
  <1>3. DOMAIN cfg = Parts /\ Unmoved(mid, cfg)
    BY <1>2 DEF RememberGroup, Parts, Unmoved
  <1> HIDE DEF cfg
  <1>4. Follows(config, cfg)
    BY <1>2, <1>3, SameFollows
  <1>5. QED
    BY <1>1, <1>3, <1>4, HandlerLists

LEMMA EditCommandLists ==
  ASSUME IInv, ListInv, NEW c, NEW n, NEW s, NEW g, AddCommand(n, s, g) \/ EditCommand(c, n, s, g)
  PROVE  ListInv' /\ OrderStays /\ StepsStay
  <1>1. issued + 1 \in Nat
    BY PartsThere
  <1>2. CASE AddCommand(n, s, g)
    BY <1>1, <1>2, CommandAcceptedLists DEF AddCommand
  <1>3. CASE EditCommand(c, n, s, g)
    <2>1. c \in Nat
      BY <1>3 DEF EditCommand, Visible, InList, CommandsFor, IInv, Good, Shaped
    <2>2. QED
      BY <1>3, <2>1, CommandAcceptedLists DEF EditCommand
  <1>4. QED
    BY <1>2, <1>3

LEMMA AddPresetsLists ==
  ASSUME IInv, ListInv, NEW names \in Seq(Names), AddPresets(names)
  PROVE  ListInv' /\ OrderStays /\ StepsStay
  <1> DEFINE n == Len(names)
             more == [i \in 1 .. n |-> issued + i]
             commands == [c \in DOMAIN config.commands \cup Range(more) |->
                            IF c \in DOMAIN config.commands THEN config.commands[c]
                            ELSE [server |-> shown, group |-> tab, name |-> names[c - issued]]]
             cfg == [config EXCEPT !.commands = commands, !.order = @ \o more]
  <1>1. Handler(cfg, shown, Len(names))
    BY DEF AddPresets
  <1>2. DOMAIN commands = DOMAIN config.commands \cup Range(more)
    OBVIOUS
  <1>3. /\ DOMAIN cfg = Parts /\ cfg.order = config.order \o more /\ cfg.bundles = config.bundles
        /\ cfg.commands = commands
    BY PartsThere DEF Parts
  <1>4. issued \in Nat /\ n \in Nat /\ DOMAIN config.commands \subseteq 1 .. issued
    BY LenProperties DEF IInv, Good, Shaped
  <1> HIDE DEF cfg, commands, n
  <1>5. more \in Seq(Nat) /\ IsInjective(more)
    <2>1. DOMAIN more = 1 .. n /\ \A i \in 1 .. n : more[i] = issued + i /\ issued + i \in Nat
      BY <1>4
    <2>2. more \in Seq(Nat)
      BY <1>4, <2>1
    <2>3. \A i, j \in 1 .. n : issued + i = issued + j => i = j
      BY <1>4
    <2>4. QED
      BY <2>1, <2>2, <2>3 DEF IsInjective
  <1>6. Range(more) \cap DOMAIN config.commands = {}
    BY <1>4 DEF Range
  <1> HIDE DEF more
  <1>7. OrderListed(cfg) /\ KeepsOrder(config, cfg)
    BY <1>2, <1>3, <1>5, <1>6, OrderGrows DEF ListInv, Listed
  <1>8. StepsListed(cfg)
    BY <1>3 DEF ListInv, Listed, StepsListed
  <1>9. KeepsSteps(config, cfg)
    BY <1>2, <1>3, MoreCommandsKeepSteps
  <1>10. QED
    BY <1>1, <1>3, <1>7, <1>8, <1>9, HandlerLists DEF Follows, Listed

LEMMA DuplicateCommandLists ==
  ASSUME IInv, ListInv, NEW c, NEW n, DuplicateCommand(c, n)
  PROVE  ListInv' /\ OrderStays /\ StepsStay
  <1> DEFINE cfg == WithCommand(config, issued + 1, [config.commands[c] EXCEPT !.name = n])
  <1>1. Handler(cfg, shown, 1)
    BY DEF DuplicateCommand
  <1>2. issued + 1 \in Nat /\ DOMAIN config = Parts
    BY PartsThere
  <1>3. DOMAIN cfg = Parts /\ Follows(config, cfg)
    BY <1>2, WithCommandFollows DEF ListInv
  <1> HIDE DEF cfg
  <1>4. QED
    BY <1>1, <1>3, HandlerLists

\* Erased commands are no steps any more.
LEMMA DropCommandsFollow ==
  ASSUME NEW cfg, DOMAIN cfg = Parts, Listed(cfg), NEW C
  PROVE  DOMAIN DropCommands(cfg, C) = Parts /\ Follows(cfg, DropCommands(cfg, C))
  <1> DEFINE new == DropCommands(cfg, C)
  <1>1. /\ DOMAIN new = Parts /\ new.commands = Without(cfg.commands, C)
        /\ new.order = Besides(cfg.order, C)
        /\ DOMAIN new.bundles = DOMAIN cfg.bundles
        /\ \A b \in DOMAIN cfg.bundles : new.bundles[b] = DropSteps(cfg.bundles[b], C)
    BY DEF DropCommands, Parts
  <1> HIDE DEF new
  <1>2. /\ DOMAIN new.commands = DOMAIN cfg.commands \ C
        /\ \A c \in DOMAIN new.commands : new.commands[c] = cfg.commands[c]
    BY <1>1 DEF Without, Keep
  <1>3. OrderListed(new) /\ KeepsOrder(cfg, new)
    BY <1>1, <1>2, OrderShrinks DEF Listed
  <1>4. DOMAIN new.bundles = DOMAIN cfg.bundles
    BY <1>1
  <1>5. ASSUME NEW b \in DOMAIN new.bundles
        PROVE  /\ "steps" \in DOMAIN new.bundles[b] /\ new.bundles[b].steps \in Seq(Nat)
               /\ "steps" \in DOMAIN cfg.bundles[b]
               /\ new.bundles[b].server = cfg.bundles[b].server
               /\ Range(new.bundles[b].steps) = Range(cfg.bundles[b].steps) \ C
    <2> DEFINE s == cfg.bundles[b].steps
               kept == Besides(s, C)
    <2>1. "steps" \in DOMAIN cfg.bundles[b] /\ s \in Seq(Nat)
      BY <1>4 DEF Listed, StepsListed
    <2>2. new.bundles[b] = [cfg.bundles[b] EXCEPT !.steps = kept]
      BY <1>1, <1>4 DEF DropSteps
    <2> HIDE DEF s
    <2>3. kept \in Seq(Nat) /\ Range(kept) = Range(s) \cap (Range(s) \ C)
      BY <2>1, AmongKeeps DEF Besides
    <2> HIDE DEF kept
    <2>4. new.bundles[b].steps = kept /\ new.bundles[b].server = cfg.bundles[b].server
          /\ DOMAIN new.bundles[b] = DOMAIN cfg.bundles[b]
      BY <2>1, <2>2
    <2>5. QED
      BY <2>1, <2>3, <2>4 DEF s
  <1>6. StepsListed(new)
    BY <1>5 DEF StepsListed
  <1>7. ASSUME StepsLocal(cfg), NEW b \in DOMAIN new.bundles, NEW c \in Range(new.bundles[b].steps)
        PROVE  c \in CommandsFor(new, new.bundles[b].server)
    <2>1. c \in Range(cfg.bundles[b].steps) /\ c \notin C /\ b \in DOMAIN cfg.bundles
      BY <1>4, <1>5, <1>7
    <2>2. c \in DOMAIN cfg.commands /\ cfg.commands[c].server = cfg.bundles[b].server
      BY <1>7, <2>1 DEF StepsLocal, CommandsFor
    <2>3. QED
      BY <1>2, <1>5, <2>1, <2>2 DEF CommandsFor
  <1>8. KeepsSteps(cfg, new)
    BY <1>7 DEF KeepsSteps, StepsLocal
  <1>9. QED
    BY <1>1, <1>3, <1>6, <1>8 DEF Follows, Listed, new

LEMMA DeleteCommandsLists ==
  ASSUME IInv, ListInv, NEW C, DeleteCommands(C)
  PROVE  ListInv' /\ OrderStays /\ StepsStay
  BY PartsThere, DropCommandsFollow, HandlerLists DEF DeleteCommands, ListInv

LEMMA MoveToGroupLists ==
  ASSUME IInv, ListInv, NEW C, NEW g, MoveToGroup(C, g)
  PROVE  ListInv' /\ OrderStays /\ StepsStay
  <1> DEFINE commands == [c \in DOMAIN config.commands |->
                            IF c \in C THEN [config.commands[c] EXCEPT !.group = g] ELSE config.commands[c]]
             cfg == RememberGroup([config EXCEPT !.commands = commands], shown, g)
  <1>1. Handler(cfg, shown, 0)
    BY DEF MoveToGroup
  <1>2. DOMAIN commands = DOMAIN config.commands
    OBVIOUS
  <1> HIDE DEF commands
  <1>3. /\ DOMAIN cfg = Parts /\ cfg.order = config.order /\ cfg.bundles = config.bundles
        /\ cfg.commands = commands
    BY PartsThere DEF Parts, RememberGroup
  <1> HIDE DEF cfg
  <1>4. QED
    BY <1>1, <1>2, <1>3, PlainLists

\* Two commands that stand next to each other in the list that is shown change places.
LEMMA MoveCommandLists ==
  ASSUME IInv, ListInv, NEW i \in DOMAIN config.order, NEW j \in DOMAIN config.order, MoveCommand(i, j)
  PROVE  ListInv' /\ OrderStays /\ StepsStay
  <1> DEFINE cfg == Moved(config, i, j)
             o == config.order
             t == cfg.order
             to(k) == IF k = i THEN j ELSE IF k = j THEN i ELSE k
  <1>1. Handler(cfg, shown, 0)
    BY DEF MoveCommand
  <1>2. /\ i < j /\ o[i] \in Visible /\ o[j] \in Visible
        /\ \A k \in i + 1 .. j - 1 : o[k] \notin Visible
    BY DEF MoveCommand, Neighbours
  <1>3. o \in Seq(Nat) /\ IsInjective(o) /\ Range(o) = DOMAIN config.commands
    BY DEF ListInv, Listed, OrderListed
  <1>4. DOMAIN o = 1 .. Len(o) /\ Len(o) \in Nat
    BY <1>3, LenProperties
  <1>5. /\ DOMAIN cfg = Parts /\ cfg.commands = config.commands /\ cfg.bundles = config.bundles
        /\ t = [[o EXCEPT ![i] = o[j]] EXCEPT ![j] = o[i]]
    BY PartsThere DEF Moved, Parts
  <1>6. /\ DOMAIN t = DOMAIN o
        /\ \A k \in DOMAIN o : t[k] = o[to(k)]
    BY <1>2, <1>4, <1>5
  <1>7. \A k \in DOMAIN o : to(k) \in DOMAIN o /\ to(to(k)) = k /\ to(k) \in Nat /\ k \in Nat
    BY <1>4
  <1>8. \A k \in DOMAIN o : t[to(k)] = o[k]
    BY <1>6, <1>7
  <1> HIDE DEF cfg
  <1>9. OrderListed(cfg)
    <2>1. t \in Seq(Nat)
      <3>1. \A k \in DOMAIN o : o[k] \in Nat
        BY <1>3, ElementOfSeq, <1>4
      <3>2. \A k \in DOMAIN t : t[k] \in Nat
        BY <1>6, <1>7, <3>1
      <3>3. t = [k \in 1 .. Len(o) |-> t[k]]
        BY <1>4, <1>5
      <3>4. QED
        BY <1>4, <1>6, <3>2, <3>3
    <2>2. IsInjective(t)
      <3> SUFFICES ASSUME NEW a \in DOMAIN t, NEW b \in DOMAIN t, t[a] = t[b] PROVE a = b
        BY DEF IsInjective
      <3> HIDE DEF o, t, to
      <3>1. to(a) = to(b)
        BY <1>3, <1>6, <1>7 DEF IsInjective
      <3>2. QED
        BY <1>6, <1>7, <3>1
    <2>3. Range(t) = Range(o)
      <3> HIDE DEF o, t, to
      <3>1. \A k \in DOMAIN t : t[k] \in Range(o)
        BY <1>6, <1>7 DEF Range
      <3>2. \A k \in DOMAIN o : o[k] \in Range(t)
        BY <1>6, <1>7, <1>8 DEF Range
      <3>3. QED
        BY <3>1, <3>2 DEF Range
    <2>4. QED
      BY <1>3, <1>5, <2>1, <2>2, <2>3 DEF OrderListed
  <1>10. StepsListed(cfg)
    BY <1>5 DEF ListInv, Listed, StepsListed
  <1>11. Unmoved(cfg, config') /\ Listed(config') /\ Listed(file')
    BY <1>1, <1>5, <1>9, <1>10, PersistLists DEF Handler, Listed
  <1>12. config'.order = t /\ config'.commands = config.commands /\ config'.bundles = config.bundles
    BY <1>5, <1>11 DEF Unmoved
  <1>13. StepsStay
    BY <1>12, MoreCommandsKeepSteps DEF StepsStay, KeepsSteps, SameServers
  <1> HIDE DEF o, t, to
  <1>14. ASSUME NEW c, NEW d, Before(config, c, d), SameList(config, c, d), ~Before(config', c, d)
         PROVE  c = o[i] /\ d = o[j]
    <2>1. PICK p \in DOMAIN o, q \in DOMAIN o : p < q /\ o[p] = c /\ o[q] = d
      BY <1>14 DEF Before, o
    <2>2. ~(to(p) < to(q))
      BY <1>6, <1>7, <1>8, <1>12, <1>14, <2>1 DEF Before
    <2>3. c \in Visible <=> d \in Visible
      BY <1>14 DEF SameList, Visible, InList, CommandsFor
    <2>4. i \in Nat /\ j \in Nat /\ p \in Nat /\ q \in Nat
      BY <1>7 DEF o
    <2>5. CASE p = i /\ q # j
      <3>1. q \in i + 1 .. j - 1
        BY <1>2, <2>1, <2>2, <2>4, <2>5 DEF to
      <3>2. QED
        BY <1>2, <2>1, <2>3, <2>5, <3>1
    <2>6. CASE p # i /\ q = j
      <3>1. p \in i + 1 .. j - 1
        BY <1>2, <2>1, <2>2, <2>4, <2>6 DEF to
      <3>2. QED
        BY <1>2, <2>1, <2>3, <2>6, <3>1
    <2>7. CASE p = i /\ q = j
      BY <2>1, <2>7
    <2>8. CASE p # i /\ q # j
      BY <1>2, <2>1, <2>2, <2>4, <2>8 DEF to
    <2>9. QED
      BY <2>5, <2>6, <2>7, <2>8
  <1>15. ASSUME NEW e \in Visible, Before(config, o[i], e), Before(config, e, o[j])
         PROVE  FALSE
    <2>1. PICK a \in DOMAIN o, b \in DOMAIN o : a < b /\ o[a] = o[i] /\ o[b] = e
      BY <1>15 DEF Before, o
    <2>2. PICK x \in DOMAIN o, y \in DOMAIN o : x < y /\ o[x] = e /\ o[y] = o[j]
      BY <1>15 DEF Before, o
    <2>3. i \in DOMAIN o /\ j \in DOMAIN o
      BY DEF o
    <2>4. a = i /\ x = b /\ y = j
      BY <1>3, <2>1, <2>2, <2>3 DEF IsInjective
    <2>5. b \in i + 1 .. j - 1
      BY <1>7, <2>1, <2>2, <2>3, <2>4
    <2>6. QED
      BY <1>2, <2>1, <2>5
  <1>16. Before(config', o[j], o[i])
    <2>1. i \in DOMAIN o /\ j \in DOMAIN o /\ to(i) = j /\ to(j) = i
      BY DEF o, to
    <2>2. t[i] = o[j] /\ t[j] = o[i]
      BY <1>6, <2>1
    <2>3. QED
      BY <1>2, <1>6, <1>12, <2>1, <2>2 DEF Before
  <1>17. OrderStays
    BY <1>2, <1>14, <1>15, <1>16 DEF OrderStays
  <1>18. QED
    BY <1>11, <1>13, <1>17 DEF ListInv

-----------------------------------------------------------------------------
(* Bundles, layout and restart, again                                       *)

LEMMA StepSeqsType ==
  ASSUME NEW S, NEW steps \in StepSeqs(S)
  PROVE  steps \in Seq(S) /\ Range(steps) \subseteq S
  <1>1. PICK n \in 1 .. MaxSteps : steps \in [1 .. n -> S]
    BY DEF StepSeqs
  <1>2. n \in Nat
    BY ConfigurationAssumption
  <1>3. QED
    BY <1>1, <1>2 DEF Range

LEMMA BundleAcceptedLists ==
  ASSUME IInv, ListInv, NEW b, NEW n, NEW steps, NEW ids, BundleAccepted(b, n, steps, ids),
         steps \in Seq(Nat), StepsLocal(config) => Range(steps) \subseteq CommandsFor(config, shown)
  PROVE  ListInv' /\ OrderStays /\ StepsStay
  <1> DEFINE bundle == [server |-> shown, name |-> n, steps |-> steps]
             cfg == [config EXCEPT !.bundles = Put(@, b, bundle)]
  <1>1. Handler(cfg, shown, ids)
    BY DEF BundleAccepted
  <1>2. /\ DOMAIN cfg = Parts /\ cfg.order = config.order /\ cfg.commands = config.commands
        /\ DOMAIN cfg.bundles = DOMAIN config.bundles \cup {b} /\ cfg.bundles[b] = bundle
        /\ \A x \in DOMAIN config.bundles \ {b} : cfg.bundles[x] = config.bundles[x]
    BY PartsThere DEF Parts, Put
  <1>3. "steps" \in DOMAIN bundle /\ bundle.steps = steps /\ bundle.server = shown
    OBVIOUS
  <1> HIDE DEF cfg, bundle
  <1>4. OrderListed(cfg) /\ KeepsOrder(config, cfg)
    BY <1>2 DEF ListInv, Listed, OrderListed, KeepsOrder, Before
  <1>5. StepsListed(cfg)
    BY <1>2, <1>3 DEF ListInv, Listed, StepsListed
  <1>6. KeepsSteps(config, cfg)
    <2> SUFFICES ASSUME StepsLocal(config), NEW x \in DOMAIN cfg.bundles
                 PROVE  Range(cfg.bundles[x].steps) \subseteq CommandsFor(config, cfg.bundles[x].server)
      BY <1>2 DEF KeepsSteps, StepsLocal, CommandsFor
    <2>1. CASE x = b
      BY <1>2, <1>3, <2>1
    <2>2. CASE x # b
      BY <1>2, <2>2 DEF StepsLocal
    <2>3. QED
      BY <2>1, <2>2
  <1>7. QED
    BY <1>1, <1>2, <1>4, <1>5, <1>6, HandlerLists DEF Follows, Listed

\* What the dialog offers: commands of the server, if the bundle's steps have been such.
LEMMA EditBundleLists ==
  ASSUME IInv, ListInv, NEW b, NEW n, NEW steps,
         \/ steps \in StepSeqs(CommandsFor(config, shown)) /\ AddBundle(n, steps)
         \/ steps \in StepSeqs(Offered(b)) /\ EditBundle(b, n, steps)
  PROVE  ListInv' /\ OrderStays /\ StepsStay
  <1>1. DOMAIN config.commands \subseteq Nat
    BY DEF IInv, Good, Shaped
  <1>2. ASSUME NEW S \in SUBSET (DOMAIN config.commands), steps \in StepSeqs(S)
        PROVE  steps \in Seq(Nat) /\ Range(steps) \subseteq S
    <2>1. steps \in Seq(S) /\ Range(steps) \subseteq S
      BY <1>2, StepSeqsType
    <2>2. S \subseteq Nat
      BY <1>1
    <2>3. QED
      BY <2>1, <2>2
  <1>3. CASE steps \in StepSeqs(CommandsFor(config, shown)) /\ AddBundle(n, steps)
    <2>1. CommandsFor(config, shown) \in SUBSET (DOMAIN config.commands)
      BY DEF CommandsFor
    <2>2. QED
      BY <1>2, <1>3, <2>1, BundleAcceptedLists DEF AddBundle
  <1>4. CASE steps \in StepSeqs(Offered(b)) /\ EditBundle(b, n, steps)
    <2>1. Offered(b) \in SUBSET (DOMAIN config.commands)
      BY DEF Offered, CommandsFor
    <2>2. steps \in Seq(Nat) /\ Range(steps) \subseteq Offered(b)
      BY <1>2, <1>4, <2>1
    <2>3. StepsLocal(config) => Offered(b) \subseteq CommandsFor(config, shown)
      BY <1>4 DEF StepsLocal, Offered, EditBundle, BundlesFor
    <2>4. QED
      BY <1>4, <2>2, <2>3, BundleAcceptedLists DEF EditBundle
  <1>5. QED
    BY <1>3, <1>4

LEMMA DeleteBundleLists ==
  ASSUME IInv, ListInv, NEW b, DeleteBundle(b)
  PROVE  ListInv' /\ OrderStays /\ StepsStay
  <1> DEFINE cfg == [config EXCEPT !.bundles = Without(@, {b})]
  <1>1. Handler(cfg, shown, 0)
    BY DEF DeleteBundle
  <1>2. /\ DOMAIN cfg = Parts /\ cfg.order = config.order /\ cfg.commands = config.commands
        /\ DOMAIN cfg.bundles \subseteq DOMAIN config.bundles
        /\ \A x \in DOMAIN cfg.bundles : cfg.bundles[x] = config.bundles[x]
    BY PartsThere DEF Parts, Without, Keep
  <1> HIDE DEF cfg
  <1>3. OrderListed(cfg) /\ KeepsOrder(config, cfg)
    BY <1>2 DEF ListInv, Listed, OrderListed, KeepsOrder, Before
  <1>4. StepsListed(cfg)
    BY <1>2 DEF ListInv, Listed, StepsListed
  <1>5. KeepsSteps(config, cfg)
    BY <1>2 DEF KeepsSteps, StepsLocal, CommandsFor
  <1>6. QED
    BY <1>1, <1>2, <1>3, <1>4, <1>5, HandlerLists DEF Follows, Listed

LEMMA SaveLayoutLists ==
  ASSUME IInv, ListInv, SaveLayout
  PROVE  ListInv' /\ OrderStays /\ StepsStay
  <1>1. Unmoved(config, config') /\ Listed(file')
    BY PartsThere, PersistLists DEF SaveLayout, ListInv
  <1>2. Follows(config, config')
    BY <1>1, SameFollows, PlainFollows DEF ListInv
  <1>3. QED
    BY <1>1, <1>2, FollowsEnds

LEMMA LoadedLists ==
  ASSUME NEW cfg, DOMAIN cfg = Parts, Listed(cfg)
  PROVE  /\ Listed(Loaded(cfg))
         /\ StepsLocal(cfg) => StepsLocal(Loaded(cfg))
  <1> DEFINE new == Loaded(cfg)
  <1>1. /\ new.order = cfg.order /\ new.commands = cfg.commands
        /\ DOMAIN new.bundles \subseteq DOMAIN cfg.bundles
        /\ \A b \in DOMAIN new.bundles : new.bundles[b] = cfg.bundles[b]
    BY DEF Loaded, Keep, Parts
  <1> HIDE DEF new
  <1>2. Listed(new)
    BY <1>1 DEF Listed, OrderListed, StepsListed
  <1>3. StepsLocal(cfg) => StepsLocal(new)
    BY <1>1 DEF StepsLocal, CommandsFor
  <1>4. QED
    BY <1>2, <1>3 DEF new

LEMMA RestartLists ==
  ASSUME IInv, ListInv, Restart
  PROVE  ListInv' /\ OrderStays /\ StepsStay
  <1>1. config' = Loaded(file) /\ file' = config'
    BY DEF Restart
  <1>2. Listed(config') /\ (StepsLocal(file) => StepsLocal(config'))
    BY <1>1, PartsThere, LoadedLists DEF ListInv
  <1>3. QED
    BY <1>1, <1>2 DEF ListInv, OrderStays, StepsStay

LEMMA SeqGrows ==
  ASSUME NEW S, NEW T, S \subseteq T, NEW s \in Seq(S)
  PROVE  s \in Seq(T)
  OBVIOUS

LEMMA InitLists == Init => ListInv
  <1> SUFFICES ASSUME Init PROVE ListInv
    OBVIOUS
  <1>1. IsConfig(Saved, SavedIds) /\ SavedIds \in Nat
    BY ConfigurationAssumption
  <1>2. DOMAIN Saved = Parts
    BY <1>1 DEF IsConfig, Parts
  <1>3. OrderListed(Saved)
    <2>1. Saved.order \in Seq(1 .. SavedIds) /\ 1 .. SavedIds \subseteq Nat
      BY <1>1 DEF IsConfig
    <2>2. Saved.order \in Seq(Nat)
      BY <2>1, SeqGrows
    <2>3. QED
      BY <1>1, <2>2 DEF IsConfig, OrderListed
  <1>4. StepsListed(Saved)
    <2> SUFFICES ASSUME NEW b \in DOMAIN Saved.bundles
                 PROVE  "steps" \in DOMAIN Saved.bundles[b] /\ Saved.bundles[b].steps \in Seq(Nat)
      BY DEF StepsListed
    <2>1. Saved.bundles[b] \in [server : 1 .. SavedIds, name : Names, steps : Seq(1 .. SavedIds)]
      BY <1>1 DEF IsConfig
    <2>2. Saved.bundles[b].steps \in Seq(1 .. SavedIds) /\ "steps" \in DOMAIN Saved.bundles[b]
      BY <2>1
    <2>3. 1 .. SavedIds \subseteq Nat
      OBVIOUS
    <2>4. QED
      BY <2>2, <2>3, SeqGrows
  <1>5. QED
    BY <1>2, <1>3, <1>4, LoadedLists DEF Init, ListInv, Listed

LEMMA CommandStepLists ==
  ASSUME IInv, ListInv, CommandStep
  PROVE  ListInv' /\ OrderStays /\ StepsStay
  <1>1. ASSUME NEW n \in 1 .. MaxPresets, NEW names \in [1 .. n -> Names], AddPresets(names)
        PROVE  ListInv' /\ OrderStays /\ StepsStay
    <2>1. names \in Seq(Names)
      BY ConfigurationAssumption
    <2>2. QED
      BY <1>1, <2>1, AddPresetsLists
  <1>2. QED
    BY <1>1, EditCommandLists, DuplicateCommandLists, DeleteCommandsLists,
       MoveToGroupLists, MoveCommandLists DEF CommandStep

LEMMA NextLists ==
  ASSUME IInv, ListInv, [Next]_vars
  PROVE  ListInv' /\ OrderStays /\ StepsStay
  <1>1. CASE ServerStep
    <2>1. ASSUME NEW s, SelectServer(s) PROVE ListInv' /\ OrderStays /\ StepsStay
      BY <2>1, NothingLists DEF SelectServer
    <2>2. QED
      BY <1>1, <2>1, AddServerLists, EditServerLists, DuplicateServerLists, DeleteServerLists DEF ServerStep
  <1>2. CASE GroupStep
    BY <1>2, AddGroupLists, RenameGroupLists, DeleteGroupLists, SelectTabLists DEF GroupStep
  <1>3. CASE CommandStep
    BY <1>3, CommandStepLists
  <1>4. CASE BundleStep
    BY <1>4, EditBundleLists, DeleteBundleLists DEF BundleStep
  <1>5. CASE SaveLayout \/ Restart
    BY <1>5, SaveLayoutLists, RestartLists
  <1>6. CASE UNCHANGED vars
    BY <1>6, NothingLists DEF vars
  <1>7. QED
    BY <1>1, <1>2, <1>3, <1>4, <1>5, <1>6 DEF Next

\* For any servers, groups, commands and edits of them: while a command is in a list, what
\* stands before and behind it in the saved order stays so, but for the moves by "up" and
\* "down", which change the places of two neighbours of the list that is shown
\* (move_command, set_commands_for; erase_if and push_back everywhere else).
THEOREM OrderIsKept == Spec => OrderKept
  <1>1. IInv /\ ListInv /\ [Next]_vars => ListInv' /\ [OrderStays]_vars
    BY NextLists
  <1>2. Init /\ [][Next]_vars => [][OrderStays]_vars
    BY InitGood, InitLists, NextKeeps, <1>1, PTL
  <1>3. QED
    BY <1>2 DEF Spec, OrderKept, OrderStays

\* For any servers, bundles and edits of them: a bundle has steps of another server only
\* once a command it has is given to another server, or if it had in what was loaded
\* (drop_command_from_bundles, duplicate_server, delete_server, BundleDialog).
THEOREM StepsAreLocal == Spec => StepsStayLocal
  <1>1. IInv /\ ListInv /\ [Next]_vars => ListInv' /\ [StepsStay]_vars
    BY NextLists
  <1>2. Init /\ [][Next]_vars => [][StepsStay]_vars
    BY InitGood, InitLists, NextKeeps, <1>1, PTL
  <1>3. QED
    BY <1>2 DEF Spec, StepsStayLocal, StepsStay

-----------------------------------------------------------------------------
(* Imports: their loops go through a file element by element               *)

\* The greatest of numbers up to n, when n is one of them
LEMMA MaxIsIt ==
  ASSUME NEW n \in Nat, NEW x \in SUBSET (0 .. n), n \in x
  PROVE  Max(x) = n
  <1>1. n \in x /\ \A y \in x : n >= y
    <2>1. \A y \in x : y \in 0 .. n
      OBVIOUS
    <2>2. QED
      BY <2>1
  <1> DEFINE m == Max(x)
  <1>2. m \in x /\ \A y \in x : m >= y
    BY <1>1 DEF Max
  <1> HIDE DEF m
  <1>3. m >= n /\ n >= m /\ m \in 0 .. n
    BY <1>1, <1>2
  <1>4. m = n
    BY <1>3
  <1>5. QED
    BY <1>4 DEF m

\* Some numbers up to N have a greatest one.
LEMMA MaxIsThere ==
  ASSUME NEW N \in Nat, NEW x \in SUBSET (0 .. N), x # {}
  PROVE  Max(x) \in x /\ \A y \in x : y <= Max(x)
  <1> DEFINE True == {n \in 0 .. N : \A y \in SUBSET (0 .. n) : y # {} => Max(y) \in y /\ \A z \in y : z <= Max(y)}
  <1>1. 0 \in True
    <2>1. \A y \in SUBSET (0 .. 0) : y # {} => y = {0}
      <3>1. 0 .. 0 = {0}
        OBVIOUS
      <3>2. QED
        BY <3>1
    <2>2. Max({0}) = 0
      BY MaxIsIt
    <2>3. \A y \in SUBSET (0 .. 0) : y # {} => Max(y) \in y /\ \A z \in y : z <= Max(y)
      BY <2>1, <2>2
    <2>4. 0 \in 0 .. N
      OBVIOUS
    <2>5. QED
      BY <2>3, <2>4
  <1>2. ASSUME NEW n \in 1 .. N, n - 1 \in True PROVE n \in True
    <2> SUFFICES ASSUME NEW y \in SUBSET (0 .. n), y # {} PROVE Max(y) \in y /\ \A z \in y : z <= Max(y)
      OBVIOUS
    <2>1. CASE n \in y
      <3>1. Max(y) = n
        BY <2>1, MaxIsIt
      <3>2. \A z \in y : z \in 0 .. n
        OBVIOUS
      <3>3. QED
        BY <2>1, <3>1, <3>2
    <2>2. CASE n \notin y
      <3>1. y \in SUBSET (0 .. (n - 1))
        BY <2>2
      <3>2. QED
        BY <1>2, <3>1
    <2>3. QED
      BY <2>1, <2>2
  <1>3. True \in SUBSET (0 .. N)
    OBVIOUS
  <1> HIDE DEF True
  <1>4. True = 0 .. N
    BY <1>1, <1>2, <1>3, Below
  <1>5. QED
    BY <1>4 DEF True

\* Some numbers have a least one.
LEMMA MinIsThere ==
  ASSUME NEW x \in SUBSET Nat, x # {}
  PROVE  Min(x) \in x /\ \A y \in x : Min(x) <= y
  <1> DEFINE R == {p \in Nat \X Nat : p[1] < p[2]}
  <1>1. IsWellFoundedOn(R, Nat)
    BY NatLessThanWellFounded DEF OpToRel
  <1>2. PICK m \in x : \A y \in x : ~(<<y, m>> \in R)
    BY <1>1, WFMin
  <1>3. \A y \in x : m <= y
    <2>1. ASSUME NEW y \in x, y < m PROVE FALSE
      <3>1. <<y, m>> \in Nat \X Nat /\ <<y, m>>[1] < <<y, m>>[2]
        BY <2>1
      <3>2. QED
        BY <1>2, <3>1
    <2>2. m \in Nat /\ \A y \in x : y \in Nat
      OBVIOUS
    <2>3. QED
      BY <2>1, <2>2
  <1>4. QED
    BY <1>2, <1>3 DEF Min

\* Its greatest number away, a range of numbers is the range that ends before it.
LEMMA UpTo ==
  ASSUME NEW N \in Nat, NEW n \in 1 .. N
  PROVE  /\ 1 .. n \in SUBSET (1 .. N) /\ 1 .. n # {}
         /\ Max(1 .. n) = n /\ (1 .. n) \ {n} = 1 .. (n - 1)
  <1>1. 1 .. n \in SUBSET (1 .. N) /\ n \in 1 .. n /\ (1 .. n) \ {n} = 1 .. (n - 1)
    OBVIOUS
  <1>2. 1 .. n \in SUBSET (0 .. n) /\ n \in Nat
    OBVIOUS
  <1>3. Max(1 .. n) = n
    BY <1>1, <1>2, MaxIsIt
  <1>4. QED
    BY <1>1, <1>3

\* One step of each of the loops of an import: over its servers, groups, commands and bundles,
\* and over the steps of a bundle of the server p
Does(kind, t, x, p) ==
  CASE kind = "servers"  -> IF p /\ ServerAt(t.config, x) # NoId THEN t ELSE New(t, "servers", x)
    [] kind = "groups"   -> LET s == ServerAt(t.config, x.server) IN
                            IF s = NoId THEN t ELSE EnsureGroup(t, s, x.name)
    [] kind = "commands" -> AddCommand1(t, x, p)
    [] kind = "bundles"  -> AddBundle1(t, x, p)
    [] kind = "steps"    -> EnsureGroup(t, p, x.group)

\* The function g goes through subsets of the first N elements of q as a fold does.
Loops(g, kind, p, q, N, base) ==
  g = [x \in SUBSET (1 .. N) |->
         IF x = {} THEN base ELSE Does(kind, g[x \ {Max(x)}], q[Max(x)], p)]

\* There is such a function for every N: the loop ends.
LEMMA LoopEnds ==
  ASSUME NEW kind, NEW p, NEW q, NEW base, NEW N \in Nat
  PROVE  \E g : Loops(g, kind, p, q, N, base)
  <1> DEFINE There == {n \in 0 .. N : \E g : Loops(g, kind, p, q, n, base)}
  <1>1. 0 \in There
    <2> DEFINE g == [x \in SUBSET (1 .. 0) |-> base]
    <2>1. \A x \in SUBSET (1 .. 0) : x = {}
      OBVIOUS
    <2>2. Loops(g, kind, p, q, 0, base)
      BY <2>1 DEF Loops
    <2>3. QED
      BY <2>2
  <1>2. ASSUME NEW n \in 1 .. N, n - 1 \in There PROVE n \in There
    <2>1. PICK g : Loops(g, kind, p, q, n - 1, base)
      BY <1>2
    <2> DEFINE h == [x \in SUBSET (1 .. n) |->
                       IF n \in x THEN Does(kind, g[x \ {n}], q[n], p) ELSE g[x]]
    <2>2. \A x \in SUBSET (1 .. n) : x \ {n} \in SUBSET (1 .. (n - 1))
      OBVIOUS
    <2>3. \A x \in SUBSET (1 .. n) : n \notin x => x \in SUBSET (1 .. (n - 1))
      OBVIOUS
    <2>4. ASSUME NEW x \in SUBSET (1 .. n)
          PROVE  h[x] = IF x = {} THEN base ELSE Does(kind, h[x \ {Max(x)}], q[Max(x)], p)
      <3>1. CASE n \in x
        <4>1. Max(x) = n
          <5>1. x \in SUBSET (0 .. n) /\ n \in Nat
            OBVIOUS
          <5>2. QED
            BY <3>1, <5>1, MaxIsIt
        <4>2. x \ {n} \in SUBSET (1 .. n) /\ n \notin x \ {n}
          OBVIOUS
        <4>3. h[x \ {n}] = g[x \ {n}] /\ h[x] = Does(kind, g[x \ {n}], q[n], p) /\ x # {}
          BY <3>1, <4>2
        <4>4. QED
          BY <4>1, <4>3
      <3>2. CASE n \notin x
        <4>1. x \in SUBSET (1 .. (n - 1)) /\ x \ {Max(x)} \in SUBSET (1 .. (n - 1))
          BY <2>3, <3>2
        <4>2. x \ {Max(x)} \in SUBSET (1 .. n) /\ n \notin x \ {Max(x)}
          BY <3>2
        <4>3. h[x] = g[x] /\ h[x \ {Max(x)}] = g[x \ {Max(x)}]
          BY <3>2, <4>2
        <4>4. g[x] = IF x = {} THEN base ELSE Does(kind, g[x \ {Max(x)}], q[Max(x)], p)
          BY <2>1, <4>1 DEF Loops
        <4>5. QED
          BY <4>3, <4>4
      <3>3. QED
        BY <3>1, <3>2
    <2>5. h = [x \in SUBSET (1 .. n) |-> h[x]]
      OBVIOUS
    <2> HIDE DEF h
    <2>6. Loops(h, kind, p, q, n, base)
      BY <2>4, <2>5 DEF Loops
    <2>7. n \in 0 .. N
      OBVIOUS
    <2>8. QED
      BY <2>6, <2>7
  <1>3. There \in SUBSET (0 .. N)
    OBVIOUS
  <1> HIDE DEF There
  <1>4. There = 0 .. N
    BY <1>1, <1>2, <1>3, Below
  <1>5. N \in There
    BY <1>4
  <1>6. QED
    BY <1>5 DEF There

\* What the loop has come to after n elements
Loop(kind, p, q, N, base, n) ==
  (CHOOSE g : g = [x \in SUBSET (1 .. N) |->
                     IF x = {} THEN base ELSE Does(kind, g[x \ {Max(x)}], q[Max(x)], p)])[1 .. n]

LEMMA LoopGoesOn ==
  ASSUME NEW kind, NEW p, NEW q, NEW base, NEW N \in Nat
  PROVE  /\ Loop(kind, p, q, N, base, 0) = base
         /\ \A n \in 1 .. N :
              Loop(kind, p, q, N, base, n) = Does(kind, Loop(kind, p, q, N, base, n - 1), q[n], p)
  <1> DEFINE iter == CHOOSE g : g = [x \in SUBSET (1 .. N) |->
                        IF x = {} THEN base ELSE Does(kind, g[x \ {Max(x)}], q[Max(x)], p)]
  <1>1. \A n : Loop(kind, p, q, N, base, n) = iter[1 .. n]
    BY DEF Loop
  <1>2. iter = [x \in SUBSET (1 .. N) |->
                  IF x = {} THEN base ELSE Does(kind, iter[x \ {Max(x)}], q[Max(x)], p)]
    <2>1. PICK g : Loops(g, kind, p, q, N, base)
      BY LoopEnds
    <2>2. g = [x \in SUBSET (1 .. N) |->
                 IF x = {} THEN base ELSE Does(kind, g[x \ {Max(x)}], q[Max(x)], p)]
      BY <2>1 DEF Loops
    <2>3. QED
      BY <2>2
  <1> HIDE DEF iter
  <1>3. iter[1 .. 0] = base
    <2>1. 1 .. 0 = {} /\ {} \in SUBSET (1 .. N)
      OBVIOUS
    <2>2. QED
      BY <1>2, <2>1
  <1>4. ASSUME NEW n \in 1 .. N PROVE iter[1 .. n] = Does(kind, iter[1 .. (n - 1)], q[n], p)
    <2>1. /\ 1 .. n \in SUBSET (1 .. N) /\ 1 .. n # {}
          /\ Max(1 .. n) = n /\ (1 .. n) \ {n} = 1 .. (n - 1)
      BY UpTo
    <2>2. QED
      BY <1>2, <2>1
  <1>5. QED
    BY <1>1, <1>3, <1>4

\* The five loops
LEMMA ServersLoop ==
  ASSUME NEW to, NEW q, NEW N \in Nat, DOMAIN q = 1 .. N, NEW skip
  PROVE  AddServers(to, q, skip) = Loop("servers", skip, q, N, to, N)
  BY DEF AddServers, FoldLeft, MapThenFoldSet, Loop, Does

LEMMA GroupsLoop ==
  ASSUME NEW to, NEW q, NEW N \in Nat, DOMAIN q = 1 .. N, NEW skip
  PROVE  AddGroups(to, q) = Loop("groups", skip, q, N, to, N)
  BY DEF AddGroups, FoldLeft, MapThenFoldSet, Loop, Does

LEMMA CommandsLoop ==
  ASSUME NEW to, NEW q, NEW N \in Nat, DOMAIN q = 1 .. N, NEW skip
  PROVE  AddCommands(to, q, skip) = Loop("commands", skip, q, N, to, N)
  BY DEF AddCommands, FoldLeft, MapThenFoldSet, Loop, Does

LEMMA BundlesLoop ==
  ASSUME NEW to, NEW q, NEW N \in Nat, DOMAIN q = 1 .. N, NEW skip
  PROVE  AddBundles(to, q, skip) = Loop("bundles", skip, q, N, to, N)
  BY DEF AddBundles, FoldLeft, MapThenFoldSet, Loop, Does

LEMMA StepsLoop ==
  ASSUME NEW to, NEW q, NEW N \in Nat, DOMAIN q = 1 .. N, NEW s
  PROVE  EnsureGroups(to, s, q) = Loop("steps", s, q, N, to, N)
  BY DEF EnsureGroups, FoldLeft, MapThenFoldSet, Loop, Does

-----------------------------------------------------------------------------
(* What an import has come to is as good as what it began with              *)

Pair(t) == t = [config |-> t.config, issued |-> t.issued]
Fine(t) == Pair(t) /\ t.issued \in Nat /\ Good(t.config, t.issued) /\ Listed(t.config)

Grown(f, g) == DOMAIN f \subseteq DOMAIN g /\ \A x \in DOMAIN f : g[x] = f[x]

\* u comes of t by steps of a loop of this kind.
More(kind, t, u) ==
  /\ Fine(t) /\ Fine(u) /\ t.issued <= u.issued
  /\ Grown(t.config.servers, u.config.servers) /\ Grown(t.config.groups, u.config.groups)
  /\ Grown(t.config.commands, u.config.commands) /\ Grown(t.config.bundles, u.config.bundles)
  /\ kind # "servers" => u.config.servers = t.config.servers
  /\ kind # "commands" => u.config.commands = t.config.commands

LEMMA MoreNothing ==
  ASSUME NEW kind, NEW t, Fine(t)
  PROVE  More(kind, t, t)
  BY DEF More, Grown, Fine

LEMMA MoreAndMore ==
  ASSUME NEW kind, NEW t, NEW u, NEW v, More(kind, t, u), More(kind, u, v)
  PROVE  More(kind, t, v)
  BY DEF More, Grown, Fine

\* A new part, with a new id.
LEMMA NewIs ==
  ASSUME NEW t, Fine(t), NEW part \in {"servers", "groups", "commands", "bundles"}, NEW item
  PROVE  LET u == New(t, part, item) IN
         /\ Pair(u)
         /\ u.issued = t.issued + 1 /\ u.issued \in Nat
         /\ DOMAIN u.config = Parts
         /\ \A q \in Parts \ {part} : u.config[q] = t.config[q]
         /\ Grown(t.config[part], u.config[part])
         /\ DOMAIN u.config[part] = DOMAIN t.config[part] \cup {t.issued + 1}
         /\ u.config[part][t.issued + 1] = item
  <1> DEFINE u == New(t, part, item)
             n == t.issued + 1
  <1>1. t.issued \in Nat /\ DOMAIN t.config = Parts /\ part \in Parts
    BY DEF Fine, Good, Shaped, Parts
  <1>2. u = [config |-> [t.config EXCEPT ![part] = Put(t.config[part], n, item)], issued |-> n]
    BY DEF New
  <1>3. u.issued = n /\ u.config = [t.config EXCEPT ![part] = Put(t.config[part], n, item)] /\ Pair(u)
    BY <1>2 DEF Pair
  <1>4. /\ DOMAIN u.config = Parts /\ u.config[part] = Put(t.config[part], n, item)
        /\ \A q \in Parts \ {part} : u.config[q] = t.config[q]
    BY <1>1, <1>3
  <1>5. DOMAIN t.config[part] \subseteq 1 .. t.issued
    BY <1>1 DEF Fine, Good, Shaped
  <1>6. n \notin DOMAIN t.config[part] /\ n \in Nat
    BY <1>1, <1>5
  <1> HIDE DEF u, n
  <1>7. /\ DOMAIN u.config[part] = DOMAIN t.config[part] \cup {n} /\ u.config[part][n] = item
        /\ \A x \in DOMAIN t.config[part] : u.config[part][x] = t.config[part][x]
    BY <1>4, <1>6 DEF Put
  <1>8. QED
    BY <1>3, <1>4, <1>6, <1>7 DEF Grown, u, n

LEMMA NewServerMore ==
  ASSUME NEW t, Fine(t), NEW x
  PROVE  More("servers", t, New(t, "servers", x))
  <1> DEFINE u == New(t, "servers", x)
  <1>1. /\ Pair(u) /\ u.issued = t.issued + 1 /\ u.issued \in Nat /\ DOMAIN u.config = Parts
        /\ u.config.groups = t.config.groups /\ u.config.commands = t.config.commands
        /\ u.config.bundles = t.config.bundles /\ u.config.order = t.config.order
        /\ Grown(t.config.servers, u.config.servers)
        /\ DOMAIN u.config.servers = DOMAIN t.config.servers \cup {t.issued + 1}
    BY NewIs DEF Parts
  <1> HIDE DEF u
  <1>2. t.issued \in Nat /\ t.issued <= u.issued
    BY <1>1 DEF Fine
  <1>3. Good(t.config, u.issued)
    BY <1>1, <1>2, GoodGrows DEF Fine
  <1>4. DOMAIN u.config.servers \subseteq 1 .. u.issued
    BY <1>1, <1>2, <1>3 DEF Good, Shaped
  <1>5. Shaped(u.config, u.issued)
    BY <1>1, <1>3, <1>4 DEF Good, Shaped
  <1>6. References(u.config)
    BY <1>1, <1>3 DEF Good, References, GroupsFor
  <1>7. Listed(u.config)
    BY <1>1 DEF Fine, Listed, OrderListed, StepsListed
  <1>8. QED
    BY <1>1, <1>2, <1>5, <1>6, <1>7 DEF More, Fine, Good, Grown, u

LEMMA NewGroupMore ==
  ASSUME NEW kind, NEW t, Fine(t), NEW x, {"server", "name"} \subseteq DOMAIN x,
         x.server \in DOMAIN t.config.servers, x.name # NoName
  PROVE  More(kind, t, New(t, "groups", x))
  <1> DEFINE u == New(t, "groups", x)
             n == t.issued + 1
  <1>1. /\ Pair(u) /\ u.issued = n /\ u.issued \in Nat /\ DOMAIN u.config = Parts
        /\ u.config.servers = t.config.servers /\ u.config.commands = t.config.commands
        /\ u.config.bundles = t.config.bundles /\ u.config.order = t.config.order
        /\ Grown(t.config.groups, u.config.groups)
        /\ DOMAIN u.config.groups = DOMAIN t.config.groups \cup {n}
        /\ u.config.groups[n] = x
    BY NewIs DEF Parts
  <1>2. t.issued \in Nat /\ t.issued <= u.issued /\ n \in 1 .. u.issued
    BY <1>1 DEF Fine
  <1> HIDE DEF u, n
  <1>3. Good(t.config, u.issued)
    BY <1>1, <1>2, GoodGrows DEF Fine
  <1>4. Shaped(u.config, u.issued)
    BY <1>1, <1>2, <1>3 DEF Good, Shaped, Grown
  <1>5. References(u.config)
    <2>1. \A g \in DOMAIN u.config.groups : u.config.groups[g].server \in DOMAIN u.config.servers
      BY <1>1, <1>3 DEF Good, References, Grown
    <2>2. \A s : GroupsFor(t.config, s) \subseteq GroupsFor(u.config, s)
      BY <1>1 DEF GroupsFor, Grown
    <2>3. QED
      BY <1>1, <1>3, <2>1, <2>2 DEF Good, References
  <1>6. Listed(u.config)
    BY <1>1 DEF Fine, Listed, OrderListed, StepsListed
  <1>7. QED
    BY <1>1, <1>2, <1>4, <1>5, <1>6 DEF More, Fine, Good, Grown, u

LEMMA NewBundleMore ==
  ASSUME NEW t, Fine(t), NEW x, {"server", "steps"} \subseteq DOMAIN x,
         x.server \in DOMAIN t.config.servers, x.steps \in Seq(Nat)
  PROVE  More("bundles", t, New(t, "bundles", x))
  <1> DEFINE u == New(t, "bundles", x)
             n == t.issued + 1
  <1>1. /\ Pair(u) /\ u.issued = n /\ u.issued \in Nat /\ DOMAIN u.config = Parts
        /\ u.config.servers = t.config.servers /\ u.config.commands = t.config.commands
        /\ u.config.groups = t.config.groups /\ u.config.order = t.config.order
        /\ Grown(t.config.bundles, u.config.bundles)
        /\ DOMAIN u.config.bundles = DOMAIN t.config.bundles \cup {n}
        /\ u.config.bundles[n] = x
    BY NewIs DEF Parts
  <1>2. t.issued \in Nat /\ t.issued <= u.issued /\ n \in 1 .. u.issued
    BY <1>1 DEF Fine
  <1> HIDE DEF u, n
  <1>3. Good(t.config, u.issued)
    BY <1>1, <1>2, GoodGrows DEF Fine
  <1>4. Shaped(u.config, u.issued)
    BY <1>1, <1>2, <1>3 DEF Good, Shaped, Grown
  <1>5. References(u.config)
    BY <1>1, <1>3 DEF Good, References, Grown, GroupsFor
  <1>6. Listed(u.config)
    <2>1. OrderListed(u.config)
      BY <1>1 DEF Fine, Listed, OrderListed
    <2>2. StepsListed(u.config)
      BY <1>1 DEF Fine, Listed, StepsListed, Grown
    <2>3. QED
      BY <2>1, <2>2 DEF Listed
  <1>7. QED
    BY <1>1, <1>2, <1>4, <1>5, <1>6 DEF More, Fine, Good, Grown, u

LEMMA NewCommandMore ==
  ASSUME NEW t, Fine(t), NEW x, {"server", "group"} \subseteq DOMAIN x,
         x.server \in DOMAIN t.config.servers, x.group \in {NoId} \cup GroupsFor(t.config, x.server)
  PROVE  LET new == New(t, "commands", x)
             u   == [new EXCEPT !.config.order = Append(@, new.issued)]
         IN  /\ More("commands", t, u)
             /\ t.issued + 1 \in DOMAIN u.config.commands /\ u.config.commands[t.issued + 1] = x
             /\ u.config.groups = t.config.groups
  <1> DEFINE new == New(t, "commands", x)
             n == t.issued + 1
             u == [new EXCEPT !.config.order = Append(@, new.issued)]
             w == WithCommand(t.config, n, x)
  <1>1. t.issued \in Nat /\ n \in Nat /\ t.issued <= n /\ n \in 1 .. n /\ DOMAIN t.config = Parts
    BY DEF Fine, Good, Shaped
  <1>2. n \notin DOMAIN t.config.commands
    BY <1>1 DEF Fine, Good, Shaped
  <1>3. u.issued = n /\ u.config = w /\ Pair(u)
    <2> DEFINE cfg == [t.config EXCEPT !.commands = Put(t.config.commands, n, x)]
               v   == [cfg EXCEPT !.order = Append(cfg.order, n)]
    <2>1. new = [config |-> cfg, issued |-> n]
      BY <1>1 DEF New
    <2>2. w = [t.config EXCEPT !.commands = Put(t.config.commands, n, x), !.order = Append(t.config.order, n)]
      BY <1>2 DEF WithCommand
    <2>3. v = w
      BY <1>1, <2>2 DEF Parts
    <2> HIDE DEF cfg, new, w, n
    <2>4. u = [config |-> v, issued |-> n]
      BY <2>1
    <2> HIDE DEF u, v
    <2>5. QED
      BY <2>3, <2>4 DEF Pair
  <1>4. Good(w, n) /\ w.servers = t.config.servers /\ w.groups = t.config.groups
    BY <1>1, WithCommandGood DEF Fine
  <1>5. Listed(w)
    BY <1>1, WithCommandFollows DEF Fine, Follows
  <1>6. /\ w.bundles = t.config.bundles /\ DOMAIN w.commands = DOMAIN t.config.commands \cup {n}
        /\ w.commands[n] = x
        /\ \A c \in DOMAIN t.config.commands : w.commands[c] = t.config.commands[c]
    BY <1>1, <1>2 DEF WithCommand, Put, Parts
  <1> HIDE DEF new, n, u, w
  <1>7. More("commands", t, u)
    BY <1>1, <1>3, <1>4, <1>5, <1>6 DEF More, Fine, Grown
  <1>8. QED
    BY <1>3, <1>4, <1>6, <1>7 DEF u, new, n

-----------------------------------------------------------------------------
(* What an import looks for, and finds once it is there                     *)

LEMMA ServerAtIs ==
  ASSUME NEW t, Fine(t), NEW x
  PROVE  /\ ServerAt(t.config, x) \in {NoId} \cup DOMAIN t.config.servers
         /\ ServerAt(t.config, x) # NoId =>
              ServerAt(t.config, x) \in DOMAIN t.config.servers /\ Key(t.config.servers[ServerAt(t.config, x)]) = Key(x)
         /\ (\E s \in DOMAIN t.config.servers : Key(t.config.servers[s]) = Key(x)) => ServerAt(t.config, x) # NoId
  <1> DEFINE S == {s \in DOMAIN t.config.servers : Key(t.config.servers[s]) = Key(x)}
  <1>1. t.issued \in Nat /\ S \subseteq 1 .. t.issued
    BY DEF Fine, Good, Shaped
  <1>2. S \in SUBSET (0 .. t.issued) /\ NoId \notin S
    BY <1>1 DEF NoId
  <1>3. S # {} => Max(S) \in S
    BY <1>1, <1>2, MaxIsThere
  <1>4. ServerAt(t.config, x) = IF S = {} THEN NoId ELSE Max(S)
    BY DEF ServerAt, LastOf
  <1>5. S \subseteq DOMAIN t.config.servers /\ \A s \in S : Key(t.config.servers[s]) = Key(x)
    OBVIOUS
  <1>6. (\E s \in DOMAIN t.config.servers : Key(t.config.servers[s]) = Key(x)) => S # {}
    OBVIOUS
  <1> HIDE DEF S
  <1>7. CASE S = {}
    BY <1>4, <1>6, <1>7
  <1>8. CASE S # {}
    <2>1. ServerAt(t.config, x) \in S
      BY <1>3, <1>4, <1>8
    <2>2. QED
      BY <1>2, <1>5, <2>1
  <1>9. QED
    BY <1>7, <1>8

\* The server s has a group of this name.
HasGroup(cfg, s, n) == \E g \in GroupsFor(cfg, s) : Same(cfg.groups[g].name, n)

LEMMA GroupNamedIs ==
  ASSUME NEW t, Fine(t), NEW s, NEW n
  PROVE  /\ GroupNamed(t.config, s, n) \in {NoId} \cup GroupsFor(t.config, s)
         /\ GroupNamed(t.config, s, n) # NoId <=> n # NoName /\ HasGroup(t.config, s, n)
  <1> DEFINE S == {g \in GroupsFor(t.config, s) : Same(t.config.groups[g].name, n)}
  <1>1. S \in SUBSET (1 .. t.issued) /\ t.issued \in Nat
    BY DEF Fine, Good, Shaped, GroupsFor
  <1>2. S \in SUBSET Nat /\ NoId \notin S
    BY <1>1 DEF NoId
  <1>3. S # {} => Min(S) \in S
    BY <1>2, MinIsThere
  <1>4. GroupNamed(t.config, s, n) = IF n = NoName THEN NoId ELSE IF S = {} THEN NoId ELSE Min(S)
    BY DEF GroupNamed, FirstOf
  <1>5. S \subseteq GroupsFor(t.config, s) /\ (HasGroup(t.config, s, n) <=> S # {})
    BY DEF HasGroup
  <1> HIDE DEF S
  <1>6. QED
    BY <1>2, <1>3, <1>4, <1>5

LEMMA EnsureGroupMore ==
  ASSUME NEW kind, NEW t, Fine(t), NEW s \in DOMAIN t.config.servers, NEW n
  PROVE  LET u == EnsureGroup(t, s, n) IN
         /\ More(kind, t, u)
         /\ n = NoName \/ HasGroup(u.config, s, n)
  <1> DEFINE item == [server |-> s, name |-> n]
             u == New(t, "groups", item)
  <1>1. CASE n = NoName \/ GroupNamed(t.config, s, n) # NoId
    BY <1>1, MoreNothing, GroupNamedIs DEF EnsureGroup
  <1>2. CASE ~(n = NoName \/ GroupNamed(t.config, s, n) # NoId)
    <2>1. EnsureGroup(t, s, n) = u
      BY <1>2 DEF EnsureGroup
    <2>2. {"server", "name"} \subseteq DOMAIN item /\ item.server = s /\ item.name = n
      OBVIOUS
    <2> HIDE DEF item
    <2>3. More(kind, t, u)
      BY <1>2, <2>2, NewGroupMore
    <2>4. t.issued + 1 \in DOMAIN u.config.groups /\ u.config.groups[t.issued + 1] = item
      BY NewIs
    <2>5. HasGroup(u.config, s, n)
      BY <2>2, <2>4 DEF HasGroup, GroupsFor, Same
    <2>6. QED
      BY <2>1, <2>3, <2>5
  <1>3. QED
    BY <1>1, <1>2

-----------------------------------------------------------------------------
(* The loops: each step adds, finds, and leaves alone what it has found      *)

LEMMA LoopMore ==
  ASSUME NEW kind, NEW p, NEW q, NEW N \in Nat, NEW base, Fine(base),
         \A t : More(kind, base, t) => \A i \in 1 .. N : More(kind, t, Does(kind, t, q[i], p))
  PROVE  \A n \in 0 .. N : More(kind, base, Loop(kind, p, q, N, base, n))
  <1> DEFINE True == {n \in 0 .. N : More(kind, base, Loop(kind, p, q, N, base, n))}
  <1>1. 0 \in True
    BY LoopGoesOn, MoreNothing
  <1>2. ASSUME NEW n \in 1 .. N, n - 1 \in True PROVE n \in True
    <2> DEFINE t == Loop(kind, p, q, N, base, n - 1)
    <2>1. More(kind, base, t)
      BY <1>2
    <2>2. More(kind, t, Does(kind, t, q[n], p))
      BY <2>1
    <2>3. Loop(kind, p, q, N, base, n) = Does(kind, t, q[n], p)
      BY LoopGoesOn
    <2> HIDE DEF t
    <2>4. More(kind, base, Loop(kind, p, q, N, base, n))
      BY <2>1, <2>2, <2>3, MoreAndMore
    <2>5. QED
      BY <2>4
  <1>3. True \in SUBSET (0 .. N)
    OBVIOUS
  <1> HIDE DEF True
  <1>4. True = 0 .. N
    BY <1>1, <1>2, <1>3, Below
  <1>5. QED
    BY <1>4 DEF True

\* A file has been added as far as what x says is found in cfg: that of the server, of its
\* group, command or bundle, or of a step of a bundle of the server p.
Found(kind, cfg, x, p) ==
  LET s == ServerAt(cfg, x.server) IN
  CASE kind = "servers"  -> ServerAt(cfg, x) # NoId
    [] kind = "groups"   -> s = NoId \/ x.name = NoName \/ HasGroup(cfg, s, x.name)
    [] kind = "commands" -> s = NoId \/ \E c \in CommandsFor(cfg, s) : Same(cfg.commands[c].name, x.name)
    [] kind = "bundles"  -> \/ s = NoId
                            \/ \E b \in BundlesFor(cfg, s) : Same(cfg.bundles[b].name, x.name)
                            \/ \A k \in DOMAIN x.steps :
                                 /\ x.steps[k].group = NoName \/ HasGroup(cfg, s, x.steps[k].group)
                                 /\ ~\E c \in CommandsFor(cfg, s) : Same(cfg.commands[c].name, x.steps[k].name)
    [] kind = "steps"    -> x.group = NoName \/ HasGroup(cfg, p, x.group)

Kinds == {"servers", "groups", "commands", "bundles", "steps"}

\* What was found stays found, while no server is added, and for bundles no command.
LEMMA FoundStays ==
  ASSUME NEW kind \in Kinds, NEW other, NEW t, NEW u, NEW x, NEW p, More(other, t, u),
         kind # "servers" => other # "servers", kind = "bundles" => other # "commands",
         Found(kind, t.config, x, p)
  PROVE  Found(kind, u.config, x, p)
  <1>1. CASE kind = "servers"
    <2>1. ServerAt(t.config, x) # NoId /\ Fine(t) /\ Fine(u)
      BY <1>1 DEF Found, More
    <2>2. PICK s \in DOMAIN t.config.servers : Key(t.config.servers[s]) = Key(x)
      BY <2>1, ServerAtIs
    <2>3. s \in DOMAIN u.config.servers /\ u.config.servers[s] = t.config.servers[s]
      BY DEF More, Grown
    <2>4. ServerAt(u.config, x) # NoId
      BY <2>1, <2>2, <2>3, ServerAtIs
    <2>5. QED
      BY <1>1, <2>4 DEF Found
  <1>2. CASE kind # "servers"
    <2> DEFINE s == ServerAt(t.config, x.server)
    <2>1. u.config.servers = t.config.servers
      BY <1>2 DEF More
    <2>2. ServerAt(u.config, x.server) = s
      BY <2>1 DEF ServerAt
    <2>3. \A r, n : HasGroup(t.config, r, n) => HasGroup(u.config, r, n)
      BY DEF More, Grown, HasGroup, GroupsFor
    <2> HIDE DEF s
    <2>4. CASE kind = "groups"
      BY <2>2, <2>3, <2>4 DEF Found, s
    <2>5. CASE kind = "commands"
      <3>1. \A c \in CommandsFor(t.config, s) :
              c \in CommandsFor(u.config, s) /\ u.config.commands[c] = t.config.commands[c]
        BY DEF More, Grown, CommandsFor
      <3>2. s = NoId \/ \E c \in CommandsFor(t.config, s) : Same(t.config.commands[c].name, x.name)
        BY <2>5 DEF Found, s
      <3>3. s = NoId \/ \E c \in CommandsFor(u.config, s) : Same(u.config.commands[c].name, x.name)
        BY <3>1, <3>2
      <3>4. QED
        BY <2>2, <2>5, <3>3 DEF Found
    <2>6. CASE kind = "bundles"
      <3>1. \A b \in BundlesFor(t.config, s) :
              b \in BundlesFor(u.config, s) /\ u.config.bundles[b] = t.config.bundles[b]
        BY DEF More, Grown, BundlesFor
      <3>2. u.config.commands = t.config.commands
        BY <2>6 DEF More
      <3>3. CommandsFor(u.config, s) = CommandsFor(t.config, s)
        BY <3>2 DEF CommandsFor
      <3>4. \/ s = NoId
            \/ \E b \in BundlesFor(t.config, s) : Same(t.config.bundles[b].name, x.name)
            \/ \A k \in DOMAIN x.steps :
                 /\ x.steps[k].group = NoName \/ HasGroup(t.config, s, x.steps[k].group)
                 /\ ~\E c \in CommandsFor(t.config, s) : Same(t.config.commands[c].name, x.steps[k].name)
        BY <2>6 DEF Found, s
      <3>5. \/ s = NoId
            \/ \E b \in BundlesFor(u.config, s) : Same(u.config.bundles[b].name, x.name)
            \/ \A k \in DOMAIN x.steps :
                 /\ x.steps[k].group = NoName \/ HasGroup(u.config, s, x.steps[k].group)
                 /\ ~\E c \in CommandsFor(u.config, s) : Same(u.config.commands[c].name, x.steps[k].name)
        BY <2>3, <3>1, <3>2, <3>3, <3>4
      <3>6. QED
        BY <2>2, <2>6, <3>5 DEF Found
    <2>7. CASE kind = "steps"
      BY <2>3, <2>7 DEF Found
    <2>8. QED
      BY <1>2, <2>4, <2>5, <2>6, <2>7 DEF Kinds
  <1>3. QED
    BY <1>1, <1>2

\* Each step finds at last what it is for; then all steps have.
LEMMA LoopFinds ==
  ASSUME NEW kind \in Kinds, NEW p, NEW q, NEW N \in Nat, NEW base, Fine(base),
         \A t : More(kind, base, t) =>
           \A i \in 1 .. N : LET u == Does(kind, t, q[i], p) IN More(kind, t, u) /\ Found(kind, u.config, q[i], p)
  PROVE  \A i \in 1 .. N : Found(kind, Loop(kind, p, q, N, base, N).config, q[i], p)
  <1> DEFINE at(n) == Loop(kind, p, q, N, base, n)
             True == {n \in 0 .. N : \A i \in 1 .. n : Found(kind, at(n).config, q[i], p)}
  <1>1. \A n \in 0 .. N : More(kind, base, at(n))
    BY LoopMore
  <1>2. 0 \in True
    OBVIOUS
  <1>3. ASSUME NEW n \in 1 .. N, n - 1 \in True PROVE n \in True
    <2>1. n - 1 \in 0 .. N /\ n \in 0 .. N /\ 1 .. n = (1 .. (n - 1)) \cup {n}
      OBVIOUS
    <2>2. More(kind, base, at(n - 1)) /\ at(n) = Does(kind, at(n - 1), q[n], p)
      BY <1>1, <2>1, LoopGoesOn
    <2> HIDE DEF at
    <2>3. More(kind, at(n - 1), at(n)) /\ Found(kind, at(n).config, q[n], p)
      BY <2>2
    <2>4. \A i \in 1 .. (n - 1) : Found(kind, at(n - 1).config, q[i], p)
      BY <1>3
    <2>5. \A i \in 1 .. (n - 1) : Found(kind, at(n).config, q[i], p)
      BY <2>3, <2>4, FoundStays
    <2>6. QED
      BY <2>1, <2>3, <2>5
  <1>4. True \in SUBSET (0 .. N)
    OBVIOUS
  <1> HIDE DEF True
  <1>5. N \in True
    BY <1>2, <1>3, <1>4, Below
  <1>6. QED
    BY <1>5 DEF True

\* The loop leaves alone what it finds in what it begins with.
LEMMA LoopIdle ==
  ASSUME NEW kind, NEW p, NEW q, NEW N \in Nat, NEW base,
         \A i \in 1 .. N : Does(kind, base, q[i], p) = base
  PROVE  Loop(kind, p, q, N, base, N) = base
  <1> DEFINE True == {n \in 0 .. N : Loop(kind, p, q, N, base, n) = base}
  <1>1. 0 \in True
    BY LoopGoesOn
  <1>2. ASSUME NEW n \in 1 .. N, n - 1 \in True PROVE n \in True
    <2>1. Loop(kind, p, q, N, base, n - 1) = base
      BY <1>2
    <2>2. Loop(kind, p, q, N, base, n) = Does(kind, Loop(kind, p, q, N, base, n - 1), q[n], p)
      BY LoopGoesOn
    <2>3. Loop(kind, p, q, N, base, n) = base
      BY <2>1, <2>2
    <2>4. QED
      BY <2>3
  <1>3. True \in SUBSET (0 .. N)
    OBVIOUS
  <1> HIDE DEF True
  <1>4. True = 0 .. N
    BY <1>1, <1>2, <1>3, Below
  <1>5. QED
    BY <1>4 DEF True

-----------------------------------------------------------------------------
(* One step of each loop                                                    *)

LEMMA GroupStepIs ==
  ASSUME NEW t, Fine(t), NEW x, NEW p
  PROVE  LET u == Does("groups", t, x, p) IN
         /\ More("groups", t, u)
         /\ Found("groups", u.config, x, p)
         /\ Found("groups", t.config, x, p) => u = t
  <1> DEFINE s == ServerAt(t.config, x.server)
             u == Does("groups", t, x, p)
  <1>1. s \in {NoId} \cup DOMAIN t.config.servers
    BY ServerAtIs
  <1>2. u = IF s = NoId THEN t ELSE EnsureGroup(t, s, x.name)
    BY DEF Does
  <1>3. Found("groups", t.config, x, p) <=> (s = NoId \/ x.name = NoName \/ HasGroup(t.config, s, x.name))
    BY DEF Found
  <1>4. u.config.servers = t.config.servers =>
          (Found("groups", u.config, x, p) <=> (s = NoId \/ x.name = NoName \/ HasGroup(u.config, s, x.name)))
    BY DEF Found, ServerAt
  <1> HIDE DEF s, u
  <1>5. CASE s = NoId
    BY <1>2, <1>3, <1>5, MoreNothing DEF u
  <1>6. CASE s # NoId
    <2>1. s \in DOMAIN t.config.servers /\ u = EnsureGroup(t, s, x.name)
      BY <1>1, <1>2, <1>6
    <2>2. More("groups", t, u) /\ (x.name = NoName \/ HasGroup(u.config, s, x.name))
      BY <2>1, EnsureGroupMore
    <2>3. u.config.servers = t.config.servers
      BY <2>2 DEF More
    <2>4. HasGroup(t.config, s, x.name) \/ x.name = NoName => u = t
      BY <2>1, GroupNamedIs DEF EnsureGroup
    <2>5. QED
      BY <1>3, <1>4, <1>6, <2>2, <2>3, <2>4 DEF u
  <1>7. QED
    BY <1>5, <1>6

LEMMA ServerStepIs ==
  ASSUME NEW t, Fine(t), NEW x, NEW p
  PROVE  LET u == Does("servers", t, x, p) IN
         /\ More("servers", t, u)
         /\ Found("servers", u.config, x, p)
         /\ Found("servers", t.config, x, p) /\ p => u = t
  <1> DEFINE u == Does("servers", t, x, p)
             v == New(t, "servers", x)
  <1>1. u = IF p /\ ServerAt(t.config, x) # NoId THEN t ELSE v
    BY DEF Does
  <1>2. Found("servers", t.config, x, p) <=> ServerAt(t.config, x) # NoId
    BY DEF Found
  <1>3. More("servers", t, t) /\ More("servers", t, v)
    BY MoreNothing, NewServerMore
  <1>4. t.issued + 1 \in DOMAIN v.config.servers /\ v.config.servers[t.issued + 1] = x
    BY NewIs
  <1>5. ServerAt(v.config, x) # NoId
    BY <1>3, <1>4, ServerAtIs DEF More
  <1>6. Found("servers", v.config, x, p)
    BY <1>5 DEF Found
  <1> HIDE DEF u, v
  <1>7. CASE p /\ ServerAt(t.config, x) # NoId
    BY <1>1, <1>2, <1>3, <1>7 DEF u
  <1>8. CASE ~(p /\ ServerAt(t.config, x) # NoId)
    BY <1>1, <1>2, <1>3, <1>6, <1>8 DEF u
  <1>9. QED
    BY <1>7, <1>8

LEMMA CommandStepIs ==
  ASSUME NEW t, Fine(t), NEW x, NEW p
  PROVE  LET u == Does("commands", t, x, p) IN
         /\ More("commands", t, u)
         /\ Found("commands", u.config, x, p)
         /\ Found("commands", t.config, x, p) /\ p => u = t
  <1> DEFINE s    == ServerAt(t.config, x.server)
             has  == \E c \in CommandsFor(t.config, s) : Same(t.config.commands[c].name, x.name)
             e    == EnsureGroup(t, s, x.group)
             item == [server |-> s, group |-> GroupNamed(e.config, s, x.group), name |-> x.name]
             new  == New(e, "commands", item)
             v    == [new EXCEPT !.config.order = Append(@, new.issued)]
             u    == Does("commands", t, x, p)
  <1>1. u = IF s = NoId \/ (p /\ has) THEN t ELSE v
    BY DEF Does, AddCommand1
  <1>2. Found("commands", t.config, x, p) <=> (s = NoId \/ has)
    BY DEF Found
  <1>3. s \in {NoId} \cup DOMAIN t.config.servers
    BY ServerAtIs
  <1>4. ASSUME s # NoId
        PROVE  More("commands", t, v) /\ Found("commands", v.config, x, p)
    <2>1. s \in DOMAIN t.config.servers
      BY <1>3, <1>4
    <2>2. More("commands", t, e)
      BY <2>1, EnsureGroupMore
    <2>3. Fine(e) /\ e.config.servers = t.config.servers
      BY <2>2 DEF More
    <2>4. GroupNamed(e.config, s, x.group) \in {NoId} \cup GroupsFor(e.config, s)
      BY <2>3, GroupNamedIs
    <2>5. /\ {"server", "group"} \subseteq DOMAIN item /\ item.server = s /\ item.name = x.name
          /\ item.group = GroupNamed(e.config, s, x.group)
      OBVIOUS
    <2> HIDE DEF item, e, s, has, u
    <2>6. /\ More("commands", e, v)
          /\ e.issued + 1 \in DOMAIN v.config.commands /\ v.config.commands[e.issued + 1] = item
      BY <2>1, <2>3, <2>4, <2>5, NewCommandMore
    <2> HIDE DEF v
    <2>7. More("commands", t, v)
      BY <2>2, <2>6, MoreAndMore
    <2>8. ServerAt(v.config, x.server) = s
      BY <2>7 DEF More, ServerAt, s
    <2>9. \E c \in CommandsFor(v.config, s) : Same(v.config.commands[c].name, x.name)
      BY <2>5, <2>6 DEF CommandsFor, Same
    <2>10. Found("commands", v.config, x, p)
      BY <2>8, <2>9 DEF Found
    <2>11. QED
      BY <2>7, <2>10
  <1> HIDE DEF s, has, v, u
  <1>5. CASE s = NoId \/ (p /\ has)
    BY <1>1, <1>2, <1>5, MoreNothing DEF u
  <1>6. CASE ~(s = NoId \/ (p /\ has))
    BY <1>1, <1>2, <1>4, <1>6 DEF u
  <1>7. QED
    BY <1>5, <1>6

-----------------------------------------------------------------------------
(* Bundles, and the groups and commands of their steps                      *)

\* The groups of the steps are there at last.
LEMMA StepGroups ==
  ASSUME NEW t, Fine(t), NEW s \in DOMAIN t.config.servers, NEW q, NEW N \in Nat, DOMAIN q = 1 .. N
  PROVE  LET u == EnsureGroups(t, s, q) IN
         /\ More("steps", t, u)
         /\ \A k \in 1 .. N : q[k].group = NoName \/ HasGroup(u.config, s, q[k].group)
         /\ (\A k \in 1 .. N : q[k].group = NoName \/ HasGroup(t.config, s, q[k].group)) => u = t
  <1> DEFINE u == Loop("steps", s, q, N, t, N)
  <1>1. EnsureGroups(t, s, q) = u
    BY StepsLoop
  <1>2. \A w, x : Does("steps", w, x, s) = EnsureGroup(w, s, x.group)
    BY DEF Does
  <1>3. \A w, x : Found("steps", w.config, x, s) <=> (x.group = NoName \/ HasGroup(w.config, s, x.group))
    BY DEF Found
  <1>4. ASSUME NEW w, More("steps", t, w), NEW i \in 1 .. N
        PROVE  LET v == Does("steps", w, q[i], s) IN More("steps", w, v) /\ Found("steps", v.config, q[i], s)
    <2>1. Fine(w) /\ s \in DOMAIN w.config.servers
      BY <1>4 DEF More
    <2>2. QED
      BY <1>2, <1>3, <2>1, EnsureGroupMore
  <1>5. "steps" \in Kinds
    BY DEF Kinds
  <1>6. More("steps", t, u)
    <2>1. \A n \in 0 .. N : More("steps", t, Loop("steps", s, q, N, t, n))
      BY <1>4, LoopMore
    <2>2. QED
      BY <2>1
  <1>7. \A i \in 1 .. N : Found("steps", u.config, q[i], s)
    BY <1>4, <1>5, LoopFinds
  <1>8. ASSUME \A k \in 1 .. N : q[k].group = NoName \/ HasGroup(t.config, s, q[k].group)
        PROVE  u = t
    <2>1. \A i \in 1 .. N : Does("steps", t, q[i], s) = t
      BY <1>2, <1>8, GroupNamedIs DEF EnsureGroup
    <2>2. QED
      BY <2>1, LoopIdle
  <1> HIDE DEF u
  <1>9. QED
    BY <1>1, <1>3, <1>6, <1>7, <1>8

LEMMA FirstInOrderIs ==
  ASSUME NEW t, Fine(t), NEW C, C \subseteq DOMAIN t.config.commands
  PROVE  /\ FirstInOrder(t.config, C) \in {NoId} \cup C
         /\ FirstInOrder(t.config, C) = NoId <=> C = {}
         /\ NoId \notin C
  <1> DEFINE o  == t.config.order
             at == {i \in DOMAIN o : o[i] \in C}
  <1>1. /\ o \in Seq(Nat) /\ Range(o) = DOMAIN t.config.commands /\ t.issued \in Nat
        /\ DOMAIN t.config.commands \subseteq 1 .. t.issued
    BY DEF Fine, Listed, OrderListed, Good, Shaped
  <1>2. NoId \notin C
    BY <1>1 DEF NoId
  <1>3. DOMAIN o = 1 .. Len(o)
    BY <1>1, LenProperties
  <1>4. at \in SUBSET Nat
    BY <1>3
  <1>5. at # {} => Min(at) \in at
    BY <1>4, MinIsThere
  <1>6. at # {} => o[Min(at)] \in C
    BY <1>5
  <1>7. FirstInOrder(t.config, C) = IF at = {} THEN NoId ELSE o[Min(at)]
    BY DEF FirstInOrder
  <1>8. at = {} <=> C = {}
    <2>1. ASSUME NEW c \in C PROVE at # {}
      <3>1. c \in Range(o)
        BY <1>1
      <3>2. PICK i \in DOMAIN o : o[i] = c
        BY <3>1 DEF Range
      <3>3. QED
        BY <3>2
    <2>2. QED
      BY <2>1
  <1> HIDE DEF o, at
  <1>9. QED
    BY <1>2, <1>6, <1>7, <1>8

\* A step leads to a command of the server by its name, if there is one.
LEMMA StepOfIs ==
  ASSUME NEW t, Fine(t), NEW s, NEW step
  PROVE  /\ StepOf(t.config, s, step) \in Nat
         /\ StepOf(t.config, s, step) = NoId <=>
              ~\E c \in CommandsFor(t.config, s) : Same(t.config.commands[c].name, step.name)
  <1> DEFINE named(C) == {c \in C : Same(t.config.commands[c].name, step.name)}
             near == named(InList(t.config, s, GroupNamed(t.config, s, step.group)))
             all  == named(CommandsFor(t.config, s))
  <1>1. /\ near \subseteq all /\ all \subseteq DOMAIN t.config.commands
        /\ all = {} <=> ~\E c \in CommandsFor(t.config, s) : Same(t.config.commands[c].name, step.name)
    BY DEF InList, CommandsFor
  <1>2. StepOf(t.config, s, step) = IF FirstInOrder(t.config, near) # NoId THEN FirstInOrder(t.config, near)
                                    ELSE FirstInOrder(t.config, all)
    BY DEF StepOf
  <1>3. DOMAIN t.config.commands \subseteq Nat /\ NoId \in Nat
    BY DEF Fine, Good, Shaped, NoId
  <1> HIDE DEF near, all
  <1>4. /\ FirstInOrder(t.config, near) \in {NoId} \cup near /\ (FirstInOrder(t.config, near) = NoId <=> near = {})
        /\ FirstInOrder(t.config, all) \in {NoId} \cup all /\ (FirstInOrder(t.config, all) = NoId <=> all = {})
    BY <1>1, FirstInOrderIs
  <1>5. QED
    BY <1>1, <1>2, <1>3, <1>4

LEMMA EmptyRange ==
  ASSUME NEW s \in Seq(Nat), Range(s) = {}
  PROVE  s = <<>>
  <1>1. DOMAIN s = 1 .. Len(s) /\ Len(s) \in Nat
    BY LenProperties
  <1>2. DOMAIN s = {}
    BY DEF Range
  <1>3. Len(s) = 0
    <2>1. Len(s) # 0 => 1 \in 1 .. Len(s)
      BY <1>1
    <2>2. QED
      BY <1>1, <1>2, <2>1
  <1>4. QED
    BY <1>3, EmptySeq

LEMMA BundleStepIs ==
  ASSUME NEW t, Fine(t), NEW x, NEW N \in Nat, DOMAIN x.steps = 1 .. N, NEW p
  PROVE  LET u == Does("bundles", t, x, p) IN
         /\ More("bundles", t, u)
         /\ Found("bundles", u.config, x, p)
  <1> DEFINE s    == ServerAt(t.config, x.server)
             has  == \E b \in BundlesFor(t.config, s) : Same(t.config.bundles[b].name, x.name)
             e    == EnsureGroups(t, s, x.steps)
             all  == [k \in DOMAIN x.steps |-> StepOf(e.config, s, x.steps[k])]
             ids  == Among(all, Nat \ {NoId})
             item == [server |-> s, name |-> x.name, steps |-> ids]
             v    == New(e, "bundles", item)
             u    == Does("bundles", t, x, p)
  <1>1. u = IF s = NoId \/ (p /\ has) THEN t ELSE IF ids = <<>> THEN e ELSE v
    BY DEF Does, AddBundle1
  <1>2. s = NoId \/ has => Found("bundles", t.config, x, p)
    BY DEF Found
  <1>3. s \in {NoId} \cup DOMAIN t.config.servers
    BY ServerAtIs
  <1>4. ASSUME s # NoId
        PROVE  /\ More("bundles", t, e) /\ More("bundles", t, v) /\ Found("bundles", v.config, x, p)
               /\ ids = <<>> => Found("bundles", e.config, x, p)
    <2>1. s \in DOMAIN t.config.servers
      BY <1>3, <1>4
    <2> HIDE DEF s
    <2>2. /\ More("steps", t, e)
          /\ \A k \in 1 .. N : x.steps[k].group = NoName \/ HasGroup(e.config, s, x.steps[k].group)
      BY <2>1, StepGroups
    <2> HIDE DEF e
    <2>3. More("bundles", t, e) /\ Fine(e) /\ e.config.servers = t.config.servers
      BY <2>2 DEF More
    <2>4. all \in Seq(Nat)
      <3>1. \A k \in 1 .. N : StepOf(e.config, s, x.steps[k]) \in Nat
        BY <2>3, StepOfIs
      <3>2. all = [k \in 1 .. N |-> StepOf(e.config, s, x.steps[k])]
        OBVIOUS
      <3>3. QED
        BY <3>1, <3>2
    <2>5. \A k \in 1 .. N : k \in DOMAIN all /\ all[k] = StepOf(e.config, s, x.steps[k])
      OBVIOUS
    <2> HIDE DEF all
    <2>6. ids \in Seq(Nat) /\ Range(ids) = Range(all) \cap (Nat \ {NoId})
      BY <2>4, AmongKeeps
    <2> HIDE DEF ids
    <2>7. {"server", "steps"} \subseteq DOMAIN item /\ item.server = s /\ item.steps = ids /\ item.name = x.name
      OBVIOUS
    <2> HIDE DEF item
    <2>8. More("bundles", e, v) /\ e.issued + 1 \in DOMAIN v.config.bundles /\ v.config.bundles[e.issued + 1] = item
      BY <2>1, <2>3, <2>6, <2>7, NewBundleMore, NewIs
    <2> HIDE DEF v
    <2>9. More("bundles", t, v)
      BY <2>3, <2>8, MoreAndMore
    <2>10. ServerAt(v.config, x.server) = s /\ ServerAt(e.config, x.server) = s
      BY <2>3, <2>9 DEF More, ServerAt, s
    <2>11. Found("bundles", v.config, x, p)
      <3>1. \E b \in BundlesFor(v.config, s) : Same(v.config.bundles[b].name, x.name)
        BY <2>7, <2>8 DEF BundlesFor, Same
      <3>2. QED
        BY <2>10, <3>1 DEF Found
    <2>12. ASSUME ids = <<>>
           PROVE  Found("bundles", e.config, x, p)
      <3>1. Range(ids) = {}
        BY <2>12 DEF Range
      <3>2. ASSUME NEW k \in 1 .. N
            PROVE  ~\E c \in CommandsFor(e.config, s) : Same(e.config.commands[c].name, x.steps[k].name)
        <4>1. all[k] \in Range(all) /\ all[k] = StepOf(e.config, s, x.steps[k]) /\ all[k] \in Nat
          BY <2>3, <2>5, StepOfIs DEF Range
        <4>2. all[k] = NoId
          BY <2>6, <3>1, <4>1
        <4>3. QED
          BY <2>3, <4>1, <4>2, StepOfIs
      <3>3. \A k \in DOMAIN x.steps :
              /\ x.steps[k].group = NoName \/ HasGroup(e.config, s, x.steps[k].group)
              /\ ~\E c \in CommandsFor(e.config, s) : Same(e.config.commands[c].name, x.steps[k].name)
        BY <2>2, <3>2
      <3>4. QED
        BY <2>10, <3>3 DEF Found
    <2>13. QED
      BY <2>3, <2>9, <2>11, <2>12
  <1> HIDE DEF s, has, e, ids, v, u
  <1>5. CASE s = NoId \/ (p /\ has)
    BY <1>1, <1>2, <1>5, MoreNothing DEF u
  <1>6. CASE ~(s = NoId \/ (p /\ has))
    BY <1>1, <1>4, <1>6 DEF u
  <1>7. QED
    BY <1>5, <1>6

\* A bundle that is found is left alone: its groups are there, and its steps lead nowhere,
\* or it is skipped.
LEMMA BundleIdle ==
  ASSUME NEW t, Fine(t), NEW x, NEW N \in Nat, DOMAIN x.steps = 1 .. N, Found("bundles", t.config, x, TRUE)
  PROVE  Does("bundles", t, x, TRUE) = t
  <1> DEFINE s    == ServerAt(t.config, x.server)
             has  == \E b \in BundlesFor(t.config, s) : Same(t.config.bundles[b].name, x.name)
             e    == EnsureGroups(t, s, x.steps)
             all  == [k \in DOMAIN x.steps |-> StepOf(e.config, s, x.steps[k])]
             ids  == Among(all, Nat \ {NoId})
             item == [server |-> s, name |-> x.name, steps |-> ids]
             v    == New(e, "bundles", item)
             u    == Does("bundles", t, x, TRUE)
  <1>1. u = IF s = NoId \/ has THEN t ELSE IF ids = <<>> THEN e ELSE v
    BY DEF Does, AddBundle1
  <1>2. \/ s = NoId \/ has
        \/ \A k \in DOMAIN x.steps :
             /\ x.steps[k].group = NoName \/ HasGroup(t.config, s, x.steps[k].group)
             /\ ~\E c \in CommandsFor(t.config, s) : Same(t.config.commands[c].name, x.steps[k].name)
    BY DEF Found
  <1>3. s \in {NoId} \cup DOMAIN t.config.servers
    BY ServerAtIs
  <1> HIDE DEF s
  <1>4. ASSUME s # NoId, ~has
        PROVE  e = t /\ ids = <<>>
    <2>1. s \in DOMAIN t.config.servers
      BY <1>3, <1>4
    <2>2. e = t
      BY <1>2, <1>4, <2>1, StepGroups
    <2> HIDE DEF e
    <2>3. \A k \in 1 .. N : StepOf(t.config, s, x.steps[k]) = NoId
      BY <1>2, <1>4, StepOfIs
    <2>4. all = [k \in 1 .. N |-> NoId]
      BY <2>2, <2>3
    <2> HIDE DEF all
    <2>5. all \in Seq(Nat) /\ Range(all) \subseteq {NoId}
      BY <2>4 DEF NoId, Range
    <2>6. ids \in Seq(Nat) /\ Range(ids) = Range(all) \cap (Nat \ {NoId})
      BY <2>5, AmongKeeps
    <2> HIDE DEF ids
    <2>7. ids = <<>>
      BY <2>5, <2>6, EmptyRange
    <2>8. QED
      BY <2>2, <2>7
  <1> HIDE DEF has, e, ids, v, u
  <1>5. QED
    BY <1>1, <1>4 DEF u

-----------------------------------------------------------------------------
(* The whole import                                                         *)

\* What is in a file are sequences.
Listing(q) == \E N \in Nat : DOMAIN q = 1 .. N
Filed(data) ==
  /\ Listing(data.servers) /\ Listing(data.groups) /\ Listing(data.commands) /\ Listing(data.bundles)
  /\ \A i \in DOMAIN data.bundles : Listing(data.bundles[i].steps)

\* Everything that q says is found in cfg.
AllFound(kind, cfg, q) == \A i \in DOMAIN q : Found(kind, cfg, q[i], TRUE)

\* Whether existing ones are skipped makes no difference to what is found.
LEMMA FoundEither ==
  ASSUME NEW kind \in Kinds \ {"steps"}, NEW cfg, NEW x, NEW p, NEW q
  PROVE  Found(kind, cfg, x, p) <=> Found(kind, cfg, x, q)
  BY DEF Found, Kinds

LEMMA ListAdded ==
  ASSUME NEW kind \in Kinds \ {"steps"}, NEW t, Fine(t), NEW q, NEW N \in Nat, DOMAIN q = 1 .. N,
         NEW skip, kind = "bundles" => \A i \in 1 .. N : Listing(q[i].steps)
  PROVE  LET u == Loop(kind, skip, q, N, t, N) IN More(kind, t, u) /\ AllFound(kind, u.config, q)
  <1> DEFINE u == Loop(kind, skip, q, N, t, N)
  <1>1. ASSUME NEW w, More(kind, t, w), NEW i \in 1 .. N
        PROVE  LET v == Does(kind, w, q[i], skip) IN More(kind, w, v) /\ Found(kind, v.config, q[i], skip)
    <2>1. Fine(w)
      BY <1>1 DEF More
    <2>2. CASE kind = "servers"
      BY <2>1, <2>2, ServerStepIs
    <2>3. CASE kind = "groups"
      BY <2>1, <2>3, GroupStepIs
    <2>4. CASE kind = "commands"
      BY <2>1, <2>4, CommandStepIs
    <2>5. CASE kind = "bundles"
      <3>1. PICK M \in Nat : DOMAIN q[i].steps = 1 .. M
        BY <2>5 DEF Listing
      <3>2. QED
        BY <2>1, <2>5, <3>1, BundleStepIs
    <2>6. QED
      BY <2>2, <2>3, <2>4, <2>5 DEF Kinds
  <1>2. More(kind, t, u)
    <2>1. \A n \in 0 .. N : More(kind, t, Loop(kind, skip, q, N, t, n))
      BY <1>1, LoopMore
    <2>2. QED
      BY <2>1
  <1>3. \A i \in 1 .. N : Found(kind, u.config, q[i], skip)
    BY <1>1, LoopFinds
  <1> HIDE DEF u
  <1>4. AllFound(kind, u.config, q)
    BY <1>3, FoundEither DEF AllFound
  <1>5. QED
    BY <1>2, <1>4 DEF u

LEMMA ListIdle ==
  ASSUME NEW kind \in Kinds \ {"steps"}, NEW t, Fine(t), NEW q, NEW N \in Nat, DOMAIN q = 1 .. N,
         kind = "bundles" => \A i \in 1 .. N : Listing(q[i].steps), AllFound(kind, t.config, q)
  PROVE  Loop(kind, TRUE, q, N, t, N) = t
  <1>1. ASSUME NEW i \in 1 .. N
        PROVE  Does(kind, t, q[i], TRUE) = t
    <2>1. Found(kind, t.config, q[i], TRUE)
      BY DEF AllFound
    <2>2. CASE kind = "servers"
      BY <2>1, <2>2, ServerStepIs
    <2>3. CASE kind = "groups"
      BY <2>1, <2>3, GroupStepIs
    <2>4. CASE kind = "commands"
      BY <2>1, <2>4, CommandStepIs
    <2>5. CASE kind = "bundles"
      <3>1. PICK M \in Nat : DOMAIN q[i].steps = 1 .. M
        BY <2>5 DEF Listing
      <3>2. QED
        BY <2>1, <2>5, <3>1, BundleIdle
    <2>6. QED
      BY <2>2, <2>3, <2>4, <2>5 DEF Kinds
  <1> DEFINE p == TRUE
  <1>2. \A i \in 1 .. N : Does(kind, t, q[i], p) = t
    BY <1>1
  <1> HIDE DEF p
  <1>3. Loop(kind, p, q, N, t, N) = t
    BY <1>2, LoopIdle
  <1>4. QED
    BY <1>3 DEF p

\* An import adds to what it begins with, and in the end finds all that is in the file.
LEMMA ImportAdds ==
  ASSUME NEW t, Fine(t), NEW data, Filed(data), NEW skip
  PROVE  LET u == Imported(t, data, skip) IN
         /\ Fine(u) /\ t.issued <= u.issued
         /\ Grown(t.config.servers, u.config.servers) /\ Grown(t.config.groups, u.config.groups)
         /\ Grown(t.config.commands, u.config.commands) /\ Grown(t.config.bundles, u.config.bundles)
         /\ AllFound("servers", u.config, data.servers) /\ AllFound("groups", u.config, data.groups)
         /\ AllFound("commands", u.config, data.commands) /\ AllFound("bundles", u.config, data.bundles)
  <1> DEFINE a == AddServers(t, data.servers, skip)
             b == AddGroups(a, data.groups)
             c == AddCommands(b, data.commands, skip)
             d == AddBundles(c, data.bundles, skip)
  <1>1. Imported(t, data, skip) = d
    BY DEF Imported, a, b, c, d
  <1>2. {"servers", "groups", "commands", "bundles"} \subseteq Kinds \ {"steps"}
    BY DEF Kinds
  <1> HIDE DEF a, b, c, d
  <1>3. More("servers", t, a) /\ AllFound("servers", a.config, data.servers)
    <2>1. PICK N \in Nat : DOMAIN data.servers = 1 .. N
      BY DEF Filed, Listing
    <2>2. a = Loop("servers", skip, data.servers, N, t, N)
      BY <2>1, ServersLoop DEF a
    <2>3. QED
      BY <1>2, <2>1, <2>2, ListAdded
  <1>4. More("groups", a, b) /\ AllFound("groups", b.config, data.groups)
    <2>1. PICK N \in Nat : DOMAIN data.groups = 1 .. N
      BY DEF Filed, Listing
    <2>2. Fine(a)
      BY <1>3 DEF More
    <2>3. b = Loop("groups", skip, data.groups, N, a, N)
      BY <2>1, GroupsLoop DEF b
    <2>4. QED
      BY <1>2, <2>1, <2>2, <2>3, ListAdded
  <1>5. More("commands", b, c) /\ AllFound("commands", c.config, data.commands)
    <2>1. PICK N \in Nat : DOMAIN data.commands = 1 .. N
      BY DEF Filed, Listing
    <2>2. Fine(b)
      BY <1>4 DEF More
    <2>3. c = Loop("commands", skip, data.commands, N, b, N)
      BY <2>1, CommandsLoop DEF c
    <2>4. QED
      BY <1>2, <2>1, <2>2, <2>3, ListAdded
  <1>6. More("bundles", c, d) /\ AllFound("bundles", d.config, data.bundles)
    <2>1. PICK N \in Nat : DOMAIN data.bundles = 1 .. N
      BY DEF Filed, Listing
    <2>2. Fine(c)
      BY <1>5 DEF More
    <2>3. \A i \in 1 .. N : Listing(data.bundles[i].steps)
      BY <2>1 DEF Filed
    <2>4. d = Loop("bundles", skip, data.bundles, N, c, N)
      BY <2>1, BundlesLoop DEF d
    <2>5. QED
      BY <1>2, <2>1, <2>2, <2>3, <2>4, ListAdded
  <1>7. AllFound("servers", d.config, data.servers)
    <2>1. AllFound("servers", b.config, data.servers)
      BY <1>2, <1>3, <1>4, FoundStays DEF AllFound
    <2>2. AllFound("servers", c.config, data.servers)
      BY <1>2, <1>5, <2>1, FoundStays DEF AllFound
    <2>3. QED
      BY <1>2, <1>6, <2>2, FoundStays DEF AllFound
  <1>8. AllFound("groups", d.config, data.groups)
    <2>1. AllFound("groups", c.config, data.groups)
      BY <1>2, <1>4, <1>5, FoundStays DEF AllFound
    <2>2. QED
      BY <1>2, <1>6, <2>1, FoundStays DEF AllFound
  <1>9. AllFound("commands", d.config, data.commands)
    BY <1>2, <1>5, <1>6, FoundStays DEF AllFound
  <1>10. t.issued <= d.issued /\ Fine(d)
    BY <1>3, <1>4, <1>5, <1>6 DEF More, Fine
  <1>11. /\ Grown(t.config.servers, d.config.servers) /\ Grown(t.config.groups, d.config.groups)
         /\ Grown(t.config.commands, d.config.commands) /\ Grown(t.config.bundles, d.config.bundles)
    BY <1>3, <1>4, <1>5, <1>6 DEF More, Grown
  <1>12. QED
    BY <1>1, <1>6, <1>7, <1>8, <1>9, <1>10, <1>11

\* Adding a file of which all is found changes nothing.
LEMMA ImportIdle ==
  ASSUME NEW t, Fine(t), NEW data, Filed(data),
         AllFound("servers", t.config, data.servers), AllFound("groups", t.config, data.groups),
         AllFound("commands", t.config, data.commands), AllFound("bundles", t.config, data.bundles)
  PROVE  Imported(t, data, TRUE) = t
  <1>1. {"servers", "groups", "commands", "bundles"} \subseteq Kinds \ {"steps"}
    BY DEF Kinds
  <1>2. AddServers(t, data.servers, TRUE) = t
    <2>1. PICK N \in Nat : DOMAIN data.servers = 1 .. N
      BY DEF Filed, Listing
    <2>2. Loop("servers", TRUE, data.servers, N, t, N) = t
      BY <1>1, <2>1, ListIdle
    <2>3. QED
      BY <2>1, <2>2, ServersLoop
  <1>3. AddGroups(t, data.groups) = t
    <2>1. PICK N \in Nat : DOMAIN data.groups = 1 .. N
      BY DEF Filed, Listing
    <2>2. Loop("groups", TRUE, data.groups, N, t, N) = t
      BY <1>1, <2>1, ListIdle
    <2>3. QED
      BY <2>1, <2>2, GroupsLoop
  <1>4. AddCommands(t, data.commands, TRUE) = t
    <2>1. PICK N \in Nat : DOMAIN data.commands = 1 .. N
      BY DEF Filed, Listing
    <2>2. Loop("commands", TRUE, data.commands, N, t, N) = t
      BY <1>1, <2>1, ListIdle
    <2>3. QED
      BY <2>1, <2>2, CommandsLoop
  <1>5. AddBundles(t, data.bundles, TRUE) = t
    <2>1. PICK N \in Nat : DOMAIN data.bundles = 1 .. N
      BY DEF Filed, Listing
    <2>2. \A i \in 1 .. N : Listing(data.bundles[i].steps)
      BY <2>1 DEF Filed
    <2>3. Loop("bundles", TRUE, data.bundles, N, t, N) = t
      BY <1>1, <2>1, <2>2, ListIdle
    <2>4. QED
      BY <2>1, <2>3, BundlesLoop
  <1>6. QED
    BY <1>2, <1>3, <1>4, <1>5 DEF Imported

-----------------------------------------------------------------------------
(* The handlers of the import                                               *)

LEMMA ImportFilesAreFiled ==
  ASSUME NEW data \in ImportFiles
  PROVE  Filed(data)
  <1>1. ASSUME NEW S, NEW q \in Seq(S)
        PROVE  Listing(q)
    <2>1. DOMAIN q = 1 .. Len(q) /\ Len(q) \in Nat
      BY LenProperties
    <2>2. QED
      BY <2>1 DEF Listing
  <1>2. /\ Listing(data.servers) /\ Listing(data.groups) /\ Listing(data.commands) /\ Listing(data.bundles)
    BY <1>1, ImportAssumption
  <1>3. ASSUME NEW i \in DOMAIN data.bundles
        PROVE  Listing(data.bundles[i].steps)
    <2> DEFINE Bundles == [server : FileServer, name : DOMAIN LowerName, steps : Seq(FileStep)]
    <2>1. data.bundles \in Seq(Bundles) /\ \A b \in Bundles : b.steps \in Seq(FileStep)
      BY ImportAssumption
    <2> HIDE DEF Bundles
    <2>2. DOMAIN data.bundles = 1 .. Len(data.bundles)
      BY <2>1, LenProperties
    <2>3. data.bundles[i] \in Bundles
      BY <2>1, <2>2, ElementOfSeq
    <2>4. data.bundles[i].steps \in Seq(FileStep)
      BY <2>1, <2>3
    <2>5. QED
      BY <1>1, <2>4
  <1>4. QED
    BY <1>2, <1>3 DEF Filed

LEMMA ConfigFine ==
  ASSUME IInv, ListInv
  PROVE  Fine([config |-> config, issued |-> issued])
  BY DEF IInv, ListInv, Fine, Pair

LEMMA ClearedFine ==
  ASSUME IInv, ListInv
  PROVE  Fine([config |-> Cleared(config), issued |-> issued])
  <1> DEFINE cfg == Cleared(config)
  <1>1. /\ DOMAIN cfg = Parts /\ cfg.servers = <<>> /\ cfg.groups = <<>> /\ cfg.commands = <<>>
        /\ cfg.order = <<>> /\ cfg.bundles = <<>>
    BY PartsThere DEF Cleared, Parts
  <1> HIDE DEF cfg
  <1>2. /\ DOMAIN cfg.servers = {} /\ DOMAIN cfg.groups = {} /\ DOMAIN cfg.commands = {}
        /\ DOMAIN cfg.order = {} /\ DOMAIN cfg.bundles = {}
    BY <1>1, NothingInEmpty
  <1>3. Good(cfg, issued)
    BY <1>1, <1>2 DEF Good, Shaped, References
  <1>4. Listed(cfg)
    BY <1>1, <1>2 DEF Listed, OrderListed, StepsListed, IsInjective, Range
  <1>5. QED
    BY <1>3, <1>4 DEF IInv, Fine, Pair, cfg

LEMMA ImportKeeps ==
  ASSUME IInv, ListInv, NEW to, Fine(to), issued <= to.issued, Import(to)
  PROVE  IInv' /\ ListInv'
  <1>1. issued' = to.issued /\ issued' \in Nat /\ issued <= issued'
    BY DEF Import, Fine
  <1>2. PICK s, t, keep : Persist(to.config, s, t) /\ RefreshServers(keep)
    BY DEF Import, ImportFromMenu, ImportFromSettings
  <1>3. Good(config', issued') /\ Good(file', issued')
    BY <1>1, <1>2, PersistKeeps DEF Fine
  <1>4. DOMAIN to.config = Parts /\ Listed(to.config)
    BY DEF Fine, Good, Shaped
  <1>5. Listed(config') /\ Listed(file')
    BY <1>2, <1>4, PersistLists
  <1>6. shown' \in {NoId} \cup DOMAIN config'.servers /\ tab' \in {NoId} \cup GroupsFor(config', shown')
    BY <1>2, RefreshKeeps
  <1>7. IInv'
    BY <1>1, <1>3, <1>6 DEF IInv, Good, Shaped, References, GroupsFor
  <1>8. ListInv'
    BY <1>5 DEF ListInv
  <1>9. QED
    BY <1>7, <1>8

LEMMA MergeFine ==
  ASSUME IInv, ListInv, NEW data, Filed(data)
  PROVE  Fine(Merge(config, issued, data)) /\ issued <= Merge(config, issued, data).issued
  <1> DEFINE t == [config |-> config, issued |-> issued]
             p == TRUE
  <1>1. Fine(t) /\ t.issued = issued
    BY ConfigFine
  <1>2. Merge(config, issued, data) = Imported(t, data, p)
    BY DEF Merge
  <1> HIDE DEF t, p
  <1>3. QED
    BY <1>1, <1>2, ImportAdds

LEMMA ReplaceFine ==
  ASSUME IInv, ListInv, NEW data, Filed(data)
  PROVE  Fine(Replace(config, issued, data)) /\ issued <= Replace(config, issued, data).issued
  <1> DEFINE t == [config |-> Cleared(config), issued |-> issued]
             p == FALSE
  <1>1. Fine(t) /\ t.issued = issued
    BY ClearedFine
  <1>2. Replace(config, issued, data) = Imported(t, data, p)
    BY DEF Replace
  <1> HIDE DEF t, p
  <1>3. QED
    BY <1>1, <1>2, ImportAdds

LEMMA TransferNextKeeps ==
  ASSUME IInv, ListInv, [TransferNext]_vars
  PROVE  IInv' /\ ListInv'
  <1>1. CASE [Next]_vars
    BY <1>1, NextKeeps, NextLists
  <1>2. CASE ImportMerge
    <2>1. PICK data \in ImportFiles : Import(Merge(config, issued, data))
      BY <1>2 DEF ImportMerge
    <2>2. QED
      BY <2>1, ImportFilesAreFiled, MergeFine, ImportKeeps
  <1>3. CASE ImportReplace
    <2>1. PICK data \in ImportFiles : Import(Replace(config, issued, data))
      BY <1>3 DEF ImportReplace
    <2>2. QED
      BY <2>1, ImportFilesAreFiled, ReplaceFine, ImportKeeps
  <1>4. QED
    BY <1>1, <1>2, <1>3 DEF TransferNext

\* Whatever files are imported, added or in place of all there was, between whatever edits
\* and saves, the references lead where they should (import_into_config gives every group,
\* command and bundle the id of a server that it has found, ensure_group that of a group of it).
THEOREM ReferencesHoldWithImports == TransferSpec => []ReferencesHold
  <1>1. IInv => ReferencesHold
    BY DEF IInv, Good, ReferencesHold
  <1>2. IInv /\ ListInv /\ [TransferNext]_vars => IInv' /\ ListInv'
    BY TransferNextKeeps
  <1>3. Init => IInv /\ ListInv
    BY InitGood, InitLists
  <1>4. QED
    BY <1>1, <1>2, <1>3, PTL DEF TransferSpec

-----------------------------------------------------------------------------
(* Adding twice                                                             *)

LEMMA MergedTwice ==
  ASSUME IInv, ListInv, NEW data, Filed(data)
  PROVE  LET once == Merge(config, issued, data) IN Merge(once.config, once.issued, data) = once
  <1> DEFINE t    == [config |-> config, issued |-> issued]
             p    == TRUE
             once == Imported(t, data, p)
  <1>1. Fine(t)
    BY ConfigFine
  <1>2. Merge(config, issued, data) = once
    BY DEF Merge
  <1> HIDE DEF t, p
  <1>3. /\ Fine(once) /\ AllFound("servers", once.config, data.servers)
        /\ AllFound("groups", once.config, data.groups) /\ AllFound("commands", once.config, data.commands)
        /\ AllFound("bundles", once.config, data.bundles)
    BY <1>1, ImportAdds
  <1> HIDE DEF once
  <1>4. Imported(once, data, TRUE) = once
    BY <1>3, ImportIdle
  <1>5. once = [config |-> once.config, issued |-> once.issued]
    BY <1>3 DEF Fine, Pair
  <1>6. Merge(once.config, once.issued, data) = once
    BY <1>4, <1>5 DEF Merge
  <1>7. QED
    BY <1>2, <1>6

\* For any configuration that edits and imports lead to and any file: adding the file a second
\* time adds nothing and gives no new ids (the skip of existing servers, commands and bundles
\* in import_into_config, and ensure_group, which finds the groups it has made).
THEOREM MergeTwiceHolds == TransferSpec => []MergeTwice
  <1>1. IInv /\ ListInv => MergeTwice
    BY ImportFilesAreFiled, MergedTwice DEF MergeTwice
  <1>2. IInv /\ ListInv /\ [TransferNext]_vars => IInv' /\ ListInv'
    BY TransferNextKeeps
  <1>3. Init => IInv /\ ListInv
    BY InitGood, InitLists
  <1>4. QED
    BY <1>1, <1>2, <1>3, PTL DEF TransferSpec

-----------------------------------------------------------------------------
(* Adding what has been exported                                            *)

LEMMA AscendingIs ==
  ASSUME NEW n \in Nat, NEW S \in SUBSET (1 .. n)
  PROVE  Ascending(S) \in Seq(Nat) /\ Range(Ascending(S)) = S
  <1> DEFINE m   == Max({0} \cup S)
             ids == [i \in 1 .. m |-> i]
  <1>1. {0} \cup S \in SUBSET (0 .. n) /\ {0} \cup S # {}
    OBVIOUS
  <1>2. m \in {0} \cup S /\ \A y \in {0} \cup S : y <= m
    BY <1>1, MaxIsThere
  <1> HIDE DEF m
  <1>3. m \in Nat /\ S \subseteq 1 .. m
    BY <1>2
  <1>4. ids \in Seq(Nat) /\ Range(ids) = 1 .. m
    BY <1>3 DEF Range
  <1>5. Ascending(S) = Among(ids, S)
    BY DEF Ascending, m
  <1> HIDE DEF ids
  <1>6. Among(ids, S) \in Seq(Nat) /\ Range(Among(ids, S)) = Range(ids) \cap S
    BY <1>4, AmongKeeps
  <1>7. QED
    BY <1>3, <1>4, <1>5, <1>6

LEMMA Element ==
  ASSUME NEW s \in Seq(Nat), NEW i \in DOMAIN s
  PROVE  s[i] \in Range(s) /\ Listing(s)
  <1>1. DOMAIN s = 1 .. Len(s) /\ Len(s) \in Nat
    BY LenProperties
  <1>2. QED
    BY <1>1 DEF Range, Listing

LEMMA SeqListing ==
  ASSUME NEW s \in Seq(Nat), NEW q, DOMAIN q = DOMAIN s
  PROVE  Listing(q)
  <1>1. DOMAIN s = 1 .. Len(s) /\ Len(s) \in Nat
    BY LenProperties
  <1>2. QED
    BY <1>1 DEF Listing

\* The server of what has been exported is found again, when it is the only one of its key.
LEMMA ExportedServer ==
  ASSUME NEW t, Fine(t), UniqueKeys(t.config), NEW s \in DOMAIN t.config.servers
  PROVE  ServerAt(t.config, t.config.servers[s]) = s
  BY ServerAtIs DEF UniqueKeys

LEMMA ExportFound ==
  ASSUME NEW t, Fine(t), UniqueKeys(t.config)
  PROVE  LET data == Export(t.config) IN
         /\ Filed(data)
         /\ AllFound("servers", t.config, data.servers) /\ AllFound("groups", t.config, data.groups)
         /\ AllFound("commands", t.config, data.commands) /\ AllFound("bundles", t.config, data.bundles)
  <1> DEFINE cfg      == t.config
             owned(f) == {x \in DOMAIN f : f[x].server \in DOMAIN cfg.servers}
             steps(b) == Among(cfg.bundles[b].steps, DOMAIN cfg.commands)
             servers  == Ascending(DOMAIN cfg.servers)
             groups   == Ascending(owned(cfg.groups))
             commands == Among(cfg.order, owned(cfg.commands))
             bundles  == Ascending({b \in owned(cfg.bundles) : steps(b) # <<>>})
             server(f, x) == cfg.servers[f[x].server]
             data     == Export(cfg)
  <1>1. data =
          [servers  |-> [i \in DOMAIN servers |-> cfg.servers[servers[i]]],
           groups   |-> [i \in DOMAIN groups |-> [server |-> server(cfg.groups, groups[i]),
                                                  name   |-> cfg.groups[groups[i]].name]],
           commands |-> [i \in DOMAIN commands |-> [server |-> server(cfg.commands, commands[i]),
                                                    group  |-> GroupName(cfg, commands[i]),
                                                    name   |-> cfg.commands[commands[i]].name]],
           bundles  |-> [i \in DOMAIN bundles |->
                           [server |-> server(cfg.bundles, bundles[i]),
                            name   |-> cfg.bundles[bundles[i]].name,
                            steps  |-> LET ids == steps(bundles[i])
                                       IN [k \in DOMAIN ids |-> [group |-> GroupName(cfg, ids[k]),
                                                                 name  |-> cfg.commands[ids[k]].name]]]]]
    BY DEF Export
  <1>2. /\ t.issued \in Nat
        /\ DOMAIN cfg.servers \subseteq 1 .. t.issued /\ DOMAIN cfg.groups \subseteq 1 .. t.issued
        /\ DOMAIN cfg.commands \subseteq 1 .. t.issued /\ DOMAIN cfg.bundles \subseteq 1 .. t.issued
        /\ cfg.order \in Seq(Nat) /\ Range(cfg.order) = DOMAIN cfg.commands
        /\ \A b \in DOMAIN cfg.bundles : cfg.bundles[b].steps \in Seq(Nat)
    BY DEF Fine, Good, Shaped, Listed, OrderListed, StepsListed
  <1>3. \A s \in DOMAIN cfg.servers : s # NoId /\ ServerAt(cfg, cfg.servers[s]) = s
    BY <1>2, ExportedServer DEF NoId
  <1>4. servers \in Seq(Nat) /\ Range(servers) \subseteq DOMAIN cfg.servers
    BY <1>2, AscendingIs
  <1>5. groups \in Seq(Nat) /\ Range(groups) \subseteq owned(cfg.groups)
    <2>1. owned(cfg.groups) \in SUBSET (1 .. t.issued)
      BY <1>2
    <2> HIDE DEF owned
    <2>2. QED
      BY <1>2, <2>1, AscendingIs
  <1>6. commands \in Seq(Nat) /\ Range(commands) \subseteq owned(cfg.commands)
    BY <1>2, AmongKeeps
  <1>7. bundles \in Seq(Nat) /\ Range(bundles) \subseteq owned(cfg.bundles)
    <2> DEFINE B == {b \in owned(cfg.bundles) : steps(b) # <<>>}
    <2>1. B \in SUBSET (1 .. t.issued) /\ B \subseteq owned(cfg.bundles)
      BY <1>2
    <2> HIDE DEF B
    <2>2. Ascending(B) \in Seq(Nat) /\ Range(Ascending(B)) = B
      BY <1>2, <2>1, AscendingIs
    <2>3. QED
      BY <2>1, <2>2 DEF B
  <1>8. \A b \in owned(cfg.bundles) : steps(b) \in Seq(Nat)
    BY <1>2, AmongKeeps
  <1> HIDE DEF servers, groups, commands, bundles, steps, data
  <1>9. AllFound("servers", cfg, data.servers) /\ Listing(data.servers)
    <2>1. /\ DOMAIN data.servers = DOMAIN servers
          /\ \A i \in DOMAIN servers : data.servers[i] = cfg.servers[servers[i]]
      BY <1>1
    <2>2. \A i \in DOMAIN servers : servers[i] \in DOMAIN cfg.servers
      BY <1>4, Element
    <2>3. ASSUME NEW i \in DOMAIN servers
          PROVE  Found("servers", cfg, data.servers[i], TRUE)
      BY <1>3, <2>1, <2>2 DEF Found
    <2>4. QED
      BY <1>4, <2>1, <2>3, SeqListing DEF AllFound
  <1>10. AllFound("groups", cfg, data.groups) /\ Listing(data.groups)
    <2>1. /\ DOMAIN data.groups = DOMAIN groups
          /\ \A i \in DOMAIN groups : /\ data.groups[i].server = server(cfg.groups, groups[i])
                                      /\ data.groups[i].name = cfg.groups[groups[i]].name
      BY <1>1
    <2>2. ASSUME NEW i \in DOMAIN groups
          PROVE  Found("groups", cfg, data.groups[i], TRUE)
      <3> DEFINE g == groups[i]
                 s == cfg.groups[g].server
      <3>1. g \in DOMAIN cfg.groups /\ s \in DOMAIN cfg.servers
        BY <1>5, Element
      <3>2. ServerAt(cfg, data.groups[i].server) = s
        BY <1>3, <2>1, <3>1
      <3>3. HasGroup(cfg, s, data.groups[i].name)
        BY <2>1, <3>1 DEF HasGroup, GroupsFor, Same
      <3> HIDE DEF s
      <3>4. QED
        BY <3>2, <3>3 DEF Found
    <2>3. QED
      BY <1>5, <2>1, <2>2, SeqListing DEF AllFound
  <1>11. AllFound("commands", cfg, data.commands) /\ Listing(data.commands)
    <2>1. /\ DOMAIN data.commands = DOMAIN commands
          /\ \A i \in DOMAIN commands : /\ data.commands[i].server = server(cfg.commands, commands[i])
                                        /\ data.commands[i].name = cfg.commands[commands[i]].name
      BY <1>1
    <2>2. ASSUME NEW i \in DOMAIN commands
          PROVE  Found("commands", cfg, data.commands[i], TRUE)
      <3> DEFINE c == commands[i]
                 s == cfg.commands[c].server
      <3>1. c \in DOMAIN cfg.commands /\ s \in DOMAIN cfg.servers
        BY <1>6, Element
      <3>2. ServerAt(cfg, data.commands[i].server) = s
        BY <1>3, <2>1, <3>1
      <3>3. \E d \in CommandsFor(cfg, s) : Same(cfg.commands[d].name, data.commands[i].name)
        BY <2>1, <3>1 DEF CommandsFor, Same
      <3> HIDE DEF s
      <3>4. QED
        BY <3>2, <3>3 DEF Found
    <2>3. QED
      BY <1>6, <2>1, <2>2, SeqListing DEF AllFound
  <1>12. AllFound("bundles", cfg, data.bundles) /\ Listing(data.bundles)
    <2>1. /\ DOMAIN data.bundles = DOMAIN bundles
          /\ \A i \in DOMAIN bundles : /\ data.bundles[i].server = server(cfg.bundles, bundles[i])
                                       /\ data.bundles[i].name = cfg.bundles[bundles[i]].name
      BY <1>1
    <2>2. ASSUME NEW i \in DOMAIN bundles
          PROVE  Found("bundles", cfg, data.bundles[i], TRUE)
      <3> DEFINE b == bundles[i]
                 s == cfg.bundles[b].server
      <3>1. b \in DOMAIN cfg.bundles /\ s \in DOMAIN cfg.servers
        BY <1>7, Element
      <3>2. ServerAt(cfg, data.bundles[i].server) = s
        BY <1>3, <2>1, <3>1
      <3>3. \E d \in BundlesFor(cfg, s) : Same(cfg.bundles[d].name, data.bundles[i].name)
        BY <2>1, <3>1 DEF BundlesFor, Same
      <3> HIDE DEF s
      <3>4. QED
        BY <3>2, <3>3 DEF Found
    <2>3. QED
      BY <1>7, <2>1, <2>2, SeqListing DEF AllFound
  <1>13. ASSUME NEW i \in DOMAIN data.bundles
         PROVE  Listing(data.bundles[i].steps)
    <2>1. DOMAIN data.bundles = DOMAIN bundles /\ DOMAIN data.bundles[i].steps = DOMAIN steps(bundles[i])
      BY <1>1
    <2>2. bundles[i] \in owned(cfg.bundles)
      BY <1>7, <2>1, Element
    <2>3. QED
      BY <1>8, <2>1, <2>2, SeqListing
  <1>14. QED
    BY <1>9, <1>10, <1>11, <1>12, <1>13 DEF Filed, data

\* For any configuration that edits and imports lead to, whatever the names in it: adding
\* what has just been exported adds nothing, as long as no two servers have one name and
\* host (build_export_payload, and what import_into_config takes for existing).
THEOREM OwnExportAddsNothingHolds == TransferSpec => []OwnExportAddsNothing
  <1>1. IInv /\ ListInv => OwnExportAddsNothing
    <2> SUFFICES ASSUME IInv, ListInv, UniqueKeys(config)
                 PROVE  Merge(config, issued, Export(config)).config = config
      BY DEF OwnExportAddsNothing
    <2> DEFINE t == [config |-> config, issued |-> issued]
    <2>1. Fine(t) /\ t.config = config
      BY ConfigFine
    <2> HIDE DEF t
    <2>2. Imported(t, Export(t.config), TRUE) = t
      BY <2>1, ExportFound, ImportIdle
    <2>3. Merge(config, issued, Export(config)) = Imported(t, Export(config), TRUE)
      BY DEF Merge, t
    <2>4. QED
      BY <2>1, <2>2, <2>3
  <1>2. IInv /\ ListInv /\ [TransferNext]_vars => IInv' /\ ListInv'
    BY TransferNextKeeps
  <1>3. Init => IInv /\ ListInv
    BY InitGood, InitLists
  <1>4. QED
    BY <1>1, <1>2, <1>3, PTL DEF TransferSpec

-----------------------------------------------------------------------------
(* Reading back an export: what the loops make, element by element          *)

\* A loop that keeps everything makes a copy.
LEMMA AllKept ==
  ASSUME NEW s \in Seq(Nat), NEW S, Range(s) \subseteq S
  PROVE  Among(s, S) = s
  <1> DEFINE kept == KeptSoFar(s, S)
             front(n) == [i \in 1 .. n |-> s[i]]
             True == {n \in 0 .. Len(s) : kept[n] = front(n)}
  <1>1. Len(s) \in Nat /\ DOMAIN s = 1 .. Len(s) /\ \A i \in 1 .. Len(s) : s[i] \in Nat /\ s[i] \in S
    BY LenProperties, ElementOfSeq DEF Range
  <1>2. kept[0] = <<>> /\ \A n \in 1 .. Len(s) : kept[n] = NextKept(s, S, n, kept[n - 1])
    BY KeptOneByOne
  <1>3. 0 \in True
    <2>1. front(0) = <<>>
      OBVIOUS
    <2>2. QED
      BY <1>1, <1>2, <2>1
  <1> HIDE DEF kept
  <1>4. ASSUME NEW n \in 1 .. Len(s), n - 1 \in True PROVE n \in True
    <2>1. kept[n] = Append(front(n - 1), s[n])
      BY <1>1, <1>2, <1>4 DEF NextKept
    <2>2. front(n - 1) \in Seq(Nat) /\ Len(front(n - 1)) = n - 1
      BY <1>1
    <2>3. /\ Append(front(n - 1), s[n]) \in Seq(Nat) /\ Len(Append(front(n - 1), s[n])) = n
          /\ Append(front(n - 1), s[n])[n] = s[n]
          /\ \A i \in 1 .. n - 1 : Append(front(n - 1), s[n])[i] = s[i]
      BY <1>1, <2>2, AppendProperties
    <2> DEFINE more == Append(front(n - 1), s[n])
    <2> HIDE DEF more
    <2>4. more \in Seq(Nat) /\ Len(more) = n /\ more[n] = s[n] /\ \A i \in 1 .. n - 1 : more[i] = s[i]
      BY <2>3 DEF more
    <2>5. more = front(n)
      <3>1. \A i \in 1 .. n : i = n \/ i \in 1 .. n - 1
        OBVIOUS
      <3>2. front(n) \in Seq(Nat) /\ Len(front(n)) = n /\ \A i \in 1 .. n : front(n)[i] = s[i]
        BY <1>1
      <3> HIDE DEF front
      <3>3. \A i \in 1 .. n : more[i] = front(n)[i]
        BY <2>4, <3>1, <3>2
      <3>4. QED
        BY <2>4, <3>2, <3>3, SeqEqual
    <2>6. kept[n] = front(n)
      BY <2>1, <2>5 DEF more
    <2>7. QED
      BY <1>1, <2>6
  <1>5. True \in SUBSET (0 .. Len(s))
    OBVIOUS
  <1> HIDE DEF True
  <1>6. Len(s) \in True
    BY <1>1, <1>3, <1>4, <1>5, Below
  <1>7. kept[Len(s)] = front(Len(s))
    BY <1>6 DEF True
  <1>8. front(Len(s)) = s
    BY <1>1
  <1> HIDE DEF front
  <1>9. QED
    BY <1>7, <1>8 DEF Among, kept

\* The ids from m + 1 on, N of them
From(m, N) == (m + 1) .. (m + N)
IdsAfter(m, N)  == [i \in 1 .. N |-> m + i]

\* One more id
LEMMA RowGrows ==
  ASSUME NEW m \in Nat, NEW n \in Nat \ {0}
  PROVE  Append(IdsAfter(m, n - 1), m + n) = IdsAfter(m, n)
  <1> DEFINE row(k) == [i \in 1 .. k |-> m + i]
             more == Append(row(n - 1), m + n)
  <1>1. row(n - 1) \in Seq(Nat) /\ Len(row(n - 1)) = n - 1 /\ \A i \in 1 .. n - 1 : row(n - 1)[i] = m + i
    OBVIOUS
  <1>2. row(n) \in Seq(Nat) /\ Len(row(n)) = n /\ \A i \in 1 .. n : row(n)[i] = m + i
    OBVIOUS
  <1>3. \A i \in 1 .. n : i = n \/ i \in 1 .. n - 1
    OBVIOUS
  <1> HIDE DEF row
  <1>4. more \in Seq(Nat) /\ Len(more) = n /\ more[n] = m + n /\ \A i \in 1 .. n - 1 : more[i] = m + i
    BY <1>1, AppendProperties
  <1> HIDE DEF more
  <1>5. \A i \in 1 .. n : more[i] = row(n)[i]
    BY <1>2, <1>3, <1>4
  <1>6. more = row(n)
    BY <1>2, <1>4, <1>5, SeqEqual
  <1>7. QED
    BY <1>6 DEF more, row, IdsAfter

\* ... in a row
LEMMA AscendingFrom ==
  ASSUME NEW m \in Nat, NEW N \in Nat
  PROVE  Ascending(From(m, N)) = IdsAfter(m, N)
  <1> DEFINE S     == From(m, N)
             top   == Max({0} \cup S)
             all   == [i \in 1 .. top |-> i]
             kept  == KeptSoFar(all, S)
             row(n) == IdsAfter(m, n)
  <1>1. Ascending(S) = kept[Len(all)]
    BY DEF Ascending, Among
  <1>2. CASE N = 0
    <2>1. S = {} /\ {0} \cup S \in SUBSET (0 .. 0) /\ 0 \in {0} \cup S
      BY <1>2 DEF From
    <2>2. top = 0
      BY <2>1, MaxIsIt
    <2> HIDE DEF top, S
    <2>3. all = <<>> /\ all \in Seq(Nat) /\ Len(all) = 0 /\ row(N) = <<>>
      BY <1>2, <2>2 DEF IdsAfter
    <2> HIDE DEF all
    <2>4. kept[0] = <<>>
      BY <2>3, KeptOneByOne
    <2>5. QED
      BY <1>1, <2>3, <2>4 DEF S
  <1>3. CASE N # 0
    <2>1. {0} \cup S \in SUBSET (0 .. (m + N)) /\ m + N \in {0} \cup S /\ m + N \in Nat
      BY <1>3 DEF From
    <2>2. top = m + N
      BY <2>1, MaxIsIt
    <2> HIDE DEF top
    <2>3. all \in Seq(Nat) /\ Len(all) = m + N /\ \A i \in 1 .. m + N : all[i] = i
      BY <2>2
    <2> HIDE DEF all, S
    <2>4. kept[0] = <<>> /\ \A n \in 1 .. m + N : kept[n] = NextKept(all, S, n, kept[n - 1])
      BY <2>3, KeptOneByOne
    <2> HIDE DEF kept
    <2> DEFINE True1 == {n \in 0 .. m : kept[n] = <<>>}
               True2 == {n \in 0 .. N : kept[m + n] = row(n)}
    <2>5. kept[m] = <<>>
      <3>1. 0 \in True1
        BY <2>4
      <3>2. ASSUME NEW n \in 1 .. m, n - 1 \in True1 PROVE n \in True1
        <4>1. n \in 1 .. m + N /\ n \notin S
          BY DEF S, From
        <4>2. kept[n] = kept[n - 1]
          BY <2>3, <2>4, <4>1 DEF NextKept
        <4>3. QED
          BY <3>2, <4>2
      <3>3. True1 \in SUBSET (0 .. m)
        OBVIOUS
      <3> HIDE DEF True1
      <3>4. m \in True1
        BY <3>1, <3>2, <3>3, Below
      <3>5. QED
        BY <3>4 DEF True1
    <2>6. kept[m + N] = row(N)
      <3>1. 0 \in True2
        <4>1. row(0) = <<>> /\ m + 0 = m
          BY DEF IdsAfter
        <4>2. QED
          BY <2>5, <4>1
      <3>2. ASSUME NEW n \in 1 .. N, n - 1 \in True2 PROVE n \in True2
        <4>1. m + n \in 1 .. m + N /\ m + n \in S /\ (m + n) - 1 = m + (n - 1)
          BY DEF S, From
        <4>2. kept[m + n] = Append(row(n - 1), m + n)
          BY <2>3, <2>4, <3>2, <4>1 DEF NextKept
        <4>3. Append(row(n - 1), m + n) = row(n)
          BY RowGrows
        <4>4. QED
          BY <4>2, <4>3
      <3>3. True2 \in SUBSET (0 .. N)
        OBVIOUS
      <3> HIDE DEF True2
      <3>4. N \in True2
        BY <3>1, <3>2, <3>3, Below
      <3>5. QED
        BY <3>4 DEF True2
    <2>7. QED
      BY <1>1, <2>3, <2>6 DEF S
  <1>4. QED
    BY <1>2, <1>3

\* Where x stands in q
Pos(q, x) == CHOOSE i \in DOMAIN q : q[i] = x

LEMMA PosIs ==
  ASSUME NEW q, IsInjective(q)
  PROVE  /\ \A x \in Range(q) : Pos(q, x) \in DOMAIN q /\ q[Pos(q, x)] = x
         /\ \A i \in DOMAIN q : Pos(q, q[i]) = i
  <1>1. ASSUME NEW x \in Range(q)
        PROVE  Pos(q, x) \in DOMAIN q /\ q[Pos(q, x)] = x
    <2>1. \E i \in DOMAIN q : q[i] = x
      BY DEF Range
    <2>2. QED
      BY <2>1 DEF Pos
  <1>2. ASSUME NEW i \in DOMAIN q
        PROVE  Pos(q, q[i]) = i
    <2>1. q[i] \in Range(q)
      BY DEF Range
    <2>2. QED
      BY <1>1, <2>1 DEF IsInjective
  <1>3. QED
    BY <1>1, <1>2

LEMMA MinOfOne ==
  ASSUME NEW x \in Nat
  PROVE  Min({x}) = x /\ Max({x}) = x
  <1>1. \A y \in {x} : x <= y /\ x >= y
    OBVIOUS
  <1>2. QED
    BY <1>1 DEF Min, Max

-----------------------------------------------------------------------------
(* An export of what it can tell apart                                      *)

\* The vectors of servers, groups and bundles
Rows(cfg)  == Ascending(DOMAIN cfg.servers)
Heads(cfg) == Ascending(DOMAIN cfg.groups)
Ends(cfg)  == Ascending(DOMAIN cfg.bundles)

\* q lists S, each element once.
Lists(q, S) == q \in Seq(Nat) /\ Len(q) \in Nat /\ DOMAIN q = 1 .. Len(q) /\ IsInjective(q) /\ Range(q) = S

\* What Ascending gives is such a list.
LEMMA AscendingLists ==
  ASSUME NEW n \in Nat, NEW S \in SUBSET (1 .. n)
  PROVE  Lists(Ascending(S), S)
  <1> DEFINE m   == Max({0} \cup S)
             ids == [i \in 1 .. m |-> i]
  <1>1. {0} \cup S \in SUBSET (0 .. n) /\ {0} \cup S # {}
    OBVIOUS
  <1>2. m \in {0} \cup S
    BY <1>1, MaxIsThere
  <1> HIDE DEF m
  <1>3. m \in Nat
    BY <1>2
  <1>4. ids \in Seq(Nat) /\ IsInjective(ids)
    BY <1>3 DEF IsInjective
  <1>5. Ascending(S) = Among(ids, S)
    BY DEF Ascending, m
  <1> HIDE DEF ids
  <1>6. IsInjective(Ascending(S))
    BY <1>4, <1>5, AmongKeeps
  <1>7. Ascending(S) \in Seq(Nat) /\ Range(Ascending(S)) = S
    BY AscendingIs
  <1>8. Len(Ascending(S)) \in Nat /\ DOMAIN Ascending(S) = 1 .. Len(Ascending(S))
    BY <1>7, LenProperties
  <1>9. QED
    BY <1>6, <1>7, <1>8 DEF Lists

\* Nothing in it leads away, and every bundle has steps.
Plain(cfg) ==
  /\ References(cfg) /\ Listed(cfg)
  /\ Lists(Rows(cfg), DOMAIN cfg.servers) /\ Lists(Heads(cfg), DOMAIN cfg.groups)
  /\ Lists(cfg.order, DOMAIN cfg.commands) /\ Lists(Ends(cfg), DOMAIN cfg.bundles)
  /\ \A b \in DOMAIN cfg.bundles : cfg.bundles[b].steps # <<>> /\ Range(cfg.bundles[b].steps) \subseteq DOMAIN cfg.commands

\* An import has come to such a configuration if its bundles keep to their servers.
LEMMA PlainIs ==
  ASSUME NEW t, Fine(t), StepsLocal(t.config), \A b \in DOMAIN t.config.bundles : t.config.bundles[b].steps # <<>>
  PROVE  Plain(t.config)
  <1>1. /\ t.issued \in Nat
        /\ DOMAIN t.config.servers \in SUBSET (1 .. t.issued) /\ DOMAIN t.config.groups \in SUBSET (1 .. t.issued)
        /\ DOMAIN t.config.bundles \in SUBSET (1 .. t.issued)
    BY DEF Fine, Good, Shaped
  <1>2. /\ Lists(Rows(t.config), DOMAIN t.config.servers) /\ Lists(Heads(t.config), DOMAIN t.config.groups)
        /\ Lists(Ends(t.config), DOMAIN t.config.bundles)
    BY <1>1, AscendingLists DEF Rows, Heads, Ends
  <1>3. Lists(t.config.order, DOMAIN t.config.commands)
    BY LenProperties DEF Fine, Listed, OrderListed, Lists
  <1>4. \A b \in DOMAIN t.config.bundles : Range(t.config.bundles[b].steps) \subseteq DOMAIN t.config.commands
    BY DEF StepsLocal, CommandsFor
  <1>5. QED
    BY <1>2, <1>3, <1>4 DEF Plain, Fine, Good

\* What the four loops of the export write
WrittenServers(cfg) == [i \in DOMAIN Rows(cfg) |-> cfg.servers[Rows(cfg)[i]]]
WrittenGroups(cfg) ==
  [i \in DOMAIN Heads(cfg) |-> LET g == cfg.groups[Heads(cfg)[i]] IN [server |-> cfg.servers[g.server], name |-> g.name]]
WrittenCommands(cfg) ==
  [i \in DOMAIN cfg.order |-> LET c == cfg.commands[cfg.order[i]] IN
     [server |-> cfg.servers[c.server], group |-> GroupName(cfg, cfg.order[i]), name |-> c.name]]
WrittenSteps(cfg, ids) == [k \in DOMAIN ids |-> [group |-> GroupName(cfg, ids[k]), name |-> cfg.commands[ids[k]].name]]
WrittenBundles(cfg) ==
  [i \in DOMAIN Ends(cfg) |-> LET b == cfg.bundles[Ends(cfg)[i]] IN
     [server |-> cfg.servers[b.server], name |-> b.name, steps |-> WrittenSteps(cfg, b.steps)]]

\* ... and they leave nothing out.
LEMMA ExportPlain ==
  ASSUME NEW cfg, Plain(cfg)
  PROVE  Export(cfg) = [servers  |-> WrittenServers(cfg), groups  |-> WrittenGroups(cfg),
                        commands |-> WrittenCommands(cfg), bundles |-> WrittenBundles(cfg)]
  <1> DEFINE owned(f) == {x \in DOMAIN f : f[x].server \in DOMAIN cfg.servers}
             steps(b) == Among(cfg.bundles[b].steps, DOMAIN cfg.commands)
             servers  == Ascending(DOMAIN cfg.servers)
             groups   == Ascending(owned(cfg.groups))
             commands == Among(cfg.order, owned(cfg.commands))
             bundles  == Ascending({b \in owned(cfg.bundles) : steps(b) # <<>>})
             server(f, x) == cfg.servers[f[x].server]
  <1>1. Export(cfg) =
          [servers  |-> [i \in DOMAIN servers |-> cfg.servers[servers[i]]],
           groups   |-> [i \in DOMAIN groups |-> [server |-> server(cfg.groups, groups[i]),
                                                  name   |-> cfg.groups[groups[i]].name]],
           commands |-> [i \in DOMAIN commands |-> [server |-> server(cfg.commands, commands[i]),
                                                    group  |-> GroupName(cfg, commands[i]),
                                                    name   |-> cfg.commands[commands[i]].name]],
           bundles  |-> [i \in DOMAIN bundles |->
                           [server |-> server(cfg.bundles, bundles[i]),
                            name   |-> cfg.bundles[bundles[i]].name,
                            steps  |-> LET ids == steps(bundles[i])
                                       IN [k \in DOMAIN ids |-> [group |-> GroupName(cfg, ids[k]),
                                                                 name  |-> cfg.commands[ids[k]].name]]]]]
    BY DEF Export
  <1>2. /\ owned(cfg.groups) = DOMAIN cfg.groups /\ owned(cfg.commands) = DOMAIN cfg.commands
        /\ owned(cfg.bundles) = DOMAIN cfg.bundles
    BY DEF Plain, References
  <1>3. \A b \in DOMAIN cfg.bundles : steps(b) = cfg.bundles[b].steps /\ steps(b) # <<>>
    BY AllKept DEF Plain, Listed, StepsListed
  <1>4. servers = Rows(cfg) /\ groups = Heads(cfg)
    BY <1>2 DEF Rows, Heads
  <1>5. commands = cfg.order
    BY <1>2, AllKept DEF Plain, Lists
  <1>6. bundles = Ends(cfg)
    <2>1. {b \in owned(cfg.bundles) : steps(b) # <<>>} = DOMAIN cfg.bundles
      BY <1>2, <1>3
    <2>2. QED
      BY <2>1 DEF Ends
  <1> HIDE DEF owned, steps, servers, groups, commands, bundles
  <1>7. \A i \in DOMAIN bundles : bundles[i] \in DOMAIN cfg.bundles
    BY <1>6 DEF Plain, Lists, Range
  <1>8. [i \in DOMAIN servers |-> cfg.servers[servers[i]]] = WrittenServers(cfg)
    BY <1>4 DEF WrittenServers
  <1>9. [i \in DOMAIN groups |-> [server |-> server(cfg.groups, groups[i]), name |-> cfg.groups[groups[i]].name]]
        = WrittenGroups(cfg)
    BY <1>4 DEF WrittenGroups
  <1>10. [i \in DOMAIN commands |-> [server |-> server(cfg.commands, commands[i]),
                                     group  |-> GroupName(cfg, commands[i]),
                                     name   |-> cfg.commands[commands[i]].name]] = WrittenCommands(cfg)
    BY <1>5 DEF WrittenCommands
  <1>11. [i \in DOMAIN bundles |->
            [server |-> server(cfg.bundles, bundles[i]),
             name   |-> cfg.bundles[bundles[i]].name,
             steps  |-> LET ids == steps(bundles[i])
                        IN [k \in DOMAIN ids |-> [group |-> GroupName(cfg, ids[k]),
                                                  name  |-> cfg.commands[ids[k]].name]]]] = WrittenBundles(cfg)
    BY <1>3, <1>6, <1>7 DEF WrittenBundles, WrittenSteps
  <1>12. QED
    BY <1>1, <1>8, <1>9, <1>10, <1>11

-----------------------------------------------------------------------------
(* What "replace all" has come to when it reads that export: a copy, with   *)
(* new ids in the same order                                                *)

\* A configuration that an export can tell apart; the ids up to n are taken.
Fit(cfg, n) == Fine([config |-> cfg, issued |-> n]) /\ Exportable(cfg)

\* Where the ids of the new groups, commands and bundles begin
FromGroups(cfg, n)   == n + Len(Rows(cfg))
FromCommands(cfg, n) == FromGroups(cfg, n) + Len(Heads(cfg))
FromBundles(cfg, n)  == FromCommands(cfg, n) + Len(cfg.order)

\* The ids of the copies
NewServer(cfg, n, s)  == n + Pos(Rows(cfg), s)
NewGroup(cfg, n, g)   == IF g = NoId THEN NoId ELSE FromGroups(cfg, n) + Pos(Heads(cfg), g)
NewCommand(cfg, n, c) == FromCommands(cfg, n) + Pos(cfg.order, c)
NewSteps(cfg, n, ids) == [k \in DOMAIN ids |-> NewCommand(cfg, n, ids[k])]

\* The copies of a group, a command, a bundle, and all of them in a row
GroupCopy(cfg, n, g) == [server |-> NewServer(cfg, n, cfg.groups[g].server), name |-> cfg.groups[g].name]
CommandCopy(cfg, n, c) ==
  [server |-> NewServer(cfg, n, cfg.commands[c].server), group |-> NewGroup(cfg, n, cfg.commands[c].group),
   name   |-> cfg.commands[c].name]
BundleCopy(cfg, n, b) ==
  [server |-> NewServer(cfg, n, cfg.bundles[b].server), name |-> cfg.bundles[b].name,
   steps  |-> NewSteps(cfg, n, cfg.bundles[b].steps)]

GroupCopies(cfg, n)   == [i \in DOMAIN Heads(cfg) |-> GroupCopy(cfg, n, Heads(cfg)[i])]
CommandCopies(cfg, n) == [i \in DOMAIN cfg.order |-> CommandCopy(cfg, n, cfg.order[i])]
BundleCopies(cfg, n)  == [i \in DOMAIN Ends(cfg) |-> BundleCopy(cfg, n, Ends(cfg)[i])]

\* f is the first k of these copies, with the ids from m + 1 on.
Made(f, m, k, copies) == DOMAIN f = From(m, k) /\ \A i \in 1 .. k : f[m + i] = copies[i]

\* t holds the first copies of cfg: p servers, q groups, r commands and b bundles.
Copied(cfg, n, p, q, r, b, t) ==
  /\ Fine(t) /\ t.issued = n + p + q + r + b
  /\ Made(t.config.servers, n, p, WrittenServers(cfg))
  /\ Made(t.config.groups, FromGroups(cfg, n), q, GroupCopies(cfg, n))
  /\ Made(t.config.commands, FromCommands(cfg, n), r, CommandCopies(cfg, n))
  /\ t.config.order = IdsAfter(FromCommands(cfg, n), r)
  /\ Made(t.config.bundles, FromBundles(cfg, n), b, BundleCopies(cfg, n))

\* One more copy
LEMMA MadeNext ==
  ASSUME NEW f, NEW g, NEW m \in Nat, NEW k \in Nat \ {0}, NEW copies, Made(f, m, k - 1, copies),
         Grown(f, g), DOMAIN g = DOMAIN f \cup {m + k}, g[m + k] = copies[k]
  PROVE  Made(g, m, k, copies)
  <1>1. From(m, k) = From(m, k - 1) \cup {m + k}
    BY DEF From
  <1>2. \A i \in 1 .. k - 1 : m + i \in From(m, k - 1)
    BY DEF From
  <1>3. \A i \in 1 .. k : i = k \/ i \in 1 .. k - 1
    OBVIOUS
  <1>4. DOMAIN g = From(m, k)
    BY <1>1 DEF Made
  <1>5. \A i \in 1 .. k - 1 : g[m + i] = copies[i]
    BY <1>2 DEF Made, Grown
  <1>6. QED
    BY <1>3, <1>4, <1>5 DEF Made

LEMMA NothingMade ==
  ASSUME NEW f, NEW m \in Nat, NEW copies, DOMAIN f = {}
  PROVE  Made(f, m, 0, copies)
  BY DEF Made, From

\* What there is of a configuration that is fit
LEMMA FitIs ==
  ASSUME NEW cfg, NEW n, Fit(cfg, n)
  PROVE  /\ Plain(cfg) /\ n \in Nat
         /\ FromGroups(cfg, n) \in Nat /\ FromCommands(cfg, n) \in Nat /\ FromBundles(cfg, n) \in Nat
         /\ \A s \in DOMAIN cfg.servers : Pos(Rows(cfg), s) \in 1 .. Len(Rows(cfg)) /\ Rows(cfg)[Pos(Rows(cfg), s)] = s
         /\ \A g \in DOMAIN cfg.groups : Pos(Heads(cfg), g) \in 1 .. Len(Heads(cfg)) /\ Heads(cfg)[Pos(Heads(cfg), g)] = g
         /\ \A c \in DOMAIN cfg.commands :
              Pos(cfg.order, c) \in 1 .. Len(cfg.order) /\ cfg.order[Pos(cfg.order, c)] = c
         /\ \A i \in 1 .. Len(Rows(cfg)) : Rows(cfg)[i] \in DOMAIN cfg.servers /\ Pos(Rows(cfg), Rows(cfg)[i]) = i
         /\ \A i \in 1 .. Len(Heads(cfg)) : Heads(cfg)[i] \in DOMAIN cfg.groups /\ Pos(Heads(cfg), Heads(cfg)[i]) = i
         /\ \A i \in 1 .. Len(cfg.order) : cfg.order[i] \in DOMAIN cfg.commands /\ Pos(cfg.order, cfg.order[i]) = i
         /\ \A i \in 1 .. Len(Ends(cfg)) : Ends(cfg)[i] \in DOMAIN cfg.bundles
         /\ NoId \notin DOMAIN cfg.groups /\ \A g \in DOMAIN cfg.groups : cfg.groups[g].name # NoName
  <1> DEFINE t == [config |-> cfg, issued |-> n]
  <1>1. Fine(t) /\ t.config = cfg /\ t.issued = n
    BY DEF Fit
  <1> HIDE DEF t
  <1>2. Plain(cfg) /\ n \in Nat
    BY <1>1, PlainIs DEF Fit, Exportable, Fine
  <1>3. NoId \notin DOMAIN cfg.groups /\ \A g \in DOMAIN cfg.groups : cfg.groups[g].name # NoName
    BY <1>1 DEF Fine, Good, Shaped, NoId
  <1>4. ASSUME NEW q, NEW S, Lists(q, S)
        PROVE  /\ Len(q) \in Nat
               /\ \A x \in S : Pos(q, x) \in 1 .. Len(q) /\ q[Pos(q, x)] = x
               /\ \A i \in 1 .. Len(q) : q[i] \in S /\ Pos(q, q[i]) = i
    <2>1. \A i \in DOMAIN q : q[i] \in Range(q)
      BY DEF Range
    <2>2. QED
      BY <1>4, <2>1, PosIs DEF Lists
  <1>5. /\ Lists(Rows(cfg), DOMAIN cfg.servers) /\ Lists(Heads(cfg), DOMAIN cfg.groups)
        /\ Lists(cfg.order, DOMAIN cfg.commands) /\ Lists(Ends(cfg), DOMAIN cfg.bundles)
    BY <1>2 DEF Plain
  <1>6. FromGroups(cfg, n) \in Nat /\ FromCommands(cfg, n) \in Nat /\ FromBundles(cfg, n) \in Nat
    <2>1. n \in Nat /\ Len(Rows(cfg)) \in Nat /\ Len(Heads(cfg)) \in Nat /\ Len(cfg.order) \in Nat
      BY <1>2, <1>4, <1>5
    <2>2. FromGroups(cfg, n) \in Nat
      BY <2>1 DEF FromGroups
    <2>3. FromCommands(cfg, n) \in Nat
      BY <2>1, <2>2 DEF FromCommands
    <2>4. FromBundles(cfg, n) \in Nat
      BY <2>1, <2>3 DEF FromBundles
    <2>5. QED
      BY <2>2, <2>3, <2>4
  <1>7. QED
    BY <1>2, <1>3, <1>4, <1>5, <1>6

\* The copies of all servers are there: each is found by the name and host of the old one.
LEMMA CopyAt ==
  ASSUME NEW cfg, NEW n, Fit(cfg, n), NEW t, Fine(t),
         Made(t.config.servers, n, Len(Rows(cfg)), WrittenServers(cfg)), NEW s \in DOMAIN cfg.servers
  PROVE  /\ ServerAt(t.config, cfg.servers[s]) = NewServer(cfg, n, s)
         /\ NewServer(cfg, n, s) \in DOMAIN t.config.servers /\ NewServer(cfg, n, s) # NoId
         /\ t.config.servers[NewServer(cfg, n, s)] = cfg.servers[s]
  <1> DEFINE q == Rows(cfg)
             i == Pos(q, s)
             u == ServerAt(t.config, cfg.servers[s])
  <1>1. n \in Nat /\ i \in 1 .. Len(q) /\ q[i] = s /\ Len(q) \in Nat /\ DOMAIN q = 1 .. Len(q)
    BY FitIs DEF Plain, Lists
  <1>2. n + i \in From(n, Len(q)) /\ n + i # 0
    BY <1>1 DEF From
  <1>3. \A j \in 1 .. Len(q) : t.config.servers[n + j] = cfg.servers[q[j]]
    BY <1>1 DEF Made, WrittenServers
  <1>4. n + i \in DOMAIN t.config.servers /\ t.config.servers[n + i] = cfg.servers[s]
    BY <1>1, <1>2, <1>3 DEF Made
  <1>5. u \in DOMAIN t.config.servers /\ Key(t.config.servers[u]) = Key(cfg.servers[s])
    BY <1>4, ServerAtIs
  <1>6. PICK j \in 1 .. Len(q) : u = n + j
    <2>1. u \in From(n, Len(q))
      BY <1>5 DEF Made
    <2> HIDE DEF u, q
    <2>2. u \in (n + 1) .. (n + Len(q))
      BY <2>1 DEF From
    <2>3. u - n \in 1 .. Len(q) /\ u = n + (u - n)
      BY <1>1, <2>2
    <2>4. QED
      BY <2>3
  <1>7. q[j] \in DOMAIN cfg.servers /\ Pos(q, q[j]) = j
    BY FitIs
  <1>8. UniqueKeys(cfg)
    BY DEF Fit, Exportable
  <1>9. q[j] = s
    BY <1>3, <1>5, <1>6, <1>7, <1>8 DEF UniqueKeys
  <1> HIDE DEF q
  <1>10. j = i
    BY <1>7, <1>9
  <1>11. QED
    BY <1>2, <1>4, <1>6, <1>10 DEF NewServer, NoId, q

\* Different servers have different copies.
LEMMA CopiesDiffer ==
  ASSUME NEW cfg, NEW n, Fit(cfg, n), NEW s \in DOMAIN cfg.servers, NEW r \in DOMAIN cfg.servers,
         NewServer(cfg, n, s) = NewServer(cfg, n, r)
  PROVE  s = r
  <1>1. n \in Nat /\ Pos(Rows(cfg), s) \in 1 .. Len(Rows(cfg)) /\ Pos(Rows(cfg), r) \in 1 .. Len(Rows(cfg))
    BY FitIs
  <1>2. Pos(Rows(cfg), s) = Pos(Rows(cfg), r)
    BY <1>1 DEF NewServer
  <1>3. QED
    BY <1>2, FitIs

\* The group of a name is one of that name.
LEMMA GroupNamedSame ==
  ASSUME NEW t, Fine(t), NEW s, NEW n, GroupNamed(t.config, s, n) # NoId
  PROVE  LET g == GroupNamed(t.config, s, n) IN g \in GroupsFor(t.config, s) /\ Same(t.config.groups[g].name, n)
  <1> DEFINE S == {g \in GroupsFor(t.config, s) : Same(t.config.groups[g].name, n)}
  <1>1. S \in SUBSET (1 .. t.issued) /\ t.issued \in Nat
    BY DEF Fine, Good, Shaped, GroupsFor
  <1>2. S \in SUBSET Nat
    BY <1>1
  <1>3. S # {} => Min(S) \in S
    BY <1>2, MinIsThere
  <1>4. GroupNamed(t.config, s, n) = IF n = NoName THEN NoId ELSE IF S = {} THEN NoId ELSE Min(S)
    BY DEF GroupNamed, FirstOf
  <1>5. \A g \in S : g \in GroupsFor(t.config, s) /\ Same(t.config.groups[g].name, n)
    OBVIOUS
  <1> HIDE DEF S
  <1>6. GroupNamed(t.config, s, n) \in S
    BY <1>3, <1>4
  <1>7. QED
    BY <1>5, <1>6

\* The copy of a group is found by the name of the old one on the new server ...
LEMMA GroupCopyFound ==
  ASSUME NEW cfg, NEW n, Fit(cfg, n), NEW t, Fine(t),
         Made(t.config.groups, FromGroups(cfg, n), Len(Heads(cfg)), GroupCopies(cfg, n)), NEW g \in DOMAIN cfg.groups
  PROVE  /\ GroupNamed(t.config, NewServer(cfg, n, cfg.groups[g].server), cfg.groups[g].name) = NewGroup(cfg, n, g)
         /\ NewGroup(cfg, n, g) # NoId
         /\ NewGroup(cfg, n, g) \in DOMAIN t.config.groups
         /\ t.config.groups[NewGroup(cfg, n, g)] =
              [server |-> NewServer(cfg, n, cfg.groups[g].server), name |-> cfg.groups[g].name]
  <1> DEFINE q == Heads(cfg)
             m == FromGroups(cfg, n)
             i == Pos(q, g)
             s == NewServer(cfg, n, cfg.groups[g].server)
             u == GroupNamed(t.config, s, cfg.groups[g].name)
  <1>1. /\ m \in Nat /\ i \in 1 .. Len(q) /\ q[i] = g /\ Len(q) \in Nat /\ DOMAIN q = 1 .. Len(q)
        /\ NoId \notin DOMAIN cfg.groups
    BY FitIs DEF Plain, Lists
  <1>2. m + i \in From(m, Len(q)) /\ m + i # 0
    BY <1>1 DEF From
  <1>3. \A j \in 1 .. Len(q) :
          t.config.groups[m + j] = [server |-> NewServer(cfg, n, cfg.groups[q[j]].server), name |-> cfg.groups[q[j]].name]
    BY <1>1 DEF Made, GroupCopies, GroupCopy
  <1>4. m + i \in DOMAIN t.config.groups /\ t.config.groups[m + i] = [server |-> s, name |-> cfg.groups[g].name]
    BY <1>1, <1>2, <1>3 DEF Made
  <1>5. cfg.groups[g].name # NoName
    BY FitIs
  <1>6. u # NoId
    <2>1. HasGroup(t.config, s, cfg.groups[g].name)
      BY <1>4 DEF HasGroup, GroupsFor, Same
    <2>2. QED
      BY <1>5, <2>1, GroupNamedIs
  <1>7. u \in DOMAIN t.config.groups /\ t.config.groups[u].server = s /\ Same(t.config.groups[u].name, cfg.groups[g].name)
    BY <1>6, GroupNamedSame DEF GroupsFor
  <1>8. PICK j \in 1 .. Len(q) : u = m + j
    <2>1. u \in From(m, Len(q))
      BY <1>7 DEF Made
    <2> HIDE DEF u, q, m
    <2>2. u \in (m + 1) .. (m + Len(q))
      BY <2>1 DEF From
    <2>3. u - m \in 1 .. Len(q) /\ u = m + (u - m)
      BY <1>1, <2>2
    <2>4. QED
      BY <2>3
  <1>9. q[j] \in DOMAIN cfg.groups /\ Pos(q, q[j]) = j
    BY FitIs
  <1>10. NewServer(cfg, n, cfg.groups[q[j]].server) = s /\ Same(cfg.groups[q[j]].name, cfg.groups[g].name)
    <2>1. t.config.groups[m + j] = [server |-> NewServer(cfg, n, cfg.groups[q[j]].server), name |-> cfg.groups[q[j]].name]
      BY <1>3
    <2> HIDE DEF u, q, m, s
    <2>2. QED
      BY <1>7, <1>8, <2>1
  <1>11. cfg.groups[q[j]].server = cfg.groups[g].server
    <2>1. cfg.groups[q[j]].server \in DOMAIN cfg.servers /\ cfg.groups[g].server \in DOMAIN cfg.servers
      BY <1>9, FitIs DEF Plain, References
    <2>2. QED
      BY <1>10, <2>1, CopiesDiffer
  <1>12. q[j] = g
    BY <1>9, <1>10, <1>11 DEF Fit, Exportable
  <1> HIDE DEF q, m, u
  <1>13. j = i /\ NewGroup(cfg, n, g) = m + i
    BY <1>1, <1>9, <1>12 DEF NewGroup, NoId, q, m
  <1>14. QED
    BY <1>2, <1>4, <1>8, <1>13 DEF NoId, u

\* ... and not before it has been made.
LEMMA GroupCopyNew ==
  ASSUME NEW cfg, NEW n, Fit(cfg, n), NEW t, Fine(t), NEW k \in 1 .. Len(Heads(cfg)),
         Made(t.config.groups, FromGroups(cfg, n), k - 1, GroupCopies(cfg, n))
  PROVE  LET g == cfg.groups[Heads(cfg)[k]]
         IN  GroupNamed(t.config, NewServer(cfg, n, g.server), g.name) = NoId
  <1> DEFINE q == Heads(cfg)
             m == FromGroups(cfg, n)
             g == cfg.groups[q[k]]
             s == NewServer(cfg, n, g.server)
             u == GroupNamed(t.config, s, g.name)
  <1> SUFFICES ASSUME u # NoId PROVE FALSE
    OBVIOUS
  <1>1. m \in Nat /\ Len(q) \in Nat /\ DOMAIN q = 1 .. Len(q) /\ q[k] \in DOMAIN cfg.groups /\ Pos(q, q[k]) = k
    BY FitIs DEF Plain, Lists
  <1>2. u \in DOMAIN t.config.groups /\ t.config.groups[u].server = s /\ Same(t.config.groups[u].name, g.name)
    BY GroupNamedSame DEF GroupsFor
  <1>3. PICK j \in 1 .. k - 1 : u = m + j
    <2>1. u \in From(m, k - 1)
      BY <1>2 DEF Made
    <2> HIDE DEF u, q, m
    <2>2. u \in (m + 1) .. (m + (k - 1))
      BY <2>1 DEF From
    <2>3. u - m \in 1 .. k - 1 /\ u = m + (u - m)
      BY <1>1, <2>2
    <2>4. QED
      BY <2>3
  <1>4. j \in 1 .. Len(q) /\ j # k
    BY <1>1
  <1>5. t.config.groups[m + j] = [server |-> NewServer(cfg, n, cfg.groups[q[j]].server), name |-> cfg.groups[q[j]].name]
    BY <1>1, <1>4 DEF Made, GroupCopies, GroupCopy
  <1>6. q[j] \in DOMAIN cfg.groups /\ Pos(q, q[j]) = j
    BY <1>4, FitIs
  <1>7. NewServer(cfg, n, cfg.groups[q[j]].server) = s /\ Same(cfg.groups[q[j]].name, g.name)
    BY <1>2, <1>3, <1>5
  <1>8. cfg.groups[q[j]].server = g.server
    <2>1. cfg.groups[q[j]].server \in DOMAIN cfg.servers /\ g.server \in DOMAIN cfg.servers
      BY <1>1, <1>6, FitIs DEF Plain, References
    <2>2. QED
      BY <1>7, <2>1, CopiesDiffer
  <1>9. q[j] = q[k]
    BY <1>1, <1>6, <1>7, <1>8 DEF Fit, Exportable
  <1> HIDE DEF q
  <1>10. QED
    BY <1>1, <1>4, <1>6, <1>9

\* The group that the export writes for a command leads to the copy of its group.
LEMMA GroupOfCopy ==
  ASSUME NEW cfg, NEW n, Fit(cfg, n), NEW t, Fine(t),
         Made(t.config.groups, FromGroups(cfg, n), Len(Heads(cfg)), GroupCopies(cfg, n)), NEW c \in DOMAIN cfg.commands
  PROVE  LET s == NewServer(cfg, n, cfg.commands[c].server)
             u == NewGroup(cfg, n, cfg.commands[c].group)
         IN  /\ GroupNamed(t.config, s, GroupName(cfg, c)) = u
             /\ EnsureGroup(t, s, GroupName(cfg, c)) = t
             /\ GroupName(cfg, c) = NoName \/ HasGroup(t.config, s, GroupName(cfg, c))
             /\ u = NoId => GroupName(cfg, c) = NoName
             /\ u # NoId => u \in DOMAIN t.config.groups /\ t.config.groups[u].name = GroupName(cfg, c)
  <1> DEFINE g == cfg.commands[c].group
             s == NewServer(cfg, n, cfg.commands[c].server)
  <1>1. NoId \notin DOMAIN cfg.groups /\ g \in {NoId} \cup GroupsFor(cfg, cfg.commands[c].server)
    BY FitIs DEF Plain, References
  <1>2. CASE g = NoId
    <2>1. GroupName(cfg, c) = NoName /\ NewGroup(cfg, n, g) = NoId
      BY <1>1, <1>2 DEF GroupName, NewGroup
    <2>2. QED
      BY <2>1 DEF GroupNamed, EnsureGroup
  <1>3. CASE g # NoId
    <2>1. g \in DOMAIN cfg.groups /\ cfg.groups[g].server = cfg.commands[c].server
      BY <1>1, <1>3 DEF GroupsFor
    <2>2. GroupName(cfg, c) = cfg.groups[g].name
      BY <2>1 DEF GroupName
    <2>3. /\ GroupNamed(t.config, s, cfg.groups[g].name) = NewGroup(cfg, n, g) /\ NewGroup(cfg, n, g) # NoId
          /\ NewGroup(cfg, n, g) \in DOMAIN t.config.groups
          /\ t.config.groups[NewGroup(cfg, n, g)] = [server |-> s, name |-> cfg.groups[g].name]
      BY <2>1, GroupCopyFound
    <2>4. HasGroup(t.config, s, cfg.groups[g].name)
      BY <2>3, GroupNamedIs
    <2> HIDE DEF g, s
    <2>5. QED
      BY <2>2, <2>3, <2>4 DEF EnsureGroup, g, s
  <1>4. QED
    BY <1>2, <1>3

\* Different groups have different copies.
LEMMA GroupsDiffer ==
  ASSUME NEW cfg, NEW n, Fit(cfg, n), NEW g \in {NoId} \cup DOMAIN cfg.groups, NEW h \in {NoId} \cup DOMAIN cfg.groups,
         NewGroup(cfg, n, g) = NewGroup(cfg, n, h)
  PROVE  g = h
  <1>1. FromGroups(cfg, n) \in Nat /\ NoId \notin DOMAIN cfg.groups /\ NoId = 0
    BY FitIs DEF NoId
  <1>2. \A x \in DOMAIN cfg.groups :
          /\ Pos(Heads(cfg), x) \in Nat \ {0} /\ Heads(cfg)[Pos(Heads(cfg), x)] = x
          /\ NewGroup(cfg, n, x) = FromGroups(cfg, n) + Pos(Heads(cfg), x)
    BY <1>1, FitIs DEF NewGroup
  <1>3. NewGroup(cfg, n, NoId) = 0
    BY <1>1 DEF NewGroup
  <1>4. CASE g = NoId \/ h = NoId
    BY <1>1, <1>2, <1>3, <1>4
  <1>5. CASE g # NoId /\ h # NoId
    <2>1. g \in DOMAIN cfg.groups /\ h \in DOMAIN cfg.groups
      BY <1>5
    <2>2. Pos(Heads(cfg), g) = Pos(Heads(cfg), h)
      BY <1>1, <1>2, <2>1
    <2>3. QED
      BY <1>2, <2>1, <2>2
  <1>6. QED
    BY <1>4, <1>5

\* The copies of all commands are there: a step that names an old one leads to its copy.
LEMMA StepOfCopy ==
  ASSUME NEW cfg, NEW n, Fit(cfg, n), NEW t, Fine(t),
         Made(t.config.groups, FromGroups(cfg, n), Len(Heads(cfg)), GroupCopies(cfg, n)),
         Made(t.config.commands, FromCommands(cfg, n), Len(cfg.order), CommandCopies(cfg, n)),
         NEW c \in DOMAIN cfg.commands, NEW step,
         step.group = GroupName(cfg, c), step.name = cfg.commands[c].name
  PROVE  StepOf(t.config, NewServer(cfg, n, cfg.commands[c].server), step) = NewCommand(cfg, n, c)
  <1> DEFINE q == cfg.order
             m == FromCommands(cfg, n)
             i == Pos(q, c)
             s == NewServer(cfg, n, cfg.commands[c].server)
             u == NewGroup(cfg, n, cfg.commands[c].group)
             named(C) == {d \in C : Same(t.config.commands[d].name, step.name)}
             near == named(InList(t.config, s, GroupNamed(t.config, s, step.group)))
             all  == named(CommandsFor(t.config, s))
  <1>1. m \in Nat /\ i \in 1 .. Len(q) /\ q[i] = c /\ Len(q) \in Nat /\ DOMAIN q = 1 .. Len(q)
    BY FitIs DEF Plain, Lists
  <1>2. m + i \in From(m, Len(q)) /\ m + i # 0 /\ NewCommand(cfg, n, c) = m + i
    BY <1>1 DEF From, NewCommand
  <1>3. \A j \in 1 .. Len(q) :
          t.config.commands[m + j] =
            LET d == cfg.commands[q[j]] IN
            [server |-> NewServer(cfg, n, d.server), group |-> NewGroup(cfg, n, d.group), name |-> d.name]
    BY <1>1 DEF Made, CommandCopies, CommandCopy
  <1>4. GroupNamed(t.config, s, step.group) = u
    BY GroupOfCopy
  <1>5. StepOf(t.config, s, step) = IF FirstInOrder(t.config, near) # NoId THEN FirstInOrder(t.config, near)
                                    ELSE FirstInOrder(t.config, all)
    BY DEF StepOf
  <1>6. m + i \in near
    <2>1. m + i \in DOMAIN t.config.commands
      BY <1>2 DEF Made
    <2>2. t.config.commands[m + i] = [server |-> s, group |-> u, name |-> cfg.commands[c].name]
      BY <1>1, <1>3
    <2> HIDE DEF s, u, m, q
    <2>3. QED
      BY <1>4, <2>1, <2>2 DEF InList, CommandsFor, Same
  <1>7. ASSUME NEW d \in near
        PROVE  d = m + i
    <2>1. /\ d \in DOMAIN t.config.commands /\ t.config.commands[d].server = s /\ t.config.commands[d].group = u
          /\ Same(t.config.commands[d].name, cfg.commands[c].name)
      BY <1>4 DEF InList, CommandsFor
    <2>2. PICK j \in 1 .. Len(q) : d = m + j
      <3>1. d \in From(m, Len(q))
        BY <2>1 DEF Made
      <3> HIDE DEF q, m
      <3>2. d \in (m + 1) .. (m + Len(q))
        BY <3>1 DEF From
      <3>3. d - m \in 1 .. Len(q) /\ d = m + (d - m)
        BY <1>1, <3>2
      <3>4. QED
        BY <3>3
    <2> DEFINE e == cfg.commands[q[j]]
    <2>3. t.config.commands[m + j] =
            [server |-> NewServer(cfg, n, e.server), group |-> NewGroup(cfg, n, e.group), name |-> e.name]
      BY <1>3
    <2>4. q[j] \in DOMAIN cfg.commands /\ Pos(q, q[j]) = j
      BY FitIs
    <2>5. NewServer(cfg, n, e.server) = s /\ NewGroup(cfg, n, e.group) = u /\ Same(e.name, cfg.commands[c].name)
      <3> HIDE DEF q, m, s, u, e
      <3>1. QED
        BY <2>1, <2>2, <2>3
    <2>6. e.server = cfg.commands[c].server
      <3>1. e.server \in DOMAIN cfg.servers /\ cfg.commands[c].server \in DOMAIN cfg.servers
        BY <2>4, FitIs DEF Plain, References
      <3>2. QED
        BY <2>5, <3>1, CopiesDiffer
    <2>7. e.group = cfg.commands[c].group
      <3>1. e.group \in {NoId} \cup DOMAIN cfg.groups /\ cfg.commands[c].group \in {NoId} \cup DOMAIN cfg.groups
        BY <2>4, FitIs DEF Plain, References, GroupsFor
      <3>2. QED
        BY <2>5, <3>1, GroupsDiffer
    <2>8. q[j] = c
      <3>1. SameList(cfg, q[j], c)
        BY <2>4, <2>6, <2>7 DEF SameList
      <3>2. QED
        BY <2>4, <2>5, <3>1 DEF Fit, Exportable
    <2> HIDE DEF q, m
    <2>9. QED
      BY <2>2, <2>4, <2>8
  <1>8. near \subseteq DOMAIN t.config.commands
    BY DEF InList, CommandsFor
  <1> HIDE DEF near, all, q, m
  <1>9. FirstInOrder(t.config, near) \in {NoId} \cup near /\ (FirstInOrder(t.config, near) = NoId <=> near = {})
    BY <1>8, FirstInOrderIs
  <1>10. FirstInOrder(t.config, near) # NoId /\ FirstInOrder(t.config, near) = m + i
    BY <1>6, <1>7, <1>9
  <1>11. QED
    BY <1>2, <1>5, <1>10 DEF m, q

-----------------------------------------------------------------------------
(* One more copy of each kind                                               *)

\* The next server that is read becomes the copy of the next one.
LEMMA ServerCopied ==
  ASSUME NEW cfg, NEW n, Fit(cfg, n), NEW k \in 1 .. Len(Rows(cfg)), NEW t, Copied(cfg, n, k - 1, 0, 0, 0, t),
         NEW p, ~p
  PROVE  Copied(cfg, n, k, 0, 0, 0, Does("servers", t, WrittenServers(cfg)[k], p))
  <1> DEFINE x == WrittenServers(cfg)[k]
             u == New(t, "servers", x)
  <1>1. Does("servers", t, x, p) = u
    BY DEF Does
  <1>2. n \in Nat /\ t.issued = n + (k - 1) /\ Fine(t) /\ k \in Nat \ {0}
    BY FitIs DEF Copied
  <1>3. Fine(u)
    BY <1>2, NewServerMore DEF More
  <1>4. /\ u.issued = t.issued + 1
        /\ u.config.groups = t.config.groups /\ u.config.commands = t.config.commands
        /\ u.config.bundles = t.config.bundles /\ u.config.order = t.config.order
        /\ Grown(t.config.servers, u.config.servers)
        /\ DOMAIN u.config.servers = DOMAIN t.config.servers \cup {t.issued + 1}
        /\ u.config.servers[t.issued + 1] = x
    BY <1>2, NewIs DEF Parts
  <1>5. t.issued + 1 = n + k /\ u.issued = n + k + 0 + 0 + 0
    BY <1>2, <1>4
  <1> HIDE DEF u
  <1>6. Made(u.config.servers, n, k, WrittenServers(cfg))
    BY <1>2, <1>4, <1>5, MadeNext DEF Copied
  <1>7. QED
    BY <1>1, <1>3, <1>4, <1>5, <1>6 DEF Copied

\* The next group, too: none of its name is there yet.
LEMMA GroupCopied ==
  ASSUME NEW cfg, NEW n, Fit(cfg, n), NEW k \in 1 .. Len(Heads(cfg)), NEW t,
         Copied(cfg, n, Len(Rows(cfg)), k - 1, 0, 0, t), NEW p
  PROVE  Copied(cfg, n, Len(Rows(cfg)), k, 0, 0, Does("groups", t, WrittenGroups(cfg)[k], p))
  <1> DEFINE P == Len(Rows(cfg))
             m == FromGroups(cfg, n)
             g == cfg.groups[Heads(cfg)[k]]
             s == NewServer(cfg, n, g.server)
             item == [server |-> s, name |-> g.name]
             u == New(t, "groups", item)
  <1>1. /\ n \in Nat /\ Fine(t) /\ k \in Nat \ {0} /\ P \in Nat /\ m \in Nat /\ m = n + P
        /\ Heads(cfg)[k] \in DOMAIN cfg.groups /\ k \in DOMAIN Heads(cfg)
    BY FitIs DEF Copied, Plain, Lists, FromGroups
  <1>2. t.issued = m + (k - 1)
    BY <1>1 DEF Copied
  <1>3. g.server \in DOMAIN cfg.servers /\ g.name # NoName
    BY <1>1, FitIs DEF Plain, References
  <1>4. ServerAt(t.config, cfg.servers[g.server]) = s /\ s \in DOMAIN t.config.servers /\ s # NoId
    BY <1>1, <1>3, CopyAt DEF Copied
  <1>5. GroupNamed(t.config, s, g.name) = NoId
    BY <1>1, GroupCopyNew DEF Copied
  <1>6. WrittenGroups(cfg)[k] = [server |-> cfg.servers[g.server], name |-> g.name]
    BY <1>1 DEF WrittenGroups
  <1>7. Does("groups", t, WrittenGroups(cfg)[k], p) = u
    <2>1. Does("groups", t, WrittenGroups(cfg)[k], p) = EnsureGroup(t, s, g.name)
      BY <1>4, <1>6 DEF Does
    <2>2. QED
      BY <1>3, <1>5, <2>1 DEF EnsureGroup
  <1>8. GroupCopies(cfg, n)[k] = item
    BY <1>1 DEF GroupCopies, GroupCopy
  <1>9. {"server", "name"} \subseteq DOMAIN item /\ item.server = s /\ item.name # NoName
    BY <1>3
  <1> HIDE DEF item
  <1>10. Fine(u)
    BY <1>1, <1>4, <1>9, NewGroupMore DEF More
  <1>11. /\ u.issued = t.issued + 1
         /\ u.config.servers = t.config.servers /\ u.config.commands = t.config.commands
         /\ u.config.bundles = t.config.bundles /\ u.config.order = t.config.order
         /\ Grown(t.config.groups, u.config.groups)
         /\ DOMAIN u.config.groups = DOMAIN t.config.groups \cup {t.issued + 1}
         /\ u.config.groups[t.issued + 1] = item
    BY <1>1, NewIs DEF Parts
  <1> HIDE DEF u
  <1>12. t.issued + 1 = m + k /\ u.issued = n + P + k + 0 + 0
    BY <1>1, <1>2, <1>11
  <1>13. Made(t.config.groups, m, k - 1, GroupCopies(cfg, n))
    BY DEF Copied
  <1> HIDE DEF m
  <1>14. Made(u.config.groups, m, k, GroupCopies(cfg, n))
    BY <1>1, <1>8, <1>11, <1>12, <1>13, MadeNext
  <1>15. QED
    BY <1>7, <1>10, <1>11, <1>12, <1>14 DEF Copied, m

\* A new command is the last one of the vector.
LEMMA NewCommandIs ==
  ASSUME NEW t, Fine(t), NEW x
  PROVE  LET new == New(t, "commands", x)
             u   == [new EXCEPT !.config.order = Append(@, new.issued)]
         IN  /\ u.issued = t.issued + 1
             /\ u.config.servers = t.config.servers /\ u.config.groups = t.config.groups
             /\ u.config.bundles = t.config.bundles
             /\ u.config.order = Append(t.config.order, t.issued + 1)
             /\ Grown(t.config.commands, u.config.commands)
             /\ DOMAIN u.config.commands = DOMAIN t.config.commands \cup {t.issued + 1}
             /\ u.config.commands[t.issued + 1] = x
  <1> DEFINE new == New(t, "commands", x)
             n == t.issued + 1
             v == [new.config EXCEPT !.order = Append(new.config.order, n)]
             u == [new EXCEPT !.config.order = Append(@, new.issued)]
  <1>1. /\ Pair(new) /\ new.issued = n /\ DOMAIN new.config = Parts
        /\ new.config.servers = t.config.servers /\ new.config.groups = t.config.groups
        /\ new.config.bundles = t.config.bundles /\ new.config.order = t.config.order
        /\ Grown(t.config.commands, new.config.commands)
        /\ DOMAIN new.config.commands = DOMAIN t.config.commands \cup {n}
        /\ new.config.commands[n] = x
    BY NewIs DEF Parts
  <1> HIDE DEF new, n
  <1>2. /\ v.servers = new.config.servers /\ v.groups = new.config.groups /\ v.bundles = new.config.bundles
        /\ v.commands = new.config.commands /\ v.order = Append(new.config.order, n)
    BY <1>1 DEF Parts
  <1>3. u.config = v /\ u.issued = n
    BY <1>1 DEF Pair
  <1> HIDE DEF u, v
  <1>4. QED
    BY <1>1, <1>2, <1>3 DEF u, new, n

\* The next command goes to the copy of its group, behind the ones before.
LEMMA CommandCopied ==
  ASSUME NEW cfg, NEW n, Fit(cfg, n), NEW k \in 1 .. Len(cfg.order), NEW t,
         Copied(cfg, n, Len(Rows(cfg)), Len(Heads(cfg)), k - 1, 0, t), NEW p, ~p
  PROVE  Copied(cfg, n, Len(Rows(cfg)), Len(Heads(cfg)), k, 0, Does("commands", t, WrittenCommands(cfg)[k], p))
  <1> DEFINE P == Len(Rows(cfg))
             Q == Len(Heads(cfg))
             m == FromCommands(cfg, n)
             i == cfg.order[k]
             c == cfg.commands[i]
             s == NewServer(cfg, n, c.server)
             x == WrittenCommands(cfg)[k]
             item == [server |-> s, group |-> NewGroup(cfg, n, c.group), name |-> c.name]
             new == New(t, "commands", item)
             u == [new EXCEPT !.config.order = Append(@, new.issued)]
  <1>1. /\ n \in Nat /\ Fine(t) /\ k \in Nat \ {0} /\ P \in Nat /\ Q \in Nat /\ m \in Nat /\ m = n + P + Q
        /\ i \in DOMAIN cfg.commands /\ k \in DOMAIN cfg.order
    <2>1. /\ n \in Nat /\ m \in Nat /\ Plain(cfg) /\ i \in DOMAIN cfg.commands
      BY FitIs
    <2>2. P \in Nat /\ Q \in Nat /\ k \in Nat \ {0} /\ k \in DOMAIN cfg.order
      BY <2>1 DEF Plain, Lists
    <2>3. m = n + P + Q
      BY <2>1, <2>2 DEF FromGroups, FromCommands
    <2>4. QED
      BY <2>1, <2>2, <2>3 DEF Copied
  <1>2. t.issued = m + (k - 1)
    BY <1>1 DEF Copied
  <1>3. c.server \in DOMAIN cfg.servers
    BY <1>1, FitIs DEF Plain, References
  <1>4. ServerAt(t.config, cfg.servers[c.server]) = s /\ s \in DOMAIN t.config.servers /\ s # NoId
    BY <1>1, <1>3, CopyAt DEF Copied
  <1>5. GroupNamed(t.config, s, GroupName(cfg, i)) = NewGroup(cfg, n, c.group) /\ EnsureGroup(t, s, GroupName(cfg, i)) = t
    BY <1>1, GroupOfCopy DEF Copied
  <1>6. x = [server |-> cfg.servers[c.server], group |-> GroupName(cfg, i), name |-> c.name]
    BY <1>1 DEF WrittenCommands
  <1>7. x.server = cfg.servers[c.server] /\ x.group = GroupName(cfg, i) /\ x.name = c.name
    BY <1>6
  <1> HIDE DEF x, i, s, c
  <1>8. Does("commands", t, x, p) = u
    <2>1. Does("commands", t, x, p) = AddCommand1(t, x, p)
      BY DEF Does
    <2>2. QED
      BY <1>4, <1>5, <1>7, <2>1 DEF AddCommand1
  <1>9. CommandCopies(cfg, n)[k] = item
    BY <1>1 DEF CommandCopies, CommandCopy, i, c, s
  <1>10. /\ {"server", "group"} \subseteq DOMAIN item /\ item.server = s
         /\ item.group = GroupNamed(t.config, s, GroupName(cfg, i))
    BY <1>5
  <1>11. GroupNamed(t.config, s, GroupName(cfg, i)) \in {NoId} \cup GroupsFor(t.config, s)
    BY <1>1, GroupNamedIs
  <1> HIDE DEF item
  <1>12. Fine(u)
    BY <1>1, <1>4, <1>10, <1>11, NewCommandMore DEF More
  <1>13. /\ u.issued = t.issued + 1
         /\ u.config.servers = t.config.servers /\ u.config.groups = t.config.groups
         /\ u.config.bundles = t.config.bundles
         /\ u.config.order = Append(t.config.order, t.issued + 1)
         /\ Grown(t.config.commands, u.config.commands)
         /\ DOMAIN u.config.commands = DOMAIN t.config.commands \cup {t.issued + 1}
         /\ u.config.commands[t.issued + 1] = item
    BY <1>1, NewCommandIs
  <1> HIDE DEF u
  <1>14. t.issued + 1 = m + k /\ u.issued = n + P + Q + k + 0
    BY <1>1, <1>2, <1>13
  <1>15. Made(t.config.commands, m, k - 1, CommandCopies(cfg, n)) /\ t.config.order = IdsAfter(m, k - 1)
    BY DEF Copied
  <1> HIDE DEF m
  <1>16. Made(u.config.commands, m, k, CommandCopies(cfg, n))
    BY <1>1, <1>9, <1>13, <1>14, <1>15, MadeNext
  <1>17. u.config.order = IdsAfter(m, k)
    <2>1. u.config.order = Append(IdsAfter(m, k - 1), m + k)
      BY <1>13, <1>14, <1>15
    <2>2. QED
      BY <1>1, <2>1, RowGrows
  <1>18. QED
    BY <1>8, <1>12, <1>13, <1>14, <1>16, <1>17 DEF Copied, m, x

\* The next bundle finds the copies of its commands.
LEMMA BundleCopied ==
  ASSUME NEW cfg, NEW n, Fit(cfg, n), NEW k \in 1 .. Len(Ends(cfg)), NEW t,
         Copied(cfg, n, Len(Rows(cfg)), Len(Heads(cfg)), Len(cfg.order), k - 1, t), NEW p, ~p
  PROVE  Copied(cfg, n, Len(Rows(cfg)), Len(Heads(cfg)), Len(cfg.order), k, Does("bundles", t, WrittenBundles(cfg)[k], p))
  <1> DEFINE P == Len(Rows(cfg))
             Q == Len(Heads(cfg))
             R == Len(cfg.order)
             m == FromBundles(cfg, n)
             i == Ends(cfg)[k]
             b == cfg.bundles[i]
             N == Len(b.steps)
             s == NewServer(cfg, n, b.server)
             x == WrittenBundles(cfg)[k]
             made == NewSteps(cfg, n, b.steps)
             item == [server |-> s, name |-> b.name, steps |-> made]
             u == New(t, "bundles", item)
  <1>1. /\ n \in Nat /\ Fine(t) /\ k \in Nat \ {0} /\ P \in Nat /\ Q \in Nat /\ R \in Nat /\ m \in Nat
        /\ m = n + P + Q + R /\ i \in DOMAIN cfg.bundles /\ k \in DOMAIN Ends(cfg)
    BY FitIs DEF Copied, Plain, Lists, FromGroups, FromCommands, FromBundles
  <1>2. t.issued = m + (k - 1)
    BY <1>1 DEF Copied
  <1>3. b.server \in DOMAIN cfg.servers /\ b.steps \in Seq(Nat) /\ b.steps # <<>>
    BY <1>1, FitIs DEF Plain, References, Listed, StepsListed
  <1>4. ServerAt(t.config, cfg.servers[b.server]) = s /\ s \in DOMAIN t.config.servers /\ s # NoId
    BY <1>1, <1>3, CopyAt DEF Copied
  <1>5. N \in Nat /\ DOMAIN b.steps = 1 .. N
    BY <1>3, LenProperties
  <1>6. \A j \in 1 .. N : b.steps[j] \in DOMAIN cfg.commands /\ cfg.commands[b.steps[j]].server = b.server
    <2>1. \A j \in 1 .. N : b.steps[j] \in Range(b.steps)
      BY <1>5 DEF Range
    <2>2. Range(b.steps) \subseteq CommandsFor(cfg, b.server)
      BY <1>1 DEF Fit, Exportable, StepsLocal
    <2>3. QED
      BY <2>1, <2>2 DEF CommandsFor
  <1>7. x = [server |-> cfg.servers[b.server], name |-> b.name, steps |-> WrittenSteps(cfg, b.steps)]
    BY <1>1 DEF WrittenBundles
  <1>8. x.server = cfg.servers[b.server] /\ x.name = b.name /\ x.steps = WrittenSteps(cfg, b.steps)
    BY <1>7
  <1> HIDE DEF x, i, b, N
  <1>9. /\ DOMAIN x.steps = 1 .. N
        /\ \A j \in 1 .. N : /\ x.steps[j].group = GroupName(cfg, b.steps[j])
                             /\ x.steps[j].name = cfg.commands[b.steps[j]].name
    <2>1. x.steps = [j \in 1 .. N |-> [group |-> GroupName(cfg, b.steps[j]), name |-> cfg.commands[b.steps[j]].name]]
      BY <1>5, <1>8 DEF WrittenSteps
    <2>2. QED
      BY <2>1
  <1>10. EnsureGroups(t, s, x.steps) = t
    <2>1. \A j \in 1 .. N : x.steps[j].group = NoName \/ HasGroup(t.config, s, x.steps[j].group)
      BY <1>1, <1>6, <1>9, GroupOfCopy DEF Copied
    <2> HIDE DEF s
    <2>2. QED
      BY <1>1, <1>4, <1>5, <1>9, <2>1, StepGroups
  <1>11. [j \in DOMAIN x.steps |-> StepOf(t.config, s, x.steps[j])] = made
    <2>1. ASSUME NEW j \in 1 .. N
          PROVE  StepOf(t.config, s, x.steps[j]) = NewCommand(cfg, n, b.steps[j])
      BY <1>1, <1>6, <1>9, StepOfCopy DEF Copied
    <2>2. QED
      BY <1>5, <1>9, <2>1 DEF NewSteps
  <1>12. made \in Seq(Nat) /\ Range(made) \subseteq Nat \ {NoId} /\ made # <<>>
    <2>1. \A j \in 1 .. N : NewCommand(cfg, n, b.steps[j]) \in Nat \ {0}
      <3>1. FromCommands(cfg, n) \in Nat
        BY FitIs
      <3>2. \A c \in DOMAIN cfg.commands : Pos(cfg.order, c) \in Nat \ {0}
        BY FitIs
      <3>3. QED
        BY <1>6, <3>1, <3>2 DEF NewCommand
    <2>2. made = [j \in 1 .. N |-> NewCommand(cfg, n, b.steps[j])]
      BY <1>5 DEF NewSteps
    <2>3. made \in Seq(Nat)
      BY <1>5, <2>1, <2>2
    <2>4. N # 0
      BY <1>3, <1>5, EmptySeq DEF N
    <2>5. DOMAIN made # {}
      BY <1>5, <2>2, <2>4
    <2>6. QED
      BY <2>1, <2>2, <2>3, <2>5, NothingInEmpty DEF Range, NoId
  <1> HIDE DEF made, s
  <1>13. Among(made, Nat \ {NoId}) = made
    BY <1>12, AllKept
  <1>14. Does("bundles", t, x, p) = u
    <2>1. Does("bundles", t, x, p) = AddBundle1(t, x, p)
      BY DEF Does
    <2>2. QED
      BY <1>4, <1>8, <1>10, <1>11, <1>12, <1>13, <2>1 DEF AddBundle1
  <1>15. BundleCopies(cfg, n)[k] = item
    BY <1>1 DEF BundleCopies, BundleCopy, i, b, s, made
  <1>16. {"server", "steps"} \subseteq DOMAIN item /\ item.server = s /\ item.steps = made
    OBVIOUS
  <1> HIDE DEF item
  <1>17. Fine(u)
    BY <1>1, <1>4, <1>12, <1>16, NewBundleMore DEF More
  <1>18. /\ u.issued = t.issued + 1
         /\ u.config.servers = t.config.servers /\ u.config.commands = t.config.commands
         /\ u.config.groups = t.config.groups /\ u.config.order = t.config.order
         /\ Grown(t.config.bundles, u.config.bundles)
         /\ DOMAIN u.config.bundles = DOMAIN t.config.bundles \cup {t.issued + 1}
         /\ u.config.bundles[t.issued + 1] = item
    BY <1>1, NewIs DEF Parts
  <1> HIDE DEF u
  <1>19. t.issued + 1 = m + k /\ u.issued = n + P + Q + R + k
    BY <1>1, <1>2, <1>18
  <1>20. Made(t.config.bundles, m, k - 1, BundleCopies(cfg, n))
    BY DEF Copied
  <1> HIDE DEF m
  <1>21. Made(u.config.bundles, m, k, BundleCopies(cfg, n))
    BY <1>1, <1>15, <1>18, <1>19, <1>20, MadeNext
  <1>22. QED
    BY <1>14, <1>17, <1>18, <1>19, <1>21 DEF Copied, m, x

-----------------------------------------------------------------------------
(* The whole of it                                                          *)

\* What a loop comes to, step by step
Steps(kind, p, q, N, base, at) ==
  /\ at[0] = base /\ at[N] = Loop(kind, p, q, N, base, N)
  /\ \A k \in 1 .. N : at[k] = Does(kind, at[k - 1], q[k], p)

\* Every loop has such steps.
LEMMA EachStep ==
  ASSUME NEW kind, NEW p, NEW q, NEW N \in Nat, NEW base
  PROVE  \E at : Steps(kind, p, q, N, base, at)
  <1> DEFINE at == [k \in 0 .. N |-> Loop(kind, p, q, N, base, k)]
  <1>1. Loop(kind, p, q, N, base, 0) = base
    BY LoopGoesOn
  <1>2. \A k \in 1 .. N : Loop(kind, p, q, N, base, k) = Does(kind, Loop(kind, p, q, N, base, k - 1), q[k], p)
    BY LoopGoesOn
  <1>3. \A k \in 0 .. N : at[k] = Loop(kind, p, q, N, base, k)
    OBVIOUS
  <1>4. \A k \in 1 .. N : k \in 0 .. N /\ k - 1 \in 0 .. N
    OBVIOUS
  <1> HIDE DEF at
  <1>5. at[0] = base /\ at[N] = Loop(kind, p, q, N, base, N)
    BY <1>1, <1>3
  <1>6. \A k \in 1 .. N : at[k] = Does(kind, at[k - 1], q[k], p)
    BY <1>2, <1>3, <1>4
  <1>7. QED
    BY <1>5, <1>6 DEF Steps

\* A loop that makes the next copy at every step makes them all.
LEMMA ServersCopied ==
  ASSUME NEW cfg, NEW n, Fit(cfg, n), NEW base, Copied(cfg, n, 0, 0, 0, 0, base), NEW p, ~p
  PROVE  Copied(cfg, n, Len(Rows(cfg)), 0, 0, 0, AddServers(base, WrittenServers(cfg), p))
  <1> DEFINE N == Len(Rows(cfg))
             q == WrittenServers(cfg)
  <1>1. N \in Nat /\ DOMAIN q = 1 .. N
    BY FitIs DEF Plain, Lists, WrittenServers
  <1> HIDE DEF q, N
  <1>2. PICK at : Steps("servers", p, q, N, base, at)
    BY <1>1, EachStep
  <1> DEFINE True == {k \in 0 .. N : Copied(cfg, n, k, 0, 0, 0, at[k])}
  <1>3. 0 \in True
    BY <1>1, <1>2 DEF Steps
  <1>4. ASSUME NEW k \in 1 .. N, k - 1 \in True PROVE k \in True
    <2>1. Copied(cfg, n, k - 1, 0, 0, 0, at[k - 1])
      BY <1>4
    <2>2. at[k] = Does("servers", at[k - 1], q[k], p)
      BY <1>2 DEF Steps
    <2>3. Copied(cfg, n, k, 0, 0, 0, Does("servers", at[k - 1], q[k], p))
      BY <2>1, ServerCopied DEF N, q
    <2>4. QED
      BY <2>2, <2>3
  <1>5. True \in SUBSET (0 .. N)
    OBVIOUS
  <1> HIDE DEF True
  <1>6. N \in True
    BY <1>1, <1>3, <1>4, <1>5, Below
  <1>7. AddServers(base, q, p) = at[N]
    BY <1>1, <1>2, ServersLoop DEF Steps
  <1>8. QED
    BY <1>6, <1>7 DEF True, N, q

LEMMA GroupsCopied ==
  ASSUME NEW cfg, NEW n, Fit(cfg, n), NEW base, Copied(cfg, n, Len(Rows(cfg)), 0, 0, 0, base)
  PROVE  Copied(cfg, n, Len(Rows(cfg)), Len(Heads(cfg)), 0, 0, AddGroups(base, WrittenGroups(cfg)))
  <1> DEFINE N == Len(Heads(cfg))
             q == WrittenGroups(cfg)
             p == 0
  <1>1. N \in Nat /\ DOMAIN q = 1 .. N
    BY FitIs DEF Plain, Lists, WrittenGroups
  <1> HIDE DEF q, N, p
  <1>2. PICK at : Steps("groups", p, q, N, base, at)
    BY <1>1, EachStep
  <1> DEFINE True == {k \in 0 .. N : Copied(cfg, n, Len(Rows(cfg)), k, 0, 0, at[k])}
  <1>3. 0 \in True
    BY <1>1, <1>2 DEF Steps
  <1>4. ASSUME NEW k \in 1 .. N, k - 1 \in True PROVE k \in True
    <2>1. Copied(cfg, n, Len(Rows(cfg)), k - 1, 0, 0, at[k - 1])
      BY <1>4
    <2>2. at[k] = Does("groups", at[k - 1], q[k], p)
      BY <1>2 DEF Steps
    <2>3. Copied(cfg, n, Len(Rows(cfg)), k, 0, 0, Does("groups", at[k - 1], q[k], p))
      BY <2>1, GroupCopied DEF N, q
    <2>4. QED
      BY <2>2, <2>3
  <1>5. True \in SUBSET (0 .. N)
    OBVIOUS
  <1> HIDE DEF True
  <1>6. N \in True
    BY <1>1, <1>3, <1>4, <1>5, Below
  <1>7. AddGroups(base, q) = at[N]
    BY <1>1, <1>2, GroupsLoop DEF Steps
  <1>8. QED
    BY <1>6, <1>7 DEF True, N, q

LEMMA CommandsCopied ==
  ASSUME NEW cfg, NEW n, Fit(cfg, n), NEW base, Copied(cfg, n, Len(Rows(cfg)), Len(Heads(cfg)), 0, 0, base), NEW p, ~p
  PROVE  Copied(cfg, n, Len(Rows(cfg)), Len(Heads(cfg)), Len(cfg.order), 0, AddCommands(base, WrittenCommands(cfg), p))
  <1> DEFINE N == Len(cfg.order)
             q == WrittenCommands(cfg)
  <1>1. N \in Nat /\ DOMAIN q = 1 .. N
    BY FitIs DEF Plain, Lists, WrittenCommands
  <1> HIDE DEF q, N
  <1>2. PICK at : Steps("commands", p, q, N, base, at)
    BY <1>1, EachStep
  <1> DEFINE True == {k \in 0 .. N : Copied(cfg, n, Len(Rows(cfg)), Len(Heads(cfg)), k, 0, at[k])}
  <1>3. 0 \in True
    BY <1>1, <1>2 DEF Steps
  <1>4. ASSUME NEW k \in 1 .. N, k - 1 \in True PROVE k \in True
    <2>1. Copied(cfg, n, Len(Rows(cfg)), Len(Heads(cfg)), k - 1, 0, at[k - 1])
      BY <1>4
    <2>2. at[k] = Does("commands", at[k - 1], q[k], p)
      BY <1>2 DEF Steps
    <2>3. Copied(cfg, n, Len(Rows(cfg)), Len(Heads(cfg)), k, 0, Does("commands", at[k - 1], q[k], p))
      BY <2>1, CommandCopied DEF N, q
    <2>4. QED
      BY <2>2, <2>3
  <1>5. True \in SUBSET (0 .. N)
    OBVIOUS
  <1> HIDE DEF True
  <1>6. N \in True
    BY <1>1, <1>3, <1>4, <1>5, Below
  <1>7. AddCommands(base, q, p) = at[N]
    BY <1>1, <1>2, CommandsLoop DEF Steps
  <1>8. QED
    BY <1>6, <1>7 DEF True, N, q

LEMMA BundlesCopied ==
  ASSUME NEW cfg, NEW n, Fit(cfg, n), NEW base,
         Copied(cfg, n, Len(Rows(cfg)), Len(Heads(cfg)), Len(cfg.order), 0, base), NEW p, ~p
  PROVE  Copied(cfg, n, Len(Rows(cfg)), Len(Heads(cfg)), Len(cfg.order), Len(Ends(cfg)),
                AddBundles(base, WrittenBundles(cfg), p))
  <1> DEFINE N == Len(Ends(cfg))
             q == WrittenBundles(cfg)
  <1>1. N \in Nat /\ DOMAIN q = 1 .. N
    BY FitIs DEF Plain, Lists, WrittenBundles
  <1> HIDE DEF q, N
  <1>2. PICK at : Steps("bundles", p, q, N, base, at)
    BY <1>1, EachStep
  <1> DEFINE True == {k \in 0 .. N : Copied(cfg, n, Len(Rows(cfg)), Len(Heads(cfg)), Len(cfg.order), k, at[k])}
  <1>3. 0 \in True
    BY <1>1, <1>2 DEF Steps
  <1>4. ASSUME NEW k \in 1 .. N, k - 1 \in True PROVE k \in True
    <2>1. Copied(cfg, n, Len(Rows(cfg)), Len(Heads(cfg)), Len(cfg.order), k - 1, at[k - 1])
      BY <1>4
    <2>2. at[k] = Does("bundles", at[k - 1], q[k], p)
      BY <1>2 DEF Steps
    <2>3. Copied(cfg, n, Len(Rows(cfg)), Len(Heads(cfg)), Len(cfg.order), k, Does("bundles", at[k - 1], q[k], p))
      BY <2>1, BundleCopied DEF N, q
    <2>4. QED
      BY <2>2, <2>3
  <1>5. True \in SUBSET (0 .. N)
    OBVIOUS
  <1> HIDE DEF True
  <1>6. N \in True
    BY <1>1, <1>3, <1>4, <1>5, Below
  <1>7. AddBundles(base, q, p) = at[N]
    BY <1>1, <1>2, BundlesLoop DEF Steps
  <1>8. QED
    BY <1>6, <1>7 DEF True, N, q

AllCopied(cfg, n, t) == Copied(cfg, n, Len(Rows(cfg)), Len(Heads(cfg)), Len(cfg.order), Len(Ends(cfg)), t)

\* "Replace all" with an own export ends with a copy of everything.
LEMMA ReplaceCopies ==
  ASSUME NEW cfg, NEW n, Fit(cfg, n), Fine([config |-> Cleared(cfg), issued |-> n])
  PROVE  AllCopied(cfg, n, Replace(cfg, n, Export(cfg)))
  <1> DEFINE base == [config |-> Cleared(cfg), issued |-> n]
             data == Export(cfg)
             p    == FALSE
             a    == AddServers(base, data.servers, p)
             b    == AddGroups(a, data.groups)
             c    == AddCommands(b, data.commands, p)
             d    == AddBundles(c, data.bundles, p)
  <1>1. Replace(cfg, n, data) = d
    BY DEF Replace, Imported
  <1>2. /\ data.servers = WrittenServers(cfg) /\ data.groups = WrittenGroups(cfg)
        /\ data.commands = WrittenCommands(cfg) /\ data.bundles = WrittenBundles(cfg)
    BY FitIs, ExportPlain
  <1>3. Copied(cfg, n, 0, 0, 0, 0, base)
    <2>1. base.config = Cleared(cfg) /\ base.issued = n /\ n \in Nat
      BY FitIs
    <2>2. DOMAIN cfg = Parts
      <3>1. Fine([config |-> cfg, issued |-> n]) /\ [config |-> cfg, issued |-> n].config = cfg
        BY DEF Fit
      <3>2. QED
        BY <3>1 DEF Fine, Good, Shaped
    <2>3. /\ Cleared(cfg).servers = <<>> /\ Cleared(cfg).groups = <<>> /\ Cleared(cfg).commands = <<>>
          /\ Cleared(cfg).order = <<>> /\ Cleared(cfg).bundles = <<>>
      BY <2>2 DEF Cleared, Parts
    <2> HIDE DEF base
    <2>4. base.issued = n + 0 + 0 + 0 + 0
      BY <2>1
    <2>5. IdsAfter(FromCommands(cfg, n), 0) = <<>>
      BY DEF IdsAfter
    <2>6. QED
      BY <2>1, <2>3, <2>4, <2>5, NothingMade, NothingInEmpty, FitIs DEF Copied, base
  <1> HIDE DEF base, data, p
  <1>4. ~p
    BY DEF p
  <1>5. Copied(cfg, n, Len(Rows(cfg)), 0, 0, 0, a)
    BY <1>2, <1>3, <1>4, ServersCopied
  <1> HIDE DEF a
  <1>6. Copied(cfg, n, Len(Rows(cfg)), Len(Heads(cfg)), 0, 0, b)
    BY <1>2, <1>5, GroupsCopied
  <1> HIDE DEF b
  <1>7. Copied(cfg, n, Len(Rows(cfg)), Len(Heads(cfg)), Len(cfg.order), 0, c)
    BY <1>2, <1>4, <1>6, CommandsCopied
  <1> HIDE DEF c
  <1>8. AllCopied(cfg, n, d)
    BY <1>2, <1>4, <1>7, BundlesCopied DEF AllCopied
  <1> HIDE DEF d
  <1>9. QED
    BY <1>1, <1>8 DEF data

\* What the copies are, in the order of the old ones
LEMMA CopiesAre ==
  ASSUME NEW cfg, NEW n, Fit(cfg, n), NEW t, AllCopied(cfg, n, t)
  PROVE  /\ Rows(t.config)  = IdsAfter(n, Len(Rows(cfg)))
         /\ Heads(t.config) = IdsAfter(FromGroups(cfg, n), Len(Heads(cfg)))
         /\ t.config.order  = IdsAfter(FromCommands(cfg, n), Len(cfg.order))
         /\ Ends(t.config)  = IdsAfter(FromBundles(cfg, n), Len(Ends(cfg)))
         /\ \A s \in DOMAIN cfg.servers : t.config.servers[NewServer(cfg, n, s)] = cfg.servers[s]
         /\ \A i \in 1 .. Len(Ends(cfg)) :
              t.config.bundles[FromBundles(cfg, n) + i] = BundleCopy(cfg, n, Ends(cfg)[i])
  <1>1. /\ n \in Nat /\ FromGroups(cfg, n) \in Nat /\ FromCommands(cfg, n) \in Nat /\ FromBundles(cfg, n) \in Nat
        /\ Len(Rows(cfg)) \in Nat /\ Len(Heads(cfg)) \in Nat /\ Len(cfg.order) \in Nat /\ Len(Ends(cfg)) \in Nat
        /\ DOMAIN Ends(cfg) = 1 .. Len(Ends(cfg))
    BY FitIs DEF Plain, Lists
  <1>2. /\ Fine(t)
        /\ Made(t.config.servers, n, Len(Rows(cfg)), WrittenServers(cfg))
        /\ Made(t.config.groups, FromGroups(cfg, n), Len(Heads(cfg)), GroupCopies(cfg, n))
        /\ Made(t.config.bundles, FromBundles(cfg, n), Len(Ends(cfg)), BundleCopies(cfg, n))
        /\ t.config.order = IdsAfter(FromCommands(cfg, n), Len(cfg.order))
    BY DEF AllCopied, Copied
  <1>3. /\ Rows(t.config)  = IdsAfter(n, Len(Rows(cfg)))
        /\ Heads(t.config) = IdsAfter(FromGroups(cfg, n), Len(Heads(cfg)))
        /\ Ends(t.config)  = IdsAfter(FromBundles(cfg, n), Len(Ends(cfg)))
    BY <1>1, <1>2, AscendingFrom DEF Made, Rows, Heads, Ends
  <1>4. \A s \in DOMAIN cfg.servers : t.config.servers[NewServer(cfg, n, s)] = cfg.servers[s]
    BY <1>2, CopyAt
  <1>5. \A i \in 1 .. Len(Ends(cfg)) : t.config.bundles[FromBundles(cfg, n) + i] = BundleCopies(cfg, n)[i]
    BY <1>2 DEF Made
  <1>6. QED
    BY <1>1, <1>2, <1>3, <1>4, <1>5 DEF BundleCopies

\* The copy of a command is under the group of the same name.
LEMMA CommandCopyIs ==
  ASSUME NEW cfg, NEW n, Fit(cfg, n), NEW t, AllCopied(cfg, n, t), NEW c \in DOMAIN cfg.commands
  PROVE  LET d == NewCommand(cfg, n, c) IN
         /\ d \in DOMAIN t.config.commands
         /\ t.config.commands[d] = CommandCopy(cfg, n, c)
         /\ GroupName(t.config, d) = GroupName(cfg, c)
  <1> DEFINE d == NewCommand(cfg, n, c)
             i == Pos(cfg.order, c)
             m == FromCommands(cfg, n)
             u == NewGroup(cfg, n, cfg.commands[c].group)
  <1>1. /\ m \in Nat /\ i \in 1 .. Len(cfg.order) /\ cfg.order[i] = c
        /\ Len(cfg.order) \in Nat /\ DOMAIN cfg.order = 1 .. Len(cfg.order)
    BY FitIs DEF Plain, Lists
  <1>2. /\ Fine(t)
        /\ Made(t.config.groups, FromGroups(cfg, n), Len(Heads(cfg)), GroupCopies(cfg, n))
        /\ Made(t.config.commands, m, Len(cfg.order), CommandCopies(cfg, n))
    BY DEF AllCopied, Copied
  <1>3. d = m + i /\ m + i \in From(m, Len(cfg.order))
    BY <1>1 DEF NewCommand, From
  <1>4. d \in DOMAIN t.config.commands /\ t.config.commands[d] = CommandCopies(cfg, n)[i]
    BY <1>1, <1>2, <1>3 DEF Made
  <1>5. CommandCopies(cfg, n)[i] = CommandCopy(cfg, n, c) /\ CommandCopy(cfg, n, c).group = u
    BY <1>1 DEF CommandCopies, CommandCopy
  <1>6. /\ u = NoId => GroupName(cfg, c) = NoName
        /\ u # NoId => u \in DOMAIN t.config.groups /\ t.config.groups[u].name = GroupName(cfg, c)
    BY <1>2, GroupOfCopy
  <1>7. NoId \notin DOMAIN t.config.groups
    BY <1>2 DEF Fine, Good, Shaped, NoId
  <1> HIDE DEF d, u
  <1>8. t.config.commands[d].group = u
    BY <1>4, <1>5
  <1>9. GroupName(t.config, d) = GroupName(cfg, c)
    BY <1>6, <1>7, <1>8 DEF GroupName
  <1>10. QED
    BY <1>4, <1>5, <1>9 DEF d, u

\* The copy is a configuration of which nothing is left out either.
LEMMA CopyPlain ==
  ASSUME NEW cfg, NEW n, Fit(cfg, n), NEW t, AllCopied(cfg, n, t)
  PROVE  Plain(t.config)
  <1>1. Fine(t) /\ DOMAIN t.config.bundles = From(FromBundles(cfg, n), Len(Ends(cfg)))
    BY DEF AllCopied, Copied, Made
  <1>2. ASSUME NEW x \in DOMAIN t.config.bundles
        PROVE  /\ t.config.bundles[x].steps # <<>>
               /\ Range(t.config.bundles[x].steps) \subseteq CommandsFor(t.config, t.config.bundles[x].server)
    <2> DEFINE m == FromBundles(cfg, n)
    <2>1. m \in Nat /\ Len(Ends(cfg)) \in Nat
      BY FitIs DEF Plain, Lists
    <2>2. PICK i \in 1 .. Len(Ends(cfg)) : x = m + i
      <3>1. x \in From(m, Len(Ends(cfg)))
        BY <1>1
      <3> HIDE DEF m
      <3>2. x \in (m + 1) .. (m + Len(Ends(cfg)))
        BY <3>1 DEF From
      <3>3. x - m \in 1 .. Len(Ends(cfg)) /\ x = m + (x - m)
        BY <2>1, <3>2
      <3>4. QED
        BY <3>3
    <2> DEFINE b == cfg.bundles[Ends(cfg)[i]]
               s == NewServer(cfg, n, b.server)
    <2>3. t.config.bundles[x] = [server |-> s, name |-> b.name, steps |-> NewSteps(cfg, n, b.steps)]
      BY <2>2, CopiesAre DEF BundleCopy
    <2>4. Ends(cfg)[i] \in DOMAIN cfg.bundles
      BY FitIs
    <2>5. b.steps \in Seq(Nat) /\ b.steps # <<>> /\ Range(b.steps) \subseteq CommandsFor(cfg, b.server)
      BY <2>4, FitIs DEF Plain, Listed, StepsListed, Fit, Exportable, StepsLocal
    <2> HIDE DEF b
    <2>6. \A k \in DOMAIN b.steps : b.steps[k] \in DOMAIN cfg.commands /\ cfg.commands[b.steps[k]].server = b.server
      BY <2>5 DEF Range, CommandsFor
    <2>7. \A k \in DOMAIN b.steps : NewCommand(cfg, n, b.steps[k]) \in CommandsFor(t.config, s)
      <3> SUFFICES ASSUME NEW k \in DOMAIN b.steps
                   PROVE  NewCommand(cfg, n, b.steps[k]) \in CommandsFor(t.config, s)
        OBVIOUS
      <3> DEFINE c == b.steps[k]
                 d == NewCommand(cfg, n, c)
      <3>1. c \in DOMAIN cfg.commands /\ cfg.commands[c].server = b.server
        BY <2>6
      <3>2. /\ d \in DOMAIN t.config.commands
            /\ t.config.commands[d] = CommandCopy(cfg, n, c)
        BY <3>1, CommandCopyIs
      <3> HIDE DEF c, d
      <3>3. t.config.commands[d].server = s
        BY <3>1, <3>2 DEF CommandCopy
      <3>4. d \in CommandsFor(t.config, s)
        BY <3>2, <3>3 DEF CommandsFor
      <3>5. QED
        BY <3>4 DEF c, d
    <2>8. NewSteps(cfg, n, b.steps) # <<>>
      <3>1. DOMAIN b.steps # {}
        <4>1. DOMAIN b.steps = 1 .. Len(b.steps) /\ Len(b.steps) \in Nat
          BY <2>5, LenProperties
        <4>2. Len(b.steps) # 0
          BY <2>5, EmptySeq
        <4>3. 1 \in DOMAIN b.steps
          BY <4>1, <4>2
        <4>4. QED
          BY <4>3
      <3>2. DOMAIN NewSteps(cfg, n, b.steps) = DOMAIN b.steps
        BY DEF NewSteps
      <3>3. QED
        BY <3>1, <3>2, NothingInEmpty
    <2>9. Range(NewSteps(cfg, n, b.steps)) \subseteq CommandsFor(t.config, s)
      BY <2>7 DEF Range, NewSteps
    <2> HIDE DEF s
    <2>10. QED
      BY <2>3, <2>8, <2>9
  <1>3. StepsLocal(t.config) /\ \A b \in DOMAIN t.config.bundles : t.config.bundles[b].steps # <<>>
    BY <1>2 DEF StepsLocal
  <1>4. QED
    BY <1>1, <1>3, PlainIs

\* So it is exported in the same words.
LEMMA CopyExports ==
  ASSUME NEW cfg, NEW n, Fit(cfg, n), NEW t, AllCopied(cfg, n, t)
  PROVE  Export(t.config) = Export(cfg)
  <1> DEFINE back == t.config
             mG == FromGroups(cfg, n)
             mC == FromCommands(cfg, n)
             mB == FromBundles(cfg, n)
  <1>1. /\ DOMAIN Rows(cfg) = 1 .. Len(Rows(cfg)) /\ DOMAIN Heads(cfg) = 1 .. Len(Heads(cfg))
        /\ DOMAIN cfg.order = 1 .. Len(cfg.order) /\ DOMAIN Ends(cfg) = 1 .. Len(Ends(cfg))
        /\ References(cfg)
    BY FitIs DEF Plain, Lists
  <1>2. /\ Rows(back)  = IdsAfter(n, Len(Rows(cfg)))
        /\ Heads(back) = IdsAfter(mG, Len(Heads(cfg)))
        /\ back.order  = IdsAfter(mC, Len(cfg.order))
        /\ Ends(back)  = IdsAfter(mB, Len(Ends(cfg)))
    BY CopiesAre
  <1>3. /\ \A i \in 1 .. Len(Rows(cfg)) : back.servers[n + i] = WrittenServers(cfg)[i]
        /\ \A i \in 1 .. Len(Heads(cfg)) : back.groups[mG + i] = GroupCopies(cfg, n)[i]
    BY DEF AllCopied, Copied, Made
  <1>4. \A s \in DOMAIN cfg.servers : back.servers[NewServer(cfg, n, s)] = cfg.servers[s]
    BY CopiesAre
  <1>5. WrittenServers(back) = WrittenServers(cfg)
    <2>1. WrittenServers(back) = [i \in 1 .. Len(Rows(cfg)) |-> back.servers[n + i]]
      BY <1>2 DEF WrittenServers, IdsAfter
    <2>2. WrittenServers(cfg) = [i \in 1 .. Len(Rows(cfg)) |-> WrittenServers(cfg)[i]]
      BY <1>1 DEF WrittenServers
    <2>3. QED
      BY <1>3, <2>1, <2>2
  <1>6. WrittenGroups(back) = WrittenGroups(cfg)
    <2>1. WrittenGroups(back) =
            [i \in 1 .. Len(Heads(cfg)) |->
               [server |-> back.servers[back.groups[mG + i].server], name |-> back.groups[mG + i].name]]
      BY <1>2 DEF WrittenGroups, IdsAfter
    <2>2. WrittenGroups(cfg) =
            [i \in 1 .. Len(Heads(cfg)) |->
               [server |-> cfg.servers[cfg.groups[Heads(cfg)[i]].server], name |-> cfg.groups[Heads(cfg)[i]].name]]
      BY <1>1 DEF WrittenGroups
    <2>3. ASSUME NEW i \in 1 .. Len(Heads(cfg))
          PROVE  /\ back.servers[back.groups[mG + i].server] = cfg.servers[cfg.groups[Heads(cfg)[i]].server]
                 /\ back.groups[mG + i].name = cfg.groups[Heads(cfg)[i]].name
      <3> DEFINE g == cfg.groups[Heads(cfg)[i]]
      <3>1. back.groups[mG + i] = [server |-> NewServer(cfg, n, g.server), name |-> g.name]
        BY <1>1, <1>3 DEF GroupCopies, GroupCopy
      <3>2. g.server \in DOMAIN cfg.servers
        BY <1>1, FitIs DEF References
      <3> HIDE DEF g, back, mG
      <3>3. QED
        BY <1>4, <3>1, <3>2 DEF g
    <2>4. QED
      BY <2>1, <2>2, <2>3
  <1>7. \A c \in DOMAIN cfg.commands :
          /\ back.commands[NewCommand(cfg, n, c)] = CommandCopy(cfg, n, c)
          /\ GroupName(back, NewCommand(cfg, n, c)) = GroupName(cfg, c)
    BY CommandCopyIs
  <1>8. WrittenCommands(back) = WrittenCommands(cfg)
    <2>1. WrittenCommands(back) =
            [i \in 1 .. Len(cfg.order) |->
               [server |-> back.servers[back.commands[mC + i].server], group |-> GroupName(back, mC + i),
                name |-> back.commands[mC + i].name]]
      BY <1>2 DEF WrittenCommands, IdsAfter
    <2>2. WrittenCommands(cfg) =
            [i \in 1 .. Len(cfg.order) |->
               [server |-> cfg.servers[cfg.commands[cfg.order[i]].server], group |-> GroupName(cfg, cfg.order[i]),
                name |-> cfg.commands[cfg.order[i]].name]]
      BY <1>1 DEF WrittenCommands
    <2>3. ASSUME NEW i \in 1 .. Len(cfg.order)
          PROVE  /\ back.servers[back.commands[mC + i].server] = cfg.servers[cfg.commands[cfg.order[i]].server]
                 /\ GroupName(back, mC + i) = GroupName(cfg, cfg.order[i])
                 /\ back.commands[mC + i].name = cfg.commands[cfg.order[i]].name
      <3> DEFINE c == cfg.order[i]
                 s == cfg.commands[c].server
      <3>1. c \in DOMAIN cfg.commands /\ NewCommand(cfg, n, c) = mC + i
        BY FitIs DEF NewCommand
      <3>2. s \in DOMAIN cfg.servers
        BY <1>1, <3>1 DEF References
      <3>3. back.commands[mC + i] = CommandCopy(cfg, n, c)
        BY <1>7, <3>1
      <3> HIDE DEF back, mC, c
      <3>4. back.commands[mC + i].server = NewServer(cfg, n, s) /\ back.commands[mC + i].name = cfg.commands[c].name
        BY <3>3 DEF CommandCopy
      <3> HIDE DEF s
      <3>5. QED
        BY <1>4, <1>7, <3>1, <3>2, <3>4 DEF c, s
    <2>4. QED
      BY <2>1, <2>2, <2>3
  <1>9. WrittenBundles(back) = WrittenBundles(cfg)
    <2>1. WrittenBundles(back) =
            [i \in 1 .. Len(Ends(cfg)) |->
               [server |-> back.servers[back.bundles[mB + i].server], name |-> back.bundles[mB + i].name,
                steps |-> WrittenSteps(back, back.bundles[mB + i].steps)]]
      BY <1>2 DEF WrittenBundles, IdsAfter
    <2>2. WrittenBundles(cfg) =
            [i \in 1 .. Len(Ends(cfg)) |->
               [server |-> cfg.servers[cfg.bundles[Ends(cfg)[i]].server], name |-> cfg.bundles[Ends(cfg)[i]].name,
                steps |-> WrittenSteps(cfg, cfg.bundles[Ends(cfg)[i]].steps)]]
      BY <1>1 DEF WrittenBundles
    <2>3. ASSUME NEW i \in 1 .. Len(Ends(cfg))
          PROVE  /\ back.servers[back.bundles[mB + i].server] = cfg.servers[cfg.bundles[Ends(cfg)[i]].server]
                 /\ back.bundles[mB + i].name = cfg.bundles[Ends(cfg)[i]].name
                 /\ WrittenSteps(back, back.bundles[mB + i].steps) = WrittenSteps(cfg, cfg.bundles[Ends(cfg)[i]].steps)
      <3> DEFINE b == cfg.bundles[Ends(cfg)[i]]
                 made == NewSteps(cfg, n, b.steps)
      <3>1. Ends(cfg)[i] \in DOMAIN cfg.bundles
        BY FitIs
      <3>2. b.server \in DOMAIN cfg.servers /\ Range(b.steps) \subseteq DOMAIN cfg.commands
        BY <1>1, <3>1, FitIs DEF References, Plain
      <3>3. back.bundles[mB + i] = [server |-> NewServer(cfg, n, b.server), name |-> b.name, steps |-> made]
        BY CopiesAre DEF BundleCopy
      <3> HIDE DEF back, mB, b
      <3>4. WrittenSteps(back, made) = WrittenSteps(cfg, b.steps)
        <4>1. DOMAIN made = DOMAIN b.steps /\ \A k \in DOMAIN b.steps : made[k] = NewCommand(cfg, n, b.steps[k])
          BY DEF NewSteps
        <4>2. \A k \in DOMAIN b.steps : b.steps[k] \in DOMAIN cfg.commands
          BY <3>2 DEF Range
        <4> HIDE DEF made
        <4>3. \A k \in DOMAIN b.steps : back.commands[made[k]].name = cfg.commands[b.steps[k]].name
          <5> SUFFICES ASSUME NEW k \in DOMAIN b.steps
                       PROVE  back.commands[made[k]].name = cfg.commands[b.steps[k]].name
            OBVIOUS
          <5> DEFINE c == b.steps[k]
                     d == made[k]
          <5>1. c \in DOMAIN cfg.commands /\ d = NewCommand(cfg, n, c)
            BY <4>1, <4>2
          <5>2. back.commands[d] = CommandCopy(cfg, n, c)
            BY <1>7, <5>1
          <5> HIDE DEF c, d
          <5>3. back.commands[d].name = cfg.commands[c].name
            BY <5>2 DEF CommandCopy
          <5>4. QED
            BY <5>3 DEF c, d
        <4>4. \A k \in DOMAIN b.steps : GroupName(back, made[k]) = GroupName(cfg, b.steps[k])
          BY <1>7, <4>1, <4>2
        <4>5. QED
          BY <4>1, <4>3, <4>4 DEF WrittenSteps
      <3> HIDE DEF made
      <3>5. /\ back.bundles[mB + i].server = NewServer(cfg, n, b.server) /\ back.bundles[mB + i].name = b.name
            /\ back.bundles[mB + i].steps = made
        BY <3>3
      <3>6. QED
        BY <1>4, <3>2, <3>4, <3>5 DEF b
    <2> HIDE DEF back, mB
    <2>4. QED
      BY <2>1, <2>2, <2>3
  <1>10. QED
    BY <1>5, <1>6, <1>8, <1>9, FitIs, CopyPlain, ExportPlain

\* The place of an element that stands in q once
LEMMA PlaceIs ==
  ASSUME NEW q, IsInjective(q), DOMAIN q \subseteq Nat, NEW i \in DOMAIN q
  PROVE  Min({j \in DOMAIN q : q[j] = q[i]}) = i
  <1>1. {j \in DOMAIN q : q[j] = q[i]} = {i}
    BY DEF IsInjective
  <1>2. i \in Nat
    OBVIOUS
  <1>3. QED
    BY <1>1, <1>2, MinOfOne

Places(cfg, ids) == [k \in DOMAIN ids |-> Min({i \in DOMAIN cfg.order : cfg.order[i] = ids[k]})]

\* StepPlaces, bundle by bundle
LEMMA StepPlacesAre ==
  ASSUME NEW cfg
  PROVE  StepPlaces(cfg) = [i \in DOMAIN Ends(cfg) |-> Places(cfg, cfg.bundles[Ends(cfg)[i]].steps)]
  BY DEF StepPlaces, Ends, Places

\* The steps of the copied bundles stand where the steps of the old ones stand.
LEMMA CopyPlaces ==
  ASSUME NEW cfg, NEW n, Fit(cfg, n), NEW t, AllCopied(cfg, n, t)
  PROVE  StepPlaces(t.config) = StepPlaces(cfg)
  <1> DEFINE back == t.config
             m == FromCommands(cfg, n)
             mB == FromBundles(cfg, n)
             N == Len(cfg.order)
  <1>1. /\ DOMAIN cfg.order = 1 .. N /\ N \in Nat /\ IsInjective(cfg.order) /\ m \in Nat
        /\ DOMAIN Ends(cfg) = 1 .. Len(Ends(cfg))
    BY FitIs DEF Plain, Lists
  <1>2. back.order = IdsAfter(m, N) /\ Ends(back) = IdsAfter(mB, Len(Ends(cfg)))
    BY CopiesAre
  <1> HIDE DEF back, N, m, mB
  <1>3. /\ DOMAIN back.order = 1 .. N /\ IsInjective(back.order)
        /\ \A i \in 1 .. N : back.order[i] = m + i
    BY <1>1, <1>2 DEF IdsAfter, IsInjective
  <1>4. 1 .. N \subseteq Nat
    OBVIOUS
  <1>5. \A i \in 1 .. N : /\ Min({j \in DOMAIN cfg.order : cfg.order[j] = cfg.order[i]}) = i
                          /\ Min({j \in DOMAIN back.order : back.order[j] = back.order[i]}) = i
    BY <1>1, <1>3, <1>4, PlaceIs
  <1>6. ASSUME NEW i \in 1 .. Len(Ends(cfg))
        PROVE  Places(back, back.bundles[mB + i].steps) = Places(cfg, cfg.bundles[Ends(cfg)[i]].steps)
    <2> DEFINE ids  == cfg.bundles[Ends(cfg)[i]].steps
               made == NewSteps(cfg, n, ids)
    <2>1. back.bundles[mB + i].steps = made
      <3>1. back.bundles[mB + i] = BundleCopy(cfg, n, Ends(cfg)[i])
        BY CopiesAre DEF back, mB
      <3>2. QED
        BY <3>1 DEF BundleCopy
    <2>2. Range(ids) \subseteq DOMAIN cfg.commands
      BY FitIs DEF Plain
    <2>3. DOMAIN made = DOMAIN ids /\ \A k \in DOMAIN ids : made[k] = NewCommand(cfg, n, ids[k])
      BY DEF NewSteps
    <2> HIDE DEF ids, made
    <2>4. ASSUME NEW k \in DOMAIN ids
          PROVE  Min({j \in DOMAIN back.order : back.order[j] = made[k]})
                 = Min({j \in DOMAIN cfg.order : cfg.order[j] = ids[k]})
      <3> DEFINE p == Pos(cfg.order, ids[k])
      <3>1. ids[k] \in DOMAIN cfg.commands
        BY <2>2 DEF Range
      <3>2. p \in 1 .. N /\ cfg.order[p] = ids[k]
        BY <3>1, FitIs DEF N
      <3>3. made[k] = m + p
        BY <2>3 DEF NewCommand, m
      <3> HIDE DEF p
      <3>4. back.order[p] = made[k]
        BY <1>3, <3>2, <3>3
      <3>5. QED
        BY <1>5, <3>2, <3>4
    <2>5. Places(back, made) = Places(cfg, ids)
      BY <2>3, <2>4 DEF Places
    <2>6. QED
      BY <2>1, <2>5 DEF ids
  <1>7. StepPlaces(back) = [i \in 1 .. Len(Ends(cfg)) |-> Places(back, back.bundles[mB + i].steps)]
    <2>1. DOMAIN Ends(back) = 1 .. Len(Ends(cfg)) /\ \A i \in 1 .. Len(Ends(cfg)) : Ends(back)[i] = mB + i
      BY <1>2 DEF IdsAfter
    <2>2. QED
      BY <2>1, StepPlacesAre
  <1>8. StepPlaces(cfg) = [i \in 1 .. Len(Ends(cfg)) |-> Places(cfg, cfg.bundles[Ends(cfg)[i]].steps)]
    BY <1>1, StepPlacesAre
  <1>9. QED
    BY <1>6, <1>7, <1>8 DEF back

\* So what is read back is what was written.
LEMMA Restored ==
  ASSUME IInv, ListInv
  PROVE  ReplaceRestores
  <1> SUFFICES ASSUME Exportable(config)
               PROVE  LET back == Replace(config, issued, Export(config)).config
                      IN  Export(back) = Export(config) /\ StepPlaces(back) = StepPlaces(config)
    BY DEF ReplaceRestores
  <1> DEFINE t == Replace(config, issued, Export(config))
  <1>1. Fit(config, issued)
    BY ConfigFine DEF Fit
  <1>2. AllCopied(config, issued, t)
    BY <1>1, ClearedFine, ReplaceCopies
  <1> HIDE DEF t
  <1>3. Export(t.config) = Export(config) /\ StepPlaces(t.config) = StepPlaces(config)
    BY <1>1, <1>2, CopyExports, CopyPlaces
  <1>4. QED
    BY <1>3 DEF t

\* For any configuration that edits and imports lead to, with names that an export can tell
\* apart: "replace all" with its own export gives the same servers, groups, commands and bundles
\* in the same order, each command under the group of its name and each bundle with the commands
\* it had (build_export_payload, which writes names for ids, and import_into_config, ensure_group
\* and resolve_bundle_steps, which look them up).
THEOREM ReplaceRestoresHolds == TransferSpec => []ReplaceRestores
  <1>1. IInv /\ ListInv => ReplaceRestores
    BY Restored
  <1>2. IInv /\ ListInv /\ [TransferNext]_vars => IInv' /\ ListInv'
    BY TransferNextKeeps
  <1>3. Init => IInv /\ ListInv
    BY InitGood, InitLists
  <1>4. QED
    BY <1>1, <1>2, <1>3, PTL DEF TransferSpec
=============================================================================
