-------------------------- MODULE JournalFileProofs --------------------------
(***************************************************************************)
(* What holds of JournalFile for every value of its constants: the rows of *)
(* the file stay apart and in order, and an entry that is stored is lost   *)
(* only to the user or to the maximum.                                     *)
(***************************************************************************)
EXTENDS JournalFile, SequenceTheorems, WellFoundedInduction, TLAPS

\* Thread t is inside the block that mutex_ guards.
InHand(t) == call[t].step \in {"written", "read"}

\* A call, whatever listeners are left to it.
Call(c) ==
  c \in [step : {"none", "written", "read", "stored", "notifying"}, id : Ids \cup {NoId},
         begun : BOOLEAN, detached : BOOLEAN, todo : {c.todo}]

\* No two rows that are whole have one id, and the ids ascend.
Ascending(f) ==
  \A i, j \in DOMAIN f : i < j /\ IsWhole(f[i]) /\ IsWhole(f[j]) => f[i].id < f[j].id

OnlyLastUnended(f) == \A i \in DOMAIN f : f[i].state \in {"open", "torn"} => i = Len(f)

\* Of the entries up to n, and nothing else.
UpTo(f, n) == \A i \in DOMAIN f : IsWhole(f[i]) => f[i].id \in 1 .. n

\* The inductive invariant. The thread that has mutex_ is writing the newest entry: it is
\* not in the file yet, and what is there of it is the last row.
IInv ==
  /\ file \in Seq(Row) /\ OnlyLastUnended(file) /\ Ascending(file)
  /\ DOMAIN call = Threads /\ call = [t \in Threads |-> call[t]]
  /\ \A t \in Threads : Call(call[t])
  /\ appended \in 0 .. MaxAppends
  /\ UpTo(file, appended)
  /\ \A t, u \in Threads : InHand(t) /\ InHand(u) => t = u
  /\ \A t \in Threads : InHand(t) =>
       /\ call[t].id = appended /\ appended > 0
       /\ UpTo(file, appended - 1)
       /\ call[t].begun /\ ~call[t].detached =>
            /\ file # <<>> /\ Last(file).state = "open" /\ Last(file).id \in {NoId, appended}

-----------------------------------------------------------------------------
(* The rows that remove keeps                                               *)

\* What is true of 0 and of the next of every n up to N is true of all up to N.
LEMMA Below ==
  ASSUME NEW N \in Nat, NEW True \in SUBSET (0 .. N),
         0 \in True, \A n \in 1 .. N : n - 1 \in True => n \in True
  PROVE  True = 0 .. N
  <1> DEFINE R == {p \in Nat \X Nat : p[1] < p[2]}
             S == (0 .. N) \ True
  <1>1. SUFFICES ASSUME S # {} PROVE FALSE
    OBVIOUS
  <1>2. IsWellFoundedOn(R, Nat)
    BY NatLessThanWellFounded DEF OpToRel
  <1>3. S \subseteq Nat
    OBVIOUS
  <1>4. PICK x \in S : \A y \in S : ~(<<y, x>> \in R)
    BY <1>1, <1>2, <1>3, WFMin
  <1>5. x \in 1 .. N /\ x \notin True
    OBVIOUS
  <1>6. x - 1 \in S
    BY <1>5
  <1>7. <<x - 1, x>> \in Nat \X Nat /\ <<x - 1, x>>[1] < <<x - 1, x>>[2]
    BY <1>5
  <1>8. QED
    BY <1>4, <1>6, <1>7

\* A row of what remove has kept, before row n and after it.
NextKept(f, id, n, before) ==
  IF IsWhole(f[n]) /\ f[n].id = id THEN before ELSE Append(before, Closed(f[n]))

\* The function g counts the rows up to n as the loop of remove does.
KeepsUpTo(f, id, n, g) ==
  g = [m \in 0 .. n |-> IF m = 0 THEN <<>> ELSE NextKept(f, id, m, g[m - 1])]

\* There is such a function for every n: the loop of remove keeps something.
LEMMA LoopIsThere ==
  ASSUME NEW f \in Seq(Row), NEW id, NEW n \in 0 .. Len(f)
  PROVE  \E g : KeepsUpTo(f, id, n, g)
  <1> DEFINE There == {m \in 0 .. Len(f) : \E g : KeepsUpTo(f, id, m, g)}
  <1>1. Len(f) \in Nat
    BY LenProperties
  <1>2. 0 \in There
    <2> DEFINE g == [m \in {0} |-> <<>>]
    <2>1. 0 .. 0 = {0}
      OBVIOUS
    <2>2. KeepsUpTo(f, id, 0, g)
      BY <2>1 DEF KeepsUpTo
    <2>3. QED
      BY <1>1, <2>2
  <1>3. ASSUME NEW m \in 1 .. Len(f), m - 1 \in There
        PROVE  m \in There
    <2>1. PICK g : KeepsUpTo(f, id, m - 1, g)
      BY <1>3
    <2> DEFINE h == [k \in 0 .. m |-> IF k = m THEN NextKept(f, id, m, g[m - 1]) ELSE g[k]]
    <2>2. ASSUME NEW k \in 0 .. m
          PROVE  h[k] = IF k = 0 THEN <<>> ELSE NextKept(f, id, k, h[k - 1])
      <3>1. CASE k = m
        <4>1. h[k - 1] = g[m - 1] /\ h[k] = NextKept(f, id, m, g[m - 1]) /\ k # 0
          BY <3>1
        <4>2. QED
          BY <3>1, <4>1
      <3>2. CASE k = 0
        <4>1. h[k] = g[k] /\ 0 \in 0 .. m - 1
          BY <3>2
        <4>2. g[0] = <<>>
          BY <2>1, <4>1 DEF KeepsUpTo
        <4>3. QED
          BY <3>2, <4>1, <4>2
      <3>3. CASE k # m /\ k # 0
        <4>1. h[k] = g[k] /\ h[k - 1] = g[k - 1] /\ k \in 0 .. m - 1
          BY <3>3
        <4>2. g[k] = NextKept(f, id, k, g[k - 1])
          BY <2>1, <3>3, <4>1 DEF KeepsUpTo
        <4>3. QED
          BY <3>3, <4>1, <4>2
      <3>4. QED
        BY <3>1, <3>2, <3>3
    <2>3. h = [k \in 0 .. m |-> h[k]]
      OBVIOUS
    <2> HIDE DEF h
    <2>4. KeepsUpTo(f, id, m, h)
      BY <2>2, <2>3 DEF KeepsUpTo
    <2>5. m \in 0 .. Len(f)
      OBVIOUS
    <2>6. QED
      BY <2>4, <2>5
  <1> HIDE DEF There
  <1>4. There = 0 .. Len(f)
    <2>1. There \in SUBSET (0 .. Len(f))
      BY DEF There
    <2>2. QED
      BY <1>1, <1>2, <1>3, <2>1, Below
  <1>5. QED
    BY <1>4 DEF There

\* remove goes on from row to row.
LEMMA KeptRowByRow ==
  ASSUME NEW f \in Seq(Row), NEW id
  PROVE  /\ KeptRows(f, id)[0] = <<>>
         /\ \A n \in 1 .. Len(f) :
              KeptRows(f, id)[n] = NextKept(f, id, n, KeptRows(f, id)[n - 1])
  <1> DEFINE kept == KeptRows(f, id)
  <1>1. Len(f) \in Nat
    BY LenProperties
  <1>2. PICK g : KeepsUpTo(f, id, Len(f), g)
    <2>1. Len(f) \in 0 .. Len(f)
      BY <1>1
    <2>2. QED
      BY <2>1, LoopIsThere
  <1>3. kept = CHOOSE h : h = [n \in 0 .. Len(f) |->
                                 IF n = 0 THEN <<>>
                                 ELSE IF IsWhole(f[n]) /\ f[n].id = id THEN h[n - 1]
                                 ELSE Append(h[n - 1], Closed(f[n]))]
    BY DEF KeptRows
  <1>4. kept = [n \in 0 .. Len(f) |->
                  IF n = 0 THEN <<>>
                  ELSE IF IsWhole(f[n]) /\ f[n].id = id THEN kept[n - 1]
                  ELSE Append(kept[n - 1], Closed(f[n]))]
    BY <1>2, <1>3 DEF KeepsUpTo, NextKept
  <1> HIDE DEF kept
  <1>5. kept[0] = <<>>
    BY <1>1, <1>4
  <1>6. ASSUME NEW n \in 1 .. Len(f)
        PROVE  kept[n] = NextKept(f, id, n, kept[n - 1])
    <2>1. n \in 0 .. Len(f) /\ n # 0
      OBVIOUS
    <2>2. QED
      BY <1>4, <2>1 DEF NextKept
  <1>7. QED
    BY <1>5, <1>6 DEF kept

\* The rows k are those up to n without the entry id, each ended by a newline.
KeptOf(f, id, n, k) ==
  /\ k \in Seq(Row)
  /\ \A i \in DOMAIN k : k[i].state \in {"whole", "garbled"}
  /\ \A i \in DOMAIN k : IsWhole(k[i]) => \E j \in 1 .. n : f[j] = k[i] /\ f[j].id # id
  /\ \A j \in 1 .. n : IsWhole(f[j]) /\ f[j].id # id => \E i \in DOMAIN k : k[i] = f[j]
  /\ Ascending(k)

\* A row that is passed over, or kept, and what is kept of the rows up to it.
LEMMA OneRowKept ==
  ASSUME NEW f \in Seq(Row), Ascending(f), NEW id, NEW n \in 1 .. Len(f), NEW k,
         KeptOf(f, id, n - 1, k)
  PROVE  KeptOf(f, id, n, NextKept(f, id, n, k))
  <1>1. /\ n - 1 \in Nat /\ 1 .. n = (1 .. (n - 1)) \cup {n} /\ n \notin 1 .. (n - 1)
        /\ DOMAIN f = 1 .. Len(f) /\ 1 .. n \subseteq DOMAIN f
        /\ \A j \in 1 .. (n - 1) : j < n
    BY LenProperties
  <1>2. f[n] \in Row
    BY ElementOfSeq
  <1>3. k \in Seq(Row) /\ DOMAIN k = 1 .. Len(k) /\ Len(k) \in Nat
    BY LenProperties DEF KeptOf
  <1>4. CASE IsWhole(f[n]) /\ f[n].id = id
    <2>1. NextKept(f, id, n, k) = k
      BY <1>4 DEF NextKept
    <2>2. QED
      BY <1>1, <1>4, <2>1 DEF KeptOf
  <1>5. CASE ~(IsWhole(f[n]) /\ f[n].id = id)
    <2> DEFINE r == Closed(f[n])
               w == Append(k, r)
    <2>1. /\ r \in Row /\ r.state \in {"whole", "garbled"}
          /\ IsWhole(r) => r = f[n] /\ f[n].id # id
          /\ IsWhole(f[n]) => r = f[n]
      BY <1>2, <1>5 DEF Closed, Row, IsWhole
    <2> HIDE DEF r
    <2>2. /\ w \in Seq(Row) /\ Len(w) = Len(k) + 1
          /\ DOMAIN w = (DOMAIN k) \cup {Len(w)} /\ Len(w) \notin DOMAIN k
          /\ \A i \in DOMAIN k : w[i] = k[i] /\ i < Len(w)
          /\ w[Len(w)] = r
      BY <1>3, <2>1
    <2> DEFINE l == Len(w)
    <2> HIDE DEF w, l
    <2>3. \A i \in DOMAIN w : w[i].state \in {"whole", "garbled"}
      BY <2>1, <2>2 DEF KeptOf
    <2>4. ASSUME NEW i \in DOMAIN w, IsWhole(w[i])
          PROVE  \E j \in 1 .. n : f[j] = w[i] /\ f[j].id # id
      <3>1. CASE i \in DOMAIN k
        BY <1>1, <2>2, <2>4, <3>1 DEF KeptOf
      <3>2. CASE i = Len(w)
        BY <1>1, <2>1, <2>2, <2>4, <3>2
      <3>3. QED
        BY <2>2, <3>1, <3>2
    <2>5. ASSUME NEW j \in 1 .. n, IsWhole(f[j]), f[j].id # id
          PROVE  \E i \in DOMAIN w : w[i] = f[j]
      <3>1. CASE j = n
        BY <2>1, <2>2, <2>5, <3>1
      <3>2. CASE j \in 1 .. (n - 1)
        BY <2>2, <2>5, <3>2 DEF KeptOf
      <3>3. QED
        BY <1>1, <3>1, <3>2
    <2>6. ASSUME NEW i \in DOMAIN w, NEW m \in DOMAIN w, i < m, IsWhole(w[i]), IsWhole(w[m])
          PROVE  w[i].id < w[m].id
      <3>1. CASE m \in DOMAIN k
        <4>1. i \in DOMAIN k
          BY <1>3, <2>2, <2>6, <3>1
        <4>2. QED
          BY <2>2, <2>6, <3>1, <4>1 DEF KeptOf, Ascending
      <3>2. CASE m = Len(w)
        <4>1. i \in DOMAIN k
          BY <1>3, <2>2, <2>6, <3>2
        <4>2. PICK j \in 1 .. (n - 1) : f[j] = w[i]
          BY <2>2, <2>6, <4>1 DEF KeptOf
        <4>3. w[m] = f[n]
          BY <2>1, <2>2, <2>6, <3>2
        <4>4. QED
          BY <1>1, <2>6, <4>2, <4>3 DEF Ascending
      <3>3. QED
        BY <2>2, <3>1, <3>2
    <2>7. KeptOf(f, id, n, w)
      BY <2>2, <2>3, <2>4, <2>5, <2>6 DEF KeptOf, Ascending
    <2>8. NextKept(f, id, n, k) = w
      BY <1>5 DEF NextKept, w, r
    <2>9. QED
      BY <2>7, <2>8
  <1>6. QED
    BY <1>4, <1>5

\* remove keeps every entry but one, in the order in which they stand, and ends every row.
LEMMA WithoutKeeps ==
  ASSUME NEW f \in Seq(Row), Ascending(f), NEW id
  PROVE  KeptOf(f, id, Len(f), Without(f, id))
  <1> DEFINE kept == KeptRows(f, id)
             Right == {n \in 0 .. Len(f) : KeptOf(f, id, n, kept[n])}
  <1>1. Len(f) \in Nat
    BY LenProperties
  <1>2. 0 \in Right
    <2>1. kept[0] = <<>> /\ 1 .. 0 = {} /\ <<>> \in Seq(Row) /\ DOMAIN (<<>>) = {}
      BY KeptRowByRow
    <2> HIDE DEF kept
    <2>2. KeptOf(f, id, 0, kept[0])
      BY <2>1 DEF KeptOf, Ascending
    <2>3. QED
      BY <1>1, <2>2
  <1>3. ASSUME NEW n \in 1 .. Len(f), n - 1 \in Right
        PROVE  n \in Right
    <2>1. kept[n] = NextKept(f, id, n, kept[n - 1])
      BY KeptRowByRow
    <2> HIDE DEF kept
    <2>2. KeptOf(f, id, n - 1, kept[n - 1])
      BY <1>3
    <2>3. KeptOf(f, id, n, kept[n])
      BY <2>1, <2>2, OneRowKept
    <2>4. QED
      BY <1>1, <2>3
  <1>4. Right \in SUBSET (0 .. Len(f))
    OBVIOUS
  <1> HIDE DEF Right
  <1>5. Right = 0 .. Len(f)
    BY <1>1, <1>2, <1>3, <1>4, Below
  <1>6. Len(f) \in Right
    BY <1>1, <1>5
  <1>7. QED
    BY <1>6 DEF Right, Without

-----------------------------------------------------------------------------
(* What append does to the rows                                             *)

\* The row r is added behind the rows of f, or takes the place of a last row that is not
\* ended.
Adds(f, g, r) ==
  /\ g \in Seq(Row) /\ Len(g) > 0 /\ g[Len(g)] = r
  /\ \A i \in 1 .. (Len(g) - 1) : i \in DOMAIN f /\ g[i] = f[i] /\ f[i].state \in {"whole", "garbled"}
  /\ \A i \in DOMAIN f : IsWhole(f[i]) => i \in 1 .. (Len(g) - 1)

\* The last row, which is not ended, is replaced.
LEMMA ReplacedAdds ==
  ASSUME NEW f \in Seq(Row), OnlyLastUnended(f), f # <<>>, Last(f).state \in {"open", "torn"},
         NEW r \in Row
  PROVE  Adds(f, Append(Front(f), r), r)
  <1> DEFINE n == Len(f) - 1
             g == SubSeq(f, 1, n)
             w == Append(g, r)
  <1>1. n \in Nat /\ Len(f) = n + 1 /\ DOMAIN f = 1 .. (n + 1) /\ f[n + 1].state \in {"open", "torn"}
    BY LenProperties, EmptySeq DEF Last
  <1>2. \A i \in 1 .. (n + 1) : f[i] \in Row
    BY <1>1, ElementOfSeq
  <1>3. \A i \in 1 .. (n + 1) : f[i].state \in {"whole", "open", "torn", "garbled"}
    BY <1>2 DEF Row
  <1>4. Front(f) = g
    BY DEF Front
  <1> HIDE DEF n
  <1>5. g \in Seq(Row) /\ Len(g) = n /\ \A i \in 1 .. n : g[i] = f[i]
    <2>1. \A i \in 1 .. n : f[i] \in Row /\ 1 + i - 1 = i
      BY <1>1, <1>2
    <2>2. /\ g \in Seq(Row) /\ Len(g) = (IF 1 <= n THEN n - 1 + 1 ELSE 0)
          /\ \A i \in 1 .. (n - 1 + 1) : g[i] = f[1 + i - 1]
      BY <1>1, <2>1, SubSeqProperties
    <2> HIDE DEF g
    <2>3. n - 1 + 1 = n /\ (~(1 <= n) => n = 0)
      BY <1>1
    <2>4. QED
      BY <2>1, <2>2, <2>3
  <1> HIDE DEF g
  <1>6. w \in Seq(Row) /\ Len(w) = n + 1 /\ w[n + 1] = r /\ \A i \in 1 .. n : w[i] = g[i]
    BY <1>1, <1>5
  <1> HIDE DEF w
  <1>7. \A i \in 1 .. n : i \in 1 .. (n + 1) /\ i # n + 1
    BY <1>1
  <1>8. \A i \in 1 .. n : f[i].state \in {"whole", "garbled"}
    BY <1>1, <1>3, <1>7 DEF OnlyLastUnended
  <1>9. \A i \in 1 .. (n + 1) : IsWhole(f[i]) => i \in 1 .. n
    BY <1>1 DEF IsWhole
  <1>10. Len(w) - 1 = n /\ Len(w) > 0
    BY <1>1, <1>6
  <1>11. Adds(f, w, r)
    BY <1>1, <1>5, <1>6, <1>7, <1>8, <1>9, <1>10 DEF Adds
  <1>12. QED
    BY <1>4, <1>11 DEF w

\* Text is added: a row of its own, or one that cannot be parsed.
LEMMA WriteAdds ==
  ASSUME NEW f \in Seq(Row), OnlyLastUnended(f), NEW id \in Ids, NEW state \in {"open", "whole"}
  PROVE  \E r \in Row : /\ Adds(f, WriteRow(f, id, state), r)
                        /\ IsWhole(r) => r.id = id /\ state = "whole"
                        /\ state = "open" => r.state = "open" /\ r.id \in {NoId, id}
                        /\ state = "whole" => r.state \in {"whole", "garbled"}
  <1>1. CASE Unended(f)
    <2> DEFINE r == [id |-> NoId, state |-> IF state = "whole" THEN "garbled" ELSE "open"]
    <2>1. /\ r \in Row /\ ~IsWhole(r) /\ (state = "open" => r.state = "open") /\ r.id = NoId
          /\ state = "whole" => r.state = "garbled"
      BY DEF Row, IsWhole
    <2>2. WriteRow(f, id, state) = Append(Front(f), r)
      BY <1>1 DEF WriteRow
    <2> HIDE DEF r
    <2>3. Adds(f, Append(Front(f), r), r)
      BY <1>1, <2>1, ReplacedAdds DEF Unended
    <2>4. QED
      BY <2>1, <2>2, <2>3
  <1>2. CASE ~Unended(f)
    <2> DEFINE r == [id |-> id, state |-> state]
               n == Len(f)
               w == Append(f, r)
    <2>1. r \in Row /\ r.id = id /\ r.state = state
      BY DEF Row
    <2> HIDE DEF r
    <2>2. n \in Nat /\ DOMAIN f = 1 .. n /\ \A i \in 1 .. n : f[i] \in Row
      BY LenProperties, ElementOfSeq
    <2>3. /\ w \in Seq(Row) /\ Len(w) = n + 1 /\ w[n + 1] = r
          /\ \A i \in 1 .. n : w[i] = f[i]
      BY <2>1, <2>2
    <2>4. WriteRow(f, id, state) = w
      BY <1>2 DEF WriteRow, r
    <2> HIDE DEF w
    <2>5. \A i \in 1 .. n : f[i].state \in {"whole", "garbled"}
      <3> SUFFICES ASSUME NEW i \in 1 .. n, f[i].state \in {"open", "torn"} PROVE FALSE
        BY <2>2 DEF Row
      <3>1. i = n
        BY <2>2 DEF OnlyLastUnended
      <3>2. f # <<>>
        <4>1. n # 0
          BY <2>2
        <4>2. QED
          BY <4>1, EmptySeq
      <3>3. QED
        BY <1>2, <3>1, <3>2 DEF Unended, Last
    <2> HIDE DEF n
    <2>6. Len(w) - 1 = n /\ Len(w) > 0
      BY <2>2, <2>3
    <2>7. Adds(f, w, r)
      BY <2>2, <2>3, <2>5, <2>6 DEF Adds
    <2>8. QED
      BY <2>1, <2>4, <2>7 DEF IsWhole
  <1>3. QED
    BY <1>1, <1>2

\* The rest of a row is written, and the row is ended.
LEMMA FinishAdds ==
  ASSUME NEW f \in Seq(Row), OnlyLastUnended(f), f # <<>>, Last(f).state = "open",
         NEW n \in Ids, Last(f).id \in {NoId, n}
  PROVE  \E r \in Row : /\ Adds(f, FinishRow(f), r)
                        /\ r.state \in {"whole", "garbled"}
                        /\ IsWhole(r) => r.id = n
  <1> DEFINE l == Last(f)
             r == IF l.id = NoId THEN [l EXCEPT !.state = "garbled"] ELSE [l EXCEPT !.state = "whole"]
  <1>1. l \in Row
    BY LenProperties, EmptySeq, ElementOfSeq DEF Last
  <1>2. FinishRow(f) = Append(Front(f), r)
    BY DEF FinishRow
  <1>3. l.state = "open" /\ l.id \in {NoId, n}
    OBVIOUS
  <1> HIDE DEF l
  <1>4. r \in Row /\ r.state \in {"whole", "garbled"} /\ (IsWhole(r) => r.id = n)
    BY <1>1, <1>3 DEF Row, IsWhole
  <1> HIDE DEF r
  <1>5. Adds(f, Append(Front(f), r), r)
    BY <1>4, ReplacedAdds
  <1>6. QED
    BY <1>2, <1>4, <1>5

\* A row that is added, the newest if it is whole, leaves the rows apart and in order, and
\* loses none of the entries.
LEMMA AddedInOrder ==
  ASSUME NEW f \in Seq(Row), Ascending(f), NEW g, NEW r \in Row, Adds(f, g, r),
         NEW n \in Nat, n > 0, UpTo(f, n - 1), IsWhole(r) => r.id = n
  PROVE  /\ g \in Seq(Row) /\ OnlyLastUnended(g) /\ Ascending(g) /\ UpTo(g, n)
         /\ ~IsWhole(r) => UpTo(g, n - 1)
         /\ \A i \in DOMAIN f : IsWhole(f[i]) => i \in DOMAIN g /\ g[i] = f[i]
         /\ g # <<>> /\ Last(g) = r
  <1>1. /\ g \in Seq(Row) /\ Len(g) \in Nat /\ Len(g) > 0 /\ g[Len(g)] = r
        /\ DOMAIN g = 1 .. Len(g)
    BY LenProperties DEF Adds
  <1>2. DOMAIN g = (1 .. (Len(g) - 1)) \cup {Len(g)} /\ 1 .. (Len(g) - 1) \subseteq DOMAIN g
    BY <1>1
  <1>3. \A i, j \in DOMAIN g : i < j => i \in 1 .. (Len(g) - 1)
    BY <1>1
  <1>4. \A i \in 1 .. (Len(g) - 1) :
          i \in DOMAIN f /\ g[i] = f[i] /\ f[i].state \in {"whole", "garbled"}
    BY DEF Adds
  <1>5. OnlyLastUnended(g)
    BY <1>2, <1>4 DEF OnlyLastUnended
  <1>6. UpTo(g, n) /\ (~IsWhole(r) => UpTo(g, n - 1))
    <2>1. \A i \in 1 .. (Len(g) - 1) : IsWhole(g[i]) => g[i].id \in 1 .. (n - 1)
      BY <1>4 DEF UpTo
    <2>2. 1 .. (n - 1) \subseteq 1 .. n /\ n \in 1 .. n
      OBVIOUS
    <2>3. QED
      BY <1>1, <1>2, <2>1, <2>2 DEF UpTo
  <1>7. Ascending(g)
    <2> SUFFICES ASSUME NEW i \in DOMAIN g, NEW j \in DOMAIN g, i < j, IsWhole(g[i]), IsWhole(g[j])
                 PROVE  g[i].id < g[j].id
      BY DEF Ascending
    <2>1. i \in 1 .. (Len(g) - 1)
      BY <1>3
    <2>2. CASE j \in 1 .. (Len(g) - 1)
      BY <1>4, <2>1, <2>2 DEF Ascending
    <2>3. CASE j = Len(g)
      <3>1. g[j].id = n
        BY <1>1, <2>3
      <3>2. g[i].id \in 1 .. (n - 1)
        BY <1>4, <2>1 DEF UpTo
      <3>3. QED
        BY <3>1, <3>2
    <2>4. QED
      BY <1>2, <2>2, <2>3
  <1>8. \A i \in DOMAIN f : IsWhole(f[i]) => i \in DOMAIN g /\ g[i] = f[i]
    BY <1>2 DEF Adds
  <1>9. g # <<>> /\ Last(g) = r
    BY <1>1 DEF Last
  <1>10. QED
    BY <1>1, <1>5, <1>6, <1>7, <1>8, <1>9

\* The file is cut down to its newest rows.
LEMMA TrimmedInOrder ==
  ASSUME NEW f \in Seq(Row), Ascending(f), TooLong(f), NEW n \in Int, UpTo(f, n)
  PROVE  /\ Trimmed(f) \in Seq(Row) /\ OnlyLastUnended(Trimmed(f)) /\ Ascending(Trimmed(f))
         /\ UpTo(Trimmed(f), n)
         /\ \A i \in DOMAIN f : IsWhole(f[i]) /\ i + MaxEntries > Len(f) =>
              \E j \in DOMAIN Trimmed(f) : Trimmed(f)[j] = f[i]
  <1>1. /\ MaxEntries \in Nat /\ Len(f) \in Nat /\ Len(f) > MaxEntries /\ DOMAIN f = 1 .. Len(f)
        /\ \A i \in DOMAIN f : f[i] \in Row
    BY JournalAssumption, LenProperties, ElementOfSeq DEF TooLong
  <1> DEFINE w == Trimmed(f)
             at(i) == Len(f) - MaxEntries + i
  <1>2. w = [i \in 1 .. MaxEntries |-> Closed(f[at(i)])]
    BY DEF Trimmed
  <1>3. \A i \in 1 .. MaxEntries : at(i) \in DOMAIN f
    BY <1>1
  <1>4. \A i, j \in 1 .. MaxEntries : i < j => at(i) < at(j)
    BY <1>1
  <1>5. \A i \in DOMAIN f : i + MaxEntries > Len(f) =>
          \E j \in 1 .. MaxEntries : at(j) = i
    <2> SUFFICES ASSUME NEW i \in DOMAIN f, i + MaxEntries > Len(f)
                 PROVE  \E j \in 1 .. MaxEntries : at(j) = i
      OBVIOUS
    <2>1. i - Len(f) + MaxEntries \in 1 .. MaxEntries /\ at(i - Len(f) + MaxEntries) = i
      BY <1>1
    <2>2. QED
      BY <2>1
  <1> HIDE DEF w, at
  <1>6. \A i \in 1 .. MaxEntries :
          /\ w[i] \in Row /\ w[i].state \in {"whole", "garbled"}
          /\ IsWhole(w[i]) \/ IsWhole(f[at(i)]) => w[i] = f[at(i)]
    BY <1>1, <1>2, <1>3 DEF Closed, Row, IsWhole
  <1>7. w \in Seq(Row) /\ DOMAIN w = 1 .. MaxEntries
    <2>1. DOMAIN w = 1 .. MaxEntries
      BY <1>2
    <2>2. w \in [1 .. MaxEntries -> Row]
      BY <1>2, <1>6
    <2>3. QED
      BY <1>1, <2>1, <2>2, SeqDef
  <1>8. OnlyLastUnended(w)
    BY <1>6, <1>7 DEF OnlyLastUnended
  <1>9. Ascending(w)
    BY <1>3, <1>4, <1>6, <1>7 DEF Ascending
  <1>10. UpTo(w, n)
    BY <1>3, <1>6, <1>7 DEF UpTo
  <1>11. \A i \in DOMAIN f : IsWhole(f[i]) /\ i + MaxEntries > Len(f) => \E j \in DOMAIN w : w[j] = f[i]
    BY <1>5, <1>6, <1>7
  <1>12. QED
    BY <1>7, <1>8, <1>9, <1>10, <1>11 DEF w

-----------------------------------------------------------------------------
(* What a step keeps                                                        *)

\* An entry is lost to nobody but the user and the maximum: StoredStays of one step.
LosesNone ==
  \A i \in DOMAIN file : IsWhole(file[i]) /\ file[i].id \notin Stored(file') =>
    \/ window.doing = "clear" /\ file' = <<>>
    \/ window.doing = "delete" /\ Stored(file') = Stored(file) \ {file[i].id}
    \/ TooLong(file) /\ i + MaxEntries <= Len(file)

\* Where every entry is found again none is lost.
LEMMA FoundAgain ==
  ASSUME \A i \in DOMAIN file : IsWhole(file[i]) => \E j \in DOMAIN file' : file'[j] = file[i]
  PROVE  LosesNone
  BY DEF LosesNone, Stored

LEMMA SameFile ==
  ASSUME file' = file
  PROVE  LosesNone
  BY FoundAgain

LEMMA InitHolds == Init => IInv
  <1> SUFFICES ASSUME Init PROVE IInv
    OBVIOUS
  <1>1. file \in Seq(Row) /\ DOMAIN file = {}
    BY DEF Init
  <1>2. \A t \in Threads : call[t] = NoCall /\ Call(call[t]) /\ ~InHand(t)
    BY DEF Init, Call, NoCall, InHand
  <1>3. call = [t \in Threads |-> call[t]] /\ DOMAIN call = Threads
    BY DEF Init
  <1>4. appended = 0 /\ MaxAppends \in Nat
    BY JournalAssumption DEF Init
  <1>5. QED
    BY <1>1, <1>2, <1>3, <1>4 DEF IInv, OnlyLastUnended, Ascending, UpTo

\* A call that goes on: the other thread stays where it is.
LEMMA OneCallGoesOn ==
  ASSUME IInv, NEW t \in Threads, NEW c, Call(c), call' = [call EXCEPT ![t] = c]
  PROVE  /\ DOMAIN call' = Threads /\ call' = [u \in Threads |-> call'[u]]
         /\ \A u \in Threads : Call(call'[u])
         /\ call'[t] = c /\ \A u \in Threads \ {t} : call'[u] = call[u]
  BY DEF IInv

\* A thread writes: the other is not inside, and what is written is newer than all there is.
LEMMA WritesKeep ==
  ASSUME IInv, NEW t \in Threads, AppendWrites(t)
  PROVE  IInv' /\ LosesNone
  <1> DEFINE n == appended + 1
  <1>1. n \in Ids /\ n \in 1 .. MaxAppends /\ appended' = n /\ appended \in Nat /\ n - 1 = appended
    BY JournalAssumption DEF AppendWrites, IInv, Ids
  <1>2. \A u \in Threads : ~InHand(u)
    BY DEF AppendWrites, MayWrite, Locked, InHand
  <1>3. file \in Seq(Row) /\ OnlyLastUnended(file) /\ Ascending(file) /\ UpTo(file, n - 1)
    BY <1>1 DEF IInv
  <1> DEFINE quiet == [NoCall EXCEPT !.step = "written", !.id = n]
             loud  == [NoCall EXCEPT !.step = "written", !.id = n, !.begun = TRUE]
  <1>4. /\ Call(quiet) /\ quiet.step = "written" /\ quiet.id = n /\ quiet.begun = FALSE
        /\ Call(loud) /\ loud.step = "written" /\ loud.id = n
    BY <1>1 DEF Call, NoCall
  <1>5. \/ call' = [call EXCEPT ![t] = quiet] /\ file' = file
        \/ call' = [call EXCEPT ![t] = loud] /\ file' = WriteRow(file, n, "open")
    BY DEF AppendWrites
  <1> HIDE DEF n, quiet, loud
  <1>6. CASE call' = [call EXCEPT ![t] = quiet] /\ file' = file
    <2>1. /\ DOMAIN call' = Threads /\ call' = [u \in Threads |-> call'[u]]
          /\ \A u \in Threads : Call(call'[u])
          /\ call'[t] = quiet /\ \A u \in Threads \ {t} : call'[u] = call[u]
      BY <1>4, <1>6, OneCallGoesOn
    <2>2. InHand(t)' /\ \A u \in Threads : InHand(u)' => u = t
      BY <1>2, <1>4, <2>1 DEF InHand
    <2>3. UpTo(file, n - 1) /\ UpTo(file, n) /\ n > 0
      BY <1>1, <1>3 DEF UpTo
    <2>4. \A u \in Threads : InHand(u)' =>
            call'[u].id = n /\ n > 0 /\ ~call'[u].begun
      BY <1>4, <2>1, <2>2, <2>3
    <2>5. IInv'
      BY <1>1, <1>3, <1>6, <2>1, <2>2, <2>3, <2>4 DEF IInv, Ids
    <2>6. QED
      BY <1>6, <2>5, SameFile
  <1>7. CASE call' = [call EXCEPT ![t] = loud] /\ file' = WriteRow(file, n, "open")
    <2>1. /\ DOMAIN call' = Threads /\ call' = [u \in Threads |-> call'[u]]
          /\ \A u \in Threads : Call(call'[u])
          /\ call'[t] = loud /\ \A u \in Threads \ {t} : call'[u] = call[u]
      BY <1>4, <1>7, OneCallGoesOn
    <2>2. InHand(t)' /\ \A u \in Threads : InHand(u)' => u = t
      BY <1>2, <1>4, <2>1 DEF InHand
    <2>3. PICK r \in Row : /\ Adds(file, file', r) /\ ~IsWhole(r)
                           /\ r.state = "open" /\ r.id \in {NoId, n}
      <3>1. \E r \in Row : /\ Adds(file, WriteRow(file, n, "open"), r)
                           /\ IsWhole(r) => r.id = n /\ "open" = "whole"
                           /\ "open" = "open" => r.state = "open" /\ r.id \in {NoId, n}
        BY <1>1, <1>3, WriteAdds
      <3>2. QED
        BY <1>7, <3>1 DEF IsWhole
    <2>4. n \in Nat /\ n > 0
      BY <1>1
    <2>5. /\ file' \in Seq(Row) /\ OnlyLastUnended(file') /\ Ascending(file') /\ UpTo(file', n)
          /\ ~IsWhole(r) => UpTo(file', n - 1)
          /\ \A i \in DOMAIN file : IsWhole(file[i]) => i \in DOMAIN file' /\ file'[i] = file[i]
          /\ file' # <<>> /\ Last(file') = r
      BY <1>3, <2>3, <2>4, AddedInOrder
    <2>6. \A u \in Threads : InHand(u)' =>
            /\ call'[u].id = n /\ n > 0
            /\ UpTo(file', n - 1)
            /\ file' # <<>> /\ Last(file').state = "open" /\ Last(file').id \in {NoId, n}
      BY <1>4, <2>1, <2>2, <2>3, <2>4, <2>5
    <2>7. IInv'
      BY <1>1, <2>1, <2>2, <2>5, <2>6 DEF IInv
    <2>8. LosesNone
      BY <2>5, FoundAgain
    <2>9. QED
      BY <2>7, <2>8
  <1>8. QED
    BY <1>5, <1>6, <1>7

\* The thread that is inside cuts the file down: from then on it writes into a file that is
\* not there any more.
LEMMA TrimsKeep ==
  ASSUME IInv, NEW t \in Threads, AppendTrims(t)
  PROVE  IInv' /\ LosesNone
  <1>1. /\ InHand(t) /\ call[t].id = appended /\ appended > 0 /\ appended \in Nat
        /\ UpTo(file, appended - 1) /\ \A u \in Threads : InHand(u) => u = t
    BY JournalAssumption DEF AppendTrims, IInv, InHand
  <1>2. Call(call[t]) /\ file \in Seq(Row) /\ OnlyLastUnended(file) /\ Ascending(file)
    BY DEF IInv
  <1> DEFINE cut  == [call[t] EXCEPT !.step = "read", !.detached = TRUE]
             left == [call[t] EXCEPT !.step = "read"]
  <1>3. /\ Call(cut) /\ cut.step = "read" /\ cut.id = appended /\ cut.detached = TRUE
        /\ Call(left) /\ left.step = "read" /\ left.id = appended
        /\ left.begun = call[t].begun /\ left.detached = call[t].detached
    BY <1>1, <1>2 DEF Call
  <1>4. \/ TooLong(file) /\ file' = Trimmed(file) /\ call' = [call EXCEPT ![t] = cut]
        \/ file' = file /\ call' = [call EXCEPT ![t] = left]
    BY DEF AppendTrims, IInv
  <1>5. appended' = appended
    BY DEF AppendTrims
  <1> HIDE DEF cut, left
  <1>6. CASE TooLong(file) /\ file' = Trimmed(file) /\ call' = [call EXCEPT ![t] = cut]
    <2>1. /\ DOMAIN call' = Threads /\ call' = [u \in Threads |-> call'[u]]
          /\ \A u \in Threads : Call(call'[u])
          /\ call'[t] = cut /\ \A u \in Threads \ {t} : call'[u] = call[u]
      BY <1>3, <1>6, OneCallGoesOn
    <2>2. \A u \in Threads : InHand(u)' => u = t
      BY <1>1, <2>1 DEF InHand
    <2>3. /\ file' \in Seq(Row) /\ OnlyLastUnended(file') /\ Ascending(file')
          /\ UpTo(file', appended - 1)
          /\ \A i \in DOMAIN file : IsWhole(file[i]) /\ i + MaxEntries > Len(file) =>
               \E j \in DOMAIN file' : file'[j] = file[i]
      <3>1. appended - 1 \in Int
        BY <1>1
      <3>2. QED
        BY <1>1, <1>2, <1>6, <3>1, TrimmedInOrder
    <2>4. UpTo(file', appended)
      BY <1>1, <2>3 DEF UpTo
    <2>5. IInv'
      <3>1. \A u \in Threads : InHand(u)' =>
              call'[u].id = appended /\ appended > 0 /\ call'[u].detached
        BY <1>1, <1>3, <2>1, <2>2
      <3>2. QED
        BY <1>5, <2>1, <2>2, <2>3, <2>4, <3>1 DEF IInv
    <2>6. LosesNone
      <3>1. \A i \in DOMAIN file : ~(i + MaxEntries > Len(file)) => i + MaxEntries <= Len(file)
        BY <1>2, LenProperties, JournalAssumption
      <3>2. \A i \in DOMAIN file : IsWhole(file[i]) /\ file[i].id \notin Stored(file') =>
              ~(i + MaxEntries > Len(file))
        BY <2>3 DEF Stored
      <3>3. QED
        BY <1>6, <3>1, <3>2 DEF LosesNone
    <2>7. QED
      BY <2>5, <2>6
  <1>7. CASE file' = file /\ call' = [call EXCEPT ![t] = left]
    <2>1. /\ DOMAIN call' = Threads /\ call' = [u \in Threads |-> call'[u]]
          /\ \A u \in Threads : Call(call'[u])
          /\ call'[t] = left /\ \A u \in Threads \ {t} : call'[u] = call[u]
      BY <1>3, <1>7, OneCallGoesOn
    <2>2. \A u \in Threads : InHand(u)' => u = t
      BY <1>1, <2>1 DEF InHand
    <2>3. \A u \in Threads : InHand(u)' =>
            /\ call'[u].id = appended /\ call'[u].begun = call[u].begun
            /\ call'[u].detached = call[u].detached /\ InHand(u)
      BY <1>1, <1>3, <2>1, <2>2
    <2>4. IInv'
      BY <1>5, <1>7, <2>1, <2>2, <2>3 DEF IInv
    <2>5. QED
      BY <1>7, <2>4, SameFile
  <1>8. QED
    BY <1>4, <1>6, <1>7

\* Nobody is inside any more, and the newest entry is the last row, or has been lost.
LEMMA ClosesKeep ==
  ASSUME IInv, NEW t \in Threads, AppendCloses(t)
  PROVE  IInv' /\ LosesNone
  <1>1. /\ call[t].id = appended /\ appended > 0 /\ appended \in Nat /\ appended \in Ids
        /\ UpTo(file, appended - 1) /\ \A u \in Threads : InHand(u) => u = t
        /\ call[t].begun /\ ~call[t].detached =>
             file # <<>> /\ Last(file).state = "open" /\ Last(file).id \in {NoId, appended}
    <2>1. InHand(t)
      BY DEF AppendCloses, InHand
    <2>2. appended \in 0 .. MaxAppends /\ call[t].id = appended /\ appended > 0
      BY <2>1 DEF IInv
    <2>3. appended \in Nat /\ appended \in Ids
      BY <2>2, JournalAssumption DEF Ids
    <2>4. QED
      BY <2>1, <2>2, <2>3 DEF IInv
  <1>2. Call(call[t]) /\ file \in Seq(Row) /\ OnlyLastUnended(file) /\ Ascending(file)
    BY DEF IInv
  <1> DEFINE done == [call[t] EXCEPT !.step = "stored"]
  <1>3. Call(done) /\ done.step = "stored"
    BY <1>2 DEF Call
  <1>4. call' = [call EXCEPT ![t] = done] /\ appended' = appended
    BY DEF AppendCloses
  <1> HIDE DEF done
  <1>5. /\ DOMAIN call' = Threads /\ call' = [u \in Threads |-> call'[u]]
        /\ \A u \in Threads : Call(call'[u])
        /\ call'[t] = done /\ \A u \in Threads \ {t} : call'[u] = call[u]
    BY <1>3, <1>4, OneCallGoesOn
  <1>6. \A u \in Threads : ~InHand(u)'
    BY <1>1, <1>3, <1>5 DEF InHand
  <1>7. /\ file' \in Seq(Row) /\ OnlyLastUnended(file') /\ Ascending(file') /\ UpTo(file', appended)
        /\ LosesNone
    <2>1. CASE call[t].detached
      <3>1. file' = file
        BY <2>1 DEF AppendCloses
      <3>2. UpTo(file, appended)
        BY DEF IInv
      <3>3. QED
        BY <1>2, <3>1, <3>2, SameFile
    <2>2. ASSUME NEW r \in Row, Adds(file, file', r), IsWhole(r) => r.id = appended
          PROVE  /\ file' \in Seq(Row) /\ OnlyLastUnended(file') /\ Ascending(file')
                 /\ UpTo(file', appended) /\ LosesNone
      <3>1. /\ file' \in Seq(Row) /\ OnlyLastUnended(file') /\ Ascending(file')
            /\ UpTo(file', appended)
            /\ \A i \in DOMAIN file : IsWhole(file[i]) => i \in DOMAIN file' /\ file'[i] = file[i]
        BY <1>1, <1>2, <2>2, AddedInOrder
      <3>2. QED
        BY <3>1, FoundAgain
    <2>3. CASE ~call[t].detached /\ call[t].begun
      <3>1. file' = FinishRow(file)
        BY <2>3 DEF AppendCloses
      <3>2. \E r \in Row : Adds(file, file', r) /\ (IsWhole(r) => r.id = appended)
        BY <1>1, <1>2, <2>3, <3>1, FinishAdds
      <3>3. QED
        BY <2>2, <3>2
    <2>4. CASE ~call[t].detached /\ ~call[t].begun
      <3>1. file' = WriteRow(file, appended, "whole")
        BY <1>1, <2>4 DEF AppendCloses
      <3>2. \E r \in Row : /\ Adds(file, WriteRow(file, appended, "whole"), r)
                           /\ IsWhole(r) => r.id = appended /\ "whole" = "whole"
        BY <1>1, <1>2, WriteAdds
      <3>3. QED
        BY <2>2, <3>1, <3>2
    <2>5. QED
      BY <2>1, <2>3, <2>4
  <1>8. IInv'
    BY <1>4, <1>5, <1>6, <1>7 DEF IInv
  <1>9. QED
    BY <1>7, <1>8

\* Outside the block a call changes nothing in the file.
LEMMA OutsideKeeps ==
  ASSUME IInv, NEW t \in Threads, Notify(t) \/ CallListener(t) \/ AppendReturns(t)
  PROVE  IInv' /\ LosesNone
  <1>1. \E c : Call(c) /\ c.step \in {"none", "notifying"} /\ call' = [call EXCEPT ![t] = c]
    <2>1. Call(call[t])
      BY DEF IInv
    <2>2. CASE Notify(t)
      <3> DEFINE c == [call[t] EXCEPT !.step = "notifying", !.todo = listeners]
      <3>1. Call(c) /\ c.step = "notifying"
        BY <2>1 DEF Call
      <3>2. call' = [call EXCEPT ![t] = c]
        BY <2>2 DEF Notify
      <3> HIDE DEF c
      <3>3. QED
        BY <3>1, <3>2
    <2>3. CASE CallListener(t)
      <3> DEFINE c == [call[t] EXCEPT !.todo = Tail(@)]
      <3>1. Call(c) /\ c.step = "notifying"
        BY <2>1, <2>3 DEF Call, CallListener
      <3>2. call' = [call EXCEPT ![t] = c]
        BY <2>3 DEF CallListener
      <3> HIDE DEF c
      <3>3. QED
        BY <3>1, <3>2
    <2>4. CASE AppendReturns(t)
      <3>1. Call(NoCall) /\ NoCall.step = "none"
        BY DEF Call, NoCall
      <3>2. call' = [call EXCEPT ![t] = NoCall]
        BY <2>4 DEF AppendReturns
      <3>3. QED
        BY <3>1, <3>2
    <2>5. QED
      BY <2>2, <2>3, <2>4
  <1>2. PICK c : Call(c) /\ c.step \in {"none", "notifying"} /\ call' = [call EXCEPT ![t] = c]
    BY <1>1
  <1>3. file' = file /\ appended' = appended
    BY DEF Notify, CallListener, AppendReturns
  <1>4. /\ DOMAIN call' = Threads /\ call' = [u \in Threads |-> call'[u]]
        /\ \A u \in Threads : Call(call'[u])
        /\ call'[t] = c /\ \A u \in Threads \ {t} : call'[u] = call[u]
    BY <1>2, OneCallGoesOn
  <1>5. \A u \in Threads : InHand(u)' => InHand(u) /\ call'[u] = call[u]
    BY <1>2, <1>4 DEF InHand
  <1>6. IInv'
    BY <1>3, <1>4, <1>5 DEF IInv
  <1>7. QED
    BY <1>3, <1>6, SameFile

\* remove and clear wait for mutex_, so nobody is inside.
LEMMA RewriteKeeps ==
  ASSUME IInv, ~Locked, UNCHANGED <<call, appended>>,
         file' \in Seq(Row), OnlyLastUnended(file'), Ascending(file'), UpTo(file', appended)
  PROVE  IInv'
  <1>1. \A u \in Threads : ~InHand(u)'
    BY DEF Locked, InHand
  <1>2. QED
    BY <1>1 DEF IInv

LEMMA DeleteKeeps ==
  ASSUME IInv, ConfirmDelete
  PROVE  IInv' /\ LosesNone
  <1>1. /\ ~Locked /\ UNCHANGED <<call, appended>> /\ window.doing = "delete"
        /\ file \in Seq(Row) /\ OnlyLastUnended(file) /\ Ascending(file) /\ UpTo(file, appended)
    BY DEF ConfirmDelete, IInv
  <1>2. CASE file' = file
    BY <1>1, <1>2, RewriteKeeps, SameFile
  <1>3. ASSUME NEW id, file' = Without(file, id)
        PROVE  IInv' /\ LosesNone
    <2> DEFINE n == Len(file)
    <2>1. DOMAIN file = 1 .. n
      BY <1>1, LenProperties
    <2>2. KeptOf(file, id, n, file')
      BY <1>1, <1>3, WithoutKeeps
    <2> HIDE DEF n
    <2>3. /\ file' \in Seq(Row) /\ Ascending(file')
          /\ \A i \in DOMAIN file' : file'[i].state \in {"whole", "garbled"}
          /\ \A i \in DOMAIN file' : IsWhole(file'[i]) =>
               \E j \in DOMAIN file : file[j] = file'[i] /\ file[j].id # id
          /\ \A j \in DOMAIN file : IsWhole(file[j]) /\ file[j].id # id =>
               \E i \in DOMAIN file' : file'[i] = file[j]
      BY <2>1, <2>2 DEF KeptOf
    <2>4. OnlyLastUnended(file')
      BY <2>3 DEF OnlyLastUnended
    <2>5. UpTo(file', appended)
      BY <1>1, <2>3 DEF UpTo
    <2>6. IInv'
      BY <1>1, <2>3, <2>4, <2>5, RewriteKeeps
    <2>7. Stored(file') = Stored(file) \ {id}
      BY <2>3 DEF Stored
    <2>8. \A i \in DOMAIN file : IsWhole(file[i]) /\ file[i].id \notin Stored(file') => file[i].id = id
      BY <2>7 DEF Stored
    <2>9. QED
      BY <1>1, <2>6, <2>7, <2>8 DEF LosesNone
  <1>4. QED
    BY <1>2, <1>3 DEF ConfirmDelete

LEMMA ClearKeeps ==
  ASSUME IInv, ConfirmClear
  PROVE  IInv' /\ LosesNone
  <1>1. ~Locked /\ UNCHANGED <<call, appended>> /\ window.doing = "clear" /\ file' = <<>>
    BY DEF ConfirmClear
  <1>2. /\ file' \in Seq(Row) /\ OnlyLastUnended(file') /\ Ascending(file')
        /\ UpTo(file', appended)
    BY <1>1 DEF OnlyLastUnended, Ascending, UpTo
  <1>3. IInv'
    BY <1>1, <1>2, RewriteKeeps
  <1>4. QED
    BY <1>1, <1>3 DEF LosesNone

\* What is in a stream's buffer is gone; what has reached the file stays.
LEMMA CrashKeeps ==
  ASSUME IInv, Crash
  PROVE  IInv' /\ LosesNone
  <1> DEFINE w == [i \in DOMAIN file |-> IF file[i].state = "open" THEN [file[i] EXCEPT !.state = "torn"]
                                         ELSE file[i]]
  <1>1. file' = w /\ appended' = appended /\ call' = [t \in Threads |-> NoCall]
    BY DEF Crash
  <1>2. /\ file \in Seq(Row) /\ Len(file) \in Nat /\ DOMAIN file = 1 .. Len(file)
        /\ \A i \in DOMAIN file : file[i] \in Row
    BY LenProperties, ElementOfSeq DEF IInv
  <1>3. \A i \in DOMAIN file :
          /\ w[i] \in Row
          /\ w[i].state \in {"open", "torn"} => file[i].state \in {"open", "torn"}
          /\ IsWhole(file[i]) \/ IsWhole(w[i]) => w[i] = file[i]
    BY <1>2 DEF Row, IsWhole
  <1>4. w \in Seq(Row) /\ DOMAIN w = DOMAIN file /\ Len(w) = Len(file)
    <2>1. w \in [1 .. Len(file) -> Row] /\ DOMAIN w = 1 .. Len(file)
      BY <1>2, <1>3
    <2> HIDE DEF w
    <2>2. w \in Seq(Row)
      BY <1>2, <2>1, SeqDef
    <2>3. Len(w) = Len(file)
      BY <1>2, <2>1, <2>2, LenProperties
    <2>4. QED
      BY <1>2, <2>1, <2>2, <2>3
  <1> HIDE DEF w
  <1>5. OnlyLastUnended(w) /\ Ascending(w) /\ UpTo(w, appended)
    BY <1>3, <1>4 DEF OnlyLastUnended, Ascending, UpTo, IInv
  <1>6. \A t \in Threads : Call(call'[t]) /\ ~InHand(t)'
    BY <1>1 DEF Call, NoCall, InHand
  <1>7. DOMAIN call' = Threads /\ call' = [t \in Threads |-> call'[t]]
    BY <1>1
  <1>8. IInv'
    BY <1>1, <1>4, <1>5, <1>6, <1>7 DEF IInv
  <1>9. LosesNone
    BY <1>1, <1>3, <1>4, FoundAgain
  <1>10. QED
    BY <1>8, <1>9

\* The rest of what the GUI thread does leaves the file and the calls alone.
LEMMA RestKeeps ==
  ASSUME IInv, UNCHANGED <<file, call, appended>>
  PROVE  IInv' /\ LosesNone
  BY SameFile DEF IInv, InHand

-----------------------------------------------------------------------------
(* The theorems                                                             *)

LEMMA StepKeeps ==
  ASSUME IInv, [Next]_vars
  PROVE  IInv' /\ LosesNone
  <1>1. ASSUME NEW t \in Threads, AppendWrites(t) \/ ThreadStep(t)
        PROVE  IInv' /\ LosesNone
    BY <1>1, WritesKeep, TrimsKeep, ClosesKeep, OutsideKeeps DEF ThreadStep
  <1>2. CASE ConfirmDelete
    BY <1>2, DeleteKeeps
  <1>3. CASE ConfirmClear
    BY <1>3, ClearKeeps
  <1>4. CASE Crash
    BY <1>4, CrashKeeps
  <1>5. CASE RunClosure \/ Subscribe
    <2>1. UNCHANGED <<file, call, appended>>
      BY <1>5 DEF RunClosure, Subscribe
    <2>2. QED
      BY <2>1, RestKeeps
  <1>6. CASE OpenWindow \/ CloseWindow \/ (\E i \in 1 .. MaxAppends : AskDelete(i)) \/ AskClear \/ Decline
    <2>1. UNCHANGED <<file, call, appended>>
      BY <1>6 DEF OpenWindow, CloseWindow, AskDelete, AskClear, Decline
    <2>2. QED
      BY <2>1, RestKeeps
  <1>7. CASE UNCHANGED vars
    <2>1. UNCHANGED <<file, call, appended>>
      BY <1>7 DEF vars
    <2>2. QED
      BY <2>1, RestKeeps
  <1>8. QED
    BY <1>1, <1>2, <1>3, <1>4, <1>5, <1>6, <1>7 DEF Next, User

\* mutex_ around the whole of append keeps the rows of the two threads apart and in the
\* order in which they were written, whatever crashes, trims and deletes come between.
THEOREM NewestStaysLast == Spec => []NewestLast
  <1>1. Init => IInv
    BY InitHolds
  <1>2. IInv /\ [Next]_vars => IInv'
    BY StepKeeps
  <1>3. IInv => NewestLast
    BY DEF IInv, NewestLast, OnlyLastUnended, Ascending
  <1>4. QED
    BY <1>1, <1>2, <1>3, PTL DEF Spec

\* An entry that is stored is lost only to the user who deletes it or clears the journal,
\* or when max_entries rows stand behind it.
THEOREM StoredEntriesStay == Spec => StoredStays
  <1>1. Init => IInv
    BY InitHolds
  <1>2. IInv /\ [Next]_vars => IInv'
    BY StepKeeps
  <1>3. IInv /\ [Next]_vars => [LosesNone]_vars
    BY StepKeeps
  <1>4. QED
    BY <1>1, <1>2, <1>3, PTL DEF Spec, StoredStays, LosesNone

=============================================================================
