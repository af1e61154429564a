-------------------------- MODULE ShellSessionProofs --------------------------
(***************************************************************************)
(* What holds of the terminal and of the interactive shell for every value *)
(* of their constants: no bytes of the remote end lead outside the grid,   *)
(* and what is written to the remote end arrives in its order.             *)
(***************************************************************************)
EXTENDS ShellSession, SequenceTheorems, WellFoundedInduction, TLAPS

-----------------------------------------------------------------------------
(* Folds over sequences                                                     *)

\* What is true of 0 and of the next of every n up to N is true of all up to N.
LEMMA Below ==
  ASSUME NEW N \in Nat, NEW True \in SUBSET (0 .. N),
         0 \in True, \A n \in 1 .. N : n - 1 \in True => n \in True
  PROVE  True = 0 .. N
  <1> DEFINE R == {p \in Nat \X Nat : p[1] < p[2]}
             S == (0 .. N) \ True
  <1>1. SUFFICES ASSUME S # {} PROVE FALSE
    OBVIOUS
  <1>2. IsWellFoundedOn(R, Nat)
    BY NatLessThanWellFounded DEF OpToRel
  <1>3. S \subseteq Nat
    OBVIOUS
  <1>4. PICK x \in S : \A y \in S : ~(<<y, x>> \in R)
    BY <1>1, <1>2, <1>3, WFMin
  <1>5. x \in 1 .. N /\ x \notin True
    OBVIOUS
  <1>6. x - 1 \in S
    BY <1>5
  <1>7. <<x - 1, x>> \in Nat \X Nat /\ <<x - 1, x>>[1] < <<x - 1, x>>[2]
    BY <1>5
  <1>8. QED
    BY <1>4, <1>6, <1>7

LEMMA MaxIsIt ==
  ASSUME NEW n \in Nat, NEW x \in SUBSET (1 .. n), n \in x
  PROVE  Max(x) = n
  <1>1. n \in x /\ \A y \in x : n >= y
    <2>1. \A y \in x : y \in 1 .. n
      OBVIOUS
    <2>2. QED
      BY <2>1
  <1> DEFINE m == Max(x)
  <1>2. m \in x /\ \A y \in x : m >= y
    BY <1>1 DEF Max
  <1> HIDE DEF m
  <1>3. m >= n /\ n >= m /\ m \in 1 .. n
    BY <1>1, <1>2
  <1>4. m = n
    BY <1>3
  <1>5. QED
    BY <1>4 DEF m

LEMMA MaxIsThere ==
  ASSUME NEW N \in Nat, NEW x \in SUBSET (1 .. N), x # {}
  PROVE  Max(x) \in x
  <1> DEFINE True == {n \in 0 .. N : \A y \in SUBSET (1 .. n) : y # {} => Max(y) \in y}
  <1>1. 0 \in True
    <2>1. \A y \in SUBSET (1 .. 0) : y = {}
      OBVIOUS
    <2>2. \A y \in SUBSET (1 .. 0) : y # {} => Max(y) \in y
      BY <2>1
    <2>3. 0 \in 0 .. N
      OBVIOUS
    <2>4. QED
      BY <2>2, <2>3
  <1>2. ASSUME NEW n \in 1 .. N, n - 1 \in True PROVE n \in True
    <2> SUFFICES ASSUME NEW y \in SUBSET (1 .. n), y # {} PROVE Max(y) \in y
      OBVIOUS
    <2>1. CASE n \in y
      BY <2>1, MaxIsIt
    <2>2. CASE n \notin y
      <3>1. y \in SUBSET (1 .. (n - 1))
        BY <2>2
      <3>2. QED
        BY <1>2, <3>1
    <2>3. QED
      BY <2>1, <2>2
  <1>3. True \in SUBSET (0 .. N)
    OBVIOUS
  <1> HIDE DEF True
  <1>4. True = 0 .. N
    BY <1>1, <1>2, <1>3, Below
  <1>5. QED
    BY <1>4 DEF True

\* A fold of steps, each of which leads from S to S, is there and leads from S to S.
\* g is the function that MapThenFoldSet calls iter.
Folds(g, N, base, step) ==
  \A x \in SUBSET (1 .. N) : g[x] = IF x = {} THEN base ELSE step[Max(x)][g[x \ {Max(x)}]]

LEMMA FoldIsThere ==
  ASSUME NEW S, NEW base \in S, NEW N \in Nat, NEW step \in [1 .. N -> [S -> S]]
  PROVE  \E g \in [SUBSET (1 .. N) -> S] : Folds(g, N, base, step)
  <1> DEFINE There == {n \in 0 .. N : \E g \in [SUBSET (1 .. n) -> S] : Folds(g, n, base, step)}
  <1>1. 0 \in There
    <2> DEFINE g == [x \in SUBSET (1 .. 0) |-> base]
    <2>1. g \in [SUBSET (1 .. 0) -> S]
      OBVIOUS
    <2>2. \A x \in SUBSET (1 .. 0) : x = {}
      OBVIOUS
    <2>3. Folds(g, 0, base, step)
      BY <2>2 DEF Folds
    <2>4. QED
      BY <2>1, <2>3
  <1>2. ASSUME NEW n \in 1 .. N, n - 1 \in There PROVE n \in There
    <2>1. PICK g \in [SUBSET (1 .. (n - 1)) -> S] : Folds(g, n - 1, base, step)
      BY <1>2
    <2> DEFINE h == [x \in SUBSET (1 .. n) |-> IF n \in x THEN step[n][g[x \ {n}]] ELSE g[x]]
    <2>2. \A x \in SUBSET (1 .. n) : x \ {n} \in SUBSET (1 .. (n - 1))
      OBVIOUS
    <2>3. \A x \in SUBSET (1 .. n) : n \notin x => x \in SUBSET (1 .. (n - 1))
      OBVIOUS
    <2>4. h \in [SUBSET (1 .. n) -> S]
      BY <2>2, <2>3
    <2>5. ASSUME NEW x \in SUBSET (1 .. n)
          PROVE  h[x] = IF x = {} THEN base ELSE step[Max(x)][h[x \ {Max(x)}]]
      <3>1. CASE n \in x
        <4>1. Max(x) = n
          BY <3>1, MaxIsIt
        <4>2. x \ {n} \in SUBSET (1 .. n) /\ n \notin x \ {n}
          OBVIOUS
        <4>3. h[x \ {n}] = g[x \ {n}] /\ h[x] = step[n][g[x \ {n}]] /\ x # {}
          BY <3>1, <4>2
        <4>4. QED
          BY <4>1, <4>3
      <3>2. CASE n \notin x
        <4>1. x \in SUBSET (1 .. (n - 1)) /\ x \ {Max(x)} \in SUBSET (1 .. (n - 1))
          BY <2>3, <3>2
        <4>2. x \ {Max(x)} \in SUBSET (1 .. n) /\ n \notin x \ {Max(x)}
          BY <3>2
        <4>3. h[x] = g[x] /\ h[x \ {Max(x)}] = g[x \ {Max(x)}]
          BY <2>5, <3>2, <4>2
        <4>4. g[x] = IF x = {} THEN base ELSE step[Max(x)][g[x \ {Max(x)}]]
          BY <2>1, <4>1 DEF Folds
        <4>5. QED
          BY <4>3, <4>4
      <3>3. QED
        BY <3>1, <3>2
    <2> HIDE DEF h
    <2>6. Folds(h, n, base, step)
      BY <2>5 DEF Folds
    <2>7. n \in 0 .. N
      OBVIOUS
    <2>8. QED
      BY <2>4, <2>6, <2>7
  <1>3. There \in SUBSET (0 .. N)
    OBVIOUS
  <1> HIDE DEF There
  <1>4. There = 0 .. N
    BY <1>1, <1>2, <1>3, Below
  <1>5. N \in There
    BY <1>4
  <1>6. QED
    BY <1>5 DEF There

\* Whatever iter is: if it starts in S and each step keeps it there, it ends there.
LEMMA FoldStaysWithin ==
  ASSUME NEW S, NEW N \in Nat, NEW iter, iter[{}] \in S,
         \A x \in SUBSET (1 .. N) : x # {} /\ iter[x \ {Max(x)}] \in S => iter[x] \in S
  PROVE  iter[1 .. N] \in S
  <1> DEFINE Right == {n \in 0 .. N : iter[1 .. n] \in S}
  <1>1. 0 \in Right
    <2>1. 1 .. 0 = {}
      OBVIOUS
    <2>2. QED
      BY <2>1
  <1>2. ASSUME NEW n \in 1 .. N, n - 1 \in Right PROVE n \in Right
    <2>1. 1 .. n \in SUBSET (1 .. N) /\ n \in 1 .. n /\ (1 .. n) \ {n} = 1 .. (n - 1)
      OBVIOUS
    <2>2. Max(1 .. n) = n
      BY <2>1, MaxIsIt
    <2>3. iter[1 .. n] \in S
      BY <1>2, <2>1, <2>2
    <2>4. QED
      BY <2>3
  <1>3. Right \in SUBSET (0 .. N)
    OBVIOUS
  <1> HIDE DEF Right
  <1>4. Right = 0 .. N
    BY <1>1, <1>2, <1>3, Below
  <1>5. QED
    BY <1>4 DEF Right

-----------------------------------------------------------------------------
(* The terminal                                                             *)

\* A colour fits a byte, whatever the remote end asks for.
Pens  == [fg : Byte, bg : Byte, attrs : {0, 1}]
Cells == [ch : Nat, pen : Pens]
Grids(c, r)   == [0 .. r - 1 -> [0 .. c - 1 -> Cells]]
Screens(c, r) == [cells : Grids(c, r), cx : 0 .. c, cy : 0 .. r - 1, visible : BOOLEAN]
Rows  == UNION {[0 .. w - 1 -> Cells] : w \in Nat}
Positions == [line : Int, col : Int]

\* What the scrollback keeps, what a sequence has collected, and the beginning of a
\* character.
Histories   == {s \in Seq(Rows) : Len(s) <= MaxScrollback}
Collections == {s \in Seq(Byte) : Len(s) <= Greatest(MaxSeq, MaxOsc)}
Beginnings  == {s \in Seq(Byte) : Len(s) < 4}

\* The terminals with c columns and r rows.
Terminals(c, r) ==
  [cols : {c}, rows : {r}, last_sent : Int \X Int,
   primary : Screens(c, r), alt : Screens(c, r), alt_active : BOOLEAN,
   scrollback : Histories, view_offset : Nat,
   state : {"Ground", "Esc", "Csi", "Osc", "OscEsc"},
   seq : Collections,
   csi_priv : BOOLEAN, utf8_hold : Beginnings, pen : Pens,
   swallow_on : BOOLEAN, swallow_nl : BOOLEAN, swallow_echo : Seq(Byte), swallow_i : Nat,
   sel_on : BOOLEAN, sel_drag : BOOLEAN, sel_a : Positions, sel_b : Positions,
   replies : Seq(Nat \X Nat)]

LEMMA ScreenOf ==
  ASSUME NEW c, NEW r, NEW t \in Terminals(c, r)
  PROVE  /\ Scr(t) \in Screens(c, r) /\ t.cols = c /\ t.rows = r
         /\ Scr(t).cells \in Grids(c, r) /\ Scr(t).cx \in 0 .. c /\ Scr(t).cy \in 0 .. r - 1
  BY DEF Terminals, Scr, Screens

LEMMA PartsOf ==
  ASSUME NEW c, NEW r, NEW t \in Terminals(c, r)
  PROVE  /\ t.scrollback \in Seq(Rows) /\ Len(t.scrollback) <= MaxScrollback
         /\ t.seq \in Seq(Byte) /\ Len(t.seq) <= Greatest(MaxSeq, MaxOsc)
         /\ t.utf8_hold \in Seq(Byte) /\ Len(t.utf8_hold) < 4
  <1>1. t.scrollback \in Histories /\ t.seq \in Collections /\ t.utf8_hold \in Beginnings
    BY DEF Terminals
  <1>2. QED
    BY <1>1 DEF Histories, Collections, Beginnings

LEMMA NothingIsKept == <<>> \in Histories /\ <<>> \in Collections /\ <<>> \in Beginnings
  <1>1. <<>> \in Seq(Rows) /\ <<>> \in Seq(Byte) /\ Len(<<>>) = 0
    OBVIOUS
  <1>2. 0 <= MaxScrollback /\ 0 <= Greatest(MaxSeq, MaxOsc)
    BY TerminalAssumption DEF Greatest
  <1>3. QED
    BY <1>1, <1>2 DEF Histories, Collections, Beginnings

LEMMA ScreenPut ==
  ASSUME NEW c, NEW r, NEW t \in Terminals(c, r), NEW s \in Screens(c, r)
  PROVE  WithScr(t, s) \in Terminals(c, r) /\ Scr(WithScr(t, s)) = s
  BY DEF Terminals, Scr, WithScr

LEMMA CursorPut ==
  ASSUME NEW c, NEW r, NEW t \in Terminals(c, r), NEW x \in 0 .. c, NEW y \in 0 .. r - 1
  PROVE  /\ AtCursor(t, x, y) \in Terminals(c, r)
         /\ Scr(AtCursor(t, x, y)).cx = x /\ Scr(AtCursor(t, x, y)).cy = y
  <1> DEFINE o == Scr(t)
             s == [o EXCEPT !.cx = x, !.cy = y]
  <1>1. o \in Screens(c, r)
    BY ScreenOf
  <1>2. AtCursor(t, x, y) = WithScr(t, s)
    BY DEF AtCursor
  <1> HIDE DEF o
  <1>3. s \in Screens(c, r) /\ s.cx = x /\ s.cy = y
    BY <1>1 DEF Screens
  <1> HIDE DEF s
  <1>4. QED
    BY <1>2, <1>3, ScreenPut

LEMMA PrivUnset ==
  ASSUME NEW c, NEW r, NEW t \in Terminals(c, r)
  PROVE  [t EXCEPT !.csi_priv = FALSE] \in Terminals(c, r)
  BY DEF Terminals

LEMMA SelectionPut ==
  ASSUME NEW c, NEW r, NEW t \in Terminals(c, r), NEW p \in Positions, NEW on \in BOOLEAN,
         NEW drag \in BOOLEAN
  PROVE  [t EXCEPT !.sel_b = p, !.sel_on = on, !.sel_drag = drag] \in Terminals(c, r)
  BY ZenonT(30) DEF Terminals

LEMMA CellsPut ==
  ASSUME NEW c, NEW r, NEW t \in Terminals(c, r), NEW g \in Grids(c, r)
  PROVE  /\ WithScr(t, [Scr(t) EXCEPT !.cells = g]) \in Terminals(c, r)
         /\ Scr(WithScr(t, [Scr(t) EXCEPT !.cells = g])) = [Scr(t) EXCEPT !.cells = g]
  <1> DEFINE s == [Scr(t) EXCEPT !.cells = g]
  <1>1. s \in Screens(c, r)
    BY ScreenOf DEF Screens
  <1> HIDE DEF s
  <1>2. WithScr(t, s) \in Terminals(c, r) /\ Scr(WithScr(t, s)) = s
    BY <1>1, ScreenPut
  <1>3. QED
    BY <1>2 DEF s

LEMMA CellOf ==
  ASSUME NEW c, NEW r, NEW s \in Screens(c, r), NEW y \in 0 .. r - 1, NEW x \in 0 .. c - 1
  PROVE  s.cells[y][x] \in Cells
  <1>1. s.cells \in Grids(c, r)
    BY DEF Screens
  <1>2. QED
    BY <1>1 DEF Grids

LEMMA BlankIsACell == Blank \in Cells /\ DefaultPen \in Pens
  BY DEF Blank, Cells, DefaultPen, Pens, Byte

LEMMA BlankIsAGrid ==
  ASSUME NEW c \in Nat \ {0}, NEW r \in Nat \ {0}
  PROVE  BlankCells(c, r) \in Grids(c, r) /\ NewScreen(c, r) \in Screens(c, r)
  <1>1. BlankCells(c, r) \in Grids(c, r)
    BY BlankIsACell DEF BlankCells, Grid, Grids
  <1>2. QED
    BY <1>1 DEF NewScreen, Screens

\* A new terminal, and one that is reset.
LEMMA NewIsATerminal ==
  ASSUME NEW c \in Nat \ {0}, NEW r \in Nat \ {0}
  PROVE  NewTerminal(c, r) \in Terminals(c, r)
  <1>1. /\ <<>> \in Seq(Byte) /\ <<>> \in Seq(Nat \X Nat)
        /\ NoPos \in Positions /\ <<0, 0>> \in Int \X Int
    BY DEF NoPos, Positions
  <1> DEFINE s == NewScreen(c, r)
  <1>2. s \in Screens(c, r) /\ DefaultPen \in Pens
    BY BlankIsAGrid, BlankIsACell
  <1> HIDE DEF s
  <1>3. QED
    BY <1>1, <1>2, NothingIsKept DEF NewTerminal, Terminals, s

LEMMA ResetIsATerminal ==
  ASSUME NEW c \in Nat \ {0}, NEW r \in Nat \ {0}, NEW t \in Terminals(c, r)
  PROVE  Reset(t) \in Terminals(c, r)
  <1> DEFINE new == NewTerminal(c, r)
  <1>1. new \in Terminals(c, r) /\ t.cols = c /\ t.rows = r
    BY NewIsATerminal, ScreenOf
  <1>2. Reset(t) = [new EXCEPT !.last_sent = t.last_sent, !.replies = t.replies,
                               !.csi_priv = t.csi_priv, !.sel_a = t.sel_a, !.sel_b = t.sel_b]
    BY <1>1 DEF Reset
  <1> DEFINE sent == t.last_sent
             replies == t.replies
             priv == t.csi_priv
             a == t.sel_a
             b == t.sel_b
  <1>3. /\ sent \in Int \X Int /\ replies \in Seq(Nat \X Nat) /\ priv \in BOOLEAN
        /\ a \in Positions /\ b \in Positions
    BY DEF Terminals
  <1> HIDE DEF new, sent, replies, priv, a, b
  <1>4. [new EXCEPT !.last_sent = sent, !.replies = replies, !.csi_priv = priv, !.sel_a = a, !.sel_b = b]
          \in Terminals(c, r)
    BY <1>1, <1>3 DEF Terminals
  <1>5. QED
    BY <1>2, <1>4 DEF sent, replies, priv, a, b

\* scroll_up keeps at most kMaxScrollback rows.
LEMMA LastRowsAreFew ==
  ASSUME NEW rows \in Seq(Rows)
  PROVE  LastRows(rows) \in Seq(Rows) /\ Len(LastRows(rows)) <= MaxScrollback
  <1> DEFINE n == Len(rows)
             m == Greatest(1, n - MaxScrollback + 1)
  <1>1. n \in Nat /\ MaxScrollback \in Nat \ {0} /\ \A i \in 1 .. n : rows[i] \in Rows
    BY TerminalAssumption, LenProperties, ElementOfSeq
  <1>2. m \in Nat \ {0} /\ m >= n - MaxScrollback + 1 /\ LastRows(rows) = SubSeq(rows, m, n)
    BY <1>1 DEF Greatest, LastRows
  <1> HIDE DEF n, m
  <1>3. \A i \in m .. n : rows[i] \in Rows
    BY <1>1, <1>2
  <1>4. /\ SubSeq(rows, m, n) \in Seq(Rows)
        /\ Len(SubSeq(rows, m, n)) = IF m <= n THEN n - m + 1 ELSE 0
    BY <1>1, <1>2, <1>3, SubSeqProperties
  <1>5. QED
    BY <1>1, <1>2, <1>4

LEMMA RowIsARow ==
  ASSUME NEW c \in Nat, NEW r \in Nat \ {0}, NEW s \in Screens(c, r)
  PROVE  s.cells[0] \in Rows
  <1>1. s.cells[0] \in [0 .. c - 1 -> Cells]
    BY DEF Screens, Grids
  <1>2. QED
    BY <1>1 DEF Rows

LEMMA ScrolledUp ==
  ASSUME NEW c \in Nat \ {0}, NEW r \in Nat \ {0}, NEW t \in Terminals(c, r), NEW n \in Nat
  PROVE  /\ ScrollUp(t, n) \in Terminals(c, r)
         /\ Scr(ScrollUp(t, n)).cx = Scr(t).cx /\ Scr(ScrollUp(t, n)).cy = Scr(t).cy
  <1> DEFINE s    == Scr(t)
             more == t.scrollback \o [i \in 1 .. n |-> s.cells[0]]
             kept == IF t.alt_active THEN t.scrollback ELSE LastRows(more)
             g    == [y \in 0 .. r - 1 |-> [x \in 0 .. c - 1 |->
                        IF y < r - n THEN s.cells[y + n][x] ELSE Blank]]
             u    == WithScr(t, [s EXCEPT !.cells = g])
             v    == IF ~t.alt_active /\ u.view_offset > 0
                     THEN Least(u.view_offset + n, Len(kept)) ELSE u.view_offset
  <1>1. s \in Screens(c, r) /\ t.cols = c /\ t.rows = r
    BY ScreenOf
  <1>2. t.scrollback \in Seq(Rows) /\ Len(t.scrollback) <= MaxScrollback
    BY PartsOf
  <1>3. kept \in Seq(Rows) /\ Len(kept) <= MaxScrollback
    <2>1. s.cells[0] \in Rows
      BY <1>1, RowIsARow
    <2> HIDE DEF s
    <2>2. [i \in 1 .. n |-> s.cells[0]] \in [1 .. n -> Rows]
      BY <2>1
    <2>3. [i \in 1 .. n |-> s.cells[0]] \in Seq(Rows)
      BY <2>2, SeqDef
    <2>4. more \in Seq(Rows)
      BY <1>2, <2>3, ConcatProperties
    <2> HIDE DEF more
    <2>5. QED
      BY <1>2, <2>4, LastRowsAreFew
  <1>4. g \in Grids(c, r)
    <2> HIDE DEF s
    <2>1. \A y \in 0 .. r - 1 : y < r - n => y + n \in 0 .. r - 1
      OBVIOUS
    <2>2. \A y \in 0 .. r - 1, x \in 0 .. c - 1 :
            (IF y < r - n THEN s.cells[y + n][x] ELSE Blank) \in Cells
      BY <1>1, <2>1, CellOf, BlankIsACell
    <2>3. QED
      BY <2>2 DEF Grids
  <1>5. ScrollUp(t, n) = [u EXCEPT !.scrollback = kept, !.view_offset = v]
    BY <1>1 DEF ScrollUp, Grid
  <1> HIDE DEF g, kept
  <1>6. u \in Terminals(c, r) /\ Scr(u) = [s EXCEPT !.cells = g]
    BY <1>4, CellsPut
  <1>7. [s EXCEPT !.cells = g].cx = s.cx /\ [s EXCEPT !.cells = g].cy = s.cy
    BY <1>1 DEF Screens
  <1> HIDE DEF u, s
  <1>8. v \in Nat
    <2>1. u.view_offset \in Nat /\ Len(kept) \in Nat
      BY <1>3, <1>6, LenProperties DEF Terminals
    <2>2. QED
      BY <2>1 DEF Least
  <1> HIDE DEF v
  <1>9. [u EXCEPT !.scrollback = kept, !.view_offset = v] \in Terminals(c, r)
    <2>1. kept \in Histories
      BY <1>3 DEF Histories
    <2>2. QED
      BY <1>6, <1>8, <2>1 DEF Terminals
  <1>10. Scr([u EXCEPT !.scrollback = kept, !.view_offset = v]) = Scr(u)
    BY <1>6 DEF Scr, Terminals
  <1>11. QED
    BY <1>5, <1>6, <1>7, <1>9, <1>10 DEF s

LEMMA WithNewline ==
  ASSUME NEW c \in Nat \ {0}, NEW r \in Nat \ {0}, NEW t \in Terminals(c, r)
  PROVE  Newline(t) \in Terminals(c, r) /\ Scr(Newline(t)).cx = Scr(t).cx
  <1> DEFINE y == Scr(t).cy + 1
             x == Scr(t).cx
  <1>1. x \in 0 .. c /\ y \in 1 .. r /\ t.rows = r
    BY ScreenOf
  <1>2. Newline(t) = IF y >= r THEN ScrollUp(AtCursor(t, x, r - 1), 1) ELSE AtCursor(t, x, y)
    BY <1>1 DEF Newline
  <1> HIDE DEF x, y
  <1>3. CASE y >= r
    <2>1. /\ AtCursor(t, x, r - 1) \in Terminals(c, r)
          /\ Scr(AtCursor(t, x, r - 1)).cx = x
      BY <1>1, CursorPut
    <2>2. QED
      BY <1>2, <1>3, <2>1, ScrolledUp DEF x
  <1>4. CASE ~(y >= r)
    <2>1. y \in 0 .. r - 1
      BY <1>1, <1>4
    <2>2. /\ AtCursor(t, x, y) \in Terminals(c, r)
          /\ Scr(AtCursor(t, x, y)).cx = x
      BY <1>1, <2>1, CursorPut
    <2>3. QED
      BY <1>2, <1>4, <2>2 DEF x
  <1>5. QED
    BY <1>3, <1>4

\* The cell that at(x, y) stands for is one of the grid.
LEMMA AtIsInside ==
  ASSUME NEW c \in Nat \ {0}, NEW r \in Nat \ {0}, NEW t \in Terminals(c, r),
         NEW x \in Int, NEW y \in Int
  PROVE  Column(t, x) \in 0 .. c - 1 /\ Line(t, y) \in 0 .. r - 1
  BY ScreenOf DEF Column, Line, Clamp

LEMMA WithChar ==
  ASSUME NEW c \in Nat \ {0}, NEW r \in Nat \ {0}, NEW t \in Terminals(c, r), NEW ch \in Nat
  PROVE  PutChar(t, ch) \in Terminals(c, r)
  <1> DEFINE u == IF Scr(t).cx >= t.cols THEN Newline(AtCursor(t, 0, Scr(t).cy)) ELSE t
  <1>1. Scr(t).cx \in 0 .. c /\ Scr(t).cy \in 0 .. r - 1 /\ t.cols = c
    BY ScreenOf
  <1>2. u \in Terminals(c, r) /\ Scr(u).cx \in 0 .. c - 1
    <2>1. CASE Scr(t).cx >= t.cols
      <3> DEFINE y == Scr(t).cy
                 a == AtCursor(t, 0, y)
      <3>1. y \in 0 .. r - 1 /\ 0 \in 0 .. c /\ 0 \in 0 .. c - 1
        BY <1>1
      <3>2. u = Newline(a)
        BY <2>1
      <3> HIDE DEF u, y
      <3>3. a \in Terminals(c, r) /\ Scr(a).cx = 0
        BY <3>1, CursorPut
      <3> HIDE DEF a
      <3>4. Newline(a) \in Terminals(c, r) /\ Scr(Newline(a)).cx = 0
        BY <3>3, WithNewline
      <3>5. QED
        BY <3>1, <3>2, <3>4
    <2>2. CASE ~(Scr(t).cx >= t.cols)
      BY <1>1, <2>2
    <2>3. QED
      BY <2>1, <2>2
  <1> DEFINE s == Scr(u)
             y == Line(u, s.cy)
             x == Column(u, s.cx)
             w == [s EXCEPT !.cells[y][x] = [ch |-> ch, pen |-> u.pen], !.cx = @ + 1]
  <1>3. PutChar(t, ch) = WithScr(u, w)
    BY DEF PutChar
  <1> HIDE DEF u
  <1>4. /\ s \in Screens(c, r) /\ s.cx \in 0 .. c - 1 /\ s.cx \in Int /\ s.cy \in Int
        /\ u.pen \in Pens
    <2>1. s \in Screens(c, r) /\ s.cx \in 0 .. c - 1 /\ s.cy \in 0 .. r - 1
      BY <1>2, ScreenOf
    <2>2. u.pen \in Pens
      BY <1>2 DEF Terminals
    <2> HIDE DEF s
    <2>3. QED
      BY <2>1, <2>2
  <1>5. x \in 0 .. c - 1 /\ y \in 0 .. r - 1
    BY <1>2, <1>4, AtIsInside
  <1> HIDE DEF x, y, s
  <1>6. [ch |-> ch, pen |-> u.pen] \in Cells
    BY <1>4 DEF Cells
  <1> DEFINE g == [s.cells EXCEPT ![y][x] = [ch |-> ch, pen |-> u.pen]]
  <1>7. g \in Grids(c, r)
    BY <1>4, <1>5, <1>6 DEF Screens, Grids
  <1>8. w = [s EXCEPT !.cells = g, !.cx = @ + 1]
    OBVIOUS
  <1> HIDE DEF g
  <1>9. s.cx + 1 \in 0 .. c
    BY <1>4
  <1>10. w \in Screens(c, r)
    BY <1>4, <1>7, <1>8, <1>9 DEF Screens
  <1> HIDE DEF w
  <1>11. QED
    BY <1>2, <1>3, <1>10, ScreenPut

-----------------------------------------------------------------------------
(* The parameters of a sequence                                             *)

LEMMA MinIsThere ==
  ASSUME NEW S, S \subseteq Nat, S # {}
  PROVE  Min(S) \in S
  <1> DEFINE R == {p \in Nat \X Nat : p[1] < p[2]}
  <1>1. IsWellFoundedOn(R, Nat)
    BY NatLessThanWellFounded DEF OpToRel
  <1>2. PICK x \in S : \A y \in S : ~(<<y, x>> \in R)
    BY <1>1, WFMin
  <1>3. ASSUME NEW y \in S PROVE x <= y
    <2>1. <<y, x>> \in Nat \X Nat /\ <<y, x>>[1] = y /\ <<y, x>>[2] = x
      OBVIOUS
    <2>2. ~(y < x)
      BY <1>2, <2>1
    <2>3. QED
      BY <2>2
  <1>4. QED
    BY <1>3 DEF Min

\* atoi of what has been cut: the digits add up to a number.
LEMMA DigitsAddUp ==
  ASSUME NEW q \in Seq(Byte)
  PROVE  FoldLeft(LAMBDA m, b : 10 * m + (b - Ch.zero), 0, q) \in Int
  <1> DEFINE n    == Len(q)
             next(u, i) == 10 * u + (q[i] - Ch.zero)
             step == [i \in 1 .. n |-> [u \in Int |-> next(u, i)]]
             iter == CHOOSE f : f = [x \in SUBSET (1 .. n) |->
                       IF x = {} THEN 0 ELSE next(f[x \ {Max(x)}], Max(x))]
  <1>1. n \in Nat /\ DOMAIN q = 1 .. n
    BY LenProperties
  <1>2. 0 \in Int /\ \A i \in 1 .. n, u \in Int : next(u, i) \in Int
    <2>1. \A i \in 1 .. n : q[i] \in Byte
      BY ElementOfSeq
    <2>2. \A i \in 1 .. n : q[i] \in Int
      <3>1. Byte \subseteq Int
        BY DEF Byte
      <3>2. QED
        BY <2>1, <3>1
    <2>3. Ch.zero \in Int
      BY DEF Ch
    <2>4. ASSUME NEW i \in 1 .. n, NEW u \in Int PROVE 10 * u + (q[i] - Ch.zero) \in Int
      <3>1. q[i] \in Int
        BY <2>2
      <3> HIDE DEF n
      <3>2. QED
        BY <2>3, <3>1
    <2>5. QED
      BY <2>4
  <1>3. FoldLeft(LAMBDA m, b : 10 * m + (b - Ch.zero), 0, q) = iter[1 .. n]
    BY <1>1 DEF FoldLeft, MapThenFoldSet
  <1> HIDE DEF n, next
  <1>4. step \in [1 .. n -> [Int -> Int]]
    BY <1>2
  <1>5. PICK g \in [SUBSET (1 .. n) -> Int] : Folds(g, n, 0, step)
    <2> HIDE DEF step
    <2>1. QED
      BY <1>1, <1>2, <1>4, FoldIsThere
  <1>6. g = [x \in SUBSET (1 .. n) |->
               IF x = {} THEN 0 ELSE next(g[x \ {Max(x)}], Max(x))]
    <2>1. ASSUME NEW x \in SUBSET (1 .. n)
          PROVE  g[x] = IF x = {} THEN 0 ELSE next(g[x \ {Max(x)}], Max(x))
      <3>1. x # {} => Max(x) \in 1 .. n
        BY <1>1, MaxIsThere
      <3>2. g[x \ {Max(x)}] \in Int
        OBVIOUS
      <3>3. QED
        BY <1>5, <3>1, <3>2 DEF Folds
    <2>2. QED
      BY <2>1
  <1>7. iter = [x \in SUBSET (1 .. n) |->
                  IF x = {} THEN 0 ELSE next(iter[x \ {Max(x)}], Max(x))]
    BY <1>6
  <1> HIDE DEF iter, step
  <1>8. iter[{}] \in Int
    BY <1>2, <1>7
  <1>9. ASSUME NEW x \in SUBSET (1 .. n), x # {}, iter[x \ {Max(x)}] \in Int
        PROVE  iter[x] \in Int
    <2>1. Max(x) \in 1 .. n
      BY <1>1, <1>9, MaxIsThere
    <2>2. iter[x] = next(iter[x \ {Max(x)}], Max(x))
      BY <1>7, <1>9
    <2>3. QED
      BY <1>2, <1>9, <2>1, <2>2
  <1>10. iter[1 .. n] \in Int
    BY <1>1, <1>8, <1>9, FoldStaysWithin
  <1>11. QED
    BY <1>3, <1>10

\* A part of a sequence of bytes that starts at its beginning.
LEMMA BeginningOf ==
  ASSUME NEW q \in Seq(Byte), NEW m \in Int, m <= Len(q)
  PROVE  SubSeq(q, 1, m) \in Seq(Byte)
  <1>1. \A i \in 1 .. m : q[i] \in Byte
    BY LenProperties, ElementOfSeq
  <1>2. QED
    BY <1>1, SubSeqProperties

LEMMA AtoiIsANumber ==
  ASSUME NEW q \in Seq(Byte)
  PROVE  Atoi(q) \in Int
  <1> DEFINE signed == q # <<>> /\ Head(q) \in {Ch.minus, Ch.plus}
             body   == IF signed THEN Tail(q) ELSE q
             stops  == {i \in DOMAIN body : body[i] \notin Ch.zero .. Ch.nine}
             ends   == IF stops = {} THEN Len(body) ELSE Min(stops) - 1
             value  == FoldLeft(LAMBDA m, b : 10 * m + (b - Ch.zero), 0, SubSeq(body, 1, ends))
  <1>1. body \in Seq(Byte)
    BY HeadTailProperties
  <1>2. ends \in Int /\ ends <= Len(body)
    <2>1. Len(body) \in Nat /\ DOMAIN body = 1 .. Len(body)
      BY <1>1, LenProperties
    <2>2. stops \subseteq DOMAIN body
      OBVIOUS
    <2> HIDE DEF stops, body
    <2>3. stops \subseteq 1 .. Len(body) /\ stops \subseteq Nat
      BY <2>1, <2>2
    <2>4. CASE stops = {}
      BY <2>1, <2>4
    <2>5. CASE stops # {}
      <3>1. Min(stops) \in stops
        BY <2>3, <2>5, MinIsThere
      <3>2. Min(stops) \in 1 .. Len(body)
        BY <2>3, <3>1
      <3>3. ends = Min(stops) - 1
        BY <2>5
      <3>4. QED
        BY <2>1, <3>2, <3>3
    <2>6. QED
      BY <2>4, <2>5
  <1>3. Atoi(q) = IF signed /\ Head(q) = Ch.minus THEN -value ELSE value
    BY DEF Atoi
  <1> HIDE DEF body, ends
  <1>4. value \in Int
    BY <1>1, <1>2, BeginningOf, DigitsAddUp
  <1> HIDE DEF value, signed
  <1>5. QED
    BY <1>3, <1>4

\* The pieces between the semicolons: at least one.
Pieces == {a \in Seq(Seq(Byte)) : Len(a) >= 1}

LEMMA CutInPieces ==
  ASSUME NEW q \in Seq(Byte)
  PROVE  FoldLeft(LAMBDA acc, b : IF b = Ch.semi THEN Append(acc, <<>>)
                                  ELSE [acc EXCEPT ![Len(acc)] = Append(@, b)], <<<<>>>>, q) \in Pieces
  <1> DEFINE n    == Len(q)
             next(u, i) == (IF q[i] = Ch.semi THEN Append(u, <<>>) ELSE [u EXCEPT ![Len(u)] = Append(@, q[i])])
             step == [i \in 1 .. n |-> [u \in Pieces |-> next(u, i)]]
             iter == CHOOSE f : f = [x \in SUBSET (1 .. n) |->
                       IF x = {} THEN <<<<>>>> ELSE next(f[x \ {Max(x)}], Max(x))]
  <1>1. n \in Nat /\ DOMAIN q = 1 .. n
    BY LenProperties
  <1>2. <<<<>>>> \in Pieces /\ \A i \in 1 .. n, u \in Pieces : next(u, i) \in Pieces
    <2>1. ASSUME NEW i \in 1 .. n, NEW u \in Pieces
          PROVE  /\ Append(u, <<>>) \in Pieces
                 /\ [u EXCEPT ![Len(u)] = Append(@, q[i])] \in Pieces
      <3>1. /\ q[i] \in Byte /\ u \in Seq(Seq(Byte)) /\ Len(u) \in Nat /\ Len(u) \in 1 .. Len(u)
            /\ Len(u) >= 1
        BY ElementOfSeq, LenProperties DEF Pieces
      <3>2. u[Len(u)] \in Seq(Byte)
        BY <3>1, ElementOfSeq
      <3>3. Append(u[Len(u)], q[i]) \in Seq(Byte) /\ <<>> \in Seq(Byte)
        BY <3>1, <3>2
      <3>4. Append(u, <<>>) \in Pieces
        <4>1. Append(u, <<>>) \in Seq(Seq(Byte)) /\ Len(Append(u, <<>>)) = Len(u) + 1
          BY <3>1, <3>3
        <4>2. QED
          BY <3>1, <4>1 DEF Pieces
      <3>5. [u EXCEPT ![Len(u)] = Append(@, q[i])] \in Pieces
        BY <3>1, <3>2, <3>3, ExceptSeq DEF Pieces
      <3>6. QED
        BY <3>4, <3>5
    <2>2. <<<<>>>> \in Pieces
      BY DEF Pieces
    <2>3. QED
      BY <2>1, <2>2
  <1>3. FoldLeft(LAMBDA acc, b : IF b = Ch.semi THEN Append(acc, <<>>)
                                       ELSE [acc EXCEPT ![Len(acc)] = Append(@, b)], <<<<>>>>, q) = iter[1 .. n]
    BY <1>1 DEF FoldLeft, MapThenFoldSet
  <1> HIDE DEF n, next
  <1>4. step \in [1 .. n -> [Pieces -> Pieces]]
    BY <1>2
  <1>5. PICK g \in [SUBSET (1 .. n) -> Pieces] : Folds(g, n, <<<<>>>>, step)
    <2> HIDE DEF step
    <2>1. QED
      BY <1>1, <1>2, <1>4, FoldIsThere
  <1>6. g = [x \in SUBSET (1 .. n) |->
               IF x = {} THEN <<<<>>>> ELSE next(g[x \ {Max(x)}], Max(x))]
    <2>1. ASSUME NEW x \in SUBSET (1 .. n)
          PROVE  g[x] = IF x = {} THEN <<<<>>>> ELSE next(g[x \ {Max(x)}], Max(x))
      <3>1. x # {} => Max(x) \in 1 .. n
        BY <1>1, MaxIsThere
      <3>2. g[x \ {Max(x)}] \in Pieces
        OBVIOUS
      <3>3. QED
        BY <1>5, <3>1, <3>2 DEF Folds
    <2>2. QED
      BY <2>1
  <1>7. iter = [x \in SUBSET (1 .. n) |->
                  IF x = {} THEN <<<<>>>> ELSE next(iter[x \ {Max(x)}], Max(x))]
    BY <1>6
  <1> HIDE DEF iter, step
  <1>8. iter[{}] \in Pieces
    BY <1>2, <1>7
  <1>9. ASSUME NEW x \in SUBSET (1 .. n), x # {}, iter[x \ {Max(x)}] \in Pieces
        PROVE  iter[x] \in Pieces
    <2>1. Max(x) \in 1 .. n
      BY <1>1, <1>9, MaxIsThere
    <2>2. iter[x] = next(iter[x \ {Max(x)}], Max(x))
      BY <1>7, <1>9
    <2>3. QED
      BY <1>2, <1>9, <2>1, <2>2
  <1>10. iter[1 .. n] \in Pieces
    BY <1>1, <1>8, <1>9, FoldStaysWithin
  <1>11. QED
    BY <1>3, <1>10

\* split_params gives one number at least.
LEMMA ParamsAreNumbers ==
  ASSUME NEW q \in Seq(Byte)
  PROVE  SplitParams(q) \in Seq(Int) /\ Len(SplitParams(q)) >= 1
  <1> DEFINE cut == FoldLeft(LAMBDA acc, b : IF b = Ch.semi THEN Append(acc, <<>>)
                                             ELSE [acc EXCEPT ![Len(acc)] = Append(@, b)], <<<<>>>>, q)
             ps  == [i \in DOMAIN cut |-> Atoi(cut[i])]
  <1>1. cut \in Pieces
    BY CutInPieces
  <1>2. SplitParams(q) = ps
    BY DEF SplitParams
  <1> HIDE DEF cut
  <1>3. /\ Len(cut) \in Nat /\ Len(cut) >= 1 /\ DOMAIN cut = 1 .. Len(cut)
        /\ \A i \in 1 .. Len(cut) : cut[i] \in Seq(Byte)
    BY <1>1, LenProperties, ElementOfSeq DEF Pieces
  <1>4. \A i \in 1 .. Len(cut) : Atoi(cut[i]) \in Int
    BY <1>3, AtoiIsANumber
  <1>5. ps \in [1 .. Len(cut) -> Int] /\ DOMAIN ps = 1 .. Len(cut)
    BY <1>3, <1>4
  <1> HIDE DEF ps
  <1>6. ps \in Seq(Int)
    BY <1>3, <1>5, SeqDef
  <1>7. Len(ps) = Len(cut)
    BY <1>3, <1>5, <1>6, LenProperties
  <1>8. QED
    BY <1>2, <1>3, <1>6, <1>7
-----------------------------------------------------------------------------
(* What sequences do                                                        *)

\* The pen of apply_sgr, and how many parameters belong to the last one.
Sgr == [pen : Pens, skip : Nat]

LEMMA AttributeIsAPen ==
  ASSUME NEW pen \in Pens, NEW p \in Int
  PROVE  Attribute(pen, p) \in Pens
  <1>1. /\ DefaultPen \in Pens /\ [pen EXCEPT !.attrs = 1] \in Pens /\ [pen EXCEPT !.attrs = 0] \in Pens
        /\ \A v \in Byte : [pen EXCEPT !.fg = v] \in Pens /\ [pen EXCEPT !.bg = v] \in Pens
    BY BlankIsACell DEF Pens
  <1>2. 7 \in Byte /\ 0 \in Byte
    BY DEF Byte
  <1>3. /\ p \in 30 .. 37 => p - 30 \in Byte
        /\ p \in 90 .. 97 => p - 90 + 8 \in Byte
        /\ p \in 40 .. 47 => p - 40 \in Byte
        /\ p \in 100 .. 107 => p - 100 + 8 \in Byte
    BY DEF Byte
  <1>4. QED
    BY <1>1, <1>2, <1>3 DEF Attribute

LEMMA ColouredIsAPen ==
  ASSUME NEW pen \in Pens, NEW which, NEW v \in Byte
  PROVE  Coloured(pen, which, v) \in Pens
  BY DEF Coloured, Pens

LEMMA SgrStepIsSgr ==
  ASSUME NEW acc \in Sgr, NEW ps \in Seq(Int), NEW i \in 1 .. Len(ps)
  PROVE  SgrStep(acc, ps, i) \in Sgr
  <1> DEFINE p == ps[i]
  <1>1. Len(ps) \in Nat /\ p \in Int /\ \A j \in 1 .. Len(ps) : ps[j] \in Int
    BY LenProperties, ElementOfSeq
  <1>2. acc.pen \in Pens /\ acc.skip \in Nat
    BY DEF Sgr
  <1> HIDE DEF p
  <1>3. CASE acc.skip > 0
    <2>1. SgrStep(acc, ps, i) = [acc EXCEPT !.skip = @ - 1]
      BY <1>3 DEF SgrStep
    <2>2. acc.skip - 1 \in Nat
      BY <1>2, <1>3
    <2>3. QED
      BY <2>1, <2>2 DEF Sgr
  <1>4. CASE ~(acc.skip > 0) /\ p \notin {38, 48}
    <2>1. SgrStep(acc, ps, i) = [acc EXCEPT !.pen = Attribute(acc.pen, p)]
      BY <1>4 DEF SgrStep, p
    <2>2. Attribute(acc.pen, p) \in Pens
      BY <1>1, <1>2, AttributeIsAPen
    <2>3. QED
      BY <2>1, <2>2 DEF Sgr
  <1>5. CASE ~(acc.skip > 0) /\ p \in {38, 48} /\ i + 2 <= Len(ps) /\ ps[i + 1] = 5
    <2> DEFINE v == Clamp(ps[i + 2], 0, 255)
    <2>1. SgrStep(acc, ps, i) = [pen |-> Coloured(acc.pen, p, v), skip |-> 2]
      BY <1>5 DEF SgrStep, p
    <2>2. v \in Byte
      <3>1. i + 2 \in 1 .. Len(ps)
        BY <1>1, <1>5
      <3>2. ps[i + 2] \in Int
        BY <1>1, <3>1
      <3>3. \A m \in Int : Clamp(m, 0, 255) \in Byte
        BY DEF Clamp, Byte
      <3>4. QED
        BY <3>2, <3>3
    <2> HIDE DEF v
    <2>3. Coloured(acc.pen, p, v) \in Pens
      BY <1>2, <2>2, ColouredIsAPen
    <2>4. QED
      BY <2>1, <2>3 DEF Sgr
  <1>6. CASE /\ ~(acc.skip > 0) /\ p \in {38, 48} /\ ~(i + 2 <= Len(ps) /\ ps[i + 1] = 5)
             /\ i + 4 <= Len(ps) /\ ps[i + 1] = 2
    <2> DEFINE red   == Step(ps[i + 2])
               green == Step(ps[i + 3])
               blue  == Step(ps[i + 4])
               v == (16 + 36 * red + 6 * green + blue) % 256
    <2>1. SgrStep(acc, ps, i) = [pen |-> Coloured(acc.pen, p, v), skip |-> 4]
      BY <1>6 DEF SgrStep, p
    <2>2. red \in Int /\ green \in Int /\ blue \in Int
      <3>1. ps[i + 2] \in Int /\ ps[i + 3] \in Int /\ ps[i + 4] \in Int
        <4>1. i + 2 \in 1 .. Len(ps) /\ i + 3 \in 1 .. Len(ps) /\ i + 4 \in 1 .. Len(ps)
          BY <1>1, <1>6
        <4>2. QED
          BY <1>1, <4>1
      <3>2. \A m \in Int : Step(m) \in Int
        BY DEF Step
      <3>3. QED
        BY <3>1, <3>2
    <2> HIDE DEF red, green, blue
    <2>3. v \in Byte
      BY <2>2 DEF Byte
    <2> HIDE DEF v
    <2>4. Coloured(acc.pen, p, v) \in Pens
      BY <1>2, <2>3, ColouredIsAPen
    <2>5. QED
      BY <2>1, <2>4 DEF Sgr
  <1>7. CASE /\ ~(acc.skip > 0) /\ p \in {38, 48} /\ ~(i + 2 <= Len(ps) /\ ps[i + 1] = 5)
             /\ ~(i + 4 <= Len(ps) /\ ps[i + 1] = 2)
    BY <1>7 DEF SgrStep, p
  <1>8. QED
    BY <1>3, <1>4, <1>5, <1>6, <1>7

LEMMA SgrOfAll ==
  ASSUME NEW ps \in Seq(Int), NEW base \in Sgr
  PROVE  FoldLeftDomain(LAMBDA acc, i : SgrStep(acc, ps, i), base, ps) \in Sgr
  <1> DEFINE n    == Len(ps)
             next(u, i) == SgrStep(u, ps, i)
             step == [i \in 1 .. n |-> [u \in Sgr |-> next(u, i)]]
             iter == CHOOSE f : f = [x \in SUBSET (1 .. n) |->
                       IF x = {} THEN base ELSE next(f[x \ {Max(x)}], Max(x))]
  <1>1. n \in Nat /\ DOMAIN ps = 1 .. n
    BY LenProperties
  <1>2. base \in Sgr /\ \A i \in 1 .. n, u \in Sgr : next(u, i) \in Sgr
    BY SgrStepIsSgr
  <1>3. FoldLeftDomain(LAMBDA acc, i : SgrStep(acc, ps, i), base, ps) = iter[1 .. n]
    <2> DEFINE at == [i \in DOMAIN ps |-> i]
    <2>1. DOMAIN at = 1 .. n /\ \A i \in 1 .. n : at[i] = i
      BY <1>1
    <2>2. FoldLeftDomain(LAMBDA acc, i : SgrStep(acc, ps, i), base, ps)
            = (CHOOSE f : f = [x \in SUBSET (1 .. n) |->
                 IF x = {} THEN base ELSE next(f[x \ {Max(x)}], at[Max(x)])])[1 .. n]
      BY <2>1 DEF FoldLeftDomain, FoldLeft, MapThenFoldSet
    <2> HIDE DEF at, n, next
    <2>3. \A x \in SUBSET (1 .. n) : x # {} => at[Max(x)] = Max(x)
      BY <1>1, <2>1, MaxIsThere
    <2>4. \A f : [x \in SUBSET (1 .. n) |->
                    IF x = {} THEN base ELSE next(f[x \ {Max(x)}], at[Max(x)])]
               = [x \in SUBSET (1 .. n) |->
                    IF x = {} THEN base ELSE next(f[x \ {Max(x)}], Max(x))]
      BY <2>3
    <2>5. (CHOOSE f : f = [x \in SUBSET (1 .. n) |->
             IF x = {} THEN base ELSE next(f[x \ {Max(x)}], at[Max(x)])]) = iter
      BY <2>4
    <2>6. QED
      BY <2>2, <2>5
  <1> HIDE DEF n, next
  <1>4. step \in [1 .. n -> [Sgr -> Sgr]]
    BY <1>2
  <1>5. PICK g \in [SUBSET (1 .. n) -> Sgr] : Folds(g, n, base, step)
    <2> HIDE DEF step
    <2>1. QED
      BY <1>1, <1>2, <1>4, FoldIsThere
  <1>6. g = [x \in SUBSET (1 .. n) |->
               IF x = {} THEN base ELSE next(g[x \ {Max(x)}], Max(x))]
    <2>1. ASSUME NEW x \in SUBSET (1 .. n)
          PROVE  g[x] = IF x = {} THEN base ELSE next(g[x \ {Max(x)}], Max(x))
      <3>1. x # {} => Max(x) \in 1 .. n
        BY <1>1, MaxIsThere
      <3>2. g[x \ {Max(x)}] \in Sgr
        OBVIOUS
      <3>3. QED
        BY <1>5, <3>1, <3>2 DEF Folds
    <2>2. QED
      BY <2>1
  <1>7. iter = [x \in SUBSET (1 .. n) |->
                  IF x = {} THEN base ELSE next(iter[x \ {Max(x)}], Max(x))]
    BY <1>6
  <1> HIDE DEF iter, step
  <1>8. iter[{}] \in Sgr
    BY <1>2, <1>7
  <1>9. ASSUME NEW x \in SUBSET (1 .. n), x # {}, iter[x \ {Max(x)}] \in Sgr
        PROVE  iter[x] \in Sgr
    <2>1. Max(x) \in 1 .. n
      BY <1>1, <1>9, MaxIsThere
    <2>2. iter[x] = next(iter[x \ {Max(x)}], Max(x))
      BY <1>7, <1>9
    <2>3. QED
      BY <1>2, <1>9, <2>1, <2>2
  <1>10. iter[1 .. n] \in Sgr
    BY <1>1, <1>8, <1>9, FoldStaysWithin
  <1>11. QED
    BY <1>3, <1>10

LEMMA SgrIsAPen ==
  ASSUME NEW pen \in Pens, NEW ps \in Seq(Int)
  PROVE  ApplySgr(pen, ps) \in Pens
  <1> DEFINE base == [pen |-> pen, skip |-> 0]
             all  == FoldLeftDomain(LAMBDA acc, i : SgrStep(acc, ps, i), base, ps)
  <1>1. base \in Sgr
    BY DEF Sgr
  <1>2. ApplySgr(pen, ps) = all.pen
    BY DEF ApplySgr
  <1> HIDE DEF base
  <1>3. all \in Sgr
    BY <1>1, SgrOfAll
  <1> HIDE DEF all
  <1>4. QED
    BY <1>2, <1>3 DEF Sgr

\* Erasing leaves cells that are blank or were there.

LEMMA LineErased ==
  ASSUME NEW c \in Nat \ {0}, NEW r \in Nat \ {0}, NEW t \in Terminals(c, r), NEW mode
  PROVE  EraseInLine(t, mode) \in Terminals(c, r)
  <1> DEFINE s  == Scr(t)
             y0 == Line(t, s.cy)
             cell(x, y) == IF /\ y = y0
                              /\ (mode = 0 /\ x >= s.cx) \/ (mode = 1 /\ x <= s.cx) \/ mode = 2
                           THEN Blank ELSE s.cells[y][x]
             g  == [y \in 0 .. r - 1 |-> [x \in 0 .. c - 1 |-> cell(x, y)]]
  <1>1. s \in Screens(c, r) /\ t.cols = c /\ t.rows = r
    BY ScreenOf
  <1>2. EraseInLine(t, mode) =
          WithScr(t, [s EXCEPT !.cells =
            [y \in 0 .. t.rows - 1 |-> [x \in 0 .. t.cols - 1 |-> cell(x, y)]]])
    BY DEF EraseInLine, Erase, Grid
  <1> HIDE DEF s, y0
  <1>4. \A y \in 0 .. r - 1, x \in 0 .. c - 1 :
          cell(x, y) \in Cells
    BY <1>1, CellOf, BlankIsACell
  <1> HIDE DEF cell
  <1>5. g \in Grids(c, r)
    BY <1>4 DEF Grids
  <1>6. EraseInLine(t, mode) = WithScr(t, [s EXCEPT !.cells = g])
    BY <1>1, <1>2
  <1> HIDE DEF g
  <1>7. WithScr(t, [s EXCEPT !.cells = g]) \in Terminals(c, r)
    BY <1>5, CellsPut DEF s
  <1>8. QED
    BY <1>6, <1>7

LEMMA DisplayErased ==
  ASSUME NEW c \in Nat \ {0}, NEW r \in Nat \ {0}, NEW t \in Terminals(c, r), NEW mode
  PROVE  EraseInDisplay(t, mode) \in Terminals(c, r)
  <1> DEFINE s  == Scr(t)
             y0 == Line(t, s.cy)
             cell(x, y) == IF mode \in {2, 3}
                          \/ (mode = 0 /\ (y > s.cy \/ (y = s.cy /\ x >= s.cx)))
                          \/ (mode = 1 /\ (y < s.cy \/ (y = s.cy /\ x <= s.cx)))
                        THEN Blank ELSE s.cells[y][x]
             g  == [y \in 0 .. r - 1 |-> [x \in 0 .. c - 1 |-> cell(x, y)]]
  <1>1. s \in Screens(c, r) /\ t.cols = c /\ t.rows = r
    BY ScreenOf
  <1>2. EraseInDisplay(t, mode) =
          [WithScr(t, [s EXCEPT !.cells =
             [y \in 0 .. t.rows - 1 |-> [x \in 0 .. t.cols - 1 |-> cell(x, y)]]])
           EXCEPT !.scrollback = IF mode = 3 THEN <<>> ELSE @]
    BY DEF EraseInDisplay, Erase, Grid
  <1> HIDE DEF s, y0
  <1>4. \A y \in 0 .. r - 1, x \in 0 .. c - 1 :
          cell(x, y) \in Cells
    BY <1>1, CellOf, BlankIsACell
  <1> HIDE DEF cell
  <1>5. g \in Grids(c, r)
    BY <1>4 DEF Grids
  <1>6. EraseInDisplay(t, mode) =
          [WithScr(t, [s EXCEPT !.cells = g]) EXCEPT !.scrollback = IF mode = 3 THEN <<>> ELSE @]
    BY <1>1, <1>2
  <1> HIDE DEF g
  <1>7. WithScr(t, [s EXCEPT !.cells = g]) \in Terminals(c, r)
    BY <1>5, CellsPut DEF s
  <1> DEFINE u == WithScr(t, [s EXCEPT !.cells = g])
  <1> HIDE DEF u
  <1>8. u \in Terminals(c, r)
    BY <1>7 DEF u
  <1> DEFINE rows == IF mode = 3 THEN <<>> ELSE u.scrollback
  <1>9. [u EXCEPT !.scrollback = IF mode = 3 THEN <<>> ELSE @] \in Terminals(c, r)
    <2>1. rows \in Histories
      BY <1>8, NothingIsKept DEF Terminals
    <2> HIDE DEF rows
    <2>2. [u EXCEPT !.scrollback = rows] \in Terminals(c, r)
      BY <1>8, <2>1 DEF Terminals
    <2>3. QED
      BY <2>2 DEF rows
  <1>10. QED
    BY <1>6, <1>9 DEF u

\* Inserting and deleting move cells inside their line.
LEMMA BlanksInserted ==
  ASSUME NEW c \in Nat \ {0}, NEW r \in Nat \ {0}, NEW t \in Terminals(c, r), NEW n \in Nat
  PROVE  InsertBlanks(t, n) \in Terminals(c, r)
  <1> DEFINE s  == Scr(t)
             y0 == Line(t, s.cy)
             cell(x, y) == IF y # y0 \/ x < s.cx THEN s.cells[y][x]
                      ELSE IF x < s.cx + n THEN Blank ELSE s.cells[y][x - n]
             g  == [y \in 0 .. r - 1 |-> [x \in 0 .. c - 1 |-> cell(x, y)]]
  <1>1. s \in Screens(c, r) /\ t.cols = c /\ t.rows = r
    BY ScreenOf
  <1>2. InsertBlanks(t, n) =
          WithScr(t, [s EXCEPT !.cells =
            [y \in 0 .. t.rows - 1 |-> [x \in 0 .. t.cols - 1 |-> cell(x, y)]]])
    BY DEF InsertBlanks, Grid
  <1> HIDE DEF s, y0
  <1>3. s.cx \in Nat /\ \A x \in 0 .. c - 1 : ~(x < s.cx + n) => x - n \in 0 .. c - 1
    BY <1>1 DEF Screens
  <1>4. \A y \in 0 .. r - 1, x \in 0 .. c - 1 :
          cell(x, y) \in Cells
    BY <1>1, <1>3, CellOf, BlankIsACell
  <1> HIDE DEF cell
  <1>5. g \in Grids(c, r)
    BY <1>4 DEF Grids
  <1>6. InsertBlanks(t, n) = WithScr(t, [s EXCEPT !.cells = g])
    BY <1>1, <1>2
  <1> HIDE DEF g
  <1>7. WithScr(t, [s EXCEPT !.cells = g]) \in Terminals(c, r)
    BY <1>5, CellsPut DEF s
  <1>8. QED
    BY <1>6, <1>7

LEMMA CharsDeleted ==
  ASSUME NEW c \in Nat \ {0}, NEW r \in Nat \ {0}, NEW t \in Terminals(c, r), NEW n \in Nat
  PROVE  DeleteChars(t, n) \in Terminals(c, r)
  <1> DEFINE s  == Scr(t)
             y0 == Line(t, s.cy)
             cell(x, y) == IF y # y0 \/ x < s.cx THEN s.cells[y][x]
                      ELSE IF x + n < t.cols THEN s.cells[y][x + n] ELSE Blank
             g  == [y \in 0 .. r - 1 |-> [x \in 0 .. c - 1 |-> cell(x, y)]]
  <1>1. s \in Screens(c, r) /\ t.cols = c /\ t.rows = r
    BY ScreenOf
  <1>2. DeleteChars(t, n) =
          WithScr(t, [s EXCEPT !.cells =
            [y \in 0 .. t.rows - 1 |-> [x \in 0 .. t.cols - 1 |-> cell(x, y)]]])
    BY DEF DeleteChars, Grid
  <1> HIDE DEF s, y0
  <1>3. \A x \in 0 .. c - 1 : x + n < c => x + n \in 0 .. c - 1
    OBVIOUS
  <1>4. \A y \in 0 .. r - 1, x \in 0 .. c - 1 :
          cell(x, y) \in Cells
    BY <1>1, <1>3, CellOf, BlankIsACell
  <1> HIDE DEF cell
  <1>5. g \in Grids(c, r)
    BY <1>4 DEF Grids
  <1>6. DeleteChars(t, n) = WithScr(t, [s EXCEPT !.cells = g])
    BY <1>1, <1>2
  <1> HIDE DEF g
  <1>7. WithScr(t, [s EXCEPT !.cells = g]) \in Terminals(c, r)
    BY <1>5, CellsPut DEF s
  <1>8. QED
    BY <1>6, <1>7

LEMMA ScreenSwitched ==
  ASSUME NEW c \in Nat \ {0}, NEW r \in Nat \ {0}, NEW t \in Terminals(c, r), NEW on \in BOOLEAN
  PROVE  SwitchAlt(t, on) \in Terminals(c, r)
  <1> DEFINE a == [t.alt EXCEPT !.cells = BlankCells(c, r), !.cx = 0, !.cy = 0]
             g == BlankCells(c, r)
  <1>1. g \in Grids(c, r)
    BY BlankIsAGrid
  <1>2. t.alt \in Screens(c, r) /\ t.cols = c /\ t.rows = r
    BY DEF Terminals
  <1>3. SwitchAlt(t, on) \in {t, [t EXCEPT !.alt_active = FALSE],
                              [t EXCEPT !.alt_active = TRUE, !.view_offset = 0, !.alt = a]}
    BY <1>2 DEF SwitchAlt
  <1>4. a \in Screens(c, r)
    <2> HIDE DEF g
    <2>1. a = [t.alt EXCEPT !.cells = g, !.cx = 0, !.cy = 0]
      BY DEF g
    <2>2. 0 \in 0 .. c /\ 0 \in 0 .. r - 1
      OBVIOUS
    <2>3. QED
      BY <1>1, <1>2, <2>1, <2>2 DEF Screens
  <1> HIDE DEF a
  <1>5. [t EXCEPT !.alt_active = FALSE] \in Terminals(c, r)
    BY DEF Terminals
  <1>6. [t EXCEPT !.alt_active = TRUE, !.view_offset = 0, !.alt = a] \in Terminals(c, r)
    BY <1>4 DEF Terminals
  <1>7. QED
    BY <1>3, <1>5, <1>6

LEMMA ModeSet ==
  ASSUME NEW c \in Nat \ {0}, NEW r \in Nat \ {0}, NEW t \in Terminals(c, r), NEW set \in BOOLEAN, NEW p
  PROVE  PrivateMode(t, set, p) \in Terminals(c, r)
  <1> DEFINE o == Scr(t)
             s == [o EXCEPT !.visible = set]
  <1>1. o \in Screens(c, r)
    BY ScreenOf
  <1>2. PrivateMode(t, set, p) \in {WithScr(t, s), SwitchAlt(t, set), t}
    BY DEF PrivateMode
  <1> HIDE DEF o
  <1>3. s \in Screens(c, r)
    BY <1>1 DEF Screens
  <1> HIDE DEF s
  <1>4. QED
    BY <1>2, <1>3, ScreenPut, ScreenSwitched

LEMMA ModesSet ==
  ASSUME NEW c \in Nat \ {0}, NEW r \in Nat \ {0}, NEW t \in Terminals(c, r),
         NEW set \in BOOLEAN, NEW ps \in Seq(Int)
  PROVE  PrivateModes(t, set, ps) \in Terminals(c, r)
  <1> DEFINE n    == Len(ps)
             next(u, i) == PrivateMode(u, set, ps[i])
             step == [i \in 1 .. n |-> [u \in Terminals(c, r) |-> next(u, i)]]
             iter == CHOOSE f : f = [x \in SUBSET (1 .. n) |->
                       IF x = {} THEN t ELSE next(f[x \ {Max(x)}], Max(x))]
  <1>1. n \in Nat /\ DOMAIN ps = 1 .. n
    BY LenProperties
  <1>2. t \in Terminals(c, r) /\ \A i \in 1 .. n, u \in Terminals(c, r) : next(u, i) \in Terminals(c, r)
    BY ModeSet
  <1>3. PrivateModes(t, set, ps) = iter[1 .. n]
    BY <1>1 DEF PrivateModes, FoldLeft, MapThenFoldSet
  <1> HIDE DEF n, next
  <1>4. step \in [1 .. n -> [Terminals(c, r) -> Terminals(c, r)]]
    BY <1>2
  <1>5. PICK g \in [SUBSET (1 .. n) -> Terminals(c, r)] : Folds(g, n, t, step)
    <2> HIDE DEF step
    <2>1. QED
      BY <1>1, <1>2, <1>4, FoldIsThere
  <1>6. g = [x \in SUBSET (1 .. n) |->
               IF x = {} THEN t ELSE next(g[x \ {Max(x)}], Max(x))]
    <2>1. ASSUME NEW x \in SUBSET (1 .. n)
          PROVE  g[x] = IF x = {} THEN t ELSE next(g[x \ {Max(x)}], Max(x))
      <3>1. x # {} => Max(x) \in 1 .. n
        BY <1>1, MaxIsThere
      <3>2. g[x \ {Max(x)}] \in Terminals(c, r)
        OBVIOUS
      <3>3. QED
        BY <1>5, <3>1, <3>2 DEF Folds
    <2>2. QED
      BY <2>1
  <1>7. iter = [x \in SUBSET (1 .. n) |->
                  IF x = {} THEN t ELSE next(iter[x \ {Max(x)}], Max(x))]
    BY <1>6
  <1> HIDE DEF iter, step
  <1>8. iter[{}] \in Terminals(c, r)
    BY <1>2, <1>7
  <1>9. ASSUME NEW x \in SUBSET (1 .. n), x # {}, iter[x \ {Max(x)}] \in Terminals(c, r)
        PROVE  iter[x] \in Terminals(c, r)
    <2>1. Max(x) \in 1 .. n
      BY <1>1, <1>9, MaxIsThere
    <2>2. iter[x] = next(iter[x \ {Max(x)}], Max(x))
      BY <1>7, <1>9
    <2>3. QED
      BY <1>2, <1>9, <2>1, <2>2
  <1>10. iter[1 .. n] \in Terminals(c, r)
    BY <1>1, <1>8, <1>9, FoldStaysWithin
  <1>11. QED
    BY <1>3, <1>10

LEMMA Fitted ==
  ASSUME NEW c \in Nat \ {0}, NEW r \in Nat \ {0}, NEW t \in Terminals(c, r),
         NEW w \in Nat \ {0}, NEW h \in Nat \ {0}
  PROVE  EnsureGrid(t, w, h) \in Terminals(w, h)
  <1> DEFINE g(s) == [y \in 0 .. h - 1 |-> [x \in 0 .. w - 1 |->
                        IF y < r /\ x < c THEN s.cells[y][x] ELSE Blank]]
             cx(s) == Clamp(s.cx, 0, w - 1)
             cy(s) == Clamp(s.cy, 0, h - 1)
             Fit(s) == [s EXCEPT !.cells = g(s), !.cx = cx(s), !.cy = cy(s)]
             p == Fit(t.primary)
             a == Fit(t.alt)
  <1>1. t.primary \in Screens(c, r) /\ t.alt \in Screens(c, r) /\ t.cols = c /\ t.rows = r
    BY DEF Terminals
  <1>2. ASSUME NEW s \in Screens(c, r)
        PROVE  Fit(s) \in Screens(w, h)
    <2>1. g(s) \in Grids(w, h)
      <3>1. ASSUME NEW y \in 0 .. h - 1, NEW x \in 0 .. w - 1
            PROVE  (IF y < r /\ x < c THEN s.cells[y][x] ELSE Blank) \in Cells
        <4>1. y < r => y \in 0 .. r - 1
          OBVIOUS
        <4>2. x < c => x \in 0 .. c - 1
          OBVIOUS
        <4>3. QED
          BY <4>1, <4>2, CellOf, BlankIsACell
      <3>2. QED
        BY <3>1 DEF Grids
    <2>2. cx(s) \in 0 .. w /\ cy(s) \in 0 .. h - 1
      <3>1. s.cx \in Int /\ s.cy \in Int
        BY DEF Screens
      <3>2. QED
        BY <3>1 DEF Clamp
    <2> HIDE DEF g, cx, cy
    <2>3. QED
      BY <2>1, <2>2 DEF Screens
  <1>3. EnsureGrid(t, w, h) = [t EXCEPT !.cols = w, !.rows = h, !.primary = p, !.alt = a]
    BY <1>1 DEF EnsureGrid, Grid
  <1>4. p \in Screens(w, h) /\ a \in Screens(w, h)
    BY <1>1, <1>2
  <1> HIDE DEF p, a
  <1>5. [t EXCEPT !.cols = w, !.rows = h, !.primary = p, !.alt = a] \in Terminals(w, h)
    BY <1>4 DEF Terminals
  <1>6. QED
    BY <1>3, <1>5

\* A sequence leads from a terminal to a terminal, whatever its parameters are.
LEMMA Handled ==
  ASSUME NEW c \in Nat \ {0}, NEW r \in Nat \ {0}, NEW t \in Terminals(c, r),
         NEW final, NEW q \in Seq(Byte), NEW priv \in BOOLEAN
  PROVE  HandleCsi(t, final, q, priv) \in Terminals(c, r)
  <1> DEFINE ps == SplitParams(q)
             p0 == ps[1]
             p1 == IF Len(ps) > 1 THEN ps[2] ELSE 0
             n  == Greatest(1, p0)
             At(p) == IF p = 0 THEN 0 ELSE p - 1
             x  == Scr(t).cx
             y  == Scr(t).cy
             modes == PrivateModes(t, final = Ch.h, ps)
             moves == {AtCursor(t, x, Greatest(0, y - n)), AtCursor(t, x, Least(t.rows - 1, y + n)),
                       AtCursor(t, Least(t.cols - 1, x + n), y), AtCursor(t, Greatest(0, x - n), y),
                       AtCursor(t, Column(t, At(p1)), Line(t, At(p0))), AtCursor(t, Column(t, At(p0)), y),
                       AtCursor(t, x, Line(t, At(p0)))}
             edits == {EraseInDisplay(t, p0), EraseInLine(t, p0), ScrollUp(t, n),
                       InsertBlanks(t, n), DeleteChars(t, n)}
             pen   == [t EXCEPT !.pen = ApplySgr(@, ps)]
             reply == [t EXCEPT !.replies = Append(@, <<y + 1, x + 1>>)]
  <1>1. HandleCsi(t, final, q, priv) \in moves \cup edits \cup {modes, pen, reply, t}
    <2>1. CASE priv
      BY <2>1 DEF HandleCsi
    <2>2. CASE ~priv
      BY <2>2 DEF HandleCsi
    <2>3. QED
      BY <2>1, <2>2
  <1>2. /\ ps \in Seq(Int) /\ p0 \in Int /\ p1 \in Int /\ n \in Nat /\ n >= 1
        /\ At(p0) \in Int /\ At(p1) \in Int
    <2>1. ps \in Seq(Int) /\ Len(ps) >= 1 /\ Len(ps) \in Nat
      BY ParamsAreNumbers, LenProperties
    <2> HIDE DEF ps
    <2>2. ps[1] \in Int /\ (Len(ps) > 1 => ps[2] \in Int)
      BY <2>1, ElementOfSeq
    <2>3. p0 \in Int /\ p1 \in Int
      BY <2>2
    <2> HIDE DEF p0, p1
    <2>4. QED
      BY <2>1, <2>3 DEF Greatest
  <1>3. x \in 0 .. c /\ y \in 0 .. r - 1 /\ t.cols = c /\ t.rows = r
    BY ScreenOf
  <1> HIDE DEF ps, p0, p1, n, x, y, At
  <1>4. /\ Greatest(0, y - n) \in 0 .. r - 1 /\ Least(t.rows - 1, y + n) \in 0 .. r - 1
        /\ Least(t.cols - 1, x + n) \in 0 .. c /\ Greatest(0, x - n) \in 0 .. c
    BY <1>2, <1>3 DEF Greatest, Least
  <1>5. \A p \in Int : Column(t, p) \in 0 .. c /\ Line(t, p) \in 0 .. r - 1
    BY <1>3 DEF Column, Line, Clamp
  <1>6. moves \subseteq Terminals(c, r)
    <2>1. \A a \in 0 .. c, b \in 0 .. r - 1 : AtCursor(t, a, b) \in Terminals(c, r)
      BY CursorPut
    <2>2. /\ Column(t, At(p0)) \in 0 .. c /\ Column(t, At(p1)) \in 0 .. c
          /\ Line(t, At(p0)) \in 0 .. r - 1
      BY <1>2, <1>5
    <2>3. QED
      BY <1>3, <1>4, <2>1, <2>2
  <1>7. edits \subseteq Terminals(c, r)
    <2>1. EraseInDisplay(t, p0) \in Terminals(c, r) /\ EraseInLine(t, p0) \in Terminals(c, r)
      BY DisplayErased, LineErased
    <2>2. /\ ScrollUp(t, n) \in Terminals(c, r) /\ InsertBlanks(t, n) \in Terminals(c, r)
          /\ DeleteChars(t, n) \in Terminals(c, r)
      BY <1>2, ScrolledUp, BlanksInserted, CharsDeleted
    <2>3. QED
      BY <2>1, <2>2
  <1>8. modes \in Terminals(c, r)
    <2>1. (final = Ch.h) \in BOOLEAN
      OBVIOUS
    <2> DEFINE set == final = Ch.h
    <2> HIDE DEF set
    <2>2. set \in BOOLEAN
      BY <2>1 DEF set
    <2>3. PrivateModes(t, set, ps) \in Terminals(c, r)
      BY <1>2, <2>2, ModesSet
    <2>4. QED
      BY <2>3 DEF set
  <1>9. pen \in Terminals(c, r)
    <2> DEFINE new == ApplySgr(t.pen, ps)
    <2>1. new \in Pens
      BY <1>2, SgrIsAPen DEF Terminals
    <2> HIDE DEF new
    <2>2. pen = [t EXCEPT !.pen = new]
      BY DEF new
    <2>3. QED
      BY <2>1, <2>2 DEF Terminals
  <1>10. reply \in Terminals(c, r)
    <2> DEFINE new == Append(t.replies, <<y + 1, x + 1>>)
    <2>1. t.replies \in Seq(Nat \X Nat) /\ <<y + 1, x + 1>> \in Nat \X Nat
      BY <1>3 DEF Terminals
    <2>2. new \in Seq(Nat \X Nat)
      BY <2>1, AppendProperties
    <2> HIDE DEF new
    <2>3. reply = [t EXCEPT !.replies = new]
      BY DEF new
    <2>4. QED
      BY <2>2, <2>3 DEF Terminals
  <1>11. QED
    BY <1>1, <1>6, <1>7, <1>8, <1>9, <1>10

-----------------------------------------------------------------------------
(* The parser                                                               *)

\* decode_utf8 gives a code point for whatever bytes follow the first.
LEMMA CodesAddUp ==
  ASSUME NEW q \in Seq(Byte), NEW lead \in Nat
  PROVE  FoldLeft(LAMBDA cp, b : 64 * cp + (b % 64), lead, q) \in Nat
  <1> DEFINE n    == Len(q)
             next(u, i) == 64 * u + (q[i] % 64)
             step == [i \in 1 .. n |-> [u \in Nat |-> next(u, i)]]
             iter == CHOOSE f : f = [x \in SUBSET (1 .. n) |->
                       IF x = {} THEN lead ELSE next(f[x \ {Max(x)}], Max(x))]
  <1>1. n \in Nat /\ DOMAIN q = 1 .. n
    BY LenProperties
  <1>2. lead \in Nat /\ \A i \in 1 .. n, u \in Nat : next(u, i) \in Nat
    <2>1. \A i \in 1 .. n : q[i] \in Byte
      BY ElementOfSeq
    <2>2. \A b \in Byte, u \in Nat : 64 * u + (b % 64) \in Nat
      BY DEF Byte
    <2>3. QED
      BY <2>1, <2>2
  <1>3. FoldLeft(LAMBDA cp, b : 64 * cp + (b % 64), lead, q) = iter[1 .. n]
    BY <1>1 DEF FoldLeft, MapThenFoldSet
  <1> HIDE DEF n, next
  <1>4. step \in [1 .. n -> [Nat -> Nat]]
    BY <1>2
  <1>5. PICK g \in [SUBSET (1 .. n) -> Nat] : Folds(g, n, lead, step)
    <2> HIDE DEF step
    <2>1. QED
      BY <1>1, <1>2, <1>4, FoldIsThere
  <1>6. g = [x \in SUBSET (1 .. n) |->
               IF x = {} THEN lead ELSE next(g[x \ {Max(x)}], Max(x))]
    <2>1. ASSUME NEW x \in SUBSET (1 .. n)
          PROVE  g[x] = IF x = {} THEN lead ELSE next(g[x \ {Max(x)}], Max(x))
      <3>1. x # {} => Max(x) \in 1 .. n
        BY <1>1, MaxIsThere
      <3>2. g[x \ {Max(x)}] \in Nat
        OBVIOUS
      <3>3. QED
        BY <1>5, <3>1, <3>2 DEF Folds
    <2>2. QED
      BY <2>1
  <1>7. iter = [x \in SUBSET (1 .. n) |->
                  IF x = {} THEN lead ELSE next(iter[x \ {Max(x)}], Max(x))]
    BY <1>6
  <1> HIDE DEF iter, step
  <1>8. iter[{}] \in Nat
    BY <1>2, <1>7
  <1>9. ASSUME NEW x \in SUBSET (1 .. n), x # {}, iter[x \ {Max(x)}] \in Nat
        PROVE  iter[x] \in Nat
    <2>1. Max(x) \in 1 .. n
      BY <1>1, <1>9, MaxIsThere
    <2>2. iter[x] = next(iter[x \ {Max(x)}], Max(x))
      BY <1>7, <1>9
    <2>3. QED
      BY <1>2, <1>9, <2>1, <2>2
  <1>10. iter[1 .. n] \in Nat
    BY <1>1, <1>8, <1>9, FoldStaysWithin
  <1>11. QED
    BY <1>3, <1>10

LEMMA CodeIsANumber ==
  ASSUME NEW q \in Seq(Byte), q # <<>>
  PROVE  CodePoint(q) \in Nat
  <1> DEFINE n    == Need(q[1])
             lead == CASE n = 1 -> q[1] [] n = 2 -> q[1] % 32 [] n = 3 -> q[1] % 16
                       [] OTHER -> q[1] % 8
  <1>1. q[1] \in Byte /\ Tail(q) \in Seq(Byte)
    BY ElementOfSeq, HeadTailProperties, EmptySeq
  <1>2. lead \in Nat
    <2> HIDE DEF n
    <2>1. \A b \in Byte : b \in Nat /\ b % 32 \in Nat /\ b % 16 \in Nat /\ b % 8 \in Nat
      BY DEF Byte
    <2>2. QED
      BY <1>1, <2>1
  <1>3. CodePoint(q) = FoldLeft(LAMBDA cp, b : 64 * cp + (b % 64), lead, Tail(q))
    BY DEF CodePoint
  <1> HIDE DEF lead
  <1>4. QED
    BY <1>1, <1>2, <1>3, CodesAddUp

LEMMA WithText ==
  ASSUME NEW c \in Nat \ {0}, NEW r \in Nat \ {0}, NEW t \in Terminals(c, r), NEW b \in Byte
  PROVE  TextByte(t, b) \in Terminals(c, r)
  <1> DEFINE hold == Append(t.utf8_hold, b)
             need == Need(hold[1])
             free == [t EXCEPT !.utf8_hold = <<>>]
  <1>1. hold \in Seq(Byte) /\ Len(hold) \in Nat /\ hold # <<>>
    <2>1. t.utf8_hold \in Seq(Byte)
      BY PartsOf
    <2>2. QED
      BY <2>1, AppendProperties, LenProperties
  <1>2. free \in Terminals(c, r)
    BY NothingIsKept DEF Terminals
  <1>3. need \in 0 .. 4
    <2>1. \A v : Need(v) \in 0 .. 4
      BY DEF Need
    <2>2. QED
      BY <2>1
  <1>4. TextByte(t, b) = IF need = 0 THEN PutChar(free, Replacement)
                         ELSE IF Len(hold) < need THEN [t EXCEPT !.utf8_hold = hold]
                         ELSE PutChar(free, CodePoint(hold))
    BY DEF TextByte
  <1> HIDE DEF hold, need, free
  <1>5. Replacement \in Nat /\ CodePoint(hold) \in Nat
    BY <1>1, CodeIsANumber DEF Replacement
  <1>6. Len(hold) < need => [t EXCEPT !.utf8_hold = hold] \in Terminals(c, r)
    <2>1. Len(hold) < need => Len(hold) < 4
      BY <1>1, <1>3
    <2>2. Len(hold) < 4 => hold \in Beginnings
      BY <1>1 DEF Beginnings
    <2>3. hold \in Beginnings => [t EXCEPT !.utf8_hold = hold] \in Terminals(c, r)
      BY DEF Terminals
    <2>4. QED
      BY <2>1, <2>2, <2>3
  <1>7. QED
    BY <1>2, <1>4, <1>5, <1>6, WithChar

LEMMA Gone ==
  ASSUME NEW c \in Nat \ {0}, NEW r \in Nat \ {0}, NEW t \in Terminals(c, r),
         NEW state \in {"Ground", "Esc", "Csi", "Osc", "OscEsc"}
  PROVE  Goto(t, state) \in Terminals(c, r) /\ [t EXCEPT !.state = state] \in Terminals(c, r)
  <1>1. [t EXCEPT !.state = state] \in Terminals(c, r)
    BY DEF Terminals
  <1>2. [t EXCEPT !.state = state, !.seq = <<>>] \in Terminals(c, r)
    BY NothingIsKept DEF Terminals
  <1>3. QED
    BY <1>1, <1>2 DEF Goto

LEMMA OnGround ==
  ASSUME NEW c \in Nat \ {0}, NEW r \in Nat \ {0}, NEW t \in Terminals(c, r), NEW b \in Byte
  PROVE  Ground(t, b) \in Terminals(c, r)
  <1> DEFINE s == Scr(t)
             x == s.cx
             y == s.cy
  <1>1. x \in 0 .. c /\ y \in 0 .. r - 1 /\ t.cols = c
    BY ScreenOf
  <1>2. Ground(t, b) \in
          {Goto(t, "Esc"), Newline(AtCursor(t, 0, y)), AtCursor(t, 0, y),
           AtCursor(t, Greatest(0, x - 1), y), AtCursor(t, Least(t.cols - 1, (x \div 8 + 1) * 8), y),
           t, TextByte(t, b)}
    BY DEF Ground
  <1> HIDE DEF x, y
  <1>3. 0 \in 0 .. c /\ Greatest(0, x - 1) \in 0 .. c
    BY <1>1 DEF Greatest
  <1>4. Least(t.cols - 1, (x \div 8 + 1) * 8) \in 0 .. c
    <2>1. x \div 8 \in Nat
      BY <1>1
    <2> DEFINE k == x \div 8
    <2> HIDE DEF k
    <2>2. k \in Nat
      BY <2>1 DEF k
    <2>3. Least(c - 1, (k + 1) * 8) \in 0 .. c
      BY <2>2 DEF Least
    <2>4. QED
      BY <1>1, <2>3 DEF k
  <1>5. \A a \in 0 .. c : AtCursor(t, a, y) \in Terminals(c, r)
    BY <1>1, CursorPut
  <1>6. Newline(AtCursor(t, 0, y)) \in Terminals(c, r)
    BY <1>3, <1>5, WithNewline
  <1>7. Goto(t, "Esc") \in Terminals(c, r) /\ TextByte(t, b) \in Terminals(c, r)
    BY Gone, WithText
  <1>8. QED
    BY <1>2, <1>3, <1>4, <1>5, <1>6, <1>7

LEMMA Escaped ==
  ASSUME NEW c \in Nat \ {0}, NEW r \in Nat \ {0}, NEW t \in Terminals(c, r), NEW b \in Byte
  PROVE  Escape(t, b) \in Terminals(c, r)
  <1> DEFINE u == Goto(t, "Csi")
             q == <<Ch.x>>
  <1>1. q \in Collections
    <2>1. q \in Seq(Byte) /\ Len(q) = 1 /\ 1 <= Greatest(MaxSeq, MaxOsc)
      BY TerminalAssumption DEF Greatest, Ch, Byte
    <2> HIDE DEF q
    <2>2. QED
      BY <2>1 DEF Collections
  <1>2. Escape(t, b) \in {[u EXCEPT !.csi_priv = FALSE], Goto(t, "Osc"), [t EXCEPT !.state = "Ground"],
                          Reset(t), [t EXCEPT !.seq = q], Goto(t, "Ground")}
    BY DEF Escape
  <1>3. u \in Terminals(c, r)
    BY Gone
  <1> HIDE DEF u, q
  <1>4. [u EXCEPT !.csi_priv = FALSE] \in Terminals(c, r)
    BY <1>3, PrivUnset
  <1>5. [t EXCEPT !.seq = q] \in Terminals(c, r)
    BY <1>1 DEF Terminals
  <1>6. /\ Goto(t, "Osc") \in Terminals(c, r) /\ Goto(t, "Ground") \in Terminals(c, r)
        /\ [t EXCEPT !.state = "Ground"] \in Terminals(c, r)
    BY Gone
  <1>7. Reset(t) \in Terminals(c, r)
    BY ResetIsATerminal
  <1>8. QED
    BY <1>2, <1>4, <1>5, <1>6, <1>7

\* What is collected never gets longer than what is kept.
LEMMA CollectedIsATerminal ==
  ASSUME NEW c \in Nat \ {0}, NEW r \in Nat \ {0}, NEW t \in Terminals(c, r),
         NEW b \in Byte, NEW longest \in {MaxSeq, MaxOsc}
  PROVE  Collected(t, b, longest) \in Terminals(c, r)
  <1> DEFINE q == Append(t.seq, b)
  <1>1. t.seq \in Seq(Byte)
    BY PartsOf
  <1>2. q \in Seq(Byte) /\ Len(q) = Len(t.seq) + 1
    BY <1>1, AppendProperties
  <1>3. longest <= Greatest(MaxSeq, MaxOsc) /\ longest \in Int /\ Greatest(MaxSeq, MaxOsc) \in Int
    BY TerminalAssumption DEF Greatest
  <1>4. Collected(t, b, longest) = IF Len(q) > longest THEN Goto(t, "Ground") ELSE [t EXCEPT !.seq = q]
    BY <1>2 DEF Collected
  <1> HIDE DEF q
  <1>5. ~(Len(q) > longest) => Len(q) <= Greatest(MaxSeq, MaxOsc)
    BY <1>2, <1>3, LenProperties
  <1>6. ~(Len(q) > longest) => [t EXCEPT !.seq = q] \in Terminals(c, r)
    <2>1. ~(Len(q) > longest) => q \in Collections
      BY <1>2, <1>5 DEF Collections
    <2>2. q \in Collections => [t EXCEPT !.seq = q] \in Terminals(c, r)
      BY DEF Terminals
    <2>3. QED
      BY <2>1, <2>2
  <1>7. QED
    BY <1>4, <1>6, Gone

LEMMA InSequence ==
  ASSUME NEW c \in Nat \ {0}, NEW r \in Nat \ {0}, NEW t \in Terminals(c, r), NEW b \in Byte
  PROVE  /\ ControlSequence(t, b) \in Terminals(c, r)
         /\ OperatingSystemCommand(t, b) \in Terminals(c, r)
  <1>1. t.seq \in Seq(Byte) /\ t.csi_priv \in BOOLEAN /\ [t EXCEPT !.csi_priv = TRUE] \in Terminals(c, r)
    <2>1. t.csi_priv \in BOOLEAN /\ [t EXCEPT !.csi_priv = TRUE] \in Terminals(c, r)
      BY DEF Terminals
    <2>2. QED
      BY <2>1, PartsOf
  <1>2. HandleCsi(t, b, t.seq, t.csi_priv) \in Terminals(c, r)
    BY <1>1, Handled
  <1>3. Goto(HandleCsi(t, b, t.seq, t.csi_priv), "Ground") \in Terminals(c, r)
    BY <1>2, Gone
  <1>4. ControlSequence(t, b) \in Terminals(c, r)
    BY <1>1, <1>3, CollectedIsATerminal DEF ControlSequence
  <1>5. OperatingSystemCommand(t, b) \in Terminals(c, r)
    BY Gone, CollectedIsATerminal DEF OperatingSystemCommand
  <1>6. QED
    BY <1>4, <1>5

LEMMA Parsed ==
  ASSUME NEW c \in Nat \ {0}, NEW r \in Nat \ {0}, NEW t \in Terminals(c, r), NEW b \in Byte
  PROVE  ParseByte(t, b) \in Terminals(c, r)
  <1>1. t.state \in {"Ground", "Esc", "Csi", "Osc", "OscEsc"}
    BY DEF Terminals
  <1>2. Goto(t, "Ground") \in Terminals(c, r)
    BY Gone
  <1>3. QED
    BY <1>1, <1>2, OnGround, Escaped, InSequence DEF ParseByte

LEMMA AllParsed ==
  ASSUME NEW c \in Nat \ {0}, NEW r \in Nat \ {0}, NEW t \in Terminals(c, r), NEW q \in Seq(Byte)
  PROVE  FoldLeft(ParseByte, t, q) \in Terminals(c, r)
  <1> DEFINE n    == Len(q)
             next(u, i) == ParseByte(u, q[i])
             step == [i \in 1 .. n |-> [u \in Terminals(c, r) |-> next(u, i)]]
             iter == CHOOSE f : f = [x \in SUBSET (1 .. n) |->
                       IF x = {} THEN t ELSE next(f[x \ {Max(x)}], Max(x))]
  <1>1. n \in Nat /\ DOMAIN q = 1 .. n
    BY LenProperties
  <1>2. t \in Terminals(c, r) /\ \A i \in 1 .. n, u \in Terminals(c, r) : next(u, i) \in Terminals(c, r)
    <2>1. \A i \in 1 .. n : q[i] \in Byte
      BY ElementOfSeq
    <2>2. QED
      BY <2>1, Parsed
  <1>3. FoldLeft(ParseByte, t, q) = iter[1 .. n]
    BY <1>1 DEF FoldLeft, MapThenFoldSet
  <1> HIDE DEF n, next
  <1>4. step \in [1 .. n -> [Terminals(c, r) -> Terminals(c, r)]]
    BY <1>2
  <1>5. PICK g \in [SUBSET (1 .. n) -> Terminals(c, r)] : Folds(g, n, t, step)
    <2> HIDE DEF step
    <2>1. QED
      BY <1>1, <1>2, <1>4, FoldIsThere
  <1>6. g = [x \in SUBSET (1 .. n) |->
               IF x = {} THEN t ELSE next(g[x \ {Max(x)}], Max(x))]
    <2>1. ASSUME NEW x \in SUBSET (1 .. n)
          PROVE  g[x] = IF x = {} THEN t ELSE next(g[x \ {Max(x)}], Max(x))
      <3>1. x # {} => Max(x) \in 1 .. n
        BY <1>1, MaxIsThere
      <3>2. g[x \ {Max(x)}] \in Terminals(c, r)
        OBVIOUS
      <3>3. QED
        BY <1>5, <3>1, <3>2 DEF Folds
    <2>2. QED
      BY <2>1
  <1>7. iter = [x \in SUBSET (1 .. n) |->
                  IF x = {} THEN t ELSE next(iter[x \ {Max(x)}], Max(x))]
    BY <1>6
  <1> HIDE DEF iter, step
  <1>8. iter[{}] \in Terminals(c, r)
    BY <1>2, <1>7
  <1>9. ASSUME NEW x \in SUBSET (1 .. n), x # {}, iter[x \ {Max(x)}] \in Terminals(c, r)
        PROVE  iter[x] \in Terminals(c, r)
    <2>1. Max(x) \in 1 .. n
      BY <1>1, <1>9, MaxIsThere
    <2>2. iter[x] = next(iter[x \ {Max(x)}], Max(x))
      BY <1>7, <1>9
    <2>3. QED
      BY <1>2, <1>9, <2>1, <2>2
  <1>10. iter[1 .. n] \in Terminals(c, r)
    BY <1>1, <1>8, <1>9, FoldStaysWithin
  <1>11. QED
    BY <1>3, <1>10

\* take_swallowed passes on bytes of what it got.
Halves(c, r) == [term : Terminals(c, r), out : Seq(Byte)]

LEMMA Swallowed ==
  ASSUME NEW c \in Nat \ {0}, NEW r \in Nat \ {0}, NEW u \in Halves(c, r), NEW b \in Byte
  PROVE  Swallow(u, b) \in Halves(c, r)
  <1> DEFINE t == u.term
             q == Append(u.out, b)
             v == [t EXCEPT !.swallow_on = FALSE]
             i == t.swallow_i + 1
             nl == i = Len(t.swallow_echo)
             w == [t EXCEPT !.swallow_i = i, !.swallow_nl = nl]
  <1>1. t \in Terminals(c, r) /\ q \in Seq(Byte)
    BY AppendProperties DEF Halves
  <1>2. Swallow(u, b) \in {[u EXCEPT !.out = q], [u EXCEPT !.term = w], [term |-> v, out |-> q],
                           u, [u EXCEPT !.term = v]}
    BY DEF Swallow
  <1>3. nl \in BOOLEAN
    OBVIOUS
  <1>4. i \in Nat
    BY <1>1 DEF Terminals
  <1> HIDE DEF t, q, i, nl
  <1>5. v \in Terminals(c, r) /\ w \in Terminals(c, r)
    <2>1. v \in Terminals(c, r)
      BY <1>1 DEF Terminals
    <2>2. w \in Terminals(c, r)
      BY <1>1, <1>3, <1>4 DEF Terminals
    <2>3. QED
      BY <2>1, <2>2
  <1> HIDE DEF v, w
  <1>6. QED
    BY <1>1, <1>2, <1>5 DEF Halves

LEMMA AllSwallowed ==
  ASSUME NEW c \in Nat \ {0}, NEW r \in Nat \ {0}, NEW t \in Terminals(c, r), NEW q \in Seq(Byte)
  PROVE  TakeSwallowed(t, q) \in Halves(c, r)
  <1> DEFINE u0 == [term |-> t, out |-> <<>>]
  <1>0. u0 \in Halves(c, r) /\ TakeSwallowed(t, q) = FoldLeft(Swallow, u0, q)
    BY DEF Halves, TakeSwallowed
  <1> HIDE DEF u0
  <1> DEFINE n    == Len(q)
             next(u, i) == Swallow(u, q[i])
             step == [i \in 1 .. n |-> [u \in Halves(c, r) |-> next(u, i)]]
             iter == CHOOSE f : f = [x \in SUBSET (1 .. n) |->
                       IF x = {} THEN u0 ELSE next(f[x \ {Max(x)}], Max(x))]
  <1>1. n \in Nat /\ DOMAIN q = 1 .. n
    BY LenProperties
  <1>2. u0 \in Halves(c, r) /\ \A i \in 1 .. n, u \in Halves(c, r) : next(u, i) \in Halves(c, r)
    <2>1. \A i \in 1 .. n : q[i] \in Byte
      BY ElementOfSeq
    <2>2. QED
      BY <1>0, <2>1, Swallowed
  <1>3. FoldLeft(Swallow, u0, q) = iter[1 .. n]
    BY <1>1 DEF FoldLeft, MapThenFoldSet
  <1> HIDE DEF n, next
  <1>4. step \in [1 .. n -> [Halves(c, r) -> Halves(c, r)]]
    BY <1>2
  <1>5. PICK g \in [SUBSET (1 .. n) -> Halves(c, r)] : Folds(g, n, u0, step)
    <2> HIDE DEF step
    <2>1. QED
      BY <1>1, <1>2, <1>4, FoldIsThere
  <1>6. g = [x \in SUBSET (1 .. n) |->
               IF x = {} THEN u0 ELSE next(g[x \ {Max(x)}], Max(x))]
    <2>1. ASSUME NEW x \in SUBSET (1 .. n)
          PROVE  g[x] = IF x = {} THEN u0 ELSE next(g[x \ {Max(x)}], Max(x))
      <3>1. x # {} => Max(x) \in 1 .. n
        BY <1>1, MaxIsThere
      <3>2. g[x \ {Max(x)}] \in Halves(c, r)
        OBVIOUS
      <3>3. QED
        BY <1>5, <3>1, <3>2 DEF Folds
    <2>2. QED
      BY <2>1
  <1>7. iter = [x \in SUBSET (1 .. n) |->
                  IF x = {} THEN u0 ELSE next(iter[x \ {Max(x)}], Max(x))]
    BY <1>6
  <1> HIDE DEF iter, step
  <1>8. iter[{}] \in Halves(c, r)
    BY <1>2, <1>7
  <1>9. ASSUME NEW x \in SUBSET (1 .. n), x # {}, iter[x \ {Max(x)}] \in Halves(c, r)
        PROVE  iter[x] \in Halves(c, r)
    <2>1. Max(x) \in 1 .. n
      BY <1>1, <1>9, MaxIsThere
    <2>2. iter[x] = next(iter[x \ {Max(x)}], Max(x))
      BY <1>7, <1>9
    <2>3. QED
      BY <1>2, <1>9, <2>1, <2>2
  <1>10. iter[1 .. n] \in Halves(c, r)
    BY <1>1, <1>8, <1>9, FoldStaysWithin
  <1>11. QED
    BY <1>0, <1>3, <1>10

\* The view is inside the history.
Viewed(t) == t.view_offset \in 0 .. MaxViewOffset(t)

LEMMA HistoryIsThere ==
  ASSUME NEW c \in Nat \ {0}, NEW r \in Nat \ {0}, NEW t \in Terminals(c, r)
  PROVE  MaxViewOffset(t) \in Nat
  <1>1. t.scrollback \in Seq(Rows)
    BY PartsOf
  <1>2. QED
    BY <1>1, LenProperties DEF MaxViewOffset

LEMMA ScrollbarUpdated ==
  ASSUME NEW c \in Nat \ {0}, NEW r \in Nat \ {0}, NEW t \in Terminals(c, r)
  PROVE  UpdateScrollbar(t) \in Terminals(c, r) /\ Viewed(UpdateScrollbar(t))
  <1> DEFINE m == MaxViewOffset(t)
             v == Clamp(t.view_offset, 0, m)
  <1>1. m \in Nat /\ t.view_offset \in Nat
    BY HistoryIsThere DEF Terminals
  <1>2. UpdateScrollbar(t) = [t EXCEPT !.view_offset = v]
    BY DEF UpdateScrollbar
  <1>3. v \in 0 .. m /\ v \in Nat
    <2> HIDE DEF m
    <2>1. QED
      BY <1>1 DEF Clamp
  <1> HIDE DEF v
  <1>4. [t EXCEPT !.view_offset = v] \in Terminals(c, r)
    BY <1>3 DEF Terminals
  <1>5. [t EXCEPT !.view_offset = v].view_offset = v /\ MaxViewOffset([t EXCEPT !.view_offset = v]) = m
    BY DEF Terminals, MaxViewOffset
  <1>6. QED
    BY <1>2, <1>3, <1>4, <1>5 DEF Viewed

\* No bytes lead out of the grid.
LEMMA Fed ==
  ASSUME NEW c \in Nat \ {0}, NEW r \in Nat \ {0}, NEW t \in Terminals(c, r),
         NEW bytes \in Seq(Byte), NEW from_pty \in BOOLEAN
  PROVE  Feed(t, bytes, from_pty) \in Terminals(c, r) /\ Viewed(Feed(t, bytes, from_pty))
  <1> DEFINE u == IF from_pty THEN TakeSwallowed(t, bytes) ELSE [term |-> t, out |-> bytes]
             v == FoldLeft(ParseByte, u.term, u.out)
  <1>1. u \in Halves(c, r)
    BY AllSwallowed DEF Halves
  <1>2. Feed(t, bytes, from_pty) = UpdateScrollbar(v)
    BY DEF Feed
  <1> HIDE DEF u
  <1>3. v \in Terminals(c, r)
    BY <1>1, AllParsed DEF Halves
  <1> HIDE DEF v
  <1>4. QED
    BY <1>2, <1>3, ScrollbarUpdated
-----------------------------------------------------------------------------
(* The interactive shell: its inductive invariant                           *)

TermOK(t) == <<t.cols, t.rows>> \in Sizes /\ t \in Terminals(t.cols, t.rows) /\ Viewed(t)

Told == Sizes \cup {NoSize}

\* What a session may be at any time. Its thread holds back something only in the loop
\* that writes; as long as nothing stops it, nothing is lost.
Shells ==
  {r \in [server : Servers, script : Seq(Byte), size : Told, stop : BOOLEAN, running : BOOLEAN,
          write_buf : Seq(Item), resize : Told, pc : Steps, pending : Seq(Item), pty : Told,
          read : Nat, accepted : Seq(Item), received : Seq(Item)] :
     /\ r.running <=> r.pc \notin {"notify", "done"}
     /\ r.pc # "write" => r.pending = <<>>
     /\ IsPrefix(r.received, r.accepted)
     /\ r.pc \in {"connect", "loop", "write", "read"} /\ ~r.stop =>
          r.accepted = r.received \o r.pending \o r.write_buf}

ShellsInv ==
  /\ ses \in Seq(Shells) /\ Len(ses) <= MaxSessions
  /\ cur \in 0 .. Len(ses)
  /\ shell_server_id # NoServer => cur # 0 /\ shell_server_id = ses[cur].server

Posts ==
  [kind : {"output"}, session : Nat, bytes : Seq(Byte)] \cup [kind : {"closed"}, session : Nat]

\* A handler waits for a session there is, and a new one will still be among those the
\* plays have.
Waits ==
  {Idle, [op |-> "disconnect"]} \cup [op : {"connect"}, server : Servers, script : Seq(Byte)]

GuiInv ==
  /\ gui \in Waits
  /\ gui # Idle => cur # 0
  /\ gui.op = "connect" => Len(ses) < MaxSessions
  /\ closures \in Seq(Posts)
  /\ acts \in Nat

IInv == TermOK(term) /\ ShellsInv /\ GuiInv


\* What the sequences of the shell do.
LEMMA PrefixGrows ==
  ASSUME NEW S, NEW p \in Seq(S), NEW q \in Seq(S), NEW more \in Seq(S)
  PROVE  /\ IsPrefix(p, q) => IsPrefix(p, q \o more)
         /\ IsPrefix(p, p \o more)
  <1>1. /\ Len(p) \in Nat /\ Len(q) \in Nat /\ Len(more) \in Nat
        /\ q \o more \in Seq(S) /\ Len(q \o more) = Len(q) + Len(more)
        /\ \A i \in 1 .. Len(q) : (q \o more)[i] = q[i]
        /\ p \o more \in Seq(S) /\ Len(p \o more) = Len(p) + Len(more)
        /\ \A i \in 1 .. Len(p) : (p \o more)[i] = p[i]
    BY LenProperties, ConcatProperties
  <1>2. ASSUME NEW a \in Seq(S), NEW b \in Seq(S), Len(a) \in Nat, Len(b) \in Nat, Len(p) <= Len(a),
               Len(p) <= Len(b), \A i \in 1 .. Len(p) : a[i] = b[i]
        PROVE  SubSeq(a, 1, Len(p)) = SubSeq(b, 1, Len(p))
    BY <1>1, <1>2
  <1> DEFINE qm == q \o more
             pm == p \o more
  <1> HIDE DEF qm, pm
  <1>3. IsPrefix(p, q) => IsPrefix(p, qm)
    <2>1. Len(p) <= Len(q) => SubSeq(q, 1, Len(p)) = SubSeq(qm, 1, Len(p))
      BY <1>1, <1>2 DEF qm
    <2>2. Len(p) <= Len(q) => Len(p) <= Len(qm)
      BY <1>1 DEF qm
    <2>3. QED
      BY <2>1, <2>2 DEF IsPrefix
  <1>4. IsPrefix(p, pm)
    <2>1. SubSeq(p, 1, Len(p)) = SubSeq(pm, 1, Len(p))
      BY <1>1, <1>2 DEF pm
    <2>2. Len(p) <= Len(pm)
      BY <1>1 DEF pm
    <2>3. QED
      BY <2>1, <2>2 DEF IsPrefix
  <1>5. QED
    BY <1>3, <1>4 DEF qm, pm

LEMMA InTwoParts ==
  ASSUME NEW S, NEW q \in Seq(S), NEW k \in 1 .. Len(q)
  PROVE  /\ SubSeq(q, 1, k) \in Seq(S) /\ SubSeq(q, k + 1, Len(q)) \in Seq(S)
         /\ SubSeq(q, 1, k) \o SubSeq(q, k + 1, Len(q)) = q
  <1> DEFINE n == Len(q)
  <1>1. n \in Nat /\ k \in Nat /\ k <= n /\ \A i \in 1 .. n : q[i] \in S
    BY LenProperties, ElementOfSeq
  <1>2. SubSeq(q, 1, k) \in Seq(S) /\ SubSeq(q, k + 1, n) \in Seq(S)
    <2> HIDE DEF n
    <2>1. (\A i \in 1 .. k : q[i] \in S) /\ (\A i \in k + 1 .. n : q[i] \in S)
      BY <1>1
    <2>2. QED
      BY <1>1, <2>1, SubSeqProperties
  <1>3. 1 \in 1 .. n + 1 /\ k \in 1 - 1 .. n /\ n \in k .. n
    BY <1>1
  <1>4. SubSeq(q, 1, k) \o SubSeq(q, k + 1, n) = SubSeq(q, 1, n)
    BY <1>3, ConcatAdjacentSubSeq
  <1>5. QED
    BY <1>2, <1>4, SubSeqFull

\* What the user does with the view, and a new size.
LEMMA TermStaysOK ==
  ASSUME NEW t, TermOK(t)
  PROVE  /\ TermOK(Reset(t)) /\ TermOK(SnapToBottom(t))
         /\ \A q \in Seq(Byte), from_pty \in BOOLEAN : TermOK(Feed(t, q, from_pty))
         /\ \A w, h : <<w, h>> \in Sizes => TermOK(Resized(t, w, h))
         /\ \A lines \in Int : TermOK(ScrollView(t, lines))
         /\ \A x, y \in Int : TermOK(MouseDown(t, x, y))
         /\ \A x, y \in Int, up \in BOOLEAN : TermOK(MouseTo(t, x, y, up))
         /\ \A echo \in Seq(Byte) : TermOK(ExpectPromptAfter(t, echo))
  <1> DEFINE c == t.cols
             r == t.rows
  <1>1. <<c, r>> \in Sizes /\ t \in Terminals(c, r) /\ Viewed(t)
    BY DEF TermOK
  <1>2. \A w, h : <<w, h>> \in Sizes => w \in Nat \ {0} /\ h \in Nat \ {0}
    BY ShellAssumption
  <1>3. c \in Nat \ {0} /\ r \in Nat \ {0}
    BY <1>1, <1>2
  <1> HIDE DEF c, r
  <1>4. \A w, h : \A u \in Terminals(w, h) : u.cols = w /\ u.rows = h
    BY DEF Terminals
  <1>5. \A u \in Terminals(c, r) : Viewed(u) => TermOK(u)
    BY <1>1, <1>4 DEF TermOK
  <1>6. \A u \in Terminals(c, r) : u.view_offset = 0 => Viewed(u)
    BY <1>3, HistoryIsThere DEF Viewed
  <1>7. t.view_offset \in Nat /\ MaxViewOffset(t) \in Nat
    BY <1>1, <1>3, HistoryIsThere DEF Terminals
  <1>8. TermOK(Reset(t))
    <2>1. Reset(t) \in Terminals(c, r)
      BY <1>1, <1>3, ResetIsATerminal
    <2>2. Reset(t).view_offset = 0
      BY DEF Reset, NewTerminal
    <2>3. QED
      BY <1>5, <1>6, <2>1, <2>2
  <1>9. TermOK(SnapToBottom(t))
    <2>1. SnapToBottom(t) \in Terminals(c, r) /\ SnapToBottom(t).view_offset = 0
      BY <1>1 DEF SnapToBottom, Terminals
    <2>2. QED
      BY <1>5, <1>6, <2>1
  <1>10. ASSUME NEW q \in Seq(Byte), NEW from_pty \in BOOLEAN
         PROVE  TermOK(Feed(t, q, from_pty))
    BY <1>1, <1>3, <1>5, Fed
  <1>11. ASSUME NEW w, NEW h, <<w, h>> \in Sizes
         PROVE  TermOK(Resized(t, w, h))
    <2> DEFINE u == IF <<w, h>> # <<t.cols, t.rows>> THEN EnsureGrid(t, w, h) ELSE t
               v == [u EXCEPT !.last_sent = <<w, h>>]
    <2>1. w \in Nat \ {0} /\ h \in Nat \ {0}
      BY <1>2, <1>11
    <2>2. u \in Terminals(w, h)
      <3>1. CASE <<w, h>> = <<t.cols, t.rows>>
        <4>1. w = c /\ h = r /\ u = t
          BY <3>1 DEF c, r
        <4>2. QED
          BY <1>1, <4>1
      <3>2. CASE <<w, h>> # <<t.cols, t.rows>>
        BY <1>1, <1>3, <2>1, <3>2, Fitted
      <3>3. QED
        BY <3>1, <3>2
    <2>3. Resized(t, w, h) = UpdateScrollbar(v)
      BY DEF Resized
    <2>4. <<w, h>> \in Int \X Int
      BY <2>1
    <2> HIDE DEF u
    <2>5. v \in Terminals(w, h)
      BY <2>2, <2>4 DEF Terminals
    <2> HIDE DEF v
    <2>6. UpdateScrollbar(v) \in Terminals(w, h) /\ Viewed(UpdateScrollbar(v))
      BY <2>1, <2>5, ScrollbarUpdated
    <2>7. QED
      BY <1>4, <1>11, <2>3, <2>6 DEF TermOK
  <1>12. ASSUME NEW lines \in Int
         PROVE  TermOK(ScrollView(t, lines))
    <2> DEFINE m == MaxViewOffset(t)
               k == Clamp(t.view_offset + lines, 0, m)
               v == [t EXCEPT !.view_offset = k]
    <2>1. k \in Nat
      <3> HIDE DEF m
      <3>1. m \in Nat
        BY <1>7 DEF m
      <3>2. QED
        BY <1>7, <3>1 DEF Clamp
    <2>2. ScrollView(t, lines) = UpdateScrollbar(v)
      BY DEF ScrollView
    <2> HIDE DEF k
    <2>3. v \in Terminals(c, r)
      BY <1>1, <2>1 DEF Terminals
    <2> HIDE DEF v
    <2>4. QED
      BY <1>3, <1>5, <2>2, <2>3, ScrollbarUpdated
  <1>13. \A y \in Int : HistoryLineAt(t, y) \in Int
    BY <1>7 DEF HistoryLineAt
  <1>14. ASSUME NEW x \in Int, NEW y \in Int
         PROVE  TermOK(MouseDown(t, x, y))
    <2> DEFINE line == HistoryLineAt(t, y)
               p == [line |-> line, col |-> x]
               v == [t EXCEPT !.sel_a = p, !.sel_b = p, !.sel_on = FALSE, !.sel_drag = TRUE]
    <2>1. MouseDown(t, x, y) = v
      BY DEF MouseDown
    <2> HIDE DEF line
    <2>2. p \in Positions
      BY <1>13 DEF Positions, line
    <2> HIDE DEF p
    <2>3. v \in Terminals(c, r)
      BY <1>1, <2>2 DEF Terminals
    <2>4. Viewed(v)
      BY <1>1 DEF Viewed, MaxViewOffset, Terminals
    <2>5. QED
      BY <1>5, <2>1, <2>3, <2>4
  <1>15. ASSUME NEW x \in Int, NEW y \in Int, NEW up \in BOOLEAN
         PROVE  TermOK(MouseTo(t, x, y, up))
    <2> DEFINE line == HistoryLineAt(t, y)
               p  == [line |-> line, col |-> x]
               on == t.sel_a # p
               drag == ~up
               v  == [t EXCEPT !.sel_b = p, !.sel_on = on, !.sel_drag = drag]
    <2>1. MouseTo(t, x, y, up) = v
      BY DEF MouseTo
    <2> HIDE DEF line
    <2>2. p \in Positions /\ on \in BOOLEAN /\ drag \in BOOLEAN
      BY <1>13 DEF Positions, line
    <2> HIDE DEF p, on, drag
    <2>3. v \in Terminals(c, r)
      BY <1>1, <2>2, SelectionPut
    <2>4. Viewed(v)
      BY <1>1 DEF Viewed, MaxViewOffset, Terminals
    <2>5. QED
      BY <1>5, <2>1, <2>3, <2>4
  <1>16. ASSUME NEW echo \in Seq(Byte)
         PROVE  TermOK(ExpectPromptAfter(t, echo))
    <2> DEFINE nl == echo = <<>>
               v  == [t EXCEPT !.swallow_echo = echo, !.swallow_i = 0, !.swallow_nl = nl,
                               !.swallow_on = TRUE]
    <2>1. ExpectPromptAfter(t, echo) = v /\ nl \in BOOLEAN
      BY DEF ExpectPromptAfter
    <2> HIDE DEF nl
    <2>2. v \in Terminals(c, r)
      BY <1>1, <2>1 DEF Terminals
    <2>3. Viewed(v)
      BY <1>1 DEF Viewed, MaxViewOffset, Terminals
    <2>4. QED
      BY <1>5, <2>1, <2>2, <2>3
  <1>17. QED
    BY <1>8, <1>9, <1>10, <1>11, <1>12, <1>14, <1>15, <1>16

LEMMA MaxSessionsIsThere ==
  /\ MaxSessions \in Nat
  /\ \A play \in Plays : Len(play) <= MaxSessions
  <1>1. PICK longest \in Plays : \A other \in Plays : Len(other) <= Len(longest)
    BY ShellAssumption
  <1> DEFINE S == {Len(play) : play \in Plays}
  <1>2. \A play \in Plays : Len(play) \in Nat
    BY ShellAssumption, LenProperties
  <1>3. \E m \in S : \A k \in S : m >= k
    BY <1>1, <1>2
  <1>4. Max(S) \in S /\ \A k \in S : Max(S) >= k
    BY <1>3 DEF Max
  <1>5. QED
    BY <1>2, <1>4 DEF MaxSessions

LEMMA ScriptIsThere ==
  ASSUME NEW q, Len(q) \in Nat, NEW script \in NextScripts(q)
  PROVE  script \in Seq(Byte) /\ Len(q) < MaxSessions
  <1>1. PICK p \in Plays : Len(p) > Len(q) /\ script = p[Len(q) + 1]
    BY DEF NextScripts
  <1>2. p \in Seq(Seq(Byte)) /\ Len(p) \in Nat
    BY ShellAssumption, LenProperties
  <1>3. Len(p) <= MaxSessions /\ MaxSessions \in Nat
    BY MaxSessionsIsThere
  <1>4. Len(q) + 1 \in 1 .. Len(p)
    BY <1>1, <1>2
  <1>5. script \in Seq(Byte)
    BY <1>1, <1>2, <1>4, ElementOfSeq
  <1>6. QED
    BY <1>1, <1>2, <1>3, <1>5

LEMMA NewIsAShell ==
  ASSUME NEW s \in Servers, NEW script \in Seq(Byte), NEW size \in Sizes
  PROVE  NewSession(s, script, size) \in Shells /\ NewSession(s, script, size).server = s
  <1>1. <<>> \in Seq(Item) /\ IsPrefix(<<>>, <<>>) /\ <<>> = <<>> \o <<>> \o <<>>
    BY DEF IsPrefix
  <1>2. QED
    BY <1>1 DEF NewSession, Shells, Told, Steps

\* The steps of the thread that change nothing of what was written.
LEMMA StepsOfTheThread ==
  ASSUME NEW o \in Shells
  PROVE  /\ o.pc = "connect" => /\ [o EXCEPT !.pc = "loop", !.pty = o.size] \in Shells
                                /\ [o EXCEPT !.pc = "close"] \in Shells
         /\ o.pc = "loop" => [o EXCEPT !.pc = "close"] \in Shells
         /\ o.pc = "read" =>
              /\ \A k \in Nat : [o EXCEPT !.read = @ + k] \in Shells
              /\ [o EXCEPT !.pc = "loop"] \in Shells /\ [o EXCEPT !.pc = "close"] \in Shells
              /\ [o EXCEPT !.stop = TRUE, !.pc = "close"] \in Shells
         /\ o.pc = "write" =>
              [o EXCEPT !.stop = TRUE, !.pc = "close", !.pending = <<>>] \in Shells
         /\ o.pc = "close" => [o EXCEPT !.running = FALSE, !.pc = "notify"] \in Shells
         /\ o.pc = "notify" => [o EXCEPT !.pc = "done"] \in Shells
         /\ [o EXCEPT !.stop = TRUE] \in Shells
         /\ \A size \in Sizes : [o EXCEPT !.resize = size] \in Shells
  <1>1. o.pc = "connect" => /\ [o EXCEPT !.pc = "loop", !.pty = o.size] \in Shells
                            /\ [o EXCEPT !.pc = "close"] \in Shells
    BY DEF Shells, Steps
  <1>2. o.pc \in {"loop", "read"} => [o EXCEPT !.pc = "close"] \in Shells
    BY DEF Shells, Steps
  <1>3. o.pc = "read" => /\ \A k \in Nat : [o EXCEPT !.read = @ + k] \in Shells
                         /\ [o EXCEPT !.pc = "loop"] \in Shells
    <2>1. \A m \in Nat : [o EXCEPT !.read = m] \in Shells
      BY DEF Shells
    <2>2. \A k \in Nat : o.read + k \in Nat
      BY DEF Shells
    <2>3. o.pc = "read" => [o EXCEPT !.pc = "loop"] \in Shells
      BY DEF Shells, Steps
    <2>4. QED
      BY <2>1, <2>2, <2>3
  <1>4. /\ o.pc = "read" => [o EXCEPT !.stop = TRUE, !.pc = "close"] \in Shells
        /\ o.pc = "write" => [o EXCEPT !.stop = TRUE, !.pc = "close", !.pending = <<>>] \in Shells
    <2>1. <<>> \in Seq(Item)
      OBVIOUS
    <2>2. QED
      BY <2>1 DEF Shells, Steps
  <1>5. /\ o.pc = "close" => [o EXCEPT !.running = FALSE, !.pc = "notify"] \in Shells
        /\ o.pc = "notify" => [o EXCEPT !.pc = "done"] \in Shells
    BY DEF Shells, Steps
  <1>6. [o EXCEPT !.stop = TRUE] \in Shells
    BY DEF Shells
  <1>7. \A size \in Sizes : [o EXCEPT !.resize = size] \in Shells
    BY DEF Shells, Told
  <1>8. QED
    BY <1>1, <1>2, <1>3, <1>4, <1>5, <1>6, <1>7

LEMMA ThreeParts ==
  ASSUME NEW a \in Seq(Item), NEW b \in Seq(Item), NEW c \in Seq(Item)
  PROVE  (a \o b) \o c = a \o (b \o c)
  BY ConcatAssociative

\* write() appends to both; what the thread took over keeps its place between what was
\* received and what is new.
LEMMA WriteIsKept ==
  ASSUME NEW o \in Shells, NEW items \in Seq(Item)
  PROVE  [o EXCEPT !.write_buf = @ \o items, !.accepted = @ \o items] \in Shells
  <1> DEFINE buf == o.write_buf \o items
             acc == o.accepted \o items
  <1>1. /\ o.write_buf \in Seq(Item) /\ o.accepted \in Seq(Item) /\ o.received \in Seq(Item)
        /\ o.pending \in Seq(Item) /\ IsPrefix(o.received, o.accepted)
    BY DEF Shells
  <1>2. buf \in Seq(Item) /\ acc \in Seq(Item)
    BY <1>1, ConcatProperties
  <1>3. IsPrefix(o.received, acc)
    BY <1>1, PrefixGrows
  <1>4. o.accepted = o.received \o o.pending \o o.write_buf => acc = o.received \o o.pending \o buf
    <2> DEFINE got == o.received \o o.pending
    <2>1. got \in Seq(Item)
      BY <1>1, ConcatProperties
    <2> HIDE DEF got
    <2>2. (got \o o.write_buf) \o items = got \o (o.write_buf \o items)
      BY <1>1, <2>1, ThreeParts
    <2>3. QED
      BY <2>2 DEF got
  <1> HIDE DEF buf, acc
  <1>5. [o EXCEPT !.write_buf = buf, !.accepted = acc] \in Shells
    BY <1>2, <1>3, <1>4 DEF Shells
  <1>6. QED
    BY <1>5 DEF buf, acc

\* The swap at the head of the loop.
LEMMA TakenIsKept ==
  ASSUME NEW o \in Shells, o.pc = "loop", ~o.stop
  PROVE  Taken(o, o.resize, <<>>) \in Shells
  <1> DEFINE pc  == IF o.write_buf = <<>> THEN "read" ELSE "write"
             pty == IF o.resize # NoSize THEN o.resize ELSE o.pty
             buf == o.write_buf
  <1>1. /\ buf \in Seq(Item) /\ o.received \in Seq(Item) /\ o.pending = <<>>
        /\ o.accepted = o.received \o o.pending \o buf
        /\ pty \in Told /\ o.running /\ NoSize \in Told
    BY DEF Shells, Told
  <1>2. o.accepted = o.received \o buf \o <<>>
    <2> HIDE DEF buf
    <2>1. o.received \o <<>> = o.received /\ o.received \o buf \in Seq(Item)
      BY <1>1, ConcatEmptySeq, ConcatProperties
    <2>2. (o.received \o buf) \o <<>> = o.received \o buf
      BY <2>1, ConcatEmptySeq
    <2>3. QED
      BY <1>1, <2>1, <2>2
  <1>3. pc \in {"read", "write"} /\ (pc # "write" => buf = <<>>) /\ <<>> \in Seq(Item)
    OBVIOUS
  <1>4. Taken(o, o.resize, <<>>) =
          [o EXCEPT !.pc = pc, !.pty = pty, !.resize = NoSize, !.pending = buf, !.write_buf = <<>>]
    BY DEF Taken
  <1> HIDE DEF pc, pty, buf
  <1>5. QED
    BY <1>1, <1>2, <1>3, <1>4 DEF Shells, Steps

LEMMA PartIsWritten ==
  ASSUME NEW o \in Shells, o.pc = "write", ~o.stop, NEW k \in DOMAIN o.pending
  PROVE  [o EXCEPT !.received = @ \o SubSeq(o.pending, 1, k),
                   !.pending  = SubSeq(o.pending, k + 1, Len(o.pending))] \in Shells
  <1> DEFINE a == SubSeq(o.pending, 1, k)
             b == SubSeq(o.pending, k + 1, Len(o.pending))
             got == o.received \o a
  <1>1. /\ o.pending \in Seq(Item) /\ o.received \in Seq(Item) /\ o.write_buf \in Seq(Item)
        /\ o.accepted = o.received \o o.pending \o o.write_buf
    BY DEF Shells
  <1>2. k \in 1 .. Len(o.pending)
    BY <1>1, LenProperties
  <1>3. a \in Seq(Item) /\ b \in Seq(Item) /\ a \o b = o.pending
    BY <1>1, <1>2, InTwoParts
  <1> HIDE DEF a, b
  <1>4. got \in Seq(Item)
    BY <1>1, <1>3, ConcatProperties
  <1>5. o.accepted = got \o b \o o.write_buf
    <2>1. (o.received \o a) \o b = o.received \o (a \o b)
      BY <1>1, <1>3, ThreeParts
    <2>2. QED
      BY <1>1, <1>3, <2>1
  <1>6. IsPrefix(got, o.accepted)
    <2> DEFINE rest == b \o o.write_buf
    <2>1. rest \in Seq(Item)
      BY <1>1, <1>3, ConcatProperties
    <2>2. o.accepted = got \o rest
      <3> HIDE DEF got
      <3>1. QED
        BY <1>1, <1>3, <1>4, <1>5, ThreeParts
    <2> HIDE DEF got, rest
    <2>3. QED
      BY <1>4, <2>1, <2>2, PrefixGrows
  <1> HIDE DEF got
  <1>7. [o EXCEPT !.received = got, !.pending = b] \in Shells
    BY <1>3, <1>4, <1>5, <1>6 DEF Shells
  <1>8. QED
    BY <1>7 DEF got, a, b

LEMMA WritingEnds ==
  ASSUME NEW o \in Shells, o.pc = "write", o.pending = <<>> \/ o.stop
  PROVE  [o EXCEPT !.pc = "read", !.pending = <<>>] \in Shells
  <1>1. <<>> \in Seq(Item)
    OBVIOUS
  <1>2. QED
    BY <1>1 DEF Shells, Steps

-----------------------------------------------------------------------------
(* Every step keeps the invariant                                           *)

\* The sessions there are go on, and so does what the handlers know of them.
SessionsGoOn ==
  /\ ses' \in Seq(Shells) /\ Len(ses') = Len(ses)
  /\ \A i \in Sessions : ses'[i].server = ses[i].server

LEMMA ShellsGoOn ==
  ASSUME IInv, SessionsGoOn, UNCHANGED cur, shell_server_id' \in {shell_server_id, NoServer}
  PROVE  ShellsInv'
  <1>1. Len(ses) \in Nat
    BY LenProperties DEF IInv, ShellsInv
  <1>2. cur # 0 => ses'[cur].server = ses[cur].server
    <2>1. cur # 0 => cur \in Sessions
      BY <1>1 DEF IInv, ShellsInv, Sessions
    <2>2. QED
      BY <2>1 DEF SessionsGoOn
  <1>3. QED
    BY <1>2 DEF IInv, ShellsInv, SessionsGoOn

LEMMA GoingOn ==
  ASSUME IInv, SessionsGoOn, UNCHANGED <<cur, gui>>, closures' \in Seq(Posts), acts' \in Nat,
         shell_server_id' \in {shell_server_id, NoServer}
  PROVE  ShellsInv' /\ GuiInv'
  <1>1. ShellsInv'
    BY ShellsGoOn
  <1>2. GuiInv'
    BY DEF IInv, GuiInv, SessionsGoOn
  <1>3. QED
    BY <1>1, <1>2

LEMMA NoChange ==
  ASSUME IInv, UNCHANGED ses
  PROVE  SessionsGoOn
  BY DEF SessionsGoOn, IInv, ShellsInv

LEMMA OneChanges ==
  ASSUME IInv, NEW n \in Sessions, NEW r \in Shells, r.server = ses[n].server,
         ses' = [ses EXCEPT ![n] = r]
  PROVE  SessionsGoOn
  <1>1. ses \in Seq(Shells) /\ n \in 1 .. Len(ses)
    BY DEF IInv, ShellsInv, Sessions
  <1>2. [ses EXCEPT ![n] = r] \in Seq(Shells) /\ Len([ses EXCEPT ![n] = r]) = Len(ses)
    BY <1>1, ExceptSeq
  <1>3. \A i \in 1 .. Len(ses) : [ses EXCEPT ![n] = r][i] = IF i = n THEN r ELSE ses[i]
    BY <1>1, LenProperties
  <1>4. QED
    BY <1>2, <1>3 DEF SessionsGoOn, Sessions

LEMMA SessionIsThere ==
  ASSUME IInv
  PROVE  /\ \A n \in Sessions : ses[n] \in Shells
         /\ Len(ses) \in Nat /\ (cur # 0 => cur \in Sessions)
         /\ \A n : n \in Sessions => n \in Nat
  <1>1. ses \in Seq(Shells) /\ Len(ses) \in Nat /\ cur \in 0 .. Len(ses)
    BY LenProperties DEF IInv, ShellsInv
  <1>2. QED
    BY <1>1, ElementOfSeq DEF Sessions

\* What a thread does, whatever it posts.
LEMMA WorkerKeeps ==
  ASSUME IInv, NEW n, NEW step, NEW r \in Shells, r.server = ses[n].server, Worker(n, step, r),
         closures' \in Seq(Posts)
  PROVE  IInv'
  <1>1. SessionsGoOn
    BY OneChanges DEF Worker
  <1>2. acts' \in Nat
    BY DEF Worker, IInv, GuiInv
  <1>3. ShellsInv' /\ GuiInv'
    BY <1>1, <1>2, GoingOn DEF Worker
  <1>4. TermOK(term)'
    BY DEF Worker, IInv
  <1>5. QED
    BY <1>3, <1>4 DEF IInv

LEMMA WorkerGoesOnKeeps ==
  ASSUME IInv, NEW n, WorkerGoesOn(n)
  PROVE  IInv'
  <1> DEFINE o == ses[n]
  <1>1. n \in Sessions /\ o \in Shells /\ n \in Nat
    BY SessionIsThere
       DEF WorkerGoesOn, Connected, ConnectFails, Loop, WriteEnds, ReadEnds, CloseChannel,
           NotifyClosed, Worker
  <1>2. closures \in Seq(Posts)
    BY DEF IInv, GuiInv
  <1>3. UNCHANGED closures => closures' \in Seq(Posts)
    BY <1>2
  <1>4. ASSUME NEW step, NEW r \in Shells, Worker(n, step, r), r.server = o.server, UNCHANGED closures
        PROVE  IInv'
    BY <1>3, <1>4, WorkerKeeps
  <1>5. o.server = o.server
    OBVIOUS
  <1>6. CASE Connected(n)
    <2>1. Worker(n, "connect", [o EXCEPT !.pc = "loop", !.pty = o.size]) /\ UNCHANGED closures
      BY <1>6 DEF Connected
    <2>2. o.pc = "connect"
      BY <2>1 DEF Worker
    <2> DEFINE r == [o EXCEPT !.pc = "loop", !.pty = o.size]
    <2>3. r.server = o.server
      BY <1>1 DEF Shells
    <2> HIDE DEF o
    <2>4. r \in Shells
      BY <1>1, <2>2, StepsOfTheThread
    <2> HIDE DEF r
    <2>5. QED
      BY <1>4, <2>1, <2>3, <2>4 DEF r
  <1>7. CASE ConnectFails(n)
    <2> DEFINE r == [o EXCEPT !.pc = "close"]
    <2>1. Worker(n, "connect", r) /\ UNCHANGED closures /\ o.pc = "connect"
      BY <1>7 DEF ConnectFails, Worker
    <2>2. r \in Shells
      BY <1>1, <2>1, StepsOfTheThread
    <2>3. r.server = o.server
      BY <1>1 DEF Shells
    <2> HIDE DEF r
    <2>4. QED
      BY <1>4, <2>1, <2>2, <2>3
  <1>8. CASE Loop(n)
    <2> DEFINE r == IF o.stop THEN [o EXCEPT !.pc = "close"] ELSE Taken(o, o.resize, <<>>)
    <2>1. Worker(n, "loop", r) /\ UNCHANGED closures /\ o.pc = "loop"
      BY <1>8 DEF Loop, Worker
    <2>2. r \in Shells
      BY <1>1, <2>1, StepsOfTheThread, TakenIsKept
    <2>3. r.server = o.server
      BY <1>1 DEF Taken, Shells
    <2> HIDE DEF r
    <2>4. QED
      BY <1>4, <2>1, <2>2, <2>3
  <1>9. CASE WriteEnds(n)
    <2> DEFINE r == [o EXCEPT !.pc = "read", !.pending = <<>>]
    <2>1. /\ Worker(n, "write", r) /\ UNCHANGED closures /\ o.pc = "write"
          /\ (o.pending = <<>> \/ o.stop)
      BY <1>9 DEF WriteEnds, Worker
    <2>2. r \in Shells
      BY <1>1, <2>1, WritingEnds
    <2>3. r.server = o.server
      BY <1>1 DEF Shells
    <2> HIDE DEF r
    <2>4. QED
      BY <1>4, <2>1, <2>2, <2>3
  <1>10. CASE ReadEnds(n)
    <2> DEFINE r1 == [o EXCEPT !.pc = "loop"]
               r2 == [o EXCEPT !.pc = "close"]
    <2>1. (Worker(n, "read", r1) \/ Worker(n, "read", r2)) /\ UNCHANGED closures /\ o.pc = "read"
      BY <1>10 DEF ReadEnds, Worker
    <2>2. r1 \in Shells /\ r2 \in Shells
      BY <1>1, <2>1, StepsOfTheThread
    <2>3. r1.server = o.server /\ r2.server = o.server
      BY <1>1 DEF Shells
    <2> HIDE DEF r1, r2
    <2>4. QED
      BY <1>4, <2>1, <2>2, <2>3
  <1>11. CASE CloseChannel(n)
    <2> DEFINE r == [o EXCEPT !.running = FALSE, !.pc = "notify"]
    <2>1. Worker(n, "close", r) /\ UNCHANGED closures /\ o.pc = "close"
      BY <1>11 DEF CloseChannel, Worker
    <2>2. r \in Shells
      BY <1>1, <2>1, StepsOfTheThread
    <2>3. r.server = o.server
      BY <1>1 DEF Shells
    <2> HIDE DEF r
    <2>4. QED
      BY <1>4, <2>1, <2>2, <2>3
  <1>12. CASE NotifyClosed(n)
    <2> DEFINE r == [o EXCEPT !.pc = "done"]
               post == [kind |-> "closed", session |-> n]
    <2>1. Worker(n, "notify", r) /\ closures' = Append(closures, post) /\ o.pc = "notify"
      BY <1>12 DEF NotifyClosed, Worker
    <2>2. r \in Shells
      BY <1>1, <2>1, StepsOfTheThread
    <2>3. r.server = o.server
      BY <1>1 DEF Shells
    <2>4. post \in Posts
      BY <1>1 DEF Posts
    <2> HIDE DEF r, post
    <2>5. closures' \in Seq(Posts)
      BY <1>2, <2>1, <2>4, AppendProperties
    <2>6. QED
      BY <2>1, <2>2, <2>3, <2>5, WorkerKeeps
  <1>13. QED
    BY <1>6, <1>7, <1>8, <1>9, <1>10, <1>11, <1>12 DEF WorkerGoesOn

LEMMA WriteSomeKeeps ==
  ASSUME IInv, NEW n, WriteSome(n)
  PROVE  IInv'
  <1> DEFINE o == ses[n]
             r(k) == [o EXCEPT !.received = @ \o SubSeq(o.pending, 1, k),
                               !.pending  = SubSeq(o.pending, k + 1, Len(o.pending))]
  <1>1. PICK k \in DOMAIN o.pending : Worker(n, "write", r(k))
    BY DEF WriteSome
  <1>2. n \in Sessions /\ ~o.stop /\ o.pc = "write" /\ UNCHANGED closures
    BY DEF WriteSome, Worker
  <1>3. o \in Shells
    BY <1>2, SessionIsThere
  <1>4. r(k) \in Shells
    BY <1>2, <1>3, PartIsWritten
  <1>5. r(k).server = o.server
    BY <1>3 DEF Shells
  <1>6. closures' \in Seq(Posts)
    BY <1>2 DEF IInv, GuiInv
  <1> DEFINE rk == r(k)
  <1>7. Worker(n, "write", rk) /\ rk \in Shells /\ rk.server = o.server
    BY <1>1, <1>4, <1>5
  <1> HIDE DEF rk
  <1>8. QED
    BY <1>6, <1>7, WorkerKeeps

LEMMA ReadSomeKeeps ==
  ASSUME IInv, NEW n, ReadSome(n)
  PROVE  IInv'
  <1> DEFINE o == ses[n]
             r(k) == [o EXCEPT !.read = @ + k]
             post(k) == [kind |-> "output", session |-> n,
                         bytes |-> SubSeq(o.script, o.read + 1, o.read + k)]
  <1>1. PICK k \in {1, Len(o.script) - o.read} :
          Worker(n, "read", r(k)) /\ closures' = Append(closures, post(k))
    BY DEF ReadSome
  <1>2. n \in Sessions /\ o.pc = "read" /\ o.read < Len(o.script)
    BY DEF ReadSome, Worker
  <1>3. o \in Shells /\ n \in Nat
    BY <1>2, SessionIsThere
  <1>4. o.script \in Seq(Byte) /\ o.read \in Nat /\ Len(o.script) \in Nat
    BY <1>3, LenProperties DEF Shells
  <1>5. k \in Nat \ {0} /\ o.read + k <= Len(o.script)
    BY <1>2, <1>4
  <1>6. SubSeq(o.script, o.read + 1, o.read + k) \in Seq(Byte)
    <2> DEFINE a == o.read + 1
               b == o.read + k
               script == o.script
    <2>1. a \in Int /\ b \in Int /\ \A i \in a .. b : i \in 1 .. Len(script)
      BY <1>4, <1>5
    <2> HIDE DEF a, b, script
    <2>2. script \in Seq(Byte)
      BY <1>4 DEF script
    <2>3. \A i \in a .. b : script[i] \in Byte
      BY <2>1, <2>2, ElementOfSeq
    <2>4. SubSeq(script, a, b) \in Seq(Byte)
      BY <2>1, <2>3, SubSeqProperties
    <2>5. QED
      BY <2>4 DEF a, b, script
  <1>7. post(k) \in Posts
    BY <1>3, <1>6 DEF Posts
  <1>8. r(k) \in Shells
    BY <1>2, <1>3, <1>5, StepsOfTheThread
  <1>9. r(k).server = o.server
    BY <1>3 DEF Shells
  <1> DEFINE rk == r(k)
             pk == post(k)
  <1>10. /\ Worker(n, "read", rk) /\ closures' = Append(closures, pk) /\ rk \in Shells
         /\ rk.server = o.server /\ pk \in Posts
    BY <1>1, <1>7, <1>8, <1>9
  <1> HIDE DEF rk, pk
  <1>11. closures' \in Seq(Posts)
    BY <1>10, AppendProperties DEF IInv, GuiInv
  <1>12. QED
    BY <1>10, <1>11, WorkerKeeps

LEMMA BreaksKeeps ==
  ASSUME IInv, NEW n, Breaks(n)
  PROVE  IInv'
  <1> DEFINE o  == ses[n]
             r1 == [o EXCEPT !.stop = TRUE, !.pc = "close"]
             r2 == [o EXCEPT !.stop = TRUE, !.pc = "close", !.pending = <<>>]
  <1>1. \/ Worker(n, "read", r1)
        \/ Worker(n, "write", r2)
    BY DEF Breaks
  <1>2. n \in Sessions /\ UNCHANGED closures
    BY DEF Breaks
  <1>3. o \in Shells
    BY <1>2, SessionIsThere
  <1>4. closures' \in Seq(Posts)
    BY <1>2 DEF IInv, GuiInv
  <1>5. r1.server = o.server /\ r2.server = o.server
    BY <1>3 DEF Shells
  <1>6. CASE Worker(n, "read", r1)
    <2>1. o.pc = "read"
      BY <1>6 DEF Worker
    <2>2. r1 \in Shells
      BY <1>3, <2>1, StepsOfTheThread
    <2> HIDE DEF r1
    <2>3. QED
      BY <1>4, <1>5, <1>6, <2>2, WorkerKeeps
  <1>7. CASE Worker(n, "write", r2)
    <2>1. o.pc = "write"
      BY <1>7 DEF Worker
    <2>2. r2 \in Shells
      BY <1>3, <2>1, StepsOfTheThread
    <2> HIDE DEF r2
    <2>3. QED
      BY <1>4, <1>5, <1>7, <2>2, WorkerKeeps
  <1>8. QED
    BY <1>1, <1>6, <1>7

\* write() to the session there is.
LEMMA WrittenGoesOn ==
  ASSUME IInv, NEW items \in Seq(Item), ses' = Written(cur, items)
  PROVE  SessionsGoOn
  <1> DEFINE o == ses[cur]
             r == [o EXCEPT !.write_buf = @ \o items, !.accepted = @ \o items]
  <1>1. CASE ~Running(cur)
    <2>1. UNCHANGED ses
      BY <1>1 DEF Written
    <2>2. QED
      BY <2>1, NoChange
  <1>2. CASE Running(cur)
    <2>1. cur \in Sessions /\ o \in Shells
      BY <1>2, SessionIsThere DEF Running
    <2>2. ses' = [ses EXCEPT ![cur] = r]
      BY <1>2 DEF Written
    <2>3. r \in Shells
      BY <2>1, WriteIsKept
    <2>4. r.server = o.server
      BY <2>1 DEF Shells
    <2> HIDE DEF r
    <2>5. QED
      BY <2>1, <2>2, <2>3, <2>4, OneChanges
  <1>3. QED
    BY <1>1, <1>2

LEMMA FeedTerminalKeeps ==
  ASSUME IInv, NEW bytes \in Seq(Byte), NEW from_pty \in BOOLEAN, FeedTerminal(bytes, from_pty)
  PROVE  TermOK(term)' /\ SessionsGoOn
  <1> DEFINE t == Feed(term, bytes, from_pty)
             items == [i \in DOMAIN t.replies |-> [kind |-> "cpr", n |-> t.replies[i][1]]]
             u == [t EXCEPT !.replies = <<>>]
  <1>1. TermOK(t)
    BY TermStaysOK DEF IInv
  <1>2. term' = u /\ ses' = Written(cur, items)
    BY DEF FeedTerminal
  <1> HIDE DEF t
  <1>3. t.replies \in Seq(Nat \X Nat)
    BY <1>1 DEF TermOK, Terminals
  <1>4. items \in Seq(Item)
    <2> DEFINE q == t.replies
    <2>1. Len(q) \in Nat /\ DOMAIN q = 1 .. Len(q) /\ \A i \in 1 .. Len(q) : q[i] \in Nat \X Nat
      BY <1>3, LenProperties, ElementOfSeq
    <2>2. items = [i \in DOMAIN q |-> [kind |-> "cpr", n |-> q[i][1]]]
      OBVIOUS
    <2> HIDE DEF q, items
    <2>3. \A i \in 1 .. Len(q) : [kind |-> "cpr", n |-> q[i][1]] \in Item
      BY <2>1 DEF Item
    <2>4. items \in [1 .. Len(q) -> Item]
      BY <2>1, <2>2, <2>3
    <2>5. QED
      BY <2>1, <2>4, SeqDef
  <1> HIDE DEF items
  <1>5. SessionsGoOn
    BY <1>2, <1>4, WrittenGoesOn
  <1>6. TermOK(u)
    <2>1. <<t.cols, t.rows>> \in Sizes /\ t \in Terminals(t.cols, t.rows) /\ Viewed(t)
      BY <1>1 DEF TermOK
    <2>2. u.cols = t.cols /\ u.rows = t.rows /\ Viewed(u)
      BY <2>1 DEF Terminals, Viewed, MaxViewOffset
    <2>3. <<>> \in Seq(Nat \X Nat)
      OBVIOUS
    <2>4. u \in Terminals(t.cols, t.rows)
      BY <2>1, <2>3 DEF Terminals
    <2>5. QED
      BY <2>1, <2>2, <2>4 DEF TermOK
  <1>7. QED
    BY <1>2, <1>5, <1>6

LEMMA StartShellKeeps ==
  ASSUME IInv, NEW s \in Servers, NEW script \in Seq(Byte), Len(ses) < MaxSessions,
         StartShell(s, script), UNCHANGED <<closures, acts>>
  PROVE  IInv'
  <1> DEFINE size == <<term.cols, term.rows>>
             r == NewSession(s, script, size)
  <1>1. size \in Sizes
    BY DEF IInv, TermOK
  <1>2. r \in Shells /\ r.server = s
    BY <1>1, NewIsAShell
  <1>3. ses' = Append(ses, r) /\ cur' = Len(ses) + 1 /\ shell_server_id' = s /\ gui' = Idle
    BY DEF StartShell
  <1>4. ses \in Seq(Shells) /\ Len(ses) \in Nat
    BY SessionIsThere DEF IInv, ShellsInv
  <1> HIDE DEF r
  <1>5. ses' \in Seq(Shells) /\ Len(ses') = Len(ses) + 1 /\ ses'[Len(ses) + 1] = r
    BY <1>2, <1>3, <1>4, AppendProperties
  <1>6. MaxSessions \in Int => Len(ses') <= MaxSessions
    BY <1>4, <1>5
  <1>7. MaxSessions \in Int
    BY MaxSessionsIsThere
  <1>8. ShellsInv'
    BY <1>2, <1>3, <1>4, <1>5, <1>6, <1>7 DEF ShellsInv
  <1>9. GuiInv'
    BY <1>3 DEF IInv, GuiInv, Waits, Idle
  <1>10. TermOK(term)'
    BY TermStaysOK DEF IInv, StartShell
  <1>11. QED
    BY <1>8, <1>9, <1>10 DEF IInv

\* ShellSession::stop tells the thread.
LEMMA StopGoesOn ==
  ASSUME IInv, cur # 0, ses' = [ses EXCEPT ![cur].stop = TRUE], UNCHANGED <<cur, shell_server_id>>
  PROVE  ShellsInv' /\ Len(ses') = Len(ses)
  <1> DEFINE o == ses[cur]
             r == [o EXCEPT !.stop = TRUE]
  <1>1. cur \in Sessions /\ o \in Shells
    BY SessionIsThere
  <1>2. ses' = [ses EXCEPT ![cur] = r]
    OBVIOUS
  <1>3. r \in Shells
    BY <1>1, StepsOfTheThread
  <1>4. r.server = o.server
    BY <1>1 DEF Shells
  <1> HIDE DEF r
  <1>5. SessionsGoOn
    BY <1>1, <1>2, <1>3, <1>4, OneChanges
  <1>6. QED
    BY <1>5, ShellsGoOn DEF SessionsGoOn

LEMMA ConnectShellKeeps ==
  ASSUME IInv, NEW s \in Servers, NEW script \in NextScripts(ses), ConnectShell(s, script)
  PROVE  IInv'
  <1>1. script \in Seq(Byte) /\ Len(ses) < MaxSessions
    BY SessionIsThere, ScriptIsThere
  <1>2. CASE cur = 0
    <2>1. StartShell(s, script) /\ UNCHANGED <<closures, acts>>
      BY <1>2 DEF ConnectShell
    <2>2. QED
      BY <1>1, <2>1, StartShellKeeps
  <1>3. CASE cur # 0
    <2> DEFINE r == [ses[cur] EXCEPT !.stop = TRUE]
    <2>1. /\ ses' = [ses EXCEPT ![cur] = r]
          /\ gui' = [op |-> "connect", server |-> s, script |-> script]
          /\ UNCHANGED <<term, cur, shell_server_id, closures, acts>>
      BY <1>3 DEF ConnectShell
    <2>2. ShellsInv' /\ Len(ses') = Len(ses)
      BY <1>3, <2>1, StopGoesOn
    <2>3. GuiInv'
      BY <1>1, <1>3, <2>1, <2>2 DEF IInv, GuiInv, Waits, Idle
    <2>4. TermOK(term)'
      BY <2>1 DEF IInv
    <2>5. QED
      BY <2>2, <2>3, <2>4 DEF IInv
  <1>4. QED
    BY <1>2, <1>3

LEMMA DisconnectShellKeeps ==
  ASSUME IInv, DisconnectShell
  PROVE  IInv'
  <1>1. cur # 0 /\ gui' = [op |-> "disconnect"]
    BY DEF DisconnectShell
  <1>2. ShellsInv' /\ Len(ses') = Len(ses)
    BY StopGoesOn DEF DisconnectShell
  <1>3. GuiInv'
    BY <1>1, <1>2 DEF DisconnectShell, IInv, GuiInv, Waits, Idle
  <1>4. TermOK(term)'
    BY DEF DisconnectShell, IInv
  <1>5. QED
    BY <1>2, <1>3, <1>4 DEF IInv

LEMMA JoinedKeeps ==
  ASSUME IInv, Joined
  PROVE  IInv'
  <1>1. CASE gui.op = "connect"
    <2>1. StartShell(gui.server, gui.script) /\ UNCHANGED <<closures, acts>>
      BY <1>1 DEF Joined
    <2>2. gui.server \in Servers /\ gui.script \in Seq(Byte) /\ Len(ses) < MaxSessions
      BY <1>1 DEF IInv, GuiInv, Waits, Idle
    <2>3. QED
      BY <2>1, <2>2, StartShellKeeps
  <1>2. CASE gui.op # "connect"
    <2>1. /\ cur' = 0 /\ shell_server_id' = NoServer /\ gui' = Idle
          /\ UNCHANGED <<term, ses, closures, acts>>
      BY <1>2 DEF Joined
    <2>2. ShellsInv'
      BY <2>1, SessionIsThere DEF IInv, ShellsInv
    <2>3. GuiInv'
      BY <2>1 DEF IInv, GuiInv, Waits, Idle
    <2>4. TermOK(term)'
      BY <2>1 DEF IInv
    <2>5. QED
      BY <2>2, <2>3, <2>4 DEF IInv
  <1>3. QED
    BY <1>1, <1>2

LEMMA OutputClosureKeeps ==
  ASSUME IInv, OutputClosure
  PROVE  IInv'
  <1>1. closures \in Seq(Posts) /\ closures # <<>>
    BY DEF IInv, GuiInv, OutputClosure
  <1>2. Head(closures) \in Posts /\ closures' \in Seq(Posts)
    BY <1>1, HeadTailProperties DEF OutputClosure
  <1>3. Head(closures).bytes \in Seq(Byte)
    BY <1>2 DEF OutputClosure, Posts
  <1>4. FeedTerminal(Head(closures).bytes, TRUE)
    BY DEF OutputClosure
  <1>5. TermOK(term)' /\ SessionsGoOn
    BY <1>3, <1>4, FeedTerminalKeeps
  <1>6. ShellsInv' /\ GuiInv'
    BY <1>2, <1>5, GoingOn DEF OutputClosure, IInv, GuiInv
  <1>7. QED
    BY <1>5, <1>6 DEF IInv

LEMMA ClosedClosureKeeps ==
  ASSUME IInv, ClosedClosure
  PROVE  IInv'
  <1>1. closures \in Seq(Posts) /\ closures # <<>>
    BY DEF IInv, GuiInv, ClosedClosure
  <1>2. closures' \in Seq(Posts)
    BY <1>1, HeadTailProperties DEF ClosedClosure
  <1>3. SessionsGoOn
    BY NoChange DEF ClosedClosure
  <1>4. ShellsInv' /\ GuiInv'
    BY <1>2, <1>3, GoingOn DEF ClosedClosure, IInv, GuiInv
  <1>5. QED
    BY <1>4 DEF ClosedClosure, IInv

\* What the user does.
LEMMA UserKeeps ==
  ASSUME IInv, TypeKey \/ Scroll \/ SelectFrom \/ SelectTo \/ ToggleAutomation
  PROVE  IInv'
  <1>1. closures \in Seq(Posts) /\ acts \in Nat /\ TermOK(term) /\ term.cols \in Int /\ term.rows \in Int
    BY ShellAssumption DEF IInv, GuiInv, TermOK
  <1>2. ASSUME SessionsGoOn, TermOK(term'), acts' \in {acts, acts + 1},
               UNCHANGED <<cur, gui, closures, shell_server_id>>
        PROVE  IInv'
    <2>1. ShellsInv' /\ GuiInv'
      BY <1>1, <1>2, GoingOn
    <2>2. QED
      BY <1>2, <2>1 DEF IInv
  <1>3. ASSUME NEW m \in Nat
        PROVE  <<[kind |-> "key", n |-> m]>> \in Seq(Item)
    BY DEF Item
  <1>4. CASE TypeKey
    <2>1. SessionsGoOn
      <3> DEFINE items == <<[kind |-> "key", n |-> acts + 1]>>
      <3>1. items \in Seq(Item) /\ ses' = Written(cur, items)
        BY <1>1, <1>3, <1>4 DEF TypeKey
      <3> HIDE DEF items
      <3>2. QED
        BY <3>1, WrittenGoesOn
    <2>2. TermOK(term')
      BY <1>1, <1>4, TermStaysOK DEF TypeKey
    <2>3. QED
      BY <1>2, <1>4, <2>1, <2>2 DEF TypeKey, Act
  <1>5. CASE Scroll
    <2>1. SessionsGoOn
      <3> DEFINE items == <<[kind |-> "key", n |-> 0]>>
      <3>1. items \in Seq(Item)
        BY <1>3
      <3>2. UNCHANGED ses \/ ses' = Written(cur, items)
        BY <1>5 DEF Scroll
      <3> HIDE DEF items
      <3>3. QED
        BY <3>1, <3>2, WrittenGoesOn, NoChange
    <2>2. TermOK(term')
      <3>1. CASE UNCHANGED term
        BY <1>1, <3>1
      <3>2. CASE \E lines \in {1 - term.rows, term.rows - 1} : term' = ScrollView(term, lines)
        <4>1. 1 - term.rows \in Int /\ term.rows - 1 \in Int
          BY <1>1
        <4>2. \A lines \in Int : TermOK(ScrollView(term, lines))
          BY <1>1, TermStaysOK
        <4>3. QED
          BY <3>2, <4>1, <4>2
      <3>3. QED
        BY <1>5, <3>1, <3>2 DEF Scroll
    <2>3. QED
      BY <1>2, <1>5, <2>1, <2>2 DEF Scroll, Act
  <1>6. \A p \in Corners : p[1] \in Int /\ p[2] \in Int
    BY <1>1 DEF Corners
  <1>7. CASE SelectFrom
    <2>1. TermOK(term')
      BY <1>1, <1>6, <1>7, TermStaysOK DEF SelectFrom
    <2>2. QED
      BY <1>2, <1>7, <2>1, NoChange DEF SelectFrom, Act
  <1>8. CASE SelectTo
    <2>1. TermOK(term')
      BY <1>1, <1>6, <1>8, TermStaysOK DEF SelectTo
    <2>2. QED
      BY <1>2, <1>8, <2>1, NoChange DEF SelectTo
  <1>9. CASE ToggleAutomation
    BY <1>1, <1>2, <1>9, NoChange DEF ToggleAutomation, Act
  <1>10. QED
    BY <1>4, <1>5, <1>7, <1>8, <1>9

LEMMA ResizeWindowKeeps ==
  ASSUME IInv, NEW size \in Sizes, ResizeWindow(size)
  PROVE  IInv'
  <1>1. size = <<size[1], size[2]>>
    BY ShellAssumption
  <1>2. TermOK(term)'
    BY <1>1, TermStaysOK DEF IInv, ResizeWindow
  <1>3. SessionsGoOn
    <2>1. CASE UNCHANGED ses
      BY <2>1, NoChange
    <2>2. CASE Running(cur) /\ ses' = [ses EXCEPT ![cur].resize = size]
      <3> DEFINE o == ses[cur]
                 r == [o EXCEPT !.resize = size]
      <3>1. cur \in Sessions /\ o \in Shells
        BY <2>2, SessionIsThere DEF Running
      <3>2. ses' = [ses EXCEPT ![cur] = r]
        BY <2>2
      <3>3. r \in Shells
        BY <3>1, StepsOfTheThread
      <3>4. r.server = o.server
        BY <3>1 DEF Shells
      <3> HIDE DEF r
      <3>5. QED
        BY <3>1, <3>2, <3>3, <3>4, OneChanges
    <2>3. QED
      BY <2>1, <2>2 DEF ResizeWindow
  <1>4. closures' \in Seq(Posts) /\ acts' \in Nat
    BY DEF IInv, GuiInv, ResizeWindow, Act
  <1>5. ShellsInv' /\ GuiInv'
    BY <1>3, <1>4, GoingOn DEF ResizeWindow
  <1>6. QED
    BY <1>2, <1>5 DEF IInv

\* A run, as far as the shell sees it.
LEMMA AppendOutputKeeps ==
  ASSUME IInv, NEW s, NEW text \in Seq(Byte), AppendOutput(s, text)
  PROVE  TermOK(term)' /\ SessionsGoOn
  <1>1. CASE FeedTerminal(text, FALSE)
    BY <1>1, FeedTerminalKeeps
  <1>2. CASE UNCHANGED <<term, ses>>
    BY <1>2, NoChange DEF IInv
  <1>3. QED
    BY <1>1, <1>2 DEF AppendOutput

LEMMA RunsKeep ==
  ASSUME IInv, NEW text \in RunTexts, RunPrints(text) \/ \E s \in Servers : RunStarts(s, text)
  PROVE  IInv'
  <1>1. text \in Seq(Byte)
    BY ShellAssumption
  <1>2. \E s : AppendOutput(s, text)
    BY DEF RunPrints, RunStarts
  <1>3. TermOK(term)' /\ SessionsGoOn
    BY <1>1, <1>2, AppendOutputKeeps
  <1>4. closures' \in Seq(Posts) /\ acts' \in Nat /\ UNCHANGED <<cur, gui, shell_server_id>>
    BY DEF IInv, GuiInv, RunPrints, RunStarts, Act
  <1>5. ShellsInv' /\ GuiInv'
    BY <1>3, <1>4, GoingOn
  <1>6. QED
    BY <1>3, <1>5 DEF IInv

LEMMA RunEndsKeeps ==
  ASSUME IInv, NEW follow \in BOOLEAN, RunEnds(follow)
  PROVE  IInv'
  <1> DEFINE echo == IF follow THEN EchoOf[shell_server_id] ELSE <<>>
             items == <<[kind |-> "cd", n |-> Len(echo)]>>
  <1>1. TermOK(term)' /\ SessionsGoOn
    <2>1. CASE UNCHANGED <<term, ses>>
      BY <2>1, NoChange DEF IInv
    <2>2. CASE /\ TakesAutomation(busy_server)
               /\ term' = ExpectPromptAfter(term, echo) /\ ses' = Written(cur, items)
      <3>1. echo \in Seq(Byte)
        <4>1. cur \in Sessions /\ shell_server_id = ses[cur].server
          BY <2>2, SessionIsThere DEF IInv, ShellsInv, TakesAutomation
        <4>2. shell_server_id \in Servers
          BY <4>1, SessionIsThere DEF Shells
        <4>3. EchoOf[shell_server_id] \in Seq(Byte) /\ <<>> \in Seq(Byte)
          BY <4>2, ShellAssumption
        <4>4. QED
          BY <4>3
      <3> HIDE DEF echo
      <3>2. items \in Seq(Item)
        BY <3>1, LenProperties DEF Item
      <3> HIDE DEF items
      <3>3. QED
        BY <2>2, <3>1, <3>2, TermStaysOK, WrittenGoesOn DEF IInv
    <2>3. QED
      BY <2>1, <2>2 DEF RunEnds
  <1>2. closures' \in Seq(Posts) /\ acts' \in Nat
    BY DEF IInv, GuiInv, RunEnds
  <1>3. ShellsInv' /\ GuiInv'
    BY <1>1, <1>2, GoingOn DEF RunEnds
  <1>4. QED
    BY <1>1, <1>3 DEF IInv

LEMMA InitKeeps == Init => IInv
  <1> SUFFICES ASSUME Init PROVE IInv
    OBVIOUS
  <1> DEFINE c == FirstSize[1]
             r == FirstSize[2]
             t == NewTerminal(c, r)
             u == [t EXCEPT !.last_sent = FirstSize]
  <1>1. c \in Nat \ {0} /\ r \in Nat \ {0} /\ FirstSize = <<c, r>> /\ <<c, r>> \in Sizes
        /\ FirstSize \in Int \X Int
    BY ShellAssumption
  <1>2. t \in Terminals(c, r)
    BY <1>1, NewIsATerminal
  <1>3. t.view_offset = 0 /\ t.alt_active = FALSE /\ t.scrollback = <<>>
    BY DEF NewTerminal
  <1>4. term = u
    BY DEF Init
  <1> HIDE DEF t, c, r
  <1>5. u \in Terminals(c, r)
    BY <1>1, <1>2 DEF Terminals
  <1>6. u.view_offset = 0 /\ u.alt_active = FALSE /\ u.scrollback = <<>> /\ u.cols = c /\ u.rows = r
    BY <1>2, <1>3 DEF Terminals
  <1> HIDE DEF u
  <1>7. Viewed(u)
    BY <1>6 DEF Viewed, MaxViewOffset
  <1>8. TermOK(term)
    BY <1>1, <1>4, <1>5, <1>6, <1>7 DEF TermOK
  <1>9. ShellsInv
    BY MaxSessionsIsThere DEF Init, ShellsInv
  <1>10. GuiInv
    BY DEF Init, GuiInv, Waits, Idle
  <1>11. QED
    BY <1>8, <1>9, <1>10 DEF IInv

LEMMA NextKeeps == IInv /\ [Next]_vars => IInv'
  <1> SUFFICES ASSUME IInv, [Next]_vars PROVE IInv'
    OBVIOUS
  <1>1. CASE UNCHANGED vars
    <2>1. SessionsGoOn
      BY <1>1, NoChange DEF vars
    <2>2. ShellsInv' /\ GuiInv'
      BY <1>1, <2>1, GoingOn DEF vars, IInv, GuiInv
    <2>3. QED
      BY <1>1, <2>2 DEF vars, IInv
  <1>2. ASSUME NEW n \in Sessions, WorkerGoesOn(n) \/ WriteSome(n) \/ ReadSome(n) \/ Breaks(n)
        PROVE  IInv'
    BY <1>2, WorkerGoesOnKeeps, WriteSomeKeeps, ReadSomeKeeps, BreaksKeeps
  <1>3. ASSUME NEW s \in Servers, NEW script \in NextScripts(ses), ConnectShell(s, script)
        PROVE  IInv'
    BY <1>3, ConnectShellKeeps
  <1>4. CASE DisconnectShell \/ Joined \/ OutputClosure \/ ClosedClosure
    BY <1>4, DisconnectShellKeeps, JoinedKeeps, OutputClosureKeeps, ClosedClosureKeeps
  <1>5. CASE TypeKey \/ Scroll \/ SelectFrom \/ SelectTo \/ ToggleAutomation
    BY <1>5, UserKeeps
  <1>6. ASSUME NEW size \in Sizes, ResizeWindow(size)
        PROVE  IInv'
    BY <1>6, ResizeWindowKeeps
  <1>7. ASSUME NEW text \in RunTexts, RunPrints(text) \/ \E s \in Servers : RunStarts(s, text)
        PROVE  IInv'
    BY <1>7, RunsKeep
  <1>8. ASSUME NEW follow \in BOOLEAN, RunEnds(follow)
        PROVE  IInv'
    BY <1>8, RunEndsKeeps
  <1>9. QED
    BY <1>1, <1>2, <1>3, <1>4, <1>5, <1>6, <1>7, <1>8 DEF Next

LEMMA Invariance == Spec => []IInv
  BY InitKeeps, NextKeeps, PTL DEF Spec

-----------------------------------------------------------------------------
(* Theorems                                                                 *)

LEMMA ScreensFit ==
  ASSUME IInv, NEW s \in Screens(term.cols, term.rows)
  PROVE  ScreenOK(s)
  BY DEF Screens, Grids, ScreenOK

\* Whatever bytes the remote ends send, however they are cut, whatever runs write between
\* them and whenever the window changes its size, every access to the grid of the terminal
\* is inside it: both screens have its size, both cursors are on a row of it and at most
\* one column behind its last, the view is inside the history, and what the parser holds
\* back keeps its bound (TerminalView::at, view_cell, on_paint, parse_byte, ensure_grid).
THEOREM GridIsNeverLeft == Spec => []TypeOK
  <1>1. IInv => TypeOK
    <2> SUFFICES ASSUME IInv PROVE TypeOK
      OBVIOUS
    <2>1. /\ <<term.cols, term.rows>> \in Sizes
          /\ term \in Terminals(term.cols, term.rows)
          /\ term.view_offset \in 0 .. MaxViewOffset(term)
      BY DEF IInv, TermOK, Viewed
    <2>2. ScreenOK(term.primary) /\ ScreenOK(term.alt)
      <3>1. /\ term.primary \in Screens(term.cols, term.rows)
            /\ term.alt \in Screens(term.cols, term.rows)
        BY <2>1 DEF Terminals
      <3>2. QED
        BY <3>1, ScreensFit
    <2>3. ASSUME NEW n \in Sessions
          PROVE  /\ ses[n].pc \in Steps
                 /\ ses[n].pending \in Seq(Item) /\ ses[n].write_buf \in Seq(Item)
                 /\ ses[n].running <=> ses[n].pc \notin {"notify", "done"}
      BY SessionIsThere DEF Shells
    <2>4. /\ Len(ses) <= MaxSessions /\ cur \in 0 .. Len(ses)
          /\ gui # Idle => cur # 0
          /\ shell_server_id # NoServer => cur # 0 /\ shell_server_id = ses[cur].server
      BY DEF IInv, ShellsInv, GuiInv
    <2>5. /\ Len(term.scrollback) <= MaxScrollback
          /\ Len(term.seq) <= Greatest(MaxSeq, MaxOsc)
          /\ Len(term.utf8_hold) < 4
      BY <2>1, PartsOf
    <2>6. QED
      BY <2>1, <2>2, <2>3, <2>4, <2>5 DEF TypeOK
  <1>2. QED
    BY <1>1, Invariance, PTL

\* What write() accepts - keys, what follows a run, the terminal's replies - reaches the
\* remote end in its order and once; as long as nothing stops or breaks the session,
\* nothing of it is lost (ShellSession::write, the swap and the partial writes of worker).
THEOREM InputArrivesInOrder == Spec => []InputInOrder
  <1>1. IInv => InputInOrder
    <2> SUFFICES ASSUME IInv, NEW n \in Sessions
                 PROVE  /\ IsPrefix(ses[n].received, ses[n].accepted)
                        /\ ses[n].pc \in {"connect", "loop", "write", "read"} /\ ~ses[n].stop =>
                             ses[n].accepted = ses[n].received \o ses[n].pending \o ses[n].write_buf
      BY DEF InputInOrder
    <2>1. ses[n] \in Shells
      BY SessionIsThere
    <2>2. QED
      BY <2>1 DEF Shells
  <1>2. QED
    BY <1>1, Invariance, PTL
=============================================================================
