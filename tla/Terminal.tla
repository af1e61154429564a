------------------------------- MODULE Terminal -------------------------------
(***************************************************************************)
(* The terminal of FaTTY, TerminalView (src/ui/terminal_view.cpp), as      *)
(* operators on a record: what a byte of the remote end, a change of size, *)
(* the scroll bar and the mouse do to the screens, the scrollback and the  *)
(* state of the parser. ShellSession feeds it and reads its replies.       *)
(*                                                                         *)
(* Bytes are numbers, since decode_utf8, split_params and apply_sgr        *)
(* calculate with them; a character is its code point. Positions count     *)
(* from 0, as in the code.                                                 *)
(***************************************************************************)
EXTENDS Integers, Sequences, SequencesExt

CONSTANTS
  MaxScrollback,   \* kMaxScrollback
  MaxSeq,          \* the longest CSI sequence that is kept (64 in the code)
  MaxOsc           \* the longest OSC sequence that is kept (512 in the code)

ASSUME TerminalAssumption == {MaxScrollback, MaxSeq, MaxOsc} \subseteq Nat \ {0}

Byte == 0 .. 255
ESC == 27  LF == 10  CR == 13  BS == 8  TAB == 9  BEL == 7
Replacement == 65533   \* U+FFFD

\* The final bytes of CSI sequences, and other bytes with a name of their own.
Ch == [A |-> 65, B |-> 66, C |-> 67, D |-> 68, G |-> 71, H |-> 72, J |-> 74, K |-> 75,
       P |-> 80, S |-> 83, c |-> 99, d |-> 100, f |-> 102, h |-> 104, l |-> 108, m |-> 109,
       n |-> 110, x |-> 120, at |-> 64, csi |-> 91, osc |-> 93, st |-> 92, open |-> 40,
       close |-> 41, save |-> 55, restore |-> 56, ask |-> 63, more |-> 62, semi |-> 59,
       minus |-> 45, plus |-> 43, zero |-> 48, nine |-> 57]

Clamp(v, lo, hi) == IF v < lo THEN lo ELSE IF v > hi THEN hi ELSE v
Least(a, b)      == IF a < b THEN a ELSE b
Greatest(a, b)   == IF a > b THEN a ELSE b

-----------------------------------------------------------------------------
(***************************************************************************)
(* The record.                                                             *)
(***************************************************************************)

DefaultPen == [fg |-> 7, bg |-> 0, attrs |-> 0]
Blank      == [ch |-> 32, pen |-> DefaultPen]

\* The grid of Cell(x, y).
Grid(cols, rows, Cell(_, _)) == [y \in 0 .. rows - 1 |-> [x \in 0 .. cols - 1 |-> Cell(x, y)]]

BlankCells(cols, rows) == Grid(cols, rows, LAMBDA x, y : Blank)
NewScreen(cols, rows)  == [cells |-> BlankCells(cols, rows), cx |-> 0, cy |-> 0, visible |-> TRUE]

NoPos == [line |-> 0, col |-> 0]

\* The members of a TerminalView as its constructor leaves them.
NewTerminal(cols, rows) ==
  [cols |-> cols, rows |-> rows, last_sent |-> <<0, 0>>,
   primary |-> NewScreen(cols, rows), alt |-> NewScreen(cols, rows), alt_active |-> FALSE,
   scrollback |-> <<>>, view_offset |-> 0,
   state |-> "Ground", seq |-> <<>>, csi_priv |-> FALSE, utf8_hold |-> <<>>, pen |-> DefaultPen,
   swallow_on |-> FALSE, swallow_nl |-> FALSE, swallow_echo |-> <<>>, swallow_i |-> 0,
   sel_on |-> FALSE, sel_drag |-> FALSE, sel_a |-> NoPos, sel_b |-> NoPos,
   replies |-> <<>>]   \* what the sequences asked for, until it is written

\* reset(): everything but the size and the replies; the size was told already.
Reset(t) ==
  [NewTerminal(t.cols, t.rows) EXCEPT !.last_sent = t.last_sent, !.replies = t.replies,
                                      !.csi_priv = t.csi_priv, !.sel_a = t.sel_a, !.sel_b = t.sel_b]

Scr(t)        == IF t.alt_active THEN t.alt ELSE t.primary
WithScr(t, s) == IF t.alt_active THEN [t EXCEPT !.alt = s] ELSE [t EXCEPT !.primary = s]
AtCursor(t, x, y) == WithScr(t, [Scr(t) EXCEPT !.cx = x, !.cy = y])

\* The cell that at(x, y) stands for.
Column(t, x) == Clamp(x, 0, t.cols - 1)
Line(t, y)   == Clamp(y, 0, t.rows - 1)

MaxViewOffset(t)   == IF t.alt_active THEN 0 ELSE Len(t.scrollback)
UpdateScrollbar(t) == [t EXCEPT !.view_offset = Clamp(@, 0, MaxViewOffset(t))]

-----------------------------------------------------------------------------
(***************************************************************************)
(* Writing to the screen.                                                  *)
(***************************************************************************)

LastRows(rows) == SubSeq(rows, Greatest(1, Len(rows) - MaxScrollback + 1), Len(rows))

\* scroll_up: the rows move up by n; the scrollback gets n times the row that was on
\* top, and what the user scrolled back to stays in view.
ScrollUp(t, n) ==
  LET s    == Scr(t)
      kept == IF t.alt_active THEN t.scrollback
              ELSE LastRows(t.scrollback \o [i \in 1 .. n |-> s.cells[0]])
      Moved(x, y) == IF y < t.rows - n THEN s.cells[y + n][x] ELSE Blank
  IN [WithScr(t, [s EXCEPT !.cells = Grid(t.cols, t.rows, Moved)])
      EXCEPT !.scrollback = kept,
             !.view_offset = IF ~t.alt_active /\ @ > 0 THEN Least(@ + n, Len(kept)) ELSE @]

Newline(t) ==
  LET y == Scr(t).cy + 1
  IN IF y >= t.rows THEN ScrollUp(AtCursor(t, Scr(t).cx, t.rows - 1), 1)
     ELSE AtCursor(t, Scr(t).cx, y)

\* The cursor may stand behind the last column: the next character wraps.
PutChar(t, ch) ==
  LET u == IF Scr(t).cx >= t.cols THEN Newline(AtCursor(t, 0, Scr(t).cy)) ELSE t
      s == Scr(u)
  IN WithScr(u, [s EXCEPT !.cells[Line(u, s.cy)][Column(u, s.cx)] = [ch |-> ch, pen |-> u.pen],
                          !.cx = @ + 1])

\* Cells of the active screen that fulfil Test(x, y) become blank.
Erase(t, Test(_, _)) ==
  LET s == Scr(t)
  IN WithScr(t, [s EXCEPT !.cells =
       Grid(t.cols, t.rows, LAMBDA x, y : IF Test(x, y) THEN Blank ELSE s.cells[y][x])])

EraseInLine(t, mode) ==
  LET s       == Scr(t)
      y0      == Line(t, s.cy)
      In(x,y) == y = y0 /\ \/ mode = 0 /\ x >= s.cx
                           \/ mode = 1 /\ x <= s.cx
                           \/ mode = 2
  IN Erase(t, In)

EraseInDisplay(t, mode) ==
  LET s       == Scr(t)
      In(x,y) == \/ mode \in {2, 3}
                 \/ mode = 0 /\ (y > s.cy \/ (y = s.cy /\ x >= s.cx))
                 \/ mode = 1 /\ (y < s.cy \/ (y = s.cy /\ x <= s.cx))
  IN [Erase(t, In) EXCEPT !.scrollback = IF mode = 3 THEN <<>> ELSE @]

\* CSI n @ and CSI n P: the rest of the line moves right or left by n.
InsertBlanks(t, n) ==
  LET s == Scr(t)
      y0 == Line(t, s.cy)
      Moved(x, y) == IF y # y0 \/ x < s.cx THEN s.cells[y][x]
                     ELSE IF x < s.cx + n THEN Blank ELSE s.cells[y][x - n]
  IN WithScr(t, [s EXCEPT !.cells = Grid(t.cols, t.rows, Moved)])

DeleteChars(t, n) ==
  LET s == Scr(t)
      y0 == Line(t, s.cy)
      Moved(x, y) == IF y # y0 \/ x < s.cx THEN s.cells[y][x]
                     ELSE IF x + n < t.cols THEN s.cells[y][x + n] ELSE Blank
  IN WithScr(t, [s EXCEPT !.cells = Grid(t.cols, t.rows, Moved)])

\* switch_alt: entering clears the alternative screen and leaves the scrollback.
SwitchAlt(t, on) ==
  IF on = t.alt_active THEN t
  ELSE IF ~on THEN [t EXCEPT !.alt_active = FALSE]
  ELSE [t EXCEPT !.alt_active = TRUE, !.view_offset = 0,
                 !.alt = [@ EXCEPT !.cells = BlankCells(t.cols, t.rows), !.cx = 0, !.cy = 0]]

\* Mutant: a smaller window leaves the cursor where it was.
EnsureGridKeepsCursor(t, cols, rows) ==
  LET Fit(s) == [s EXCEPT !.cells = Grid(cols, rows, LAMBDA x, y :
                            IF y < t.rows /\ x < t.cols THEN s.cells[y][x] ELSE Blank)]
  IN [t EXCEPT !.cols = cols, !.rows = rows, !.primary = Fit(@), !.alt = Fit(@)]

\* ensure_grid: both screens keep their upper left part, the cursors stay inside. The
\* rows of the scrollback keep the width they had.
EnsureGrid(t, cols, rows) ==
  LET Fit(s) == [s EXCEPT !.cells = Grid(cols, rows, LAMBDA x, y :
                            IF y < t.rows /\ x < t.cols THEN s.cells[y][x] ELSE Blank),
                          !.cx = Clamp(@, 0, cols - 1), !.cy = Clamp(@, 0, rows - 1)]
  IN [t EXCEPT !.cols = cols, !.rows = rows, !.primary = Fit(@), !.alt = Fit(@)]

-----------------------------------------------------------------------------
(***************************************************************************)
(* Sequences.                                                              *)
(***************************************************************************)

\* atoi: a sign, then the digits up to the first byte that is none.
Atoi(s) ==
  LET signed == s # <<>> /\ Head(s) \in {Ch.minus, Ch.plus}
      body   == IF signed THEN Tail(s) ELSE s
      stops  == {i \in DOMAIN body : body[i] \notin Ch.zero .. Ch.nine}
      ends   == IF stops = {} THEN Len(body) ELSE Min(stops) - 1
      value  == FoldLeft(LAMBDA n, b : 10 * n + (b - Ch.zero), 0, SubSeq(body, 1, ends))
  IN IF signed /\ Head(s) = Ch.minus THEN -value ELSE value

\* split_params: the numbers between the semicolons, at least one.
SplitParams(s) ==
  LET cut == FoldLeft(LAMBDA acc, b : IF b = Ch.semi THEN Append(acc, <<>>)
                                      ELSE [acc EXCEPT ![Len(acc)] = Append(@, b)], <<<<>>>>, s)
  IN [i \in DOMAIN cut |-> Atoi(cut[i])]

\* A truecolor component as one of six steps of the 256 colour cube.
Step(v) == IF v < 48 THEN 0 ELSE IF v < 115 THEN 1 ELSE (v - 35) \div 40

Coloured(pen, which, v) == IF which = 38 THEN [pen EXCEPT !.fg = v] ELSE [pen EXCEPT !.bg = v]

\* A parameter of apply_sgr that is no colour of the palette or of 24 bits.
Attribute(pen, p) ==
  CASE p = 0            -> DefaultPen
    [] p = 1            -> [pen EXCEPT !.attrs = 1]
    [] p = 22           -> [pen EXCEPT !.attrs = 0]
    [] p = 39           -> [pen EXCEPT !.fg = 7]
    [] p = 49           -> [pen EXCEPT !.bg = 0]
    [] p \in 30 .. 37   -> [pen EXCEPT !.fg = p - 30]
    [] p \in 90 .. 97   -> [pen EXCEPT !.fg = p - 90 + 8]
    [] p \in 40 .. 47   -> [pen EXCEPT !.bg = p - 40]
    [] p \in 100 .. 107 -> [pen EXCEPT !.bg = p - 100 + 8]
    [] OTHER            -> pen

\* Parameter i of apply_sgr. Those of 38 and 48 are passed over with them; a colour that
\* does not fit a byte wraps.
SgrStep(acc, ps, i) ==
  LET p == ps[i]
  IN IF acc.skip > 0 THEN [acc EXCEPT !.skip = @ - 1]
     ELSE IF p \notin {38, 48} THEN [acc EXCEPT !.pen = Attribute(@, p)]
     ELSE IF i + 2 <= Len(ps) /\ ps[i + 1] = 5
          THEN [pen |-> Coloured(acc.pen, p, Clamp(ps[i + 2], 0, 255)), skip |-> 2]
     ELSE IF i + 4 <= Len(ps) /\ ps[i + 1] = 2
          THEN [pen |-> Coloured(acc.pen, p, (16 + 36 * Step(ps[i + 2]) + 6 * Step(ps[i + 3])
                                              + Step(ps[i + 4])) % 256), skip |-> 4]
     ELSE acc

ApplySgr(pen, ps) ==
  FoldLeftDomain(LAMBDA acc, i : SgrStep(acc, ps, i), [pen |-> pen, skip |-> 0], ps).pen

\* The private modes: the cursor, the alternative screen.
PrivateMode(t, set, p) ==
  IF p = 25 THEN WithScr(t, [Scr(t) EXCEPT !.visible = set])
  ELSE IF p \in {47, 1047, 1049} THEN SwitchAlt(t, set) ELSE t

PrivateModes(t, set, ps) == FoldLeft(LAMBDA u, p : PrivateMode(u, set, p), t, ps)

HandleCsi(t, final, seq, priv) ==
  LET ps == SplitParams(seq)
      p0 == ps[1]
      p1 == IF Len(ps) > 1 THEN ps[2] ELSE 0
      n  == Greatest(1, p0)                       \* a count: at least 1
      At(p) == IF p = 0 THEN 0 ELSE p - 1         \* a position, counted from 1
      x  == Scr(t).cx
      y  == Scr(t).cy
  IN IF priv
     THEN IF final \in {Ch.h, Ch.l} THEN PrivateModes(t, final = Ch.h, ps) ELSE t
     ELSE CASE final = Ch.A -> AtCursor(t, x, Greatest(0, y - n))
            [] final = Ch.B -> AtCursor(t, x, Least(t.rows - 1, y + n))
            [] final = Ch.C -> AtCursor(t, Least(t.cols - 1, x + n), y)
            [] final = Ch.D -> AtCursor(t, Greatest(0, x - n), y)
            [] final \in {Ch.H, Ch.f} -> AtCursor(t, Column(t, At(p1)), Line(t, At(p0)))
            [] final = Ch.G -> AtCursor(t, Column(t, At(p0)), y)
            [] final = Ch.d -> AtCursor(t, x, Line(t, At(p0)))
            [] final = Ch.J -> EraseInDisplay(t, p0)
            [] final = Ch.K -> EraseInLine(t, p0)
            [] final = Ch.m -> [t EXCEPT !.pen = ApplySgr(@, ps)]
            [] final = Ch.n -> IF p0 = 6 THEN [t EXCEPT !.replies = Append(@, <<y + 1, x + 1>>)] ELSE t
            [] final = Ch.S -> ScrollUp(t, n)
            [] final = Ch.at -> InsertBlanks(t, n)
            [] final = Ch.P -> DeleteChars(t, n)
            [] OTHER -> t

-----------------------------------------------------------------------------
(***************************************************************************)
(* The parser.                                                             *)
(***************************************************************************)

\* decode_utf8: the length is taken from the first byte, the others are not looked
\* at; a byte that cannot be first is a character of its own.
Need(b) == CASE b < 128 -> 1 [] b \in 192 .. 223 -> 2 [] b \in 224 .. 239 -> 3
             [] b \in 240 .. 247 -> 4 [] OTHER -> 0

CodePoint(hold) ==
  LET n    == Need(hold[1])
      lead == CASE n = 1 -> hold[1] [] n = 2 -> hold[1] % 32 [] n = 3 -> hold[1] % 16
                [] OTHER -> hold[1] % 8
  IN FoldLeft(LAMBDA cp, b : 64 * cp + (b % 64), lead, Tail(hold))

TextByte(t, b) ==
  LET hold == Append(t.utf8_hold, b)
      need == Need(hold[1])
      free == [t EXCEPT !.utf8_hold = <<>>]
  IN IF need = 0 THEN PutChar(free, Replacement)
     ELSE IF Len(hold) < need THEN [t EXCEPT !.utf8_hold = hold]
     ELSE PutChar(free, CodePoint(hold))

Goto(t, state) == [t EXCEPT !.state = state, !.seq = <<>>]

Ground(t, b) ==
  LET s == Scr(t)
  IN CASE b = ESC -> Goto(t, "Esc")
       [] b = LF  -> Newline(AtCursor(t, 0, s.cy))
       [] b = CR  -> AtCursor(t, 0, s.cy)
       [] b = BS  -> AtCursor(t, Greatest(0, s.cx - 1), s.cy)
       [] b = TAB -> AtCursor(t, Least(t.cols - 1, (s.cx \div 8 + 1) * 8), s.cy)
       [] b < 32 /\ b \notin {ESC, LF, CR, BS, TAB} -> t
       [] OTHER   -> TextByte(t, b)

\* `seq_' is "x" while the designation of a character set is to be eaten.
Escape(t, b) ==
  CASE b = Ch.csi -> [Goto(t, "Csi") EXCEPT !.csi_priv = FALSE]
    [] b = Ch.osc -> Goto(t, "Osc")
    [] b \in {Ch.save, Ch.restore} -> [t EXCEPT !.state = "Ground"]
    [] b = Ch.c   -> Reset(t)
    [] b \in {Ch.open, Ch.close} -> [t EXCEPT !.seq = <<Ch.x>>]
    [] OTHER      -> Goto(t, "Ground")

Collected(t, b, longest) ==
  IF Len(t.seq) + 1 > longest THEN Goto(t, "Ground") ELSE [t EXCEPT !.seq = Append(@, b)]

ControlSequence(t, b) ==
  IF t.seq = <<>> /\ b \in {Ch.ask, Ch.more} THEN [t EXCEPT !.csi_priv = TRUE]
  ELSE IF b \in 64 .. 126 THEN Goto(HandleCsi(t, b, t.seq, t.csi_priv), "Ground")
  ELSE Collected(t, b, MaxSeq)

OperatingSystemCommand(t, b) ==
  CASE b = BEL -> Goto(t, "Ground")
    [] b = ESC -> [t EXCEPT !.state = "OscEsc"]
    [] OTHER   -> Collected(t, b, MaxOsc)

ParseByte(t, b) ==
  CASE t.state = "Ground" -> Ground(t, b)
    [] t.state = "Esc"    -> Escape(t, b)
    [] t.state = "Csi"    -> ControlSequence(t, b)
    [] t.state = "Osc"    -> OperatingSystemCommand(t, b)
    [] t.state = "OscEsc" -> Goto(t, "Ground")

\* expect_prompt_after: hide the echo of a line and the newline behind it.
ExpectPromptAfter(t, echo) ==
  [t EXCEPT !.swallow_echo = echo, !.swallow_i = 0, !.swallow_nl = echo = <<>>, !.swallow_on = TRUE]

\* One byte of take_swallowed: u is the terminal and what is left to show.
Swallow(u, b) ==
  LET t == u.term
      shown == [term |-> [t EXCEPT !.swallow_on = FALSE], out |-> Append(u.out, b)]
  IN IF ~t.swallow_on THEN [u EXCEPT !.out = Append(@, b)]
     ELSE IF ~t.swallow_nl
     THEN IF t.swallow_i < Len(t.swallow_echo) /\ b = t.swallow_echo[t.swallow_i + 1]
          THEN [u EXCEPT !.term = [t EXCEPT !.swallow_i = @ + 1,
                                            !.swallow_nl = t.swallow_i + 1 = Len(t.swallow_echo)]]
          ELSE shown
     ELSE CASE b = CR -> u
            [] b = LF -> [u EXCEPT !.term = [t EXCEPT !.swallow_on = FALSE]]
            [] OTHER  -> shown

TakeSwallowed(t, bytes) == FoldLeft(Swallow, [term |-> t, out |-> <<>>], bytes)

\* Mutant: what is left of a character is forgotten between two chunks.
FeedForgets(t, bytes, from_pty) ==
  LET u == IF from_pty THEN TakeSwallowed(t, bytes) ELSE [term |-> t, out |-> bytes]
  IN UpdateScrollbar(FoldLeft(ParseByte, [u.term EXCEPT !.utf8_hold = <<>>], u.out))

\* feed: a chunk of the remote end or text of a run.
Feed(t, bytes, from_pty) ==
  LET u == IF from_pty THEN TakeSwallowed(t, bytes) ELSE [term |-> t, out |-> bytes]
  IN UpdateScrollbar(FoldLeft(ParseByte, u.term, u.out))

-----------------------------------------------------------------------------
(***************************************************************************)
(* What the user does with the view.                                       *)
(***************************************************************************)

\* recompute_size and emit_resize_if_needed, as far as the terminal goes.
Resized(t, cols, rows) ==
  UpdateScrollbar([IF <<cols, rows>> # <<t.cols, t.rows>> THEN EnsureGrid(t, cols, rows) ELSE t
                   EXCEPT !.last_sent = <<cols, rows>>])

\* scroll_view by the wheel and by Shift+PageUp, and the scroll bar.
ScrollView(t, lines_up) == UpdateScrollbar([t EXCEPT !.view_offset = Clamp(@ + lines_up, 0, MaxViewOffset(t))])

SnapToBottom(t) == [t EXCEPT !.view_offset = 0]

\* The line of the history (scrollback, then screen) that row y of the view shows.
HistoryLineAt(t, y) == MaxViewOffset(t) - t.view_offset + y

MouseDown(t, x, y) ==
  LET p == [line |-> HistoryLineAt(t, y), col |-> x]
  IN [t EXCEPT !.sel_a = p, !.sel_b = p, !.sel_on = FALSE, !.sel_drag = TRUE]

\* Moving with the button down, and letting it go, which also copies.
MouseTo(t, x, y, up) ==
  LET p == [line |-> HistoryLineAt(t, y), col |-> x]
  IN [t EXCEPT !.sel_b = p, !.sel_on = t.sel_a # p, !.sel_drag = ~up]
=============================================================================
