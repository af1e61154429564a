----------------------------- MODULE ShellSession -----------------------------
(***************************************************************************)
(* The interactive shell of FaTTY: ShellSession with its thread (src/net/  *)
(* shell_session.cpp), the terminal that shows it (Terminal) and the       *)
(* handlers of AppFrame that connect, disconnect, type, and let the run of *)
(* a command write to the same terminal (src/ui/app_frame.cpp).            *)
(*                                                                         *)
(* Two kinds of threads take steps. The GUI thread runs one handler or one *)
(* posted closure at a time; the one place where it waits is the join in   *)
(* ShellSession::stop. Each session has a thread; a step of it is what     *)
(* lies between two accesses to what it shares.                            *)
(***************************************************************************)
EXTENDS Terminal

CONSTANTS
  Servers, NoServer,
  Plays,         \* what the remote ends may send: sequences of a script, a sequence
                 \* of bytes, for each session
  Sizes,         \* the sizes the terminal may have, <<columns, rows>>
  FirstSize,
  EchoOf,        \* per server, the line "cd ..." that follows a run on it
  RunTexts,      \* texts that a run writes, sequences of bytes
  AutoConnect,   \* automation_to_shell_when_connected
  MaxActs,       \* bound: keys, changes of size, scrolling, selections, the checkbox and
                 \* runs of commands, all together
  MaxTexts       \* bound: texts of runs that the shell takes, all together

ASSUME ShellAssumption ==
  /\ NoServer \notin Servers /\ FirstSize \in Sizes
  /\ Sizes \subseteq Nat \X Nat
  /\ \A sz \in Sizes : sz[1] >= 2 /\ sz[2] >= 2          \* recompute_size
  /\ \A play \in Plays : play \in Seq(Seq(Byte))
  /\ \E play \in Plays : \A other \in Plays : Len(other) <= Len(play)
  /\ RunTexts \subseteq Seq(Byte)
  /\ \A s \in Servers : EchoOf[s] \in Seq(Byte)
  /\ AutoConnect \in BOOLEAN
  /\ MaxActs \in Nat /\ MaxTexts \in Nat

MaxSessions == Max({Len(play) : play \in Plays})   \* bound: shells ever connected

\* What the remote end of the next session may send.
NextScripts(sessions) ==
  {play[Len(sessions) + 1] : play \in
     {p \in Plays : Len(p) > Len(sessions) /\ \A i \in DOMAIN sessions : sessions[i].script = p[i]}}

VARIABLES
  term,             \* terminal_
  ses,              \* every ShellSession there has been, in the order of their start
  cur,              \* shell_: the number of a session, 0 for none
  shell_server_id,
  to_shell,         \* session_automation_to_shell_
  ui_on,            \* what update_shell_ui last found: running or not
  busy_server,      \* busy_server_id_
  closures,         \* what the threads posted with CallAfter, in order
  gui,              \* the handler that waits in ShellSession::stop, or Idle
  acts,             \* how much of MaxActs is used up
  texts,            \* how much of MaxTexts is used up
  shown             \* history: what the terminal was given since its reset

vars == <<term, ses, cur, shell_server_id, to_shell, ui_on, busy_server, closures, gui, acts, texts, shown>>

NoSize == <<0, 0>>
Idle   == [op |-> "none"]

\* What is written to the remote end. One item stands for the bytes of one write.
Item == [kind : {"key", "cd", "cpr"}, n : Nat]

NewSession(s, script, size) ==
  [server |-> s, script |-> script, size |-> size, stop |-> FALSE, running |-> TRUE,
   write_buf |-> <<>>, resize |-> NoSize, pc |-> "connect",
   pending |-> <<>>,      \* what the thread took out of write_buf
   pty |-> NoSize,        \* the size the remote end was told
   read |-> 0,            \* how much of the script was read
   accepted |-> <<>>,     \* history: what write() accepted
   received |-> <<>>]     \* what the remote end received

Sessions   == 1 .. Len(ses)
Running(n) == n # 0 /\ ses[n].running
GuiFree    == gui = Idle

\* ShellSession::write and the write callback of the terminal.
Written(n, items) ==
  IF ~Running(n) THEN ses
  ELSE [ses EXCEPT ![n].write_buf = @ \o items, ![n].accepted = @ \o items]

\* A history of what was fed, in which neighbouring chunks of the remote end are one.
Noted(h, event) ==
  IF h # <<>> /\ Last(h).op = "pty" /\ event.op = "pty"
  THEN [h EXCEPT ![Len(h)].bytes = @ \o event.bytes]
  ELSE Append(h, event)

Feeds(bytes, from_pty) == [op |-> IF from_pty THEN "pty" ELSE "run", bytes |-> bytes]

\* A feed of the terminal; the replies it gives go to the shell there is now.
FeedTerminal(bytes, from_pty) ==
  \E t \in {Feed(term, bytes, from_pty)} :
     /\ term' = [t EXCEPT !.replies = <<>>]
     /\ ses'  = Written(cur, [i \in DOMAIN t.replies |-> [kind |-> "cpr", n |-> t.replies[i][1]]])
     /\ shown' = Noted(shown, Feeds(bytes, from_pty))

\* One of MaxActs things that the user or a run does.
Act == GuiFree /\ acts < MaxActs /\ acts' = acts + 1

Init ==
  /\ term = [NewTerminal(FirstSize[1], FirstSize[2]) EXCEPT !.last_sent = FirstSize]
  /\ ses = <<>>
  /\ cur = 0
  /\ shell_server_id = NoServer
  /\ to_shell = FALSE
  /\ ui_on = FALSE
  /\ busy_server = NoServer
  /\ closures = <<>>
  /\ gui = Idle
  /\ acts = 0
  /\ texts = 0
  /\ shown = <<>>

-----------------------------------------------------------------------------
(***************************************************************************)
(* The thread of session n: ShellSession::worker.                          *)
(***************************************************************************)

Worker(n, step, r) ==
  /\ n \in Sessions /\ ses[n].pc = step
  /\ ses' = [ses EXCEPT ![n] = r]
  /\ UNCHANGED <<term, cur, shell_server_id, to_shell, ui_on, busy_server, gui, acts, texts, shown>>

\* Connecting, authenticating and asking for a PTY and a shell cannot be stopped.
Connected(n) ==
  LET r == ses[n] IN
  /\ Worker(n, "connect", [r EXCEPT !.pc = "loop", !.pty = r.size])
  /\ UNCHANGED closures

ConnectFails(n) ==
  /\ Worker(n, "connect", [ses[n] EXCEPT !.pc = "close"])
  /\ UNCHANGED closures

\* The head of the loop: what is to be told and to be written is taken over under
\* resize_mu_ and write_mu_.
Taken(r, size, buf) ==
  [r EXCEPT !.pc = IF r.write_buf = <<>> THEN "read" ELSE "write",
            !.pty = IF size # NoSize THEN size ELSE @, !.resize = NoSize,
            !.pending = r.write_buf, !.write_buf = buf]

\* Mutant: write_buf_ is copied instead of swapped.
LoopCopies(n) ==
  LET r == ses[n] IN
  /\ Worker(n, "loop", IF r.stop THEN [r EXCEPT !.pc = "close"] ELSE Taken(r, r.resize, r.write_buf))
  /\ UNCHANGED closures

\* Mutant: the size is told only when there is something to write.
LoopTellsLate(n) ==
  LET r == ses[n] IN
  /\ Worker(n, "loop", IF r.stop THEN [r EXCEPT !.pc = "close"]
                        ELSE Taken(r, IF r.write_buf # <<>> THEN r.resize ELSE NoSize, <<>>))
  /\ UNCHANGED closures

Loop(n) ==
  LET r == ses[n] IN
  /\ Worker(n, "loop", IF r.stop THEN [r EXCEPT !.pc = "close"] ELSE Taken(r, r.resize, <<>>))
  /\ UNCHANGED closures

\* The remote end accepts some of it (EAGAIN: no step).
WriteSome(n) ==
  LET r == ses[n] IN
  /\ n \in Sessions /\ ~r.stop
  /\ \E k \in DOMAIN r.pending :
       Worker(n, "write", [r EXCEPT !.received = @ \o SubSeq(r.pending, 1, k),
                                    !.pending  = SubSeq(r.pending, k + 1, Len(r.pending))])
  /\ UNCHANGED closures

\* Mutant: the loop that writes does not look at stop_.
WriteEndsIgnoresStop(n) ==
  LET r == ses[n] IN
  /\ n \in Sessions /\ r.pending = <<>>
  /\ Worker(n, "write", [r EXCEPT !.pc = "read", !.pending = <<>>])
  /\ UNCHANGED closures

\* Everything is written, or the session is to stop: what is left is dropped.
WriteEnds(n) ==
  LET r == ses[n] IN
  /\ n \in Sessions /\ (r.pending = <<>> \/ r.stop)
  /\ Worker(n, "write", [r EXCEPT !.pc = "read", !.pending = <<>>])
  /\ UNCHANGED closures

\* A chunk is read and posted. Bound: it is one byte or all that is left, which cuts
\* the script at every place.
ReadSome(n) ==
  LET r == ses[n] IN
  /\ n \in Sessions /\ ~r.stop /\ r.read < Len(r.script)
  /\ \E k \in {1, Len(r.script) - r.read} :
       /\ Worker(n, "read", [r EXCEPT !.read = @ + k])
       /\ closures' = Append(closures, [kind |-> "output", session |-> n,
                                        bytes |-> SubSeq(r.script, r.read + 1, r.read + k)])

\* There is nothing to read for now; if nothing will ever come, the shell has ended.
ReadEnds(n) ==
  LET r == ses[n] IN
  /\ n \in Sessions
  /\ \/ Worker(n, "read", [r EXCEPT !.pc = "loop"])
     \/ r.read = Len(r.script) /\ Worker(n, "read", [r EXCEPT !.pc = "close"])
  /\ UNCHANGED closures

\* A read or a write fails.
Breaks(n) ==
  LET r == ses[n] IN
  /\ n \in Sessions /\ ~r.stop
  /\ \/ Worker(n, "read", [r EXCEPT !.stop = TRUE, !.pc = "close"])
     \/ r.pending # <<>> /\ Worker(n, "write", [r EXCEPT !.stop = TRUE, !.pc = "close", !.pending = <<>>])
  /\ UNCHANGED closures

\* The channel is freed.
CloseChannel(n) ==
  /\ Worker(n, "close", [ses[n] EXCEPT !.running = FALSE, !.pc = "notify"])
  /\ UNCHANGED closures

\* on_closed; then the thread ends.
NotifyClosed(n) ==
  /\ Worker(n, "notify", [ses[n] EXCEPT !.pc = "done"])
  /\ closures' = Append(closures, [kind |-> "closed", session |-> n])

\* What the thread does whether or not the remote end answers.
WorkerGoesOn(n) ==
  \/ Connected(n) \/ ConnectFails(n) \/ Loop(n) \/ WriteEnds(n) \/ ReadEnds(n)
  \/ CloseChannel(n) \/ NotifyClosed(n)

-----------------------------------------------------------------------------
(***************************************************************************)
(* The GUI thread.                                                         *)
(***************************************************************************)

\* The end of shell_connect: a new terminal and a new session.
StartShell(s, script) ==
  /\ term' = Reset(term)
  /\ shown' = <<>>
  /\ shell_server_id' = s
  /\ to_shell' = (to_shell \/ AutoConnect)
  /\ ses' = Append(ses, NewSession(s, script, <<term.cols, term.rows>>))
  /\ cur' = Len(ses) + 1
  /\ ui_on' = TRUE
  /\ gui' = Idle

\* shell_connect: the session there was is stopped, which waits for its thread.
ConnectShell(s, script) ==
  /\ GuiFree /\ ~ui_on
  /\ IF cur = 0
     THEN StartShell(s, script)
     ELSE /\ ses' = [ses EXCEPT ![cur].stop = TRUE]
          /\ gui' = [op |-> "connect", server |-> s, script |-> script]
          /\ UNCHANGED <<term, cur, shell_server_id, to_shell, ui_on, shown>>
  /\ UNCHANGED <<busy_server, closures, acts, texts>>

\* shell_disconnect.
DisconnectShell ==
  /\ GuiFree /\ ui_on /\ cur # 0
  /\ ses' = [ses EXCEPT ![cur].stop = TRUE]
  /\ gui' = [op |-> "disconnect"]
  /\ UNCHANGED <<term, cur, shell_server_id, to_shell, ui_on, busy_server, closures, acts, texts, shown>>

\* The join in ShellSession::stop returns.
Joined ==
  /\ ~GuiFree /\ ses[cur].pc = "done"
  /\ IF gui.op = "connect"
     THEN StartShell(gui.server, gui.script)
     ELSE /\ cur' = 0 /\ shell_server_id' = NoServer /\ ui_on' = FALSE /\ gui' = Idle
          /\ UNCHANGED <<term, ses, to_shell, shown>>
  /\ UNCHANGED <<busy_server, closures, acts, texts>>

\* A chunk of a session, of whichever it is, goes to the terminal.
OutputClosure ==
  /\ GuiFree /\ closures # <<>> /\ Head(closures).kind = "output"
  /\ FeedTerminal(Head(closures).bytes, TRUE)
  /\ closures' = Tail(closures)
  /\ UNCHANGED <<cur, shell_server_id, to_shell, ui_on, busy_server, gui, acts, texts>>

\* The end of a session, of whichever it is.
ClosedClosure ==
  /\ GuiFree /\ closures # <<>> /\ Head(closures).kind = "closed"
  /\ shell_server_id' = NoServer
  /\ ui_on' = Running(cur)
  /\ closures' = Tail(closures)
  /\ UNCHANGED <<term, ses, cur, to_shell, busy_server, gui, acts, texts, shown>>

\* A key or a paste: the view goes down to the live screen.
TypeKey ==
  /\ Act
  /\ term' = SnapToBottom(term)
  /\ ses' = Written(cur, <<[kind |-> "key", n |-> acts + 1]>>)
  /\ UNCHANGED <<cur, shell_server_id, to_shell, ui_on, busy_server, closures, gui, texts, shown>>

\* The window (or the font) gets another size: on_size, and ShellSession::resize.
ResizeWindow(size) ==
  /\ Act /\ size # term.last_sent
  /\ term' = Resized(term, size[1], size[2])
  /\ shown' = Append(shown, [op |-> "size", size |-> size])
  /\ ses' = IF Running(cur) THEN [ses EXCEPT ![cur].resize = size] ELSE ses
  /\ UNCHANGED <<cur, shell_server_id, to_shell, ui_on, busy_server, closures, gui, texts>>

\* The scroll bar and Shift+PageUp; the wheel, which on the alternative screen types
\* arrows.
Scroll ==
  /\ Act
  /\ \/ /\ \E lines \in {1 - term.rows, term.rows - 1} : term' = ScrollView(term, lines)
        /\ UNCHANGED ses
     \/ /\ term.alt_active
        /\ ses' = Written(cur, <<[kind |-> "key", n |-> 0]>>)
        /\ UNCHANGED term
  /\ UNCHANGED <<cur, shell_server_id, to_shell, ui_on, busy_server, closures, gui, texts, shown>>

\* The user selects from one corner of the view to the other.
Corners == {<<0, 0>>, <<term.cols - 1, term.rows - 1>>}

SelectFrom ==
  /\ Act
  /\ \E p \in Corners : term' = MouseDown(term, p[1], p[2])
  /\ UNCHANGED <<ses, cur, shell_server_id, to_shell, ui_on, busy_server, closures, gui, texts, shown>>

SelectTo ==
  /\ GuiFree /\ term.sel_drag
  /\ \E p \in Corners, up \in BOOLEAN : term' = MouseTo(term, p[1], p[2], up)
  /\ UNCHANGED <<ses, cur, shell_server_id, to_shell, ui_on, busy_server, closures, gui, acts, texts, shown>>

\* The checkbox beside the shell.
ToggleAutomation ==
  /\ Act /\ ui_on
  /\ to_shell' = ~to_shell
  /\ UNCHANGED <<term, ses, cur, shell_server_id, ui_on, busy_server, closures, gui, texts, shown>>

-----------------------------------------------------------------------------
(***************************************************************************)
(* Runs of commands, as far as the shell sees them.                        *)
(***************************************************************************)

\* shell_takes_automation, for the run on server s: does its text go to the terminal?
TakesAutomation(s) ==
  /\ to_shell /\ Running(cur) /\ shell_server_id # NoServer
  /\ s \in {NoServer, shell_server_id}

\* append_output of the run on server s; what the shell does not take goes to the page
\* of outputs.
AppendOutput(s, text) ==
  IF TakesAutomation(s)
  THEN texts < MaxTexts /\ texts' = texts + 1 /\ FeedTerminal(text, FALSE)
  ELSE UNCHANGED <<term, ses, texts, shown>>

\* start_ssh_run, which writes the title of the run.
RunStarts(s, text) ==
  /\ Act /\ busy_server = NoServer
  /\ busy_server' = s
  /\ AppendOutput(s, text)
  /\ UNCHANGED <<cur, shell_server_id, to_shell, ui_on, closures, gui>>

RunPrints(text) ==
  /\ GuiFree /\ busy_server # NoServer
  /\ AppendOutput(busy_server, text)
  /\ UNCHANGED <<cur, shell_server_id, to_shell, ui_on, busy_server, closures, gui, acts>>

\* set_busy(false) and settle_shell_after_run: the shell follows into the directory of
\* the run, if the setting says so, and shows its prompt again.
RunEnds(follow) ==
  LET echo == IF follow THEN EchoOf[shell_server_id] ELSE <<>> IN
  /\ GuiFree /\ busy_server # NoServer
  /\ busy_server' = NoServer
  /\ IF TakesAutomation(busy_server) /\ ~term.alt_active
     THEN /\ term' = ExpectPromptAfter(term, echo)
          /\ shown' = Append(shown, [op |-> "expect", bytes |-> echo])
          /\ ses' = Written(cur, <<[kind |-> "cd", n |-> Len(echo)]>>)
     ELSE UNCHANGED <<term, ses, shown>>
  /\ UNCHANGED <<cur, shell_server_id, to_shell, ui_on, closures, gui, acts, texts>>

-----------------------------------------------------------------------------

Next ==
  \/ \E n \in Sessions : WorkerGoesOn(n) \/ WriteSome(n) \/ ReadSome(n) \/ Breaks(n)
  \/ \E s \in Servers, script \in NextScripts(ses) : ConnectShell(s, script)
  \/ DisconnectShell \/ Joined \/ OutputClosure \/ ClosedClosure
  \/ TypeKey \/ Scroll \/ SelectFrom \/ SelectTo \/ ToggleAutomation
  \/ \E size \in Sizes : ResizeWindow(size)
  \/ \E text \in RunTexts : RunPrints(text) \/ \E s \in Servers : RunStarts(s, text)
  \/ \E follow \in BOOLEAN : RunEnds(follow)

Spec == Init /\ [][Next]_vars

\* Threads are scheduled, connecting comes to an end (its timeouts), and the GUI thread
\* serves closures. Nobody makes the remote end read or send, or the user act.
ServesClosure == GuiFree /\ closures # <<>> /\ closures' = Tail(closures)   \* either of the two

Fairness ==
  /\ \A n \in 1 .. MaxSessions : WF_vars(n \in Sessions /\ WorkerGoesOn(n))
  /\ WF_vars(Joined) /\ WF_closures(ServesClosure)

FairSpec == Spec /\ Fairness

-----------------------------------------------------------------------------
(***************************************************************************)
(* Properties.                                                             *)
(***************************************************************************)

Steps == {"connect", "loop", "write", "read", "close", "notify", "done"}

ScreenOK(s) ==
  /\ DOMAIN s.cells = 0 .. term.rows - 1
  /\ \A y \in DOMAIN s.cells : DOMAIN s.cells[y] = 0 .. term.cols - 1
  /\ s.cx \in 0 .. term.cols /\ s.cy \in 0 .. term.rows - 1

\* Types, and what every access to the grid relies on (TerminalView::at, view_cell,
\* on_paint): both screens have the size of the terminal, both cursors are on a row of
\* it and at most one column behind its last one, and the view is inside the history,
\* after every chunk, change of size, change of screen and sequence.
TypeOK ==
  /\ <<term.cols, term.rows>> \in Sizes
  /\ ScreenOK(term.primary) /\ ScreenOK(term.alt)
  /\ Len(term.scrollback) <= MaxScrollback
  /\ term.view_offset \in 0 .. MaxViewOffset(term)
  /\ Len(term.seq) <= Greatest(MaxSeq, MaxOsc)
  /\ Len(term.utf8_hold) < 4
  /\ Len(ses) <= MaxSessions /\ cur \in 0 .. Len(ses)
  /\ \A n \in Sessions :
       /\ ses[n].pc \in Steps
       /\ ses[n].pending \in Seq(Item) /\ ses[n].write_buf \in Seq(Item)
       /\ ses[n].running <=> ses[n].pc \notin {"notify", "done"}
  /\ gui # Idle => cur # 0
  /\ shell_server_id # NoServer => cur # 0 /\ shell_server_id = ses[cur].server

\* What is typed, what follows a run and what the terminal replies reaches the remote
\* end in the order in which write() accepted it, once, and as long as the session
\* neither stops nor breaks nothing of it is lost (write_buf_ and its swap, the partial
\* writes of the thread).
InputInOrder ==
  \A n \in Sessions :
    LET r == ses[n] IN
    /\ IsPrefix(r.received, r.accepted)
    /\ r.pc \in {"connect", "loop", "write", "read"} /\ ~r.stop =>
         r.accepted = r.received \o r.pending \o r.write_buf

\* Feeding a terminal in one piece what it got in chunks: what adjoins was joined.
Replayed(t, event) ==
  CASE event.op = "pty"    -> Feed(t, event.bytes, TRUE)
    [] event.op = "run"    -> Feed(t, event.bytes, FALSE)
    [] event.op = "size"   -> Resized(t, event.size[1], event.size[2])
    [] event.op = "expect" -> ExpectPromptAfter(t, event.bytes)

Content(t) == <<t.primary, t.alt, t.alt_active, t.scrollback, t.pen, t.state, t.seq, t.utf8_hold, t.swallow_on>>

\* The screens, the scrollback and the state of the parser depend on the bytes the
\* terminal got and not on how the reads cut them: in the middle of a character, of a
\* sequence or of the echo that is to be hidden (feed, parse_byte, take_swallowed).
ScreenIsOfItsBytes ==
  LET sizes == SelectSeq(shown, LAMBDA e : e.op = "size")
      first == IF sizes = <<>> THEN <<term.cols, term.rows>> ELSE FirstSize
  IN Len(sizes) <= 1 /\ (sizes # <<>> => Len(ses) <= 1) =>
       Content(FoldLeft(Replayed, NewTerminal(first[1], first[2]), shown)) = Content(term)

\* Disconnecting, or connecting anew, never blocks the window for ever, even if the
\* remote end neither reads nor answers (stop and its join, the loops that look at stop_).
StopReturns == ~GuiFree ~> GuiFree

\* A change of size reaches the remote end, even one made while the shell was still
\* connecting, unless the thread is held up writing again and again.
PtyFollows ==
  []<>(\/ ~Running(cur) \/ ses[cur].stop \/ ses[cur].pc = "write"
       \/ ses[cur].pty = <<term.cols, term.rows>>)
=============================================================================
