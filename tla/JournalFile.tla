----------------------------- MODULE JournalFile -----------------------------
(***************************************************************************)
(* The journal of FaTTY: Journal (src/core/journal.cpp), its file, and the *)
(* two windows that show it, AppFrame with its statistics and              *)
(* JournalWindow (src/ui/journal_window.cpp).                              *)
(*                                                                         *)
(* Two threads append: the worker of a command and the GUI thread (bundles *)
(* and health). A call of append is several steps, since the process may   *)
(* end between them and the other thread waits for mutex_. Everything else *)
(* the GUI thread does with the journal is one step each.                  *)
(***************************************************************************)
EXTENDS Integers, Sequences, SequencesExt

CONSTANTS
  MaxEntries,    \* Journal::max_entries
  TrimSlack,     \* kTrimSlack
  LoadLimit,     \* the default limit of load()
  TrimOutcomes,  \* can the file be replaced while append holds it open? A
                 \* Windows build says no ({FALSE}), a POSIX build yes ({TRUE})
  MaxAppends,    \* bound: the entries ever appended
  MaxOpens,      \* bound: how often the journal window is opened
  MaxPosted,     \* bound: closures that wait while the user clears the journal
  MaxCrashes     \* bound: how often the process ends in the middle

ASSUME JournalAssumption ==
  /\ MaxEntries \in Nat \ {0} /\ TrimSlack \in Nat /\ LoadLimit \in Nat \ {0}
  /\ TrimOutcomes \subseteq BOOLEAN /\ TrimOutcomes # {}
  /\ {MaxAppends, MaxOpens, MaxPosted, MaxCrashes} \subseteq Nat

Threads == {"gui", "run"}
Ids     == 1 .. MaxAppends      \* entries in the order in which they are written
NoId    == 0

\* A row of the file. An "open" row is being written: it is the last one and has
\* no newline yet. A "torn" row was open when the process ended. A "garbled" row
\* has its newline but is not the JSON of an entry.
Row == [id : Ids \cup {NoId}, state : {"whole", "open", "torn", "garbled"}]

VARIABLES
  file,       \* the rows of journal.jsonl
  call,       \* per thread, the call of append that is being executed
  listeners,  \* listeners_: the names of the windows, with their generation
  closures,   \* what the listeners posted with CallAfter, in order
  stats,      \* AppFrame's command_stats_ and bundle_stats_: the entries seen
  window,     \* the JournalWindow
  appended,   \* how many ids are taken
  crashes

vars == <<file, call, listeners, closures, stats, window, appended, crashes>>

NoCall == [step |-> "none", id |-> NoId, begun |-> FALSE, detached |-> FALSE, todo |-> <<>>]

\* The windows as listeners: the main window is generation 0, and each journal
\* window that is opened has a generation (an alive_ token) of its own.
Frame == 0

Locked == \E t \in Threads : call[t].step \in {"written", "read"}
GuiFree == call["gui"].step = "none" /\ window.doing # "opening"

-----------------------------------------------------------------------------
(***************************************************************************)
(* The file.                                                               *)
(***************************************************************************)

IsWhole(row) == row.state = "whole"

\* Journal::load: the newest LoadLimit entries, newest first; what cannot be
\* parsed is passed over.
Load(f) ==
  LET whole == SelectSeq(f, IsWhole)
      n     == Len(whole)
      kept  == IF n < LoadLimit THEN n ELSE LoadLimit
  IN [i \in 1 .. kept |-> whole[n - i + 1].id]

\* Does text at the end of the file continue its last row?
Unended(f) == f # <<>> /\ Last(f).state \in {"open", "torn"}

WriteRow(f, id, state) ==
  IF Unended(f)
  THEN Append(Front(f), [id |-> NoId, state |-> IF state = "whole" THEN "garbled" ELSE "open"])
  ELSE Append(f, [id |-> id, state |-> state])

\* The rest of a row that is begun.
FinishRow(f) ==
  LET row == Last(f)
  IN Append(Front(f), IF row.id = NoId THEN [row EXCEPT !.state = "garbled"]
                      ELSE [row EXCEPT !.state = "whole"])

\* What is written back gets a newline behind every row.
Closed(row) == IF row.state \in {"open", "torn"} THEN [id |-> NoId, state |-> "garbled"] ELSE row

\* Mutant: the oldest rows are kept.
TrimmedOldest(f) == [i \in 1 .. MaxEntries |-> Closed(f[i])]

\* The newest max_entries rows.
Trimmed(f) == [i \in 1 .. MaxEntries |-> Closed(f[Len(f) - MaxEntries + i])]

TooLong(f) == Len(f) > MaxEntries + TrimSlack

-----------------------------------------------------------------------------
(***************************************************************************)
(* Journal::append in thread t.                                            *)
(***************************************************************************)

\* Mutant: mutex_ is not waited for.
MayWriteUnlocked(t) == call[t].step = "none"

MayWrite(t) == call[t].step = "none" /\ ~Locked

\* Under mutex_, `out << line': the stream keeps the row in its buffer, or, when
\* the row is longer than the buffer, has written the beginning of it.
AppendWrites(t) ==
  /\ MayWrite(t) /\ appended < MaxAppends
  /\ t = "gui" => GuiFree
  /\ appended' = appended + 1
  /\ \/ /\ call' = [call EXCEPT ![t] = [NoCall EXCEPT !.step = "written", !.id = appended + 1]]
        /\ UNCHANGED file
     \/ /\ call' = [call EXCEPT ![t] = [NoCall EXCEPT !.step = "written", !.id = appended + 1,
                                                      !.begun = TRUE]]
        /\ file' = WriteRow(file, appended + 1, "open")
  /\ UNCHANGED <<listeners, closures, stats, window, crashes>>

\* The file is read back and, if it has grown too long, replaced by its newest
\* rows. `out' is still open: either the file cannot be replaced and the
\* exception is swallowed, or `out' goes on writing to the file that was.
AppendTrims(t) ==
  /\ call[t].step = "written"
  /\ \/ /\ TooLong(file) /\ TRUE \in TrimOutcomes
        /\ file' = Trimmed(file)
        /\ call' = [call EXCEPT ![t].step = "read", ![t].detached = TRUE]
     \/ /\ TooLong(file) => FALSE \in TrimOutcomes
        /\ call' = [call EXCEPT ![t].step = "read"]
        /\ UNCHANGED file
  /\ UNCHANGED <<listeners, closures, stats, window, appended, crashes>>

\* ~ofstream writes the rest of the row, and mutex_ is released.
AppendCloses(t) ==
  /\ call[t].step = "read"
  /\ file' = CASE call[t].detached -> file
               [] ~call[t].detached /\ call[t].begun -> FinishRow(file)
               [] OTHER -> WriteRow(file, call[t].id, "whole")
  /\ call' = [call EXCEPT ![t].step = "stored"]
  /\ UNCHANGED <<listeners, closures, stats, window, appended, crashes>>

\* notify_listeners copies the list under listeners_mutex_ ...
Notify(t) ==
  /\ call[t].step = "stored"
  /\ call' = [call EXCEPT ![t].step = "notifying", ![t].todo = listeners]
  /\ UNCHANGED <<file, listeners, closures, stats, window, appended, crashes>>

IsAlive(w) == w = Frame \/ (window.open /\ window.gen = w)

\* ... and calls one after the other: a listener posts a closure if its window
\* is alive.
CallListener(t) ==
  /\ call[t].step = "notifying" /\ call[t].todo # <<>>
  /\ closures' = IF IsAlive(Head(call[t].todo)) THEN Append(closures, Head(call[t].todo))
                 ELSE closures
  /\ call' = [call EXCEPT ![t].todo = Tail(@)]
  /\ UNCHANGED <<file, listeners, stats, window, appended, crashes>>

AppendReturns(t) ==
  /\ call[t].step = "notifying" /\ call[t].todo = <<>>
  /\ call' = [call EXCEPT ![t] = NoCall]
  /\ UNCHANGED <<file, listeners, closures, stats, window, appended, crashes>>

-----------------------------------------------------------------------------
(***************************************************************************)
(* The GUI thread. A question (ask_confirm) is a modal dialog: closures go *)
(* on being run while it is open, the rest of the windows is disabled.     *)
(***************************************************************************)

NoWindow(gen) == [open |-> FALSE, gen |-> gen, entries |-> <<>>, doing |-> "no",
                  row |-> 0, asked |-> NoId, reloaded |-> FALSE]

\* show_journal: the constructor of the window loads the entries ...
OpenWindow ==
  /\ GuiFree /\ ~Locked /\ ~window.open /\ window.gen < MaxOpens
  /\ window' = [NoWindow(window.gen + 1) EXCEPT !.open = TRUE, !.doing = "opening",
                                                !.entries = Load(file)]
  /\ UNCHANGED <<file, call, listeners, closures, stats, appended, crashes>>

\* ... builds the window, and subscribes to the journal.
Subscribe ==
  /\ window.doing = "opening"
  /\ window' = [window EXCEPT !.doing = "no"]
  /\ listeners' = Append(listeners, window.gen)
  /\ UNCHANGED <<file, call, closures, stats, appended, crashes>>

\* Mutant: the window takes every listener with it (remove_listeners).
CloseWindowRemovesAll ==
  /\ GuiFree /\ window.open /\ window.doing = "no"
  /\ window' = NoWindow(window.gen)
  /\ listeners' = <<>>
  /\ UNCHANGED <<file, call, closures, stats, appended, crashes>>

\* wxEVT_CLOSE_WINDOW: the token dies and the listener is removed.
CloseWindow ==
  /\ GuiFree /\ window.open /\ window.doing = "no"
  /\ window' = NoWindow(window.gen)
  /\ listeners' = SelectSeq(listeners, LAMBDA w : w # window.gen)
  /\ UNCHANGED <<file, call, closures, stats, appended, crashes>>

\* delete_selected up to its question: `e' refers to entries_[row].
AskDelete(i) ==
  /\ GuiFree /\ window.open /\ window.doing = "no" /\ i \in DOMAIN window.entries
  /\ window' = [window EXCEPT !.doing = "delete", !.row = i, !.asked = window.entries[i],
                              !.reloaded = FALSE]
  /\ UNCHANGED <<file, call, listeners, closures, stats, appended, crashes>>

AskClear ==
  /\ GuiFree /\ window.open /\ window.doing = "no"
  /\ window' = [window EXCEPT !.doing = "clear"]
  /\ UNCHANGED <<file, call, listeners, closures, stats, appended, crashes>>

Answered(f) == [window EXCEPT !.doing = "no", !.row = 0, !.asked = NoId, !.reloaded = FALSE,
                              !.entries = Load(f)]

\* The question is answered with no.
Decline ==
  /\ GuiFree /\ window.doing \in {"delete", "clear"}
  /\ window' = [window EXCEPT !.doing = "no", !.row = 0, !.asked = NoId, !.reloaded = FALSE]
  /\ UNCHANGED <<file, call, listeners, closures, stats, appended, crashes>>

\* What e.id may read after the question. If entries_ has been refilled in the
\* meantime, `e' is the element that is there now, or freed memory that may
\* still hold the old id or nothing that is an id.
IdReadBack ==
  IF ~window.reloaded THEN {window.asked}
  ELSE {window.asked, NoId}
         \cup {window.entries[i] : i \in {window.row} \cap DOMAIN window.entries}

\* Journal::remove passes over the rows from the first to the last and writes back
\* those it keeps: all but the entries with this id.
KeptRows(f, id) ==
  LET kept[n \in 0 .. Len(f)] ==
        IF n = 0 THEN <<>>
        ELSE IF IsWhole(f[n]) /\ f[n].id = id THEN kept[n - 1]
        ELSE Append(kept[n - 1], Closed(f[n]))
  IN kept

Without(f, id) == KeptRows(f, id)[Len(f)]

\* Yes: Journal::remove and reload().
ConfirmDelete ==
  /\ GuiFree /\ ~Locked /\ window.doing = "delete"
  /\ \E id \in IdReadBack :
       IF \E i \in DOMAIN file : IsWhole(file[i]) /\ file[i].id = id
       THEN /\ file' = Without(file, id)
            /\ closures' = closures \o SelectSeq(listeners, IsAlive)
       ELSE UNCHANGED <<file, closures>>
  /\ window' = Answered(file')
  /\ UNCHANGED <<call, listeners, stats, appended, crashes>>

\* Yes: Journal::clear and reload().
ConfirmClear ==
  /\ GuiFree /\ ~Locked /\ window.doing = "clear" /\ Len(closures) < MaxPosted
  /\ file' = <<>>
  /\ closures' = closures \o SelectSeq(listeners, IsAlive)
  /\ window' = Answered(file')
  /\ UNCHANGED <<call, listeners, stats, appended, crashes>>

\* A posted closure: the main window takes its statistics, the journal window
\* reloads its list, unless it has been closed.
RunClosure ==
  /\ GuiFree /\ closures # <<>>
  /\ closures' = Tail(closures)
  /\ \/ /\ ~IsAlive(Head(closures))
        /\ UNCHANGED <<stats, window>>
     \/ /\ Head(closures) = Frame /\ ~Locked
        /\ stats' = Load(file)
        /\ UNCHANGED window
     \/ /\ Head(closures) # Frame /\ IsAlive(Head(closures)) /\ ~Locked
        /\ window' = [window EXCEPT !.entries = Load(file), !.reloaded = TRUE]
        /\ UNCHANGED stats
  /\ UNCHANGED <<file, call, listeners, appended, crashes>>

\* The process ends (also at its exit, where a worker may still be writing), and
\* starts again: what was in a stream's buffer is gone.
Crash ==
  /\ crashes < MaxCrashes
  /\ crashes' = crashes + 1
  /\ call' = [t \in Threads |-> NoCall]
  /\ listeners' = <<Frame>> /\ closures' = <<>>
  /\ file' = [i \in DOMAIN file |-> IF file[i].state = "open" THEN [file[i] EXCEPT !.state = "torn"]
                                   ELSE file[i]]
  /\ stats' = Load(file)
  /\ window' = NoWindow(window.gen)
  /\ UNCHANGED appended

Init ==
  /\ file = <<>>
  /\ call = [t \in Threads |-> NoCall]
  /\ listeners = <<Frame>> /\ closures = <<>>
  /\ stats = <<>>
  /\ window = NoWindow(0)
  /\ appended = 0 /\ crashes = 0

ThreadStep(t) ==
  \/ AppendTrims(t) \/ AppendCloses(t)
  \/ Notify(t) \/ CallListener(t) \/ AppendReturns(t)

User ==
  \/ OpenWindow \/ CloseWindow
  \/ \E i \in 1 .. MaxAppends : AskDelete(i)
  \/ AskClear \/ Decline \/ ConfirmDelete \/ ConfirmClear

Next ==
  \/ \E t \in Threads : AppendWrites(t) \/ ThreadStep(t)
  \/ RunClosure
  \/ Subscribe
  \/ User
  \/ Crash

Spec == Init /\ [][Next]_vars

\* Threads are scheduled, mutex_ is not withheld, posted closures are run.
FairSpec ==
  Spec /\ WF_vars(RunClosure) /\ WF_vars(Subscribe) /\ \A t \in Threads : WF_vars(ThreadStep(t))

-----------------------------------------------------------------------------
(***************************************************************************)
(* Properties.                                                             *)
(***************************************************************************)

\* Only the last row may lack its newline, and the entries stand in the order in
\* which they were appended, each once, so that load() really shows the newest
\* first and statistics take the newest run (mutex_ around the whole of append).
NewestLast ==
  /\ file \in Seq(Row)
  /\ \A i \in DOMAIN file : file[i].state \in {"open", "torn"} => i = Len(file)
  /\ \A i, j \in DOMAIN file : i < j /\ IsWhole(file[i]) /\ IsWhole(file[j]) => file[i].id < file[j].id

Stored(f) == {f[i].id : i \in {j \in DOMAIN f : IsWhole(f[j])}}

\* An entry that has once been stored stays until the user deletes it, clears
\* the journal, or max_entries rows stand behind it: no append of the other
\* thread, no crash and no delete of another entry loses it.
StoredStays ==
  [][\A i \in DOMAIN file : IsWhole(file[i]) /\ file[i].id \notin Stored(file') =>
       \/ window.doing = "clear" /\ file' = <<>>
       \/ window.doing = "delete" /\ Stored(file') = Stored(file) \ {file[i].id}
       \/ TooLong(file) /\ i + MaxEntries <= Len(file)]_vars

\* Once nothing more is appended, the statistics of the main window are those of
\* the file: no notification gets lost between the two threads, the listeners
\* that come and go, and the closures that wait.
StatsCatchUp == <>[](stats = Load(file))

=============================================================================
