------------------------------- MODULE Updates -------------------------------
(***************************************************************************)
(* The life of the program beside its updates: the one instance that the   *)
(* mutex allows (src/app/single_instance.cpp, src/app/main.cpp), the check *)
(* for a new version, the offer and the download (src/net/updates.cpp,     *)
(* AppFrame::check_updates_async), and Setup, which closes the program     *)
(* through three named events before it copies (fatty.iss).                *)
(*                                                                         *)
(* A version is a number, 0 where there is none.  A dialog is shown above  *)
(* those that were there before, and what posts to the GUI thread is       *)
(* handled in the loop of the topmost; "message" is a box of Windows, all  *)
(* others are dialogs of the program.                                      *)
(***************************************************************************)
EXTENDS Integers, Sequences, FiniteSets, SequencesExt

CONSTANTS
  MaxVersion,     \* bound: versions that are published
  MaxUses,        \* bound: works begun and editors opened
  MaxChecks,      \* bound: checks for a new version
  MaxLaunches,    \* bound: starts of the program
  MaxSetups       \* bound: starts of Setup

ASSUME UpdatesAssumption ==
  {MaxVersion, MaxUses, MaxChecks, MaxLaunches, MaxSetups} \subseteq Nat \ {0}

VARIABLES
  github,      \* the newest release and the newest tag
  installed,   \* the version on the disk
  file,        \* config.json, of the settings that matter here
  app,         \* the instance that holds the mutex
  dialogs,     \* its modal dialogs, the topmost last
  thread,      \* the detached thread of the check or the download
  events,      \* the named events: close_event, busy_event, modal_event
  temp,        \* FaTTY-<version>-Setup.exe in the directory for temporary files
  setup,       \* the running Setup
  used,        \* how much of the bounds is used up
  settled,     \* history: what was under way when the state was last published, and still is
  noticed,     \* history: of that, what was there when Setup looked
  declined     \* history: the version that was last refused for good

vars == <<github, installed, file, app, dialogs, thread, events, temp, setup, used,
          settled, noticed, declined>>

Works == {"command", "files"}
NoThread == [kind |-> "none"]
NoSetup == [at |-> "none"]
NoFile == [version |-> 0, whole |-> TRUE]
NoApp == [at |-> "none"]
Silence == [close |-> FALSE, busy |-> FALSE, modal |-> FALSE]

\* AppSettings: skipped_update_version, last_seen_version, and whether a day has passed since
\* last_update_check.
NewSettings == [skipped |-> 0, seen |-> 0, due |-> TRUE]

Init ==
  /\ github = [released |-> 0, tagged |-> 0]
  /\ installed = 1
  /\ file = NewSettings
  /\ app = NoApp
  /\ dialogs = <<>>
  /\ thread = NoThread
  /\ events = Silence
  /\ temp = NoFile
  /\ setup = NoSetup
  /\ used = [uses |-> 0, checks |-> 0, launches |-> 0, setups |-> 0]
  /\ settled = {} /\ noticed = {}
  /\ declined = 0

HeldMutex == app.at # "none"

\* The handles of the events are closed in OnExit, the mutex by Windows when the process ends.
HasIpc == app.at \notin {"none", "exiting"}

Kinds == {dialogs[i].kind : i \in DOMAIN dialogs}

\* What Setup would put an end to, of the works ws and the stack ds of dialogs
UnderWay(ws, ds) ==
  ws \cup {k \in {"editor", "offer", "news", "question"} : \E i \in DOMAIN ds : ds[i].kind = k}

\* What has ended is no longer among what was settled and noticed.
Forget(ws, ds) ==
  /\ settled' = settled \cap UnderWay(ws, ds)
  /\ noticed' = noticed \cap UnderWay(ws, ds)

Shown(kind) == app.at = "open" /\ dialogs # <<>> /\ Last(dialogs).kind = kind

-----------------------------------------------------------------------------
(* GitHub and the days                                                       *)

\* A tag is pushed, and the workflow publishes its release later.
Publish ==
  /\ \/ /\ github.tagged < MaxVersion
        /\ github' = [github EXCEPT !.tagged = @ + 1]
     \/ /\ github.released < github.tagged
        /\ github' = [github EXCEPT !.released = github.tagged]
  /\ UNCHANGED <<installed, file, app, dialogs, thread, events, temp, setup, used,
                 settled, noticed, declined>>

\* The check of the day is due again.
DayPasses ==
  /\ ~file.due
  /\ file' = [file EXCEPT !.due = TRUE]
  /\ app' = IF app.at = "none" THEN app ELSE [app EXCEPT !.config.due = TRUE]
  /\ UNCHANGED <<github, installed, dialogs, thread, events, temp, setup, used, settled, noticed,
                 declined>>

\* winhttp_get: what GitHub answered counts, anything else is tried once more without the
\* proxy.
Retried(proxy, direct) == IF proxy \in {"ok", "http"} THEN proxy ELSE direct

\* check_for_updates: the latest release, or else the highest of the tags
CheckResult(version) ==
  LET latest == IF github.released > 0 THEN github.released ELSE github.tagged IN
  [latest |-> latest,
   status |-> IF latest = 0 THEN "none" ELSE IF latest > version THEN "update" ELSE "current"]

\* What a url of the installer of a version may give: there is none before its release.
\* A transfer that breaks off leaves a file that begins like the installer.
Answers(version) ==
  IF version > github.released THEN {"http", "down"} ELSE {"whole", "cut", "page", "http", "down"}

\* download_installer: the urls in their order, until one gives a file that begins like a
\* program and is not small.
Downloaded(answers) ==
  LET good == {i \in DOMAIN answers : answers[i] \in {"whole", "cut"}} IN
  IF good = {} THEN "error" ELSE answers[CHOOSE i \in good : \A j \in good : i <= j]

-----------------------------------------------------------------------------
(* The instance                                                              *)

\* OnInit of the instance that becomes the primary one; any other brings the window of this
\* one to the front and ends.  The events are new and not signaled.
Launch ==
  /\ ~HeldMutex /\ used.launches < MaxLaunches
  /\ app' = [at |-> "password", version |-> installed, config |-> file, work |-> {},
             checking |-> FALSE]
  /\ events' = Silence
  /\ used' = [used EXCEPT !.launches = @ + 1]
  /\ UNCHANGED <<github, installed, file, dialogs, thread, temp, setup, settled, noticed, declined>>

Failed == [status |-> "error", latest |-> 0]

\* check_updates_async, from the point where it does start a thread
CheckThread(interactive) ==
  [kind |-> "check", interactive |-> interactive, done |-> FALSE, result |-> Failed]

\* The rest of the closure that the frame posts when it is shown: the check of the day
Began(config) ==
  IF config.due /\ used.checks < MaxChecks
  THEN /\ app' = [app EXCEPT !.at = "open", !.config = config, !.checking = TRUE]
       /\ thread' = CheckThread(FALSE)
       /\ used' = [used EXCEPT !.checks = @ + 1]
  ELSE /\ app' = [app EXCEPT !.at = "open", !.config = config]
       /\ UNCHANGED <<thread, used>>

\* The master password is right: the frame is shown, and what is new in this version, if it
\* has not been shown.
Unlock ==
  /\ app.at = "password"
  /\ IF app.config.seen = app.version
     THEN Began(app.config) /\ dialogs' = <<>>
     ELSE /\ app' = [app EXCEPT !.at = "open"]
          /\ dialogs' = <<[kind |-> "news"]>>
          /\ UNCHANGED <<thread, used>>
  /\ UNCHANGED <<github, installed, file, events, temp, setup, settled, noticed, declined>>

\* The dialog of the password is given up: OnInit returns false.
GiveUp ==
  /\ app.at = "password"
  /\ app' = [app EXCEPT !.at = "exiting"]
  /\ events' = Silence
  /\ UNCHANGED <<github, installed, file, dialogs, thread, temp, setup, used, settled, noticed,
                 declined>>

\* show_whats_new, after its dialog
CloseNews ==
  /\ Shown("news")
  /\ LET config == [app.config EXCEPT !.seen = app.version] IN
     /\ file' = config
     /\ dialogs' = Front(dialogs)
     /\ Began(config)
  /\ Forget(app.work, Front(dialogs))
  /\ UNCHANGED <<github, installed, events, temp, setup, declined>>

\* A command or a transfer of files begins, or ends.
Work(kind) ==
  /\ app.at = "open"
  /\ IF kind \in app.work
     THEN /\ app' = [app EXCEPT !.work = @ \ {kind}]
          /\ Forget(app.work \ {kind}, dialogs)
          /\ UNCHANGED used
     ELSE /\ dialogs = <<>> /\ used.uses < MaxUses
          /\ app' = [app EXCEPT !.work = @ \cup {kind}]
          /\ used' = [used EXCEPT !.uses = @ + 1]
          /\ UNCHANGED <<settled, noticed>>
  /\ UNCHANGED <<github, installed, file, dialogs, thread, events, temp, setup, declined>>

\* A dialog with something to edit in it; the one of the settings has the button of the check.
OpenEditor ==
  /\ app.at = "open" /\ dialogs = <<>> /\ used.uses < MaxUses
  /\ dialogs' = <<[kind |-> "editor"]>>
  /\ used' = [used EXCEPT !.uses = @ + 1]
  /\ UNCHANGED <<github, installed, file, app, thread, events, temp, setup, settled, noticed,
                 declined>>

\* An editor, a question of ask_confirm or a message box is closed.
CloseDialog ==
  /\ \/ Shown("editor") \/ Shown("question")
     \/ app.at \in {"open", "ending"} /\ dialogs # <<>> /\ Last(dialogs).kind = "message"
  /\ dialogs' = Front(dialogs)
  /\ Forget(app.work, Front(dialogs))
  /\ UNCHANGED <<github, installed, file, app, thread, events, temp, setup, used, declined>>

\* check_updates_interactive, from the menu or the settings; during a check it only says so.
CheckNow ==
  /\ app.at = "open" /\ (dialogs = <<>> \/ Shown("editor"))
  /\ ~app.checking /\ used.checks < MaxChecks
  /\ app' = [app EXCEPT !.checking = TRUE]
  /\ thread' = CheckThread(TRUE)
  /\ used' = [used EXCEPT !.checks = @ + 1]
  /\ UNCHANGED <<github, installed, file, dialogs, events, temp, setup, settled, noticed, declined>>

\* The thread of the check ends.
Checked ==
  /\ thread.kind = "check" /\ ~thread.done
  /\ \E proxy, direct \in {"ok", "http", "down"} :
       thread' = [thread EXCEPT !.done = TRUE, !.result =
                    IF Retried(proxy, direct) = "ok" THEN CheckResult(app.version) ELSE Failed]
  /\ UNCHANGED <<github, installed, file, app, dialogs, events, temp, setup, used, settled,
                 noticed, declined>>

\* The end of the closure of the check: an automatic one is not due for a day.
Noted(config, interactive) == IF interactive THEN config ELSE [config EXCEPT !.due = FALSE]

\* What the closure of a check shows: the error, the offer, or that there is nothing.
News(r, interactive) ==
  IF r.status = "error" THEN IF interactive THEN <<[kind |-> "question"]>> ELSE <<>>
  ELSE IF r.status = "update" /\ (interactive \/ r.latest # app.config.skipped)
       THEN <<[kind |-> "offer", latest |-> r.latest, interactive |-> interactive]>>
  ELSE IF interactive /\ r.status # "update" THEN <<[kind |-> "message"]>> ELSE <<>>

\* The closure of the check, which ends there unless it has something to offer.
OnChecked ==
  /\ app.at = "open" /\ thread.kind = "check" /\ thread.done
  /\ LET r == thread.result
         shown == News(r, thread.interactive)
         ends == r.status # "error" /\ (shown = <<>> \/ shown[1].kind # "offer")
         config == IF ends THEN Noted(app.config, thread.interactive) ELSE app.config
     IN /\ dialogs' = dialogs \o shown
        /\ app' = [app EXCEPT !.checking = FALSE, !.config = config]
        /\ file' = IF ends /\ ~thread.interactive THEN config ELSE file
  /\ thread' = NoThread
  /\ UNCHANGED <<github, installed, events, temp, setup, used, settled, noticed, declined>>

\* Mutant: what an interactive check changes is not saved.
RefusedUnsaved(config, saved, offer, ticked) ==
  LET skipped == IF ticked THEN offer.latest
                 ELSE IF config.skipped = offer.latest THEN 0 ELSE config.skipped
      result == Noted([config EXCEPT !.skipped = skipped], offer.interactive)
  IN [config |-> result, saved |-> IF ~offer.interactive THEN result ELSE saved]

\* The settings after an offer that is not taken, and the ones that are saved: with the tick,
\* which is there unless it is taken away, the version is not offered again by itself.
Refused(config, saved, offer, ticked) ==
  LET skipped == IF ticked THEN offer.latest
                 ELSE IF config.skipped = offer.latest THEN 0 ELSE config.skipped
      result == Noted([config EXCEPT !.skipped = skipped], offer.interactive)
  IN [config |-> result, saved |-> IF result # config \/ ~offer.interactive THEN result ELSE saved]

\* The offer is answered with no, or left.
Refuse ==
  /\ Shown("offer")
  /\ \E ticked \in BOOLEAN :
       LET offer == Last(dialogs)
           after == Refused(app.config, file, offer, ticked)
       IN /\ app' = [app EXCEPT !.config = after.config]
          /\ file' = after.saved
          /\ declined' = IF ticked THEN offer.latest
                         ELSE IF declined = offer.latest THEN 0 ELSE declined
  /\ dialogs' = Front(dialogs)
  /\ Forget(app.work, Front(dialogs))
  /\ UNCHANGED <<github, installed, thread, events, temp, setup, used>>

\* ... with yes: a thread downloads.
Accept ==
  /\ Shown("offer")
  /\ LET offer == Last(dialogs)
         config == Noted(app.config, offer.interactive)
     IN /\ app' = [app EXCEPT !.checking = TRUE, !.config = config]
        /\ file' = IF offer.interactive THEN file ELSE config
        /\ thread' = [kind |-> "download", version |-> offer.latest, done |-> FALSE,
                      result |-> "error"]
  /\ dialogs' = Front(dialogs)
  /\ Forget(app.work, Front(dialogs))
  /\ UNCHANGED <<github, installed, events, temp, setup, used, declined>>

\* download_installer and winhttp_download_once: the file is put in its place, which a Setup
\* that runs from there does not allow.
Download ==
  /\ thread.kind = "download" /\ ~thread.done
  /\ \E first, second \in Answers(thread.version) :
       LET got == Downloaded(<<first, second>>)
           result == IF setup.at # "none" /\ setup.version = thread.version THEN "error" ELSE got
       IN /\ thread' = [thread EXCEPT !.done = TRUE, !.result = result]
          /\ temp' = IF result = "error" THEN temp
                     ELSE [version |-> thread.version, whole |-> got = "whole"]
  /\ UNCHANGED <<github, installed, file, app, dialogs, events, setup, used, settled, noticed,
                 declined>>

NewSetup(version, silent) ==
  [at |-> "looks", version |-> version, silent |-> silent, asked |-> FALSE, ipc |-> FALSE]

\* The closure of the download: the installer is started, and one that was cut off gives up.
OnDownloaded ==
  /\ app.at = "open" /\ thread.kind = "download" /\ thread.done
  /\ app' = [app EXCEPT !.checking = FALSE]
  /\ thread' = NoThread
  /\ IF thread.result = "error"
     THEN dialogs' = Append(dialogs, [kind |-> "question"]) /\ UNCHANGED <<setup, used>>
     ELSE /\ dialogs' = dialogs
          /\ IF temp.whole /\ setup.at = "none" /\ used.setups < MaxSetups
             THEN /\ setup' = NewSetup(temp.version, FALSE)
                  /\ used' = [used EXCEPT !.setups = @ + 1]
             ELSE UNCHANGED <<setup, used>>
  /\ UNCHANGED <<github, installed, file, events, temp, settled, noticed, declined>>

-----------------------------------------------------------------------------
(* The end of the instance                                                   *)

\* The close handler of the frame, when it is not vetoed: what runs is cancelled, posted
\* closures are dropped from now on, and the settings are saved.
Closes ==
  /\ app' = [app EXCEPT !.at = "ending", !.work = {}]
  /\ file' = app.config

\* The user closes the window, or means to and is asked first, when a command runs.
CloseWindow ==
  /\ app.at = "open" /\ dialogs = <<>>
  /\ IF "command" \in app.work
     THEN dialogs' = <<[kind |-> "exit?"]>> /\ UNCHANGED <<app, file, settled, noticed>>
     ELSE Closes /\ dialogs' = <<>> /\ Forget({}, <<>>)
  /\ UNCHANGED <<github, installed, thread, events, temp, setup, used, declined>>

AnswerExit ==
  /\ Shown("exit?")
  /\ \/ Closes /\ Forget({}, <<>>)
     \/ UNCHANGED <<app, file, settled, noticed>>
  /\ dialogs' = <<>>
  /\ UNCHANGED <<github, installed, thread, events, temp, setup, used, declined>>

\* Mutant: a transfer of files is not published.
PublishedCommands ==
  [close |-> FALSE, busy |-> app.at = "open" /\ "command" \in app.work,
   modal |-> app.at = "open" /\ Kinds \ {"message"} # {}]

\* publish_install_state, as on_install_close_tick computes it: nothing without the frame.
Published ==
  [close |-> FALSE, busy |-> app.at = "open" /\ app.work # {},
   modal |-> app.at = "open" /\ Kinds \ {"message"} # {}]

\* on_install_close_tick, every 200 ms until a request is taken: the state is published, and
\* at a request the dialogs of the program are ended and the frame is closed, without a
\* question; without a frame, the dialog of the password is.
Tick ==
  /\ app.at \in {"password", "open"}
  /\ events' = Published
  /\ IF ~events.close
     THEN /\ settled' = IF app.at = "open" THEN UnderWay(app.work, dialogs) ELSE {}
          /\ UNCHANGED <<app, file, noticed>>
     ELSE /\ settled' = {} /\ noticed' = {}
          /\ IF app.at = "open" THEN Closes
             ELSE app' = [app EXCEPT !.at = "exiting"] /\ UNCHANGED file
  /\ UNCHANGED <<github, installed, dialogs, thread, temp, setup, used, declined>>

\* What waits for the dialogs that were ended goes on: an offer counts as refused.  A box of
\* Windows is not ended, and keeps all that from returning.
Unwind ==
  /\ app.at = "ending" /\ dialogs # <<>> /\ Last(dialogs).kind # "message"
  /\ dialogs' = Front(dialogs)
  /\ LET top == Last(dialogs) IN
     CASE top.kind = "offer" ->
            \E ticked \in BOOLEAN :
              LET after == Refused(app.config, file, top, ticked) IN
              /\ app' = [app EXCEPT !.config = after.config]
              /\ file' = after.saved
              /\ declined' = IF ticked THEN top.latest
                             ELSE IF declined = top.latest THEN 0 ELSE declined
       [] top.kind = "news" ->
            LET config == [app.config EXCEPT !.seen = app.version] IN
            app' = [app EXCEPT !.config = config] /\ file' = config /\ UNCHANGED declined
       [] OTHER -> UNCHANGED <<app, file, declined>>
  /\ UNCHANGED <<github, installed, thread, events, temp, setup, used, settled, noticed>>

\* OnExit: the handles of the events are closed.
OnExit ==
  /\ app.at = "ending" /\ dialogs = <<>>
  /\ app' = [app EXCEPT !.at = "exiting"]
  /\ events' = Silence
  /\ UNCHANGED <<github, installed, file, dialogs, thread, temp, setup, used, settled, noticed,
                 declined>>

\* The process is gone, and its threads with it.
Gone ==
  /\ app' = NoApp /\ dialogs' = <<>> /\ thread' = NoThread /\ events' = Silence
  /\ settled' = {} /\ noticed' = {}

ProcessEnds ==
  /\ app.at = "exiting"
  /\ Gone
  /\ UNCHANGED <<github, installed, file, temp, setup, used, declined>>

-----------------------------------------------------------------------------
(* Setup: ConfirmAndCloseFaTTY of fatty.iss                                  *)

\* The user starts an installer, or something else does, silently.
StartSetup ==
  /\ setup.at = "none" /\ used.setups < MaxSetups /\ github.released > 0
  /\ \E silent \in BOOLEAN : setup' = NewSetup(github.released, silent)
  /\ used' = [used EXCEPT !.setups = @ + 1]
  /\ UNCHANGED <<github, installed, file, app, dialogs, thread, events, temp, settled, noticed,
                 declined>>

Setup(at) ==
  /\ setup.at = at
  /\ UNCHANGED <<github, temp, used>>

\* Whether the program runs, has the events, and what they say.
SetupLooks ==
  /\ Setup("looks")
  /\ LET asks == ~setup.silent /\ (~HasIpc \/ events.busy \/ events.modal) IN
     setup' = [setup EXCEPT !.ipc = HasIpc,
                 !.at = IF ~HeldMutex THEN "copies" ELSE IF asks THEN "asks" ELSE "closes"]
  /\ noticed' = settled
  /\ UNCHANGED <<installed, file, app, dialogs, thread, events, settled, declined>>

SetupAsks ==
  /\ Setup("asks")
  /\ \/ setup' = NoSetup
     \/ setup' = [setup EXCEPT !.at = "closes", !.asked = TRUE]
  /\ UNCHANGED <<installed, file, app, dialogs, thread, events, settled, noticed, declined>>

\* ForceKillFaTTY, when there is one
Kill == IF HeldMutex THEN Gone ELSE UNCHANGED <<app, dialogs, thread, events, settled, noticed>>

\* SignalNamedEvent, which finds the event of the instance that is there by then, if any
Signaled == IF HasIpc THEN [events EXCEPT !.close = TRUE] ELSE events

SetupCloses ==
  /\ Setup("closes")
  /\ setup' = [setup EXCEPT !.at = "waits"]
  /\ IF setup.ipc THEN events' = Signaled /\ UNCHANGED <<app, dialogs, thread, settled, noticed>>
                  ELSE Kill
  /\ UNCHANGED <<installed, file, declined>>

\* WaitUntilFaTTYClosed: the mutex is gone, or 30 seconds are over; with another 15 or 10
\* after that.
SetupWaits ==
  /\ setup.at \in {"waits", "waits again"} /\ Setup(setup.at)
  /\ setup' = IF ~HeldMutex THEN [setup EXCEPT !.at = "copies"]
              ELSE IF setup.at = "waits again" THEN NoSetup
              ELSE [setup EXCEPT !.at = IF setup.silent THEN "kills" ELSE "asks again"]
  /\ UNCHANGED <<installed, file, app, dialogs, thread, events, settled, noticed, declined>>

\* Whether to wait once more; what follows is no wait only.
SetupAsksAgain ==
  /\ Setup("asks again")
  /\ \/ setup' = NoSetup
     \/ setup' = [setup EXCEPT !.at = "kills", !.asked = TRUE]
  /\ UNCHANGED <<installed, file, app, dialogs, thread, events, settled, noticed, declined>>

SetupKills ==
  /\ Setup("kills")
  /\ setup' = [setup EXCEPT !.at = "waits again"]
  /\ Kill
  /\ UNCHANGED <<installed, file, declined>>

\* The files of the program are replaced, if nothing has started again in the meantime.
SetupCopies ==
  /\ Setup("copies")
  /\ setup' = NoSetup
  /\ installed' = IF HeldMutex THEN installed ELSE setup.version
  /\ UNCHANGED <<file, app, dialogs, thread, events, settled, noticed, declined>>

-----------------------------------------------------------------------------

Next ==
  \/ Publish \/ DayPasses \/ Launch \/ Unlock \/ GiveUp \/ CloseNews
  \/ \E kind \in Works : Work(kind)
  \/ OpenEditor \/ CloseDialog
  \/ CheckNow \/ Checked \/ OnChecked \/ Refuse \/ Accept \/ Download \/ OnDownloaded
  \/ CloseWindow \/ AnswerExit \/ Tick \/ Unwind \/ OnExit \/ ProcessEnds
  \/ StartSetup \/ SetupLooks \/ SetupAsks \/ SetupCloses \/ SetupWaits \/ SetupAsksAgain
  \/ SetupKills \/ SetupCopies

Spec == Init /\ [][Next]_vars

-----------------------------------------------------------------------------
(* Properties                                                                *)

\* Setup interrupts nothing without a question: if what it is about to put an end to, a command,
\* a transfer or an open dialog, was there when the program last told its state, is there since
\* and was there when Setup looked, then Setup has asked, or was told to be silent.  (What begins
\* after that is not seen by anyone.)
InterruptsWithNotice ==
  [][((SetupCloses \/ SetupKills) /\ noticed # {}) => (setup.asked \/ setup.silent)]_vars

\* A version that was refused for good is not offered again by itself: neither in this
\* instance nor in a later one, however the one in which it was refused ends.
RefusedStaysQuiet ==
  [][\A i \in DOMAIN dialogs' :
       (i \notin DOMAIN dialogs /\ dialogs'[i].kind = "offer" /\ ~dialogs'[i].interactive)
         => dialogs'[i].latest # declined]_vars
=============================================================================
