------------------------- MODULE FilesTransferProofs -------------------------
(***************************************************************************)
(* What holds of FilesTransfer for every value of its constants: a window  *)
(* that is not busy has no thread behind it, and no closure under way that *)
(* would make it less busy than it is by then; and what is reported of a   *)
(* transfer is what became of the file.                                    *)
(***************************************************************************)
EXTENDS FilesTransfer, TLAPS

\* The thread is at work.
AtWork(w) == "kind" \in DOMAIN w /\ w.kind # "idle"

\* The inductive invariant. Nothing is at work before the first connect, and the thread and
\* the closure that ends its work are never there together: the closure, which makes the
\* window idle, is always that of the last thread.
IInv ==
  /\ work = Idle \/ AtWork(work)
  /\ work = Idle \/ posted = Idle
  /\ ~begun => work = Idle /\ posted = Idle
  /\ NothingBehindTheWindow

LEMMA IdleIsNotAtWork == ~AtWork(Idle)
  BY DEF AtWork, Idle

-----------------------------------------------------------------------------
(* The window                                                               *)

LEMMA ConnectKeeps == IInv /\ Connect => IInv'
  <1> SUFFICES ASSUME IInv, Connect PROVE IInv'
    OBVIOUS
  <1>1. PICK means : work' = [kind |-> "connect", pc |-> "resolve", stale |-> FALSE,
                              means |-> means, left |-> 0]
    BY DEF Connect
  <1>2. AtWork(work')
    BY <1>1 DEF AtWork
  <1>3. busy' = TRUE /\ begun' = TRUE /\ posted' = Idle
    BY DEF Connect, IInv
  <1>4. QED
    BY <1>2, <1>3 DEF IInv, NothingBehindTheWindow

LEMMA StartTransferKeeps ==
  ASSUME IInv, NEW kind \in Transfers, NEW here, NEW there, StartTransfer(kind, here, there)
  PROVE  IInv'
  <1>1. AtWork(work')
    BY DEF StartTransfer, AtWork, Transfers
  <1>2. busy' = TRUE /\ begun' /\ posted' = Idle
    BY DEF StartTransfer, Gui, IInv, NothingBehindTheWindow
  <1>3. QED
    BY <1>1, <1>2 DEF IInv, NothingBehindTheWindow

\* A step that touches neither the flags nor the thread.
LEMMA HandlerKeeps ==
  ASSUME IInv, UNCHANGED <<program, window, begun, busy, work, posted>>
  PROVE  IInv'
  BY DEF IInv, NothingBehindTheWindow

\* The marks that Stop and closing leave on the thread's work leave it at work.
LEMMA MarkedStaysAtWork ==
  ASSUME NEW w, AtWork(w), NEW v
  PROVE  /\ AtWork([w EXCEPT !.stopped = v])
         /\ AtWork([w EXCEPT !.stale = v])
  BY DEF AtWork

LEMMA StopKeeps == IInv /\ Stop => IInv'
  <1> SUFFICES ASSUME IInv, Stop PROVE IInv'
    OBVIOUS
  <1>1. work' = Idle <=> work = Idle
    <2>1. CASE "stopped" \in DOMAIN work
      BY <2>1, MarkedStaysAtWork, IdleIsNotAtWork DEF Stop, IInv, Idle
    <2>2. CASE ~("stopped" \in DOMAIN work)
      BY <2>2 DEF Stop
    <2>3. QED
      BY <2>1, <2>2
  <1>2. work' = Idle \/ AtWork(work')
    BY <1>1, MarkedStaysAtWork DEF Stop, IInv
  <1>3. QED
    BY <1>1, <1>2 DEF Stop, IInv, NothingBehindTheWindow

\* Closing, under whatever is going on.
LEMMA CloseSessionKeeps ==
  ASSUME IInv, CloseSession
  PROVE  (work' = Idle <=> work = Idle) /\ (work' = Idle \/ AtWork(work'))
  <1>1. CASE work = Idle
    BY <1>1 DEF CloseSession
  <1>2. CASE work # Idle
    <2> DEFINE w == [work EXCEPT !.stale = @ \/ (Inside /\ session.raw)]
    <2>1. AtWork(w)
      BY <1>2, MarkedStaysAtWork DEF IInv
    <2>2. work' = IF "stopped" \in DOMAIN w THEN [w EXCEPT !.stopped = TRUE] ELSE w
      BY <1>2 DEF CloseSession
    <2> HIDE DEF w
    <2>3. AtWork(work')
      BY <2>1, <2>2, MarkedStaysAtWork
    <2>4. QED
      BY <1>2, <2>3, IdleIsNotAtWork
  <1>3. QED
    BY <1>1, <1>2

LEMMA CloseKeeps == IInv /\ (CloseWindow \/ Destroy) => IInv'
  <1> SUFFICES ASSUME IInv, CloseWindow \/ Destroy PROVE IInv'
    OBVIOUS
  <1>1. CloseSession /\ UNCHANGED <<program, begun, busy, posted>> /\ window' # "open"
    BY DEF CloseWindow, Destroy
  <1>2. QED
    BY <1>1, CloseSessionKeeps DEF IInv, NothingBehindTheWindow

\* The closure is that of the only thread there was, which is over.
LEMMA CompletionKeeps == IInv /\ Completion => IInv'
  BY DEF IInv, Completion, NothingBehindTheWindow

LEMMA UserKeeps == IInv /\ User => IInv'
  <1> SUFFICES ASSUME IInv, User PROVE IInv'
    OBVIOUS
  <1>1. CASE \E d \in Dirs : Enter(d)
    BY <1>1, HandlerKeeps DEF Enter, MoveTo
  <1>2. CASE GoUp
    BY <1>2, HandlerKeeps DEF GoUp, MoveTo
  <1>3. CASE \E n \in Names : MkDir(n) \/ Delete(n)
    BY <1>3, HandlerKeeps DEF MkDir, Delete, Changes
  <1>4. CASE \E n \in Names : Upload(n) \/ \E m \in Names : Download(n, m)
    BY <1>4, StartTransferKeeps DEF Upload, Download, Transfers
  <1>5. CASE Stop
    BY <1>5, StopKeeps
  <1>6. CASE CloseWindow
    BY <1>6, CloseKeeps
  <1>7. QED
    BY <1>1, <1>2, <1>3, <1>4, <1>5, <1>6 DEF User

-----------------------------------------------------------------------------
(* The thread                                                               *)

\* A step of the thread goes on, or ends its work and posts the closure; the window knows
\* nothing of it before the closure runs.
LEMMA ThreadStepKeeps ==
  ASSUME IInv, AtWork(work), UNCHANGED <<window, begun, busy>>,
         \/ AtWork(work') /\ UNCHANGED posted
         \/ work' = Idle
         \/ program' = "ended" /\ UNCHANGED <<work, posted>>,
         program' # program => program' = "ended"
  PROVE  IInv'
  <1>1. begun /\ posted = Idle /\ work # Idle
    BY IdleIsNotAtWork DEF IInv
  <1>2. QED
    BY <1>1, IdleIsNotAtWork DEF IInv, NothingBehindTheWindow

\* The thread's work goes on elsewhere.
LEMMA GoesOn ==
  ASSUME AtWork(work), NEW pc
  PROVE  /\ AtWork([work EXCEPT !.pc = pc])
         /\ \A v : AtWork([work EXCEPT !.pc = pc, !.left = v])
         /\ \A v : AtWork([work EXCEPT !.left = v])
         /\ \A v : AtWork([work EXCEPT !.sent = v])
         /\ \A v : AtWork([work EXCEPT !.sent = v, !.lossy = TRUE])
         /\ \A v : AtWork([work EXCEPT !.pc = pc, !.at = v, !.stopped = FALSE])
  BY DEF AtWork

LEMMA StepIsAtWork ==
  ASSUME IInv, NEW kind, "idle" \notin kind, NEW pc, At(kind, pc)
  PROVE  AtWork(work)
  BY DEF At, IInv, Idle

LEMMA DialKeeps ==
  ASSUME IInv, Resolve \/ TcpConnect \/ Handshake \/ TryKey \/ TryPassword \/ TryAgent
  PROVE  IInv'
  <1>1. PICK pc : Dials(pc)
    BY DEF Resolve, TcpConnect, Handshake, TryKey, TryPassword, TryAgent
  <1>2. At({"connect"}, pc) /\ UNCHANGED <<program, window, begun, busy>>
    BY <1>1 DEF Dials
  <1>3. AtWork(work)
    BY <1>2, StepIsAtWork
  <1>4. work' = Idle \/ (AtWork(work') /\ UNCHANGED posted)
    <2>1. CASE Resolve
      <3>1. CASE Throws(dialled)
        BY <3>1 DEF Throws, Refused, EndsWith
      <3>2. ASSUME NEW n \in 1 .. Addresses, work' = [work EXCEPT !.pc = "tcp", !.left = n]
            PROVE  AtWork(work')
        BY <1>3, <3>2, GoesOn
      <3>3. QED
        BY <2>1, <3>1, <3>2 DEF Resolve
    <2>2. CASE TcpConnect
      BY <1>3, <2>2, GoesOn DEF TcpConnect, Dialling, Throws, Refused, EndsWith
    <2>3. CASE Handshake
      BY <1>3, <2>3, GoesOn DEF Handshake, Dialling, Throws, Refused, EndsWith
    <2>4. CASE TryKey
      BY <1>3, <2>4, GoesOn DEF TryKey, Authenticated, NotAuthenticated, Dialling, Throws,
         Refused, EndsWith
    <2>5. CASE TryPassword
      BY <1>3, <2>5, GoesOn DEF TryPassword, Authenticated, Dialling
    <2>6. CASE TryAgent
      BY <1>3, <2>6, GoesOn DEF TryAgent, Authenticated, NotAuthenticated, Throws, Refused, EndsWith
    <2>7. QED
      BY <2>1, <2>2, <2>3, <2>4, <2>5, <2>6
  <1>5. QED
    BY <1>2, <1>3, <1>4, ThreadStepKeeps

LEMMA SessionStepKeeps ==
  ASSUME IInv, InitSftp \/ ChdirHome \/ ChdirStart \/ Begin \/ Lock
  PROVE  IInv'
  <1>1. AtWork(work) /\ UNCHANGED <<program, window, begun, busy>>
    BY StepIsAtWork DEF InitSftp, ChdirHome, ChdirStart, Begin, Lock, Transfers
  <1>2. work' = Idle \/ (AtWork(work') /\ UNCHANGED posted)
    <2>1. CASE InitSftp \/ ChdirHome \/ ChdirStart
      BY <1>1, <2>1, GoesOn DEF InitSftp, ChdirHome, ChdirStart, Fails, Refused, EndsWith
    <2>2. CASE Begin
      BY <1>1, <2>2, GoesOn DEF Begin
    <2>3. CASE Lock
      BY <1>1, <2>3, GoesOn DEF Lock, Refused, EndsWith
    <2>4. QED
      BY <2>1, <2>2, <2>3
  <1>3. QED
    BY <1>1, <1>2, ThreadStepKeeps

LEMMA TransferStepKeeps ==
  ASSUME IInv, Open \/ CopyChunk \/ CopyEnds \/ Cancel
  PROVE  IInv'
  <1>1. AtWork(work) /\ UNCHANGED <<program, window, begun, busy>>
    BY StepIsAtWork DEF Open, CopyChunk, CopyEnds, Cancel, Transfers
  <1>2. work' = Idle \/ (AtWork(work') /\ UNCHANGED posted)
    BY <1>1, GoesOn DEF Open, Opened, CopyChunk, CopyEnds, Cancel, Fails, Refused, EndsWith
  <1>3. QED
    BY <1>1, <1>2, ThreadStepKeeps

LEMMA UseAfterCloseKeeps == IInv /\ UseAfterClose => IInv'
  <1> SUFFICES ASSUME IInv, UseAfterClose PROVE IInv'
    OBVIOUS
  <1>1. AtWork(work) /\ UNCHANGED <<window, begun, busy>>
    BY DEF UseAfterClose, IInv
  <1>2. QED
    BY <1>1, ThreadStepKeeps DEF UseAfterClose, Refused, EndsWith

-----------------------------------------------------------------------------
(* The theorem                                                              *)

LEMMA InitHolds == Init => IInv
  BY DEF Init, IInv, NothingBehindTheWindow

LEMMA NextKeeps == IInv /\ [Next]_vars => IInv'
  <1> SUFFICES ASSUME IInv, [Next]_vars PROVE IInv'
    OBVIOUS
  <1>1. CASE Thread
    BY <1>1, DialKeeps, SessionStepKeeps, TransferStepKeeps, UseAfterCloseKeeps DEF Thread
  <1>2. CASE UNCHANGED vars
    BY <1>2, HandlerKeeps DEF vars
  <1>3. QED
    BY <1>1, <1>2, ConnectKeeps, UserKeeps, CloseKeeps, CompletionKeeps DEF Next

\* A window that is not busy has no thread behind it that could hold the mutex of the
\* session or change the directory under a handler, nor a closure that would end a
\* transfer begun since (set_busy, the guards on busy_), for any directories, files and
\* faults.
THEOREM NothingIsBehindTheWindow == Spec => []NothingBehindTheWindow
  <1>1. IInv => NothingBehindTheWindow
    BY DEF IInv
  <1>2. QED
    BY <1>1, InitHolds, NextKeeps, PTL DEF Spec
-----------------------------------------------------------------------------
(* What becomes of the files                                                *)

Files    == [of : (Dirs \cup {Nowhere}) \X Names, n : 0 .. Chunks]
Contents == Files \cup {NoFile, Folder}
Remotes  == [Dirs -> [Names -> Contents]]
Locals   == [Names -> Contents]
Sessions == [raw : BOOLEAN, sftp : BOOLEAN, cwd : Dirs \cup {Nowhere}, cancel : BOOLEAN]
TransferShape ==
  [kind : Transfers, pc : {"begin", "lock", "open", "copy"}, here : Names, there : Names,
   asked : Dirs, at : Dirs \cup {Nowhere}, sent : 0 .. Chunks,
   stale : BOOLEAN, stopped : BOOLEAN, lossy : BOOLEAN]

\* Unless the local disk has failed, so much of the source as was sent is in the file that is
\* written: the source is where it was.
Copied(w, r, l) ==
  IF w.kind = "download"
  THEN IsFile(r[w.at][w.there]) /\ (~w.lossy => l[w.here] = [of |-> r[w.at][w.there].of, n |-> w.sent])
  ELSE IsFile(l[w.here]) /\ (~w.lossy => r[w.at][w.there] = [of |-> l[w.here].of, n |-> w.sent])

\* The transfer w, in the session s, with the files r of the server and l of this computer:
\* a path that was made is the one that was asked for, or the session is closed and Lock will
\* find it so; and what is cancelled was asked to stop since the transfer has begun.
Underway(w, s, r, l) ==
  /\ w \in TransferShape
  /\ w.pc = "begin" => Cwd(s) = w.asked \/ ~s.sftp
  /\ w.pc = "lock" => w.at = w.asked \/ ~s.sftp
  /\ w.pc \in {"open", "copy"} => w.at = w.asked
  /\ w.pc # "begin" /\ s.cancel => w.stopped
  /\ w.pc # "copy" => w.sent = 0 /\ ~w.lossy
  /\ w.kind = "upload" => IsFile(l[w.here])
  /\ w.pc = "copy" => Copied(w, r, l)

FileInv ==
  /\ session \in Sessions /\ remote \in Remotes /\ local \in Locals
  /\ work.kind \in Transfers => Underway(work, session, remote, local)

LEMMA IdleKind == Idle.kind \notin Transfers
  BY DEF Idle, Transfers

\* A step that does not end a transfer says nothing of its end.
LEMMA NoEnd ==
  ASSUME work.kind \in Transfers => work' # Idle
  PROVE  EndIsTruthful
  BY DEF EndIsTruthful

LEMMA SameKind ==
  ASSUME NEW w, AtWork(w), NEW v
  PROVE  /\ [w EXCEPT !.stopped = v].kind = w.kind
         /\ [w EXCEPT !.stale = v].kind = w.kind
         /\ [w EXCEPT !.pc = v].kind = w.kind
         /\ [w EXCEPT !.left = v].kind = w.kind
         /\ \A x : [w EXCEPT !.pc = v, !.left = x].kind = w.kind
  BY DEF AtWork

\* Before a transfer has a path, only where the session is matters.
LEMMA ClosedType == Closed \in Sessions /\ ~Closed.sftp
  BY DEF Closed, Sessions

LEMMA CwdType ==
  ASSUME NEW s \in Sessions
  PROVE  Cwd(s) \in Dirs
  BY FilesAssumption DEF Cwd, Sessions

LEMMA LetGoType ==
  ASSUME NEW s \in Sessions
  PROVE  LetGo(s) \in Sessions
  BY ClosedType DEF LetGo

LEMMA RemoteType ==
  ASSUME NEW r \in Remotes, NEW d \in Dirs, NEW n \in Names, NEW f \in Contents
  PROVE  /\ [r EXCEPT ![d][n] = f] \in Remotes
         /\ [r EXCEPT ![d][n] = f][d][n] = f
  <1>1. r[d] \in [Names -> Contents]
    BY DEF Remotes
  <1>2. [r EXCEPT ![d][n] = f] = [r EXCEPT ![d] = [r[d] EXCEPT ![n] = f]]
    BY DEF Remotes
  <1>3. [r[d] EXCEPT ![n] = f] \in [Names -> Contents] /\ [r[d] EXCEPT ![n] = f][n] = f
    BY <1>1
  <1>4. QED
    BY <1>2, <1>3 DEF Remotes

LEMMA LocalType ==
  ASSUME NEW l \in Locals, NEW n \in Names, NEW f \in Contents
  PROVE  /\ [l EXCEPT ![n] = f] \in Locals
         /\ [l EXCEPT ![n] = f][n] = f
  BY DEF Locals

-----------------------------------------------------------------------------
(* The window, again                                                        *)

\* The window is busy when it changes something under the thread: nothing is transferred.
LEMMA NothingTransferred ==
  ASSUME IInv, Gui, ~busy
  PROVE  work = Idle
  BY DEF IInv, Gui, NothingBehindTheWindow

LEMMA ConnectFiles == IInv /\ FileInv /\ Connect => FileInv' /\ EndIsTruthful
  <1> SUFFICES ASSUME IInv, FileInv, Connect PROVE FileInv' /\ EndIsTruthful
    OBVIOUS
  <1>1. session' \in Sessions /\ remote' = remote /\ local' = local
    BY DEF Connect, FileInv, Sessions
  <1>2. work'.kind = "connect" /\ work = Idle
    BY DEF Connect, IInv
  <1>3. QED
    BY <1>1, <1>2, IdleKind, NoEnd DEF FileInv, Transfers

LEMMA MoveToFiles ==
  ASSUME IInv, FileInv, ~busy, NEW d \in Dirs \cup {Nowhere}, MoveTo(d)
  PROVE  FileInv' /\ EndIsTruthful
  <1>1. work = Idle /\ work' = Idle
    BY NothingTransferred DEF MoveTo
  <1>2. session' \in Sessions /\ remote' = remote /\ local' = local
    BY DEF MoveTo, FileInv, Sessions
  <1>3. QED
    BY <1>1, <1>2, IdleKind, NoEnd DEF FileInv

LEMMA ChangesFiles ==
  ASSUME IInv, FileInv, NEW n \in Names, NEW f \in Contents,
         Changes([remote EXCEPT ![Cwd(session)][n] = f])
  PROVE  FileInv' /\ EndIsTruthful
  <1>1. work = Idle /\ work' = Idle
    BY NothingTransferred DEF Changes
  <1>2. remote' \in Remotes /\ UNCHANGED <<session, local>>
    BY RemoteType, CwdType DEF Changes, FileInv
  <1>3. QED
    BY <1>1, <1>2, IdleKind, NoEnd DEF FileInv

LEMMA StartTransferFiles ==
  ASSUME IInv, FileInv, NEW kind \in Transfers, NEW here \in Names, NEW there \in Names,
         kind = "upload" => IsFile(local[here]), StartTransfer(kind, here, there)
  PROVE  FileInv' /\ EndIsTruthful
  <1>1. UNCHANGED <<session, remote, local>> /\ session \in Sessions
    BY DEF StartTransfer, FileInv
  <1>2. Cwd(session) \in Dirs /\ Chunks \in Nat
    BY <1>1, CwdType, FilesAssumption
  <1>3. work' = [kind |-> kind, pc |-> "begin", here |-> here, there |-> there, asked |-> Cwd(session),
                 at |-> Nowhere, sent |-> 0, stale |-> FALSE, stopped |-> FALSE, lossy |-> FALSE]
    BY DEF StartTransfer
  <1>4. work' \in TransferShape
    BY <1>2, <1>3 DEF TransferShape
  <1>5. /\ work'.kind = kind /\ work'.pc = "begin" /\ work'.asked = Cwd(session)
        /\ work'.sent = 0 /\ work'.lossy = FALSE /\ work'.here = here
    BY <1>3
  <1>6. Underway(work', session, remote, local)
    BY <1>4, <1>5 DEF Underway
  <1>7. work' # Idle
    BY <1>5, IdleKind
  <1>8. QED
    BY <1>1, <1>6, <1>7, NoEnd DEF FileInv

\* To stop is to cancel the session and to mark the transfer.
LEMMA MarkedUnderway ==
  ASSUME NEW w, NEW s \in Sessions, NEW s2 \in Sessions, NEW r, NEW l, Underway(w, s, r, l),
         s2.sftp => s2.cwd = s.cwd /\ s.sftp, NEW b \in BOOLEAN
  PROVE  /\ "stopped" \in DOMAIN w
         /\ Underway([w EXCEPT !.stopped = TRUE], s2, r, l)
         /\ "stopped" \in DOMAIN [w EXCEPT !.stale = b]
         /\ Underway([[w EXCEPT !.stale = b] EXCEPT !.stopped = TRUE], s2, r, l)
  <1>1. w \in TransferShape
    BY DEF Underway
  <1>2. ASSUME NEW w2 \in TransferShape,
               w2.kind = w.kind, w2.pc = w.pc, w2.here = w.here, w2.there = w.there,
               w2.asked = w.asked, w2.at = w.at, w2.sent = w.sent, w2.lossy = w.lossy, w2.stopped
        PROVE  Underway(w2, s2, r, l)
    <2>1. Copied(w, r, l) => Copied(w2, r, l)
      BY <1>2 DEF Copied
    <2>2. s2.sftp => s.sftp /\ Cwd(s2) = Cwd(s)
      BY DEF Cwd
    <2>3. QED
      BY <1>2, <2>1, <2>2 DEF Underway
  <1>3. [w EXCEPT !.stopped = TRUE] \in TransferShape
    BY <1>1 DEF TransferShape
  <1>4. [[w EXCEPT !.stale = b] EXCEPT !.stopped = TRUE] \in TransferShape
    BY <1>1 DEF TransferShape
  <1>5. "stopped" \in DOMAIN w /\ "stopped" \in DOMAIN [w EXCEPT !.stale = b]
    BY <1>1 DEF TransferShape
  <1>6. Underway([w EXCEPT !.stopped = TRUE], s2, r, l)
    <2> DEFINE w2 == [w EXCEPT !.stopped = TRUE]
    <2>1. /\ w2.kind = w.kind /\ w2.pc = w.pc /\ w2.here = w.here /\ w2.there = w.there
          /\ w2.asked = w.asked /\ w2.at = w.at /\ w2.sent = w.sent /\ w2.lossy = w.lossy /\ w2.stopped
      BY <1>1 DEF TransferShape
    <2> HIDE DEF w2
    <2>2. QED
      BY <1>2, <1>3, <2>1 DEF w2
  <1>7. Underway([[w EXCEPT !.stale = b] EXCEPT !.stopped = TRUE], s2, r, l)
    <2> DEFINE w2 == [[w EXCEPT !.stale = b] EXCEPT !.stopped = TRUE]
    <2>1. /\ w2.kind = w.kind /\ w2.pc = w.pc /\ w2.here = w.here /\ w2.there = w.there
          /\ w2.asked = w.asked /\ w2.at = w.at /\ w2.sent = w.sent /\ w2.lossy = w.lossy /\ w2.stopped
      BY <1>1 DEF TransferShape
    <2> HIDE DEF w2
    <2>2. QED
      BY <1>2, <1>4, <2>1 DEF w2
  <1>8. QED
    BY <1>5, <1>6, <1>7

LEMMA StopFiles == IInv /\ FileInv /\ Stop => FileInv' /\ EndIsTruthful
  <1> SUFFICES ASSUME IInv, FileInv, Stop PROVE FileInv' /\ EndIsTruthful
    OBVIOUS
  <1>1. /\ session' = [session EXCEPT !.cancel = TRUE] /\ UNCHANGED <<remote, local>>
        /\ work' = IF "stopped" \in DOMAIN work THEN [work EXCEPT !.stopped = TRUE] ELSE work
    BY DEF Stop
  <1>2. session' \in Sessions /\ session \in Sessions
        /\ session'.cwd = session.cwd /\ session'.sftp = session.sftp
    BY <1>1 DEF FileInv, Sessions
  <1>3. work'.kind = work.kind
    <2>1. CASE work = Idle
      BY <1>1, <2>1 DEF Idle
    <2>2. CASE AtWork(work)
      BY <1>1, <2>2, SameKind
    <2>3. QED
      BY <2>1, <2>2 DEF IInv
  <1>4. CASE work.kind \in Transfers
    <2>1. Underway(work, session, remote, local)
      BY <1>4 DEF FileInv
    <2>2. "stopped" \in DOMAIN work /\ Underway([work EXCEPT !.stopped = TRUE], session', remote, local)
      BY <1>2, <2>1, MarkedUnderway
    <2>3. work' # Idle
      BY <1>3, <1>4, IdleKind
    <2>4. QED
      BY <1>1, <1>2, <2>2, <2>3, NoEnd DEF FileInv
  <1>5. CASE work.kind \notin Transfers
    BY <1>1, <1>2, <1>3, <1>5, NoEnd DEF FileInv
  <1>6. QED
    BY <1>4, <1>5

LEMMA CloseFiles == IInv /\ FileInv /\ (CloseWindow \/ Destroy) => FileInv' /\ EndIsTruthful
  <1> SUFFICES ASSUME IInv, FileInv, CloseWindow \/ Destroy PROVE FileInv' /\ EndIsTruthful
    OBVIOUS
  <1>1. CloseSession /\ UNCHANGED <<remote, local>>
    BY DEF CloseWindow, Destroy
  <1>2. session' = Closed /\ session' \in Sessions /\ ~session'.sftp
    BY <1>1, ClosedType DEF CloseSession
  <1>3. CASE work = Idle
    BY <1>1, <1>2, <1>3, IdleKind, NoEnd DEF CloseSession, FileInv
  <1>4. CASE work # Idle
    <2> DEFINE b == work.stale \/ (Inside /\ session.raw)
               w == [work EXCEPT !.stale = b]
    <2>1. work' = IF "stopped" \in DOMAIN w THEN [w EXCEPT !.stopped = TRUE] ELSE w
      BY <1>1, <1>4 DEF CloseSession
    <2>2. AtWork(work) /\ b \in BOOLEAN
      BY <1>4 DEF IInv
    <2>3. AtWork(w) /\ w.kind = work.kind
      BY <2>2, MarkedStaysAtWork, SameKind
    <2>4. work'.kind = work.kind
      <3> HIDE DEF w
      <3>1. [w EXCEPT !.stopped = TRUE].kind = w.kind
        BY <2>3, SameKind
      <3>2. QED
        BY <2>1, <2>3, <3>1
    <2>5. CASE work.kind \in Transfers
      <3>1. Underway(work, session, remote, local)
        BY <2>5 DEF FileInv
      <3>2. session \in Sessions
        BY DEF FileInv
      <3> HIDE DEF b
      <3>3. "stopped" \in DOMAIN w /\ Underway([w EXCEPT !.stopped = TRUE], session', remote, local)
        BY <1>2, <2>2, <3>1, <3>2, MarkedUnderway
      <3> HIDE DEF w
      <3>4. work' # Idle
        BY <2>4, <2>5, IdleKind
      <3>5. QED
        BY <1>1, <1>2, <2>1, <3>3, <3>4, NoEnd DEF FileInv
    <2>6. CASE work.kind \notin Transfers
      BY <1>1, <1>2, <2>4, <2>6, NoEnd DEF FileInv
    <2>7. QED
      BY <2>5, <2>6
  <1>5. QED
    BY <1>3, <1>4

\* Nothing that the transfer is about changes.
LEMMA SameFiles ==
  ASSUME FileInv, UNCHANGED <<session, work, remote, local>>
  PROVE  FileInv' /\ EndIsTruthful
  <1>1. FileInv'
    BY DEF FileInv
  <1>2. work.kind \in Transfers => work' # Idle
    BY IdleKind
  <1>3. QED
    BY <1>1, <1>2, NoEnd

LEMMA UserFiles == IInv /\ FileInv /\ User => FileInv' /\ EndIsTruthful
  <1> SUFFICES ASSUME IInv, FileInv, User PROVE FileInv' /\ EndIsTruthful
    OBVIOUS
  <1>1. CASE \E d \in Dirs : Enter(d)
    BY <1>1, MoveToFiles DEF Enter
  <1>2. CASE GoUp
    <2>1. session.cwd = Nowhere \/ Parent[session.cwd] \in Dirs
      BY FilesAssumption DEF FileInv, Sessions
    <2>2. QED
      BY <1>2, <2>1, MoveToFiles DEF GoUp
  <1>3. ASSUME NEW n \in Names, MkDir(n) PROVE FileInv' /\ EndIsTruthful
    BY <1>3, ChangesFiles DEF MkDir, Contents
  <1>4. ASSUME NEW n \in Names, Delete(n) PROVE FileInv' /\ EndIsTruthful
    BY <1>4, ChangesFiles DEF Delete, Contents
  <1>5. ASSUME NEW n \in Names, Upload(n) PROVE FileInv' /\ EndIsTruthful
    BY <1>5, StartTransferFiles DEF Upload, Transfers
  <1>6. ASSUME NEW n \in Names, NEW m \in Names, Download(n, m) PROVE FileInv' /\ EndIsTruthful
    BY <1>6, StartTransferFiles DEF Download, Transfers
  <1>7. QED
    BY <1>1, <1>2, <1>3, <1>4, <1>5, <1>6, StopFiles, CloseFiles DEF User

-----------------------------------------------------------------------------
(* The thread, again                                                        *)

\* The thread that connects touches no file.
LEMMA ConnectingFiles ==
  ASSUME FileInv, work.kind = "connect", UNCHANGED <<remote, local>>, session' \in Sessions,
         work' = Idle \/ work'.kind = work.kind
  PROVE  FileInv' /\ EndIsTruthful
  BY IdleKind, NoEnd DEF FileInv, Transfers

LEMMA DialFiles ==
  ASSUME IInv, FileInv, Resolve \/ TcpConnect \/ Handshake \/ TryKey \/ TryPassword \/ TryAgent
  PROVE  FileInv' /\ EndIsTruthful
  <1>1. PICK pc : Dials(pc)
    BY DEF Resolve, TcpConnect, Handshake, TryKey, TryPassword, TryAgent
  <1>2. work.kind = "connect" /\ UNCHANGED <<remote, local>>
    BY <1>1 DEF Dials, At
  <1>3. AtWork(work) /\ session \in Sessions
    BY <1>2 DEF IInv, Idle, FileInv
  <1>4. \A held : Throws(held) => work' = Idle /\ session' \in Sessions
    BY <1>3, LetGoType DEF Throws, Refused, EndsWith
  <1>5. \A to, held : Dialling(to, held) => work'.kind = work.kind /\ session' \in Sessions
    BY <1>3, SameKind DEF Dialling
  <1>6. Authenticated => work'.kind = work.kind /\ session' \in Sessions
    <2> SUFFICES ASSUME Authenticated PROVE work'.kind = work.kind /\ session' \in Sessions
      OBVIOUS
    <2>1. work' = [work EXCEPT !.pc = "init"] /\ session' = [session EXCEPT !.raw = TRUE]
      BY DEF Authenticated
    <2>2. [session EXCEPT !.raw = TRUE] \in Sessions
      BY <1>3 DEF Sessions
    <2>3. QED
      BY <1>3, <2>1, <2>2, SameKind
  <1>7. session' \in Sessions /\ (work' = Idle \/ work'.kind = work.kind)
    <2>1. CASE Resolve
      <3>1. ASSUME NEW n \in 1 .. Addresses, work' = [work EXCEPT !.pc = "tcp", !.left = n]
            PROVE  work'.kind = work.kind
        BY <1>3, <3>1, SameKind
      <3>2. QED
        BY <1>3, <1>4, <2>1, <3>1 DEF Resolve
    <2>2. CASE TcpConnect
      <3>1. ASSUME work' = [work EXCEPT !.left = work.left - 1] PROVE work'.kind = work.kind
        BY <1>3, <3>1, SameKind
      <3>2. QED
        BY <1>3, <1>4, <1>5, <2>2, <3>1 DEF TcpConnect
    <2>3. CASE Handshake
      BY <1>4, <1>5, <2>3 DEF Handshake
    <2>4. CASE TryKey
      BY <1>4, <1>5, <1>6, <2>4 DEF TryKey, NotAuthenticated
    <2>5. CASE TryPassword
      BY <1>5, <1>6, <2>5 DEF TryPassword
    <2>6. CASE TryAgent
      BY <1>4, <1>6, <2>6 DEF TryAgent, NotAuthenticated
    <2>7. QED
      BY <2>1, <2>2, <2>3, <2>4, <2>5, <2>6
  <1>8. QED
    BY <1>2, <1>7, ConnectingFiles

LEMMA SessionFiles ==
  ASSUME IInv, FileInv, InitSftp \/ ChdirHome \/ ChdirStart
  PROVE  FileInv' /\ EndIsTruthful
  <1>1. work.kind = "connect" /\ UNCHANGED <<remote, local>>
    BY DEF InitSftp, ChdirHome, ChdirStart, At
  <1>2. AtWork(work) /\ session \in Sessions
    BY <1>1 DEF IInv, Idle, FileInv
  <1>3. /\ [session EXCEPT !.sftp = TRUE] \in Sessions
        /\ \A d \in Dirs : [session EXCEPT !.cwd = d] \in Sessions
    BY <1>2 DEF Sessions
  <1>4. Refused => work' = Idle /\ session' \in Sessions
    BY <1>2, LetGoType DEF Refused, EndsWith
  <1>5. session' \in Sessions /\ (work' = Idle \/ work'.kind = work.kind)
    <2>1. CASE InitSftp
      <3>1. CASE session' = [session EXCEPT !.sftp = TRUE] /\ work' = [work EXCEPT !.pc = "home"]
        BY <1>2, <1>3, <3>1, SameKind
      <3>2. CASE work' = Idle /\ session' = Closed
        BY <3>2, ClosedType
      <3>3. QED
        BY <2>1, <3>1, <3>2 DEF InitSftp, EndsWith
    <2>2. CASE ChdirHome
      <3>1. CASE session' = [session EXCEPT !.cwd = Home] /\ work' = [work EXCEPT !.pc = "go"]
        BY <1>2, <1>3, <3>1, SameKind, FilesAssumption
      <3>2. CASE Refused
        BY <1>4, <3>2 DEF Refused, EndsWith
      <3>3. QED
        BY <2>2, <3>1, <3>2 DEF ChdirHome, Fails
    <2>3. CASE ChdirStart
      <3>1. PICK d \in {Home, StartPath} : session' = LetGo([session EXCEPT !.cwd = d])
        BY <2>3 DEF ChdirStart
      <3>2. d \in Dirs
        BY FilesAssumption
      <3>3. session' \in Sessions
        BY <1>3, <3>1, <3>2, LetGoType
      <3>4. QED
        BY <2>3, <3>3 DEF ChdirStart, EndsWith
    <2>4. QED
      BY <2>1, <2>2, <2>3
  <1>6. QED
    BY <1>1, <1>5, ConnectingFiles

\* A transfer that ends with an error says nothing of the file.
LEMMA FailedFiles ==
  ASSUME FileInv, work' = Idle, session' \in Sessions, remote' \in Remotes, local' \in Locals,
         posted'.result \notin {"done", "cancelled"}
  PROVE  FileInv' /\ EndIsTruthful
  BY IdleKind DEF FileInv, EndIsTruthful

LEMMA RefusedFiles ==
  ASSUME FileInv, Refused, remote' \in Remotes, local' \in Locals
  PROVE  FileInv' /\ EndIsTruthful
  <1>1. work' = Idle /\ posted'.result = "failed"
    BY DEF Refused, EndsWith
  <1>2. session' \in Sessions
    BY LetGoType DEF Refused, FileInv
  <1>3. QED
    BY <1>1, <1>2, FailedFiles

LEMMA GoesOnFiles ==
  ASSUME FileInv, session' \in Sessions, remote' \in Remotes, local' \in Locals,
         Underway(work', session', remote', local')
  PROVE  FileInv' /\ EndIsTruthful
  <1>1. work'.kind \in Transfers
    BY DEF Underway, TransferShape
  <1>2. work' # Idle
    BY <1>1, IdleKind
  <1>3. QED
    BY <1>2, NoEnd DEF FileInv

\* The path is made, and what was asked of cancel_ is forgotten.
LEMMA BeginFiles == FileInv /\ Begin => FileInv' /\ EndIsTruthful
  <1> SUFFICES ASSUME FileInv, Begin PROVE FileInv' /\ EndIsTruthful
    OBVIOUS
  <1>1. /\ work' = [work EXCEPT !.pc = "lock", !.at = Cwd(session), !.stopped = FALSE]
        /\ session' = [session EXCEPT !.cancel = FALSE] /\ UNCHANGED <<remote, local>>
        /\ work.pc = "begin" /\ work.kind \in Transfers
    BY DEF Begin, At
  <1>2. Underway(work, session, remote, local) /\ session \in Sessions
    BY <1>1 DEF FileInv
  <1>3. work \in TransferShape /\ Cwd(session) \in Dirs
    BY <1>2, CwdType DEF Underway
  <1> DEFINE d == Cwd(session)
  <1> HIDE DEF d
  <1>4. /\ work' \in TransferShape
        /\ work'.pc = "lock" /\ work'.at = d /\ work'.kind = work.kind /\ work'.asked = work.asked
        /\ work'.sent = work.sent /\ work'.lossy = work.lossy /\ work'.here = work.here
    <2>1. work' = [work EXCEPT !.pc = "lock", !.at = d, !.stopped = FALSE] /\ d \in Dirs
      BY <1>1, <1>3 DEF d
    <2>2. QED
      BY <1>3, <2>1 DEF TransferShape
  <1>5. session' \in Sessions /\ session'.cancel = FALSE /\ session'.sftp = session.sftp
    BY <1>1, <1>2 DEF Sessions
  <1>6. Underway(work', session', remote, local)
    BY <1>1, <1>2, <1>4, <1>5 DEF Underway, d
  <1>7. QED
    BY <1>1, <1>5, <1>6, GoesOnFiles DEF FileInv

\* Only with a session that is there: then the path is the one that was asked for.
LEMMA LockFiles == FileInv /\ Lock => FileInv' /\ EndIsTruthful
  <1> SUFFICES ASSUME FileInv, Lock PROVE FileInv' /\ EndIsTruthful
    OBVIOUS
  <1>1. UNCHANGED <<remote, local>> /\ work.pc = "lock" /\ work.kind \in Transfers
    BY DEF Lock, At
  <1>2. Underway(work, session, remote, local) /\ session \in Sessions
    BY <1>1 DEF FileInv
  <1>3. CASE session.sftp
    <2>1. work' = [work EXCEPT !.pc = "open"] /\ session' = session
      BY <1>3 DEF Lock
    <2>2. work \in TransferShape
      BY <1>2 DEF Underway
    <2>3. /\ work' \in TransferShape
          /\ work'.pc = "open" /\ work'.at = work.at /\ work'.kind = work.kind /\ work'.asked = work.asked
          /\ work'.sent = work.sent /\ work'.lossy = work.lossy /\ work'.here = work.here
          /\ work'.stopped = work.stopped
      BY <2>1, <2>2 DEF TransferShape
    <2>4. Underway(work', session', remote', local')
      BY <1>1, <1>2, <1>3, <2>1, <2>3 DEF Underway
    <2>5. QED
      BY <1>1, <1>2, <2>1, <2>4, GoesOnFiles DEF FileInv
  <1>4. CASE ~session.sftp
    BY <1>1, <1>4, RefusedFiles DEF Lock, FileInv
  <1>5. QED
    BY <1>3, <1>4

\* A file has content.
LEMMA FileType ==
  ASSUME NEW f \in Contents, IsFile(f)
  PROVE  /\ f \in Files
         /\ \A k \in 0 .. Chunks : [of |-> f.of, n |-> k] \in Contents
  BY DEF Contents, IsFile, Files

\* The file that is written is emptied.
LEMMA OpenFiles == FileInv /\ Open => FileInv' /\ EndIsTruthful
  <1> SUFFICES ASSUME FileInv, Open PROVE FileInv' /\ EndIsTruthful
    OBVIOUS
  <1> DEFINE there == remote[work.at][work.there]
             here  == local[work.here]
  <1>1. work.pc = "open" /\ work.kind \in Transfers
    BY DEF Open, At
  <1>2. /\ Underway(work, session, remote, local) /\ session \in Sessions
        /\ remote \in Remotes /\ local \in Locals
    BY <1>1 DEF FileInv
  <1>3. /\ work \in TransferShape /\ work.at = work.asked /\ work.sent = 0 /\ work.lossy = FALSE
        /\ work.kind = "upload" => IsFile(here)
        /\ session.cancel => work.stopped
    BY <1>1, <1>2 DEF Underway, TransferShape
  <1>4. work.at \in Dirs /\ work.there \in Names /\ work.here \in Names /\ 0 \in 0 .. Chunks
    BY <1>3, FilesAssumption DEF TransferShape
  <1>5. there \in Contents /\ here \in Contents
    BY <1>2, <1>4 DEF Remotes, Locals
  <1>6. ASSUME Opened
        PROVE  /\ work' \in TransferShape /\ session' = session
               /\ work'.pc = "copy" /\ work'.at = work.at /\ work'.kind = work.kind
               /\ work'.asked = work.asked /\ work'.sent = 0 /\ work'.lossy = FALSE
               /\ work'.here = work.here /\ work'.there = work.there /\ work'.stopped = work.stopped
    <2>1. work' = [work EXCEPT !.pc = "copy"] /\ session' = session
      BY <1>6 DEF Opened
    <2>2. QED
      BY <1>3, <2>1 DEF TransferShape
  <1>7. CASE work.kind = "download" /\ IsFile(there) /\ remote' = remote
    <2>1. CASE Opened /\ Here(work.here, [of |-> there.of, n |-> 0])
      <3> DEFINE f == [of |-> there.of, n |-> 0]
      <3>1. f \in Contents
        BY <1>4, <1>5, <1>7, FileType
      <3>2. local' = [local EXCEPT ![work.here] = f]
        BY <2>1 DEF Here
      <3> HIDE DEF f
      <3>3. local' \in Locals /\ local'[work.here] = f
        <4>1. /\ [local EXCEPT ![work.here] = f] \in Locals
              /\ [local EXCEPT ![work.here] = f][work.here] = f
          BY <1>2, <1>4, <3>1, LocalType
        <4>2. QED
          BY <3>2, <4>1
      <3>4. Copied(work', remote', local')
        BY <1>6, <1>7, <2>1, <3>3 DEF Copied, f
      <3>5. Underway(work', session', remote', local')
        BY <1>3, <1>6, <1>7, <2>1, <3>4 DEF Underway
      <3>6. QED
        BY <1>2, <1>6, <1>7, <2>1, <3>3, <3>5, GoesOnFiles
    <2>2. CASE Fails /\ UNCHANGED local
      BY <1>2, <1>7, <2>2, RefusedFiles DEF Fails
    <2>3. CASE (Opened /\ Here(work.here, [of |-> there.of, n |-> 0])) \/ (Fails /\ UNCHANGED local)
      BY <2>1, <2>2, <2>3
    <2>4. QED
      BY <1>3, <1>7, <2>3, <2>2 DEF Open
  <1>8. CASE /\ work.kind = "upload" /\ local' = local
             /\ There(work.at, work.there, [of |-> here.of, n |-> 0]) /\ (Opened \/ Fails)
    <2> DEFINE f == [of |-> here.of, n |-> 0]
    <2>1. f \in Contents
      BY <1>3, <1>4, <1>5, <1>8, FileType
    <2>2. remote' = [remote EXCEPT ![work.at][work.there] = f]
      BY <1>8 DEF There
    <2> HIDE DEF f
    <2>3. remote' \in Remotes /\ remote'[work.at][work.there] = f
      <3>1. /\ [remote EXCEPT ![work.at][work.there] = f] \in Remotes
            /\ [remote EXCEPT ![work.at][work.there] = f][work.at][work.there] = f
        BY <1>2, <1>4, <2>1, RemoteType
      <3>2. QED
        BY <2>2, <3>1
    <2>4. CASE Opened
      <3>1. Copied(work', remote', local')
        BY <1>3, <1>6, <1>8, <2>3, <2>4 DEF Copied, f
      <3>2. Underway(work', session', remote', local')
        BY <1>3, <1>6, <1>8, <2>4, <3>1 DEF Underway
      <3>3. QED
        BY <1>2, <1>6, <1>8, <2>3, <2>4, <3>2, GoesOnFiles
    <2>5. CASE Fails
      BY <1>2, <1>8, <2>3, <2>5, RefusedFiles DEF Fails
    <2>6. QED
      BY <1>8, <2>4, <2>5
  <1>9. CASE (Refused \/ Fails) /\ UNCHANGED <<remote, local>>
    BY <1>2, <1>9, RefusedFiles DEF Fails
  <1>10. QED
    BY <1>7, <1>8, <1>9 DEF Open

\* One more buffer of the source is in the target, or the local disk has failed.
LEMMA CopyChunkFiles == FileInv /\ CopyChunk => FileInv' /\ EndIsTruthful
  <1> SUFFICES ASSUME FileInv, CopyChunk PROVE FileInv' /\ EndIsTruthful
    OBVIOUS
  <1> DEFINE there == remote[work.at][work.there]
             here  == local[work.here]
  <1>1. work.pc = "copy" /\ work.kind \in Transfers /\ work.sent < Source.n
    BY DEF CopyChunk, At
  <1>2. /\ Underway(work, session, remote, local) /\ session \in Sessions
        /\ remote \in Remotes /\ local \in Locals
    BY <1>1 DEF FileInv
  <1>3. /\ work \in TransferShape /\ work.at = work.asked
        /\ session.cancel => work.stopped
        /\ Copied(work, remote, local)
    BY <1>1, <1>2 DEF Underway, TransferShape
  <1>4. /\ work.at \in Dirs /\ work.there \in Names /\ work.here \in Names
        /\ work.kind \in {"download", "upload"}
    <2>1. /\ work.asked \in Dirs /\ work.there \in Names /\ work.here \in Names
          /\ work.kind \in Transfers
      BY <1>3 DEF TransferShape
    <2>2. QED
      BY <1>3, <2>1 DEF Transfers
  <1>5. there \in Contents /\ here \in Contents
    BY <1>2, <1>4 DEF Remotes, Locals
  <1>6. Source \in Contents /\ IsFile(Source)
    BY <1>3, <1>4, <1>5 DEF Source, Copied
  <1>7. Source.n \in 0 .. Chunks /\ work.sent \in 0 .. Chunks /\ work.sent + 1 \in 0 .. Chunks
    <2>1. Source.n \in 0 .. Chunks /\ work.sent \in 0 .. Chunks
      BY <1>3, <1>6, FileType DEF Files, TransferShape
    <2>2. QED
      BY <1>1, <2>1, FilesAssumption
  <1>8. ASSUME NEW k \in 0 .. Chunks, NEW lossy \in BOOLEAN,
               work' = [work EXCEPT !.sent = k, !.lossy = lossy]
        PROVE  /\ work' \in TransferShape
               /\ work'.pc = "copy" /\ work'.at = work.at /\ work'.kind = work.kind
               /\ work'.asked = work.asked /\ work'.sent = k /\ work'.lossy = lossy
               /\ work'.here = work.here /\ work'.there = work.there /\ work'.stopped = work.stopped
    BY <1>1, <1>3, <1>8 DEF TransferShape
  <1>9. CASE /\ work' = [work EXCEPT !.sent = @ + 1] /\ session' = session
             /\ Target([of |-> Source.of, n |-> IF work.lossy THEN work.sent ELSE work.sent + 1])
    <2> DEFINE n == IF work.lossy THEN work.sent ELSE work.sent + 1
               f == [of |-> Source.of, n |-> n]
    <2>1. n \in 0 .. Chunks
      BY <1>7
    <2>2. f \in Contents
      BY <1>6, <2>1, FileType
    <2>3. work' = [work EXCEPT !.sent = work.sent + 1, !.lossy = work.lossy]
      BY <1>3, <1>9 DEF TransferShape
    <2>4. work.lossy \in BOOLEAN
      BY <1>3 DEF TransferShape
    <2>5. /\ work' \in TransferShape
          /\ work'.pc = "copy" /\ work'.at = work.at /\ work'.kind = work.kind
          /\ work'.asked = work.asked /\ work'.sent = work.sent + 1 /\ work'.lossy = work.lossy
          /\ work'.here = work.here /\ work'.there = work.there /\ work'.stopped = work.stopped
      BY <1>7, <1>8, <2>3, <2>4
    <2>6. ~work.lossy => f = [of |-> Source.of, n |-> work'.sent]
      BY <2>5
    <2> HIDE DEF n, f
    <2>7. Target(f)
      BY <1>9 DEF f, n
    <2>8. CASE work.kind = "download"
      <3>1. local' = [local EXCEPT ![work.here] = f] /\ remote' = remote /\ Source = there
        BY <2>7, <2>8 DEF Target, Here, Source
      <3>2. local' \in Locals /\ local'[work.here] = f
        <4>1. /\ [local EXCEPT ![work.here] = f] \in Locals
              /\ [local EXCEPT ![work.here] = f][work.here] = f
          BY <1>2, <1>4, <2>2, LocalType
        <4>2. QED
          BY <3>1, <4>1
      <3>3. Copied(work', remote', local')
        BY <1>6, <2>5, <2>6, <2>8, <3>1, <3>2 DEF Copied
      <3>4. Underway(work', session', remote', local')
        BY <1>3, <1>9, <2>5, <2>8, <3>3 DEF Underway
      <3>5. QED
        BY <1>2, <1>9, <3>1, <3>2, <3>4, GoesOnFiles
    <2>9. CASE work.kind = "upload"
      <3>1. remote' = [remote EXCEPT ![work.at][work.there] = f] /\ local' = local /\ Source = here
        BY <2>7, <2>9 DEF Target, There, Source
      <3>2. remote' \in Remotes /\ remote'[work.at][work.there] = f
        <4>1. /\ [remote EXCEPT ![work.at][work.there] = f] \in Remotes
              /\ [remote EXCEPT ![work.at][work.there] = f][work.at][work.there] = f
          BY <1>2, <1>4, <2>2, RemoteType
        <4>2. QED
          BY <3>1, <4>1
      <3>3. Copied(work', remote', local')
        BY <1>6, <2>5, <2>6, <2>9, <3>1, <3>2 DEF Copied
      <3>4. Underway(work', session', remote', local')
        BY <1>3, <1>6, <1>9, <2>5, <2>9, <3>1, <3>3 DEF Underway
      <3>5. QED
        BY <1>2, <1>9, <3>1, <3>2, <3>4, GoesOnFiles
    <2>10. QED
      BY <1>4, <2>8, <2>9
  <1>10. CASE /\ UNCHANGED <<session, remote, local>>
              /\ work' = [work EXCEPT !.sent = IF work.kind = "download" THEN @ + 1 ELSE Source.n, !.lossy = TRUE]
    <2> DEFINE k == IF work.kind = "download" THEN work.sent + 1 ELSE Source.n
    <2>1. k \in 0 .. Chunks /\ work' = [work EXCEPT !.sent = k, !.lossy = TRUE]
      BY <1>7, <1>10
    <2> HIDE DEF k
    <2>2. /\ work' \in TransferShape
          /\ work'.pc = "copy" /\ work'.at = work.at /\ work'.kind = work.kind
          /\ work'.asked = work.asked /\ work'.lossy = TRUE
          /\ work'.here = work.here /\ work'.there = work.there /\ work'.stopped = work.stopped
      BY <1>8, <2>1
    <2>3. Copied(work', remote', local')
      BY <1>3, <1>10, <2>2 DEF Copied
    <2>4. Underway(work', session', remote', local')
      BY <1>2, <1>3, <1>10, <2>2, <2>3 DEF Underway
    <2>5. QED
      BY <1>2, <1>10, <2>4, GoesOnFiles
  <1>11. CASE Fails /\ UNCHANGED <<remote, local>>
    BY <1>2, <1>11, RefusedFiles DEF Fails
  <1>12. QED
    BY <1>9, <1>10, <1>11 DEF CopyChunk

\* The source is read to its end: the target is a whole copy of it.
LEMMA CopyEndsFiles == FileInv /\ CopyEnds => FileInv' /\ EndIsTruthful
  <1> SUFFICES ASSUME FileInv, CopyEnds PROVE FileInv' /\ EndIsTruthful
    OBVIOUS
  <1> DEFINE there == remote[work.at][work.there]
             here  == local[work.here]
  <1>1. /\ work.pc = "copy" /\ work.kind \in Transfers /\ work.sent = Source.n
        /\ UNCHANGED <<remote, local>> /\ work' = Idle /\ posted'.result = "done"
        /\ session' = LetGo(session)
    BY DEF CopyEnds, At, EndsWith
  <1>2. /\ Underway(work, session, remote, local) /\ session \in Sessions
        /\ remote \in Remotes /\ local \in Locals
    BY <1>1 DEF FileInv
  <1>3. FileInv'
    BY <1>1, <1>2, LetGoType, IdleKind DEF FileInv
  <1>4. work \in TransferShape /\ work.at = work.asked /\ Copied(work, remote, local)
    BY <1>1, <1>2 DEF Underway
  <1>5. there \in Contents /\ here \in Contents /\ (work.kind = "download" \/ work.kind = "upload")
    BY <1>2, <1>4 DEF Remotes, Locals, TransferShape, Transfers, Underway
  <1>6. ASSUME ~work.lossy
        PROVE  IF work.kind = "download" THEN here = there /\ IsFile(here) ELSE there = here /\ IsFile(there)
    <2>1. \A f \in Files : f = [of |-> f.of, n |-> f.n]
      BY DEF Files
    <2>2. CASE work.kind = "download"
      <3>1. IsFile(there) /\ here = [of |-> there.of, n |-> work.sent] /\ work.sent = there.n
        BY <1>1, <1>4, <1>6, <2>2 DEF Copied, Source
      <3>2. there \in Files
        BY <1>5, <3>1, FileType
      <3>3. here = there
        BY <2>1, <3>1, <3>2
      <3>4. QED
        BY <2>2, <3>1, <3>3
    <2>3. CASE work.kind = "upload"
      <3>1. IsFile(here) /\ there = [of |-> here.of, n |-> work.sent] /\ work.sent = here.n
        BY <1>1, <1>4, <1>6, <2>3 DEF Copied, Source
      <3>2. here \in Files
        BY <1>5, <3>1, FileType
      <3>3. there = here
        BY <2>1, <3>1, <3>2
      <3>4. QED
        BY <2>3, <3>1, <3>3
    <2>4. QED
      BY <1>5, <2>2, <2>3
  <1>7. EndIsTruthful
    BY <1>1, <1>4, <1>6 DEF EndIsTruthful
  <1>8. QED
    BY <1>3, <1>7

\* What was written is removed, and the transfer was asked to stop.
LEMMA CancelFiles == FileInv /\ Cancel => FileInv' /\ EndIsTruthful
  <1> SUFFICES ASSUME FileInv, Cancel PROVE FileInv' /\ EndIsTruthful
    OBVIOUS
  <1>1. /\ work.pc = "copy" /\ work.kind \in Transfers /\ session.cancel
        /\ work' = Idle /\ session' = LetGo(session)
    BY DEF Cancel, At, EndsWith
  <1>2. /\ Underway(work, session, remote, local) /\ session \in Sessions
        /\ remote \in Remotes /\ local \in Locals
    BY <1>1 DEF FileInv
  <1>3. /\ work \in TransferShape /\ work.at = work.asked /\ work.stopped
    BY <1>1, <1>2 DEF Underway
  <1>4. /\ work.at \in Dirs /\ work.there \in Names /\ work.here \in Names
        /\ work.kind \in {"download", "upload"}
    <2>1. /\ work.asked \in Dirs /\ work.there \in Names /\ work.here \in Names
          /\ work.kind \in Transfers
      BY <1>3 DEF TransferShape
    <2>2. QED
      BY <1>3, <2>1 DEF Transfers
  <1>5. NoFile \in Contents
    BY DEF Contents
  <1>6. session' \in Sessions
    BY <1>1, <1>2, LetGoType
  <1>7. CASE posted'.result = "cancelled" /\ Target(NoFile)
    <2>1. CASE work.kind = "download"
      <3>1. local' = [local EXCEPT ![work.here] = NoFile] /\ remote' = remote
        BY <1>7, <2>1 DEF Target, Here
      <3>2. local' \in Locals /\ local'[work.here] = NoFile
        <4>1. /\ [local EXCEPT ![work.here] = NoFile] \in Locals
              /\ [local EXCEPT ![work.here] = NoFile][work.here] = NoFile
          BY <1>2, <1>4, <1>5, LocalType
        <4>2. QED
          BY <3>1, <4>1
      <3>3. QED
        BY <1>1, <1>2, <1>3, <1>6, <1>7, <2>1, <3>1, <3>2, IdleKind DEF FileInv, EndIsTruthful
    <2>2. CASE work.kind = "upload"
      <3>1. remote' = [remote EXCEPT ![work.at][work.there] = NoFile] /\ local' = local
        BY <1>7, <2>2 DEF Target, There
      <3>2. remote' \in Remotes /\ remote'[work.at][work.there] = NoFile
        <4>1. /\ [remote EXCEPT ![work.at][work.there] = NoFile] \in Remotes
              /\ [remote EXCEPT ![work.at][work.there] = NoFile][work.at][work.there] = NoFile
          BY <1>2, <1>4, <1>5, RemoteType
        <4>2. QED
          BY <3>1, <4>1
      <3>3. QED
        BY <1>1, <1>2, <1>3, <1>6, <1>7, <2>2, <3>1, <3>2, IdleKind DEF FileInv, EndIsTruthful
    <2>3. QED
      BY <1>4, <2>1, <2>2
  <1>8. CASE posted'.result = "remains" /\ UNCHANGED <<remote, local>>
    BY <1>1, <1>2, <1>6, <1>8, FailedFiles
  <1>9. QED
    BY <1>7, <1>8 DEF Cancel, EndsWith

\* With freed handles nothing is promised but that no end is claimed.
LEMMA UseAfterCloseFiles == FileInv /\ UseAfterClose => FileInv' /\ EndIsTruthful
  <1> SUFFICES ASSUME FileInv, UseAfterClose PROVE FileInv' /\ EndIsTruthful
    OBVIOUS
  <1>1. remote' = remote /\ remote \in Remotes /\ local \in Locals /\ session \in Sessions
    BY DEF UseAfterClose, FileInv
  <1>2. CASE UNCHANGED <<session, work, posted, local>>
    BY <1>1, <1>2, SameFiles
  <1>3. CASE Refused /\ UNCHANGED local
    BY <1>1, <1>3, RefusedFiles
  <1>4. CASE /\ work.pc = "copy" /\ EndsWith("remains") /\ session' = LetGo(session)
             /\ IF work.kind = "download" THEN Here(work.here, NoFile) ELSE UNCHANGED local
    <2>1. work' = Idle /\ posted'.result = "remains" /\ session' \in Sessions
      BY <1>1, <1>4, LetGoType DEF EndsWith
    <2>2. local' \in Locals
      <3>1. CASE work.kind = "download"
        <4>1. work.here \in Names
          BY <3>1 DEF FileInv, Underway, TransferShape, Transfers
        <4>2. QED
          BY <1>1, <1>4, <3>1, <4>1, LocalType DEF Here, Contents
      <3>2. CASE work.kind # "download"
        BY <1>1, <1>4, <3>2
      <3>3. QED
        BY <3>1, <3>2
    <2>3. QED
      BY <1>1, <2>1, <2>2, FailedFiles
  <1>5. QED
    BY <1>2, <1>3, <1>4 DEF UseAfterClose

LEMMA InitFiles == Init => FileInv
  <1> SUFFICES ASSUME Init PROVE FileInv
    OBVIOUS
  <1>1. session \in Sessions
    BY DEF Init, Closed, Sessions
  <1>2. \A d \in Dirs \cup {Nowhere}, n \in Names : Whole(<<d, n>>) \in Contents
    BY FilesAssumption DEF Whole, Contents, Files
  <1>3. remote \in Remotes /\ local \in Locals
    BY <1>2 DEF Init, Remotes, Locals, Contents
  <1>4. work.kind \notin Transfers
    BY IdleKind DEF Init
  <1>5. QED
    BY <1>1, <1>3, <1>4 DEF FileInv

LEMMA NextFiles == IInv /\ FileInv /\ [Next]_vars => FileInv' /\ [EndIsTruthful]_vars
  <1> SUFFICES ASSUME IInv, FileInv, [Next]_vars PROVE FileInv' /\ EndIsTruthful
    OBVIOUS
  <1>1. CASE Thread
    BY <1>1, DialFiles, SessionFiles, BeginFiles, LockFiles, OpenFiles, CopyChunkFiles,
       CopyEndsFiles, CancelFiles, UseAfterCloseFiles DEF Thread
  <1>2. CASE Completion
    BY <1>2, SameFiles DEF Completion
  <1>3. CASE UNCHANGED vars
    BY <1>3, SameFiles DEF vars
  <1>4. QED
    BY <1>1, <1>2, <1>3, ConnectFiles, UserFiles, CloseFiles DEF Next

\* "Done" is a whole copy of what the source is, where it was asked for; "cancelled" was
\* asked for while the transfer ran, and leaves no half of a file: for any directories,
\* names, sizes of files and faults, whatever the user does meanwhile and whenever the
\* window closes (SFTPSession::transfer, download_selected, upload, cancel_transfer, close).
THEOREM TransfersEndTruthfully == Spec => TransfersAreTruthful
  <1>1. Init /\ [][Next]_vars => [][EndIsTruthful]_vars
    BY InitHolds, InitFiles, NextKeeps, NextFiles, PTL
  <1>2. QED
    BY <1>1 DEF Spec, TransfersAreTruthful
=============================================================================
