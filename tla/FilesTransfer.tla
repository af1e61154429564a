---------------------------- MODULE FilesTransfer ----------------------------
(***************************************************************************)
(* A window of FaTTY that shows the files of a server (FilesWindow,        *)
(* src/ui/files_window.cpp) and the SFTP session under it (SFTPSession,    *)
(* src/net/sftp_session.cpp).                                              *)
(*                                                                         *)
(* The connection under that is made by ssh_connect_raw                    *)
(* (src/net/ssh_session.cpp), as those of the commands and the shells are. *)
(*                                                                         *)
(* The window lists, enters, makes and deletes on the GUI thread and       *)
(* blocks there.  To connect, to download and to upload it starts a        *)
(* detached thread, which shares the session with it; the end of the       *)
(* thread's work comes back as a closure.  The window may be closed, and   *)
(* destroyed, under a thread that is at work: whoever lets the session go  *)
(* last closes it.                                                         *)
(*                                                                         *)
(* A file is known by where it was at first and by how much of it there    *)
(* is.  What the progress closures do to the gauge is left out, and so is  *)
(* the closure's way through the queue of the GUI thread: it is there or   *)
(* it is not.                                                              *)
(***************************************************************************)
EXTENDS Integers, FiniteSets

CONSTANTS
  Dirs,          \* directories of the server
  Parent,        \* Parent[d]: posix_parent, the directory itself for "/"
  Home,          \* where chdir(".") leads
  StartPath,     \* what guess_start_path makes of the commands of the server
  Names,         \* names of files and of new folders
  RemoteFiles,   \* the files of the server at first, <<directory, name>>
  LocalFiles,    \* the names of the local files at first
  Chunks,        \* how many buffers a file takes
  Addresses,     \* how many addresses the host of the server may have
  NoFile, Folder, Nowhere,
  MaxTransfers,  \* bound: downloads and uploads
  MaxMoves,      \* bound: changes of directory, new folders, deletions
  MaxFaults      \* bound: calls of libssh2 and of the file system that fail

ASSUME FilesAssumption ==
  /\ Home \in Dirs /\ StartPath \in Dirs
  /\ Parent \in [Dirs -> Dirs]
  /\ RemoteFiles \subseteq Dirs \X Names
  /\ LocalFiles \subseteq Names
  /\ {MaxTransfers, MaxMoves, MaxFaults} \subseteq Nat
  /\ {Chunks, Addresses} \subseteq Nat \ {0}
  /\ Nowhere \notin Dirs

VARIABLES
  program,   \* "runs", or "ended": an exception that nobody catches, a freed handle used
  window,    \* "open", "closed" (alive_ is false), "gone" (destroyed)
  begun,     \* the closure that the constructor posts, which connects, has run
  busy,      \* busy_
  session,   \* SFTPSession: raw_, sftp_, remote_cwd, cancel_
  dialled,   \* the socket and the libssh2 session of ssh_connect_raw, until they are raw_
  work,      \* the thread: what it does and how far it is; Idle
  posted,    \* the closure that ends the thread's work, until it runs; Idle
  shown,     \* entries_, and the directory they were listed in
  remote,    \* the files of the server
  local,     \* the local files
  used       \* how much of the bounds is used up

vars == <<program, window, begun, busy, session, dialled, work, posted, shown, remote, local, used>>

Idle == [kind |-> "idle"]
Whole(origin) == [of |-> origin, n |-> Chunks]
Closed == [raw |-> FALSE, sftp |-> FALSE, cwd |-> Nowhere, cancel |-> TRUE]
Nothing == [dir |-> Nowhere, kind |-> [n \in Names |-> "none"]]

Init ==
  /\ program = "runs" /\ window = "open" /\ begun = FALSE /\ busy = FALSE
  /\ session = [Closed EXCEPT !.cancel = FALSE]   \* SFTPSession members
  /\ dialled = {} /\ work = Idle /\ posted = Idle
  /\ shown = Nothing
  /\ remote = [d \in Dirs |-> [n \in Names |-> IF <<d, n>> \in RemoteFiles THEN Whole(<<d, n>>) ELSE NoFile]]
  /\ local = [n \in Names |-> IF n \in LocalFiles THEN Whole(<<Nowhere, n>>) ELSE NoFile]
  /\ used = [transfers |-> 0, moves |-> 0, faults |-> 0]

IsFile(f) == f \notin {NoFile, Folder}

\* A call that fails though nothing is wrong with what it is asked for.
MayFail == used.faults < MaxFaults
Fault   == [used EXCEPT !.faults = @ + 1]

-----------------------------------------------------------------------------
(* The GUI thread                                                           *)

\* What the constructor posts is run before the user can reach the window.
Gui == program = "runs" /\ window = "open" /\ begun

\* connect: set_busy and the thread, which begins with cancel_ = false; to connect asks
\* for it no more. The server may have a path of a key and a password.
Connect ==
  /\ ~begun
  /\ begun' = TRUE /\ busy' = TRUE
  /\ session' = [session EXCEPT !.cancel = FALSE]
  /\ \E means \in SUBSET {"key", "password"} :
       work' = [kind |-> "connect", pc |-> "resolve", stale |-> FALSE, means |-> means, left |-> 0]
  /\ UNCHANGED <<program, window, dialled, posted, shown, remote, local, used>>

\* remote_cwd is empty when connect has failed in chdir("."): then it is the home directory.
Cwd(s) == IF s.cwd = Nowhere THEN Home ELSE s.cwd

Kind(f) == IF IsFile(f) THEN "file" ELSE IF f = Folder THEN "folder" ELSE "none"
Listing(s, files) == [dir |-> s.cwd, kind |-> [n \in Names |-> Kind(files[Cwd(s)][n])]]

\* refresh, in the session s with the files as given: listdir throws when it cannot list,
\* and then the old entries stay. budget is what is used up by then.
RefreshWorks(s, files, budget) == shown' = Listing(s, files) /\ used' = budget
RefreshFails(budget) == MayFail /\ used' = [budget EXCEPT !.faults = @ + 1] /\ UNCHANGED shown
Moved == [used EXCEPT !.moves = @ + 1]

\* enter, go_up: chdir, then refresh. The box that shows an error is all that comes of one.
MoveTo(d) ==
  /\ Gui /\ session.sftp /\ used.moves < MaxMoves
  /\ session' = [session EXCEPT !.cwd = d]
  /\ RefreshWorks(session', remote, Moved) \/ RefreshFails(Moved)
  /\ UNCHANGED <<program, window, begun, busy, work, posted, remote, local, dialled>>

\* A path is typed, or a folder of the list activated.
Enter(d) == ~busy /\ MoveTo(d)

GoUp == ~busy /\ MoveTo(IF session.cwd = Nowhere THEN Nowhere ELSE Parent[session.cwd])

\* mkdir and remove, then refresh.
Changes(files) ==
  /\ Gui /\ ~busy /\ session.sftp /\ used.moves < MaxMoves
  /\ remote' = files
  /\ RefreshWorks(session, files, Moved) \/ RefreshFails(Moved)
  /\ UNCHANGED <<program, window, begun, busy, session, work, posted, local, dialled>>

MkDir(n) ==
  /\ remote[Cwd(session)][n] = NoFile
  /\ Changes([remote EXCEPT ![Cwd(session)][n] = Folder])

\* The entry is looked for under its name in remote_cwd; rmdir and unlink want their kind.
Delete(n) ==
  /\ shown.kind[n] # "none" /\ Kind(remote[Cwd(session)][n]) = shown.kind[n]
  /\ Changes([remote EXCEPT ![Cwd(session)][n] = NoFile])

\* Mutant: the window is not busy while a file is on its way.
StartTransferFree(kind, here, there) ==
  /\ Gui /\ ~busy /\ used.transfers < MaxTransfers
  /\ work' = [kind |-> kind, pc |-> "begin", here |-> here, there |-> there, asked |-> Cwd(session),
              at |-> Nowhere, sent |-> 0, stale |-> FALSE, stopped |-> FALSE, lossy |-> FALSE]
  /\ used' = [used EXCEPT !.transfers = @ + 1]
  /\ UNCHANGED <<program, window, begun, busy, session, posted, shown, remote, local, dialled>>

\* download_selected, upload: set_busy and the thread. asked is a history: the directory
\* where the window was.
StartTransfer(kind, here, there) ==
  /\ Gui /\ ~busy /\ used.transfers < MaxTransfers
  /\ busy' = TRUE
  /\ work' = [kind |-> kind, pc |-> "begin", here |-> here, there |-> there, asked |-> Cwd(session),
              at |-> Nowhere, sent |-> 0, stale |-> FALSE, stopped |-> FALSE, lossy |-> FALSE]
  /\ used' = [used EXCEPT !.transfers = @ + 1]
  /\ UNCHANGED <<program, window, begun, session, posted, shown, remote, local, dialled>>

\* Any name may be given to the local file, and an old one is overwritten after a question;
\* nobody asks before an upload overwrites.
Download(n, m) == shown.kind[n] = "file" /\ StartTransfer("download", m, n)
Upload(n)      == IsFile(local[n]) /\ StartTransfer("upload", n, n)

\* cancel_transfer; the button is enabled while the window is busy.
Stop ==
  /\ Gui /\ busy
  /\ session' = [session EXCEPT !.cancel = TRUE]
  /\ work' = IF "stopped" \in DOMAIN work THEN [work EXCEPT !.stopped = TRUE] ELSE work
  /\ UNCHANGED <<program, window, begun, busy, posted, shown, remote, local, used, dialled>>

\* The thread is in a call of libssh2, or about to make one with what it has read of sftp_.
Inside == work # Idle /\ work.pc \in {"init", "home", "go", "open", "copy"}

\* SFTPSession::close, which does not ask for the mutex.
CloseSession ==
  /\ session' = Closed
  /\ work' = IF work = Idle THEN Idle
             ELSE LET w == [work EXCEPT !.stale = @ \/ (Inside /\ session.raw)] IN
                  IF "stopped" \in DOMAIN w THEN [w EXCEPT !.stopped = TRUE] ELSE w

\* wxEVT_CLOSE_WINDOW
CloseWindow ==
  /\ Gui
  /\ window' = "closed"
  /\ CloseSession
  /\ UNCHANGED <<program, begun, busy, posted, shown, remote, local, used, dialled>>

\* The destructor, when the event loop is idle; what the window has posted is gone.
Destroy ==
  /\ program = "runs" /\ window = "closed"
  /\ window' = "gone"
  /\ CloseSession
  /\ UNCHANGED <<program, begun, busy, posted, shown, remote, local, used, dialled>>

\* The closure that ends the thread's work. refresh is not in a try here.
Completion ==
  /\ program = "runs" /\ posted # Idle
  /\ posted' = Idle
  /\ IF window # "open" THEN UNCHANGED <<program, busy, shown, used>>
     ELSE /\ busy' = FALSE
          /\ IF posted.result = "done" /\ posted.kind # "download"
             THEN \/ RefreshWorks(session, remote, used) /\ UNCHANGED program
                  \/ RefreshFails(used) /\ program' = "ended"
             ELSE UNCHANGED <<program, shown, used>>
  /\ UNCHANGED <<window, begun, session, work, remote, local, dialled>>

-----------------------------------------------------------------------------
(* The thread                                                               *)

\* The thread posts its closure ...
EndsWith(result) ==
  /\ work' = Idle
  /\ posted' = [kind |-> work.kind, result |-> result]

\* Mutant: the session has no destructor that closes it.
LetGoOpen(s) == s

\* ... and lets the session go; the last one to do so closes it.
LetGo(s) == IF window = "gone" THEN Closed ELSE s

\* It ends with an error, for a reason or for none.
Refused == EndsWith("failed") /\ session' = LetGo(session)
Fails   == MayFail /\ used' = Fault /\ Refused

At(kind, pc) == program = "runs" /\ work.kind \in kind /\ work.pc = pc /\ ~work.stale

-----------------------------------------------------------------------------
(* ssh_connect_raw, of which the main thread sees nothing before it returns; *)
(* libssh2 waits 20 seconds, and so does a connect.                          *)

Dials(pc) ==
  /\ At({"connect"}, pc)
  /\ UNCHANGED <<program, window, begun, busy, shown, remote, local, used>>

\* An exception: the catch of ssh_connect_raw closes the socket, when there is one.
Throws(held) == dialled' = held \ {"socket"} /\ Refused

Dialling(pc, held) ==
  /\ work' = [work EXCEPT !.pc = pc]
  /\ dialled' = held
  /\ UNCHANGED <<session, posted>>

\* getaddrinfo
Resolve ==
  /\ Dials("resolve")
  /\ \/ Throws(dialled)
     \/ \E n \in 1 .. Addresses : work' = [work EXCEPT !.pc = "tcp", !.left = n]
        /\ UNCHANGED <<session, dialled, posted>>

\* The loop of tcp_connect: the socket of an address that does not answer is closed, and the
\* next one tried.
TcpConnect ==
  /\ Dials("tcp")
  /\ \/ Dialling("handshake", {"socket"})
     \/ work.left = 1 /\ Throws({})
     \/ /\ work.left > 1
        /\ work' = [work EXCEPT !.left = @ - 1]
        /\ UNCHANGED <<session, dialled, posted>>

\* handshake_and_auth: the session is made, and freed if the handshake fails. No key of a
\* host is refused (apply_known_hosts) ...
Handshake ==
  /\ Dials("handshake")
  /\ Throws(dialled) \/ Dialling("key", dialled \cup {"session"})

\* The session is freed before the exception.
NotAuthenticated == Throws(dialled \ {"session"})

Authenticated ==
  /\ work' = [work EXCEPT !.pc = "init"]
  /\ session' = [session EXCEPT !.raw = TRUE]
  /\ dialled' = {}
  /\ UNCHANGED posted

\* ... the key is tried, if there is a path of one; its file may be missing; ...
TryKey ==
  /\ Dials("key")
  /\ IF "key" \in work.means
     THEN Authenticated \/ NotAuthenticated \/ Dialling("password", dialled)
     ELSE Dialling("password", dialled)

\* ... then the password, if there is one, ...
TryPassword ==
  /\ Dials("password")
  /\ ("password" \in work.means /\ Authenticated) \/ Dialling("agent", dialled)

\* ... and, where there is no path of a key, the keys of the agent.
TryAgent ==
  /\ Dials("agent")
  /\ ("key" \notin work.means /\ Authenticated) \/ NotAuthenticated

-----------------------------------------------------------------------------
(* SFTPSession::connect, after ssh_connect_raw: libssh2_sftp_init and the two *)
(* chdir. Its end may come after the window has been closed.                  *)

InitSftp ==
  /\ At({"connect"}, "init")
  /\ \/ /\ session' = [session EXCEPT !.sftp = TRUE]
        /\ work' = [work EXCEPT !.pc = "home"]
        /\ UNCHANGED <<posted, used>>
     \/ MayFail /\ used' = Fault /\ EndsWith("failed") /\ session' = Closed
  /\ UNCHANGED <<program, window, begun, busy, shown, remote, local, dialled>>

ChdirHome ==
  /\ At({"connect"}, "home")
  /\ \/ /\ session' = [session EXCEPT !.cwd = Home]
        /\ work' = [work EXCEPT !.pc = "go"]
        /\ UNCHANGED <<posted, used>>
     \/ Fails
  /\ UNCHANGED <<program, window, begun, busy, shown, remote, local, dialled>>

\* The start directory may not be there: then the thread stays where it is.
ChdirStart ==
  /\ At({"connect"}, "go")
  /\ EndsWith("done")
  /\ session' \in {LetGo([session EXCEPT !.cwd = d]) : d \in {Home, StartPath}}
  /\ UNCHANGED <<program, window, begun, busy, shown, remote, local, used, dialled>>

Transfers == {"download", "upload"}

\* Mutant: transfer does not begin with cancel_ = false.
BeginAsItIs ==
  /\ At(Transfers, "begin")
  /\ work' = [work EXCEPT !.pc = "lock", !.at = Cwd(session)]
  /\ UNCHANGED <<program, window, begun, busy, session, posted, shown, remote, local, used, dialled>>

\* download, upload and the first line of transfer: the path is made from remote_cwd, and
\* what was asked of cancel_ before is forgotten.
Begin ==
  /\ At(Transfers, "begin")
  /\ work' = [work EXCEPT !.pc = "lock", !.at = Cwd(session), !.stopped = FALSE]
  /\ session' = [session EXCEPT !.cancel = FALSE]
  /\ UNCHANGED <<program, window, begun, busy, posted, shown, remote, local, used, dialled>>

Lock ==
  /\ At(Transfers, "lock")
  /\ IF session.sftp
     THEN work' = [work EXCEPT !.pc = "open"] /\ UNCHANGED <<posted, session>>
     ELSE Refused
  /\ UNCHANGED <<program, window, begun, busy, shown, remote, local, used, dialled>>

There(d, n, f) == remote' = [remote EXCEPT ![d][n] = f]
Here(n, f)     == local' = [local EXCEPT ![n] = f]

Opened == work' = [work EXCEPT !.pc = "copy"] /\ UNCHANGED <<posted, used, session>>

\* The remote file is opened, then the local one; the one that is written is emptied. If
\* the second cannot be opened the first is left as it is by then.
Open ==
  /\ At(Transfers, "open")
  /\ LET there == remote[work.at][work.there]
         opens == IF work.kind = "download" THEN IsFile(there) ELSE there # Folder
     IN \/ /\ work.kind = "download" /\ opens
           /\ \/ Opened /\ Here(work.here, [of |-> there.of, n |-> 0])
              \/ Fails /\ UNCHANGED local
           /\ UNCHANGED remote
        \/ /\ work.kind = "upload" /\ opens
           /\ There(work.at, work.there, [of |-> local[work.here].of, n |-> 0])
           /\ Opened \/ Fails
           /\ UNCHANGED local
        \/ ~opens /\ Refused /\ UNCHANGED <<remote, local, used>>
        \/ opens /\ Fails /\ UNCHANGED <<remote, local>>
  /\ UNCHANGED <<program, window, begun, busy, shown, dialled>>

Source == IF work.kind = "download" THEN remote[work.at][work.there] ELSE local[work.here]
Target(f) == IF work.kind = "download" THEN Here(work.here, f) /\ UNCHANGED remote
             ELSE There(work.at, work.there, f) /\ UNCHANGED local

\* The loop of transfer, while cancel_ is not set: the source is read to its end ...
CopyEnds ==
  /\ At(Transfers, "copy") /\ ~session.cancel
  /\ work.sent = Source.n
  /\ EndsWith("done") /\ session' = LetGo(session)
  /\ UNCHANGED <<program, window, begun, busy, shown, remote, local, used, dialled>>

\* ... or a buffer is copied. Nobody looks whether the local file has taken it
\* (file.write) or given it (a read that fails is an end).
CopyChunk ==
  /\ At(Transfers, "copy") /\ ~session.cancel
  /\ work.sent < Source.n
  /\ \/ /\ work' = [work EXCEPT !.sent = @ + 1]
        /\ Target([of |-> Source.of, n |-> IF work.lossy THEN work.sent ELSE work.sent + 1])
        /\ UNCHANGED <<posted, session, used>>
     \/ /\ MayFail /\ used' = Fault /\ ~work.lossy
        /\ work' = [work EXCEPT !.sent = IF work.kind = "download" THEN @ + 1 ELSE Source.n, !.lossy = TRUE]
        /\ UNCHANGED <<posted, session, remote, local>>
     \/ Fails /\ UNCHANGED <<remote, local>>
  /\ UNCHANGED <<program, window, begun, busy, shown, dialled>>

\* TransferCancelled: what has been written is removed, though it may have been there before;
\* nobody looks whether that has worked.
Cancel ==
  /\ At(Transfers, "copy") /\ session.cancel
  /\ session' = LetGo(session)
  /\ \/ EndsWith("cancelled") /\ Target(NoFile) /\ UNCHANGED used
     \/ MayFail /\ used' = Fault /\ EndsWith("remains") /\ UNCHANGED <<remote, local>>
  /\ UNCHANGED <<program, window, begun, busy, shown, dialled>>

\* The session has been closed under the thread: what it does with the handles that have been
\* freed is undefined. It ends the program, or the calls fail: the thread sees an error, or
\* that it is cancelled, and then it can remove a local file, not a remote one.
UseAfterClose ==
  /\ program = "runs" /\ work # Idle /\ work.stale
  /\ \/ /\ program' = "ended"
        /\ UNCHANGED <<session, work, posted, local>>
     \/ Refused /\ UNCHANGED <<program, local>>
     \/ /\ work.pc = "copy"
        /\ EndsWith("remains") /\ session' = LetGo(session)
        /\ IF work.kind = "download" THEN Here(work.here, NoFile) ELSE UNCHANGED local
        /\ UNCHANGED program
  /\ UNCHANGED <<window, begun, busy, shown, remote, used, dialled>>

-----------------------------------------------------------------------------
Thread == Resolve \/ TcpConnect \/ Handshake \/ TryKey \/ TryPassword \/ TryAgent
          \/ InitSftp \/ ChdirHome \/ ChdirStart \/ Begin \/ Lock \/ Open
          \/ CopyChunk \/ CopyEnds \/ Cancel \/ UseAfterClose

User ==
  \/ \E d \in Dirs : Enter(d)
  \/ \E n \in Names : MkDir(n) \/ Delete(n) \/ Upload(n) \/ \E m \in Names : Download(n, m)
  \/ GoUp \/ Stop \/ CloseWindow

Next == Connect \/ User \/ Destroy \/ Completion \/ Thread

\* The event loop comes to every closure and to the window that waits to be destroyed; no
\* call of the thread takes longer than the timeout of libssh2 (ssh_session.cpp:167).
Fairness == WF_vars(Connect) /\ WF_vars(Destroy) /\ WF_vars(Completion) /\ WF_vars(Thread)

Spec == Init /\ [][Next]_vars /\ Fairness

-----------------------------------------------------------------------------
(* Properties                                                               *)

\* What the window can do when it is not busy it does at once: no thread is at work that
\* could hold the mutex of the session, or change the directory under a handler
\* (set_busy, the guards on busy_).
NothingBehindTheWindow ==
  program = "runs" /\ window = "open" /\ begun /\ ~busy => work = Idle /\ posted = Idle

\* How the thread ends says what has become of the file. "Done" is a whole copy, in the
\* directory and under the name it was asked for, of what the source is, unless the
\* local disk has failed. "Cancelled" was asked for while this transfer ran, not
\* before it, and leaves no half of a file (SFTPSession::transfer).
EndIsTruthful ==
  LET w == work IN
  w.kind \in Transfers /\ work' = Idle =>
    LET there == remote'[w.asked][w.there] here == local'[w.here] IN
    /\ posted'.result = "done" /\ ~w.lossy =>
         IF w.kind = "download" THEN here = there /\ IsFile(here) ELSE there = here /\ IsFile(there)
    /\ posted'.result = "cancelled" => w.stopped /\ (IF w.kind = "download" THEN here ELSE there) = NoFile

TransfersAreTruthful == [][EndIsTruthful]_vars

\* A window that is closed, at whatever moment, does not leave its connection behind, also
\* when it comes about only after the window is gone (the shared session, ~SFTPSession).
ConnectionReleased == window # "open" ~> program = "ended" \/ [](~session.raw /\ ~session.sftp /\ dialled = {})

=============================================================================
