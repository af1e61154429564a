--------------------------- MODULE SerialExecutor ---------------------------
(***************************************************************************)
(* What running commands promises, with nothing said of threads, sessions, *)
(* bundles or flags: requests wait in one queue, one of them is executed   *)
(* at a time, and each executed request is put on record once, before the  *)
(* next one begins. A request can also be served past the queue (at an     *)
(* idle window, or as the next step of a bundle), but what waits is only   *)
(* ever served from the front or dropped as a whole. CommandRuns           *)
(* implements it (ExecutesSerially there; CommandRunsProofs).              *)
(***************************************************************************)
EXTENDS Naturals, Sequences

CONSTANTS
  Requests,  \* all requests that can be made
  Nobody,    \* not a request: none is being executed
  MaxBatch   \* bound: the requests made together

VARIABLES
  waiting,   \* accepted requests that are not yet served, in order
  current,   \* the request being executed, or Nobody
  record,    \* the lines of executed requests: each request with its place
  closed     \* no request is accepted or begun any more

vars == <<waiting, current, record, closed>>

Elements(s) == {s[i] : i \in DOMAIN s}

\* The requests on record.
Executed == {line.request : line \in record}

\* No request is being executed, or it is on record.
Free == current = Nobody \/ current \in Executed

Init ==
  /\ waiting = <<>>
  /\ current = Nobody
  /\ record = {}
  /\ closed = FALSE

\* Requests that have not been made yet, and the batches of distinct ones.
Fresh == Requests \ (Elements(waiting) \cup Executed \cup {current})

Batches ==
  {batch \in UNION {[1 .. n -> Fresh] : n \in 1 .. MaxBatch} :
     \A i, j \in DOMAIN batch : i # j => batch[i] # batch[j]}

\* Requests made together join the queue together, in their order.
Submit ==
  /\ ~closed
  /\ \E batch \in Batches : waiting' = waiting \o batch
  /\ UNCHANGED <<current, record, closed>>

\* The next request begins: the front of the queue or one that never waited.
Begin(r) ==
  /\ ~closed /\ Free
  /\ r \notin Executed
  /\ \/ /\ waiting # <<>> /\ r = Head(waiting)
        /\ waiting' = Tail(waiting)
     \/ /\ r \notin Elements(waiting)
        /\ UNCHANGED waiting
  /\ current' = r
  /\ UNCHANGED <<record, closed>>

\* The end of the current request goes on record, behind all that is there.
Record ==
  /\ ~Free
  /\ \E line \in record' :
       /\ line.request = current
       /\ \A before \in record : before.at < line.at
       /\ record' = record \cup {line}
  /\ UNCHANGED <<waiting, current, closed>>

\* The executor rests, whatever waits.
Rest ==
  /\ ~closed /\ Free
  /\ current' = Nobody
  /\ UNCHANGED <<waiting, record, closed>>

\* Everything that waits is dropped, possibly for good.
Drop ==
  /\ ~closed
  /\ waiting' = <<>>
  /\ closed' \in BOOLEAN
  /\ UNCHANGED <<current, record>>

Next ==
  \/ Submit
  \/ \E r \in Requests : Begin(r)
  \/ Record
  \/ Rest
  \/ Drop

Spec == Init /\ [][Next]_vars
=============================================================================
