------------------------------ MODULE Stopping ------------------------------
(***************************************************************************)
(* How the server stops.  When it is told to, it takes no new requests and *)
(* waits for those it has; then for the notifications of the module        *)
(* mirror; both until one deadline.  What was deferred follows in the      *)
(* opposite order of its start: the download counts are written, then the  *)
(* database is closed.  When the requests do not end by the deadline, or   *)
(* the listener fails, the server stops with requests still running.       *)
(***************************************************************************)
EXTENDS Integers, FiniteSets

CONSTANTS Conn,       \* connections, each with one request at a time
          Attempts,   \* Notifier.Attempts
          MaxServed,  \* bound: requests begun
          MaxLost     \* bound: writes of download counts that fail

ASSUME StoppingConstants ==
  /\ Attempts \in Nat \ {0}
  /\ MaxServed \in Nat
  /\ MaxLost \in Nat

VARIABLES process,    \* where run is
          deadline,   \* shutdownCtx is done
          abrupt,     \* run returned before the requests ended
          dbOpen,
          request,    \* what each connection is at
          notices,    \* the notifications that are pending, by service and attempt
          unwritten,  \* Downloads.pending, with the batch being written
          dropped,    \* history: counts whose last write failed
          begun

processVars == <<process, deadline, abrupt, dbOpen>>
workVars == <<request, notices, unwritten, dropped, begun>>
stopVars == <<processVars, workVars>>

Running == {c \in Conn : request[c] # "idle"}

-----------------------------------------------------------------------------
\* A request comes in: an upload or a download.
BeginRequest(c, what) ==
  /\ process = "serving"
  /\ request[c] = "idle"
  /\ begun < MaxServed
  /\ begun' = begun + 1
  /\ request' = [request EXCEPT ![c] = what]
  /\ UNCHANGED <<processVars, notices, unwritten, dropped>>

\* An upload is recorded; Notify starts a goroutine for its version.  Without
\* the database it fails.
Uploaded(c) ==
  /\ process # "exited"
  /\ request[c] = "upload"
  /\ request' = [request EXCEPT ![c] = "idle"]
  /\ notices' = IF dbOpen THEN notices \cup {[for |-> <<c, begun>>, service |-> "mirror", attempt |-> 1]} ELSE notices
  /\ UNCHANGED <<processVars, unwritten, dropped, begun>>

\* A zip is sent and counted.
Downloaded(c) ==
  /\ process # "exited"
  /\ request[c] = "download"
  /\ request' = [request EXCEPT ![c] = "idle"]
  /\ unwritten' = unwritten + 1
  /\ UNCHANGED <<processVars, notices, dropped, begun>>

\* A service is asked: it answers, is to be asked again, or will not do.  The
\* checksum database is asked when the mirror has the version.
NoticeGoesOn(n) ==
  /\ process # "exited"
  /\ n \in notices
  /\ \/ n.service = "mirror" /\ notices' = (notices \ {n}) \cup {[n EXCEPT !.service = "sumdb", !.attempt = 1]}
     \/ n.service = "sumdb" /\ notices' = notices \ {n}
     \/ n.attempt < Attempts /\ notices' = (notices \ {n}) \cup {[n EXCEPT !.attempt = @ + 1]}
     \/ notices' = notices \ {n}
  /\ UNCHANGED <<processVars, request, unwritten, dropped, begun>>

\* The ticker of Downloads: the counts are written.
Flushes ==
  /\ process # "exited"
  /\ unwritten > 0
  /\ unwritten' = 0
  /\ UNCHANGED <<processVars, request, notices, dropped, begun>>

-----------------------------------------------------------------------------
\* A signal ends ctx: Shutdown closes the listener.
TellToStop ==
  /\ process = "serving"
  /\ process' = "draining"
  /\ UNCHANGED <<deadline, abrupt, dbOpen, workVars>>

ListenerFails ==
  /\ process = "serving"
  /\ process' = "stopping"
  /\ abrupt' = TRUE
  /\ UNCHANGED <<deadline, dbOpen, workVars>>

DeadlinePasses ==
  /\ process \in {"draining", "notifying"}
  /\ ~deadline
  /\ deadline' = TRUE
  /\ UNCHANGED <<process, abrupt, dbOpen, workVars>>

\* Mutant: run goes on when Shutdown returns, without a look at the requests.
Drained1 ==
  /\ process = "draining"
  /\ process' = "notifying"
  /\ UNCHANGED <<deadline, abrupt, dbOpen, workVars>>

\* Shutdown returns: all requests ended, or the deadline passed.
Drained ==
  /\ process = "draining"
  /\ \/ /\ Running = {}
        /\ process' = "notifying"
        /\ abrupt' = abrupt
     \/ /\ Running # {}
        /\ deadline
        /\ process' = "stopping"
        /\ abrupt' = TRUE
  /\ UNCHANGED <<deadline, dbOpen, workVars>>

\* Mutants: run waits for the notifications whatever time it takes; run does
\* not wait for them.
WaitsForAll ==
  /\ process = "notifying"
  /\ notices = {}
  /\ process' = "stopping"
  /\ UNCHANGED <<deadline, abrupt, dbOpen, workVars>>
WaitsForNone ==
  /\ process = "notifying"
  /\ process' = "stopping"
  /\ UNCHANGED <<deadline, abrupt, dbOpen, workVars>>

\* The notifications ended, or the deadline passed.
Notified ==
  /\ process = "notifying"
  /\ notices = {} \/ deadline
  /\ process' = "stopping"
  /\ UNCHANGED <<deadline, abrupt, dbOpen, workVars>>

\* Mutant: what was opened last is closed last.
CloseFirst ==
  /\ process = "stopping"
  /\ process' = "closing"
  /\ dbOpen' = FALSE
  /\ dropped' = dropped
  /\ UNCHANGED <<deadline, abrupt, request, notices, unwritten, begun>>

\* The deferred Downloads.Stop writes what is left, or fails to.
CountsStop ==
  /\ process = "stopping"
  /\ process' = "closing"
  /\ \/ unwritten' = 0 /\ dropped' = dropped
     \/ dropped < MaxLost /\ unwritten > 0 /\ dropped' = dropped + unwritten /\ unwritten' = 0
  /\ UNCHANGED <<deadline, abrupt, dbOpen, request, notices, begun>>

\* The deferred Close of the database.
DatabaseCloses ==
  /\ process = "closing"
  /\ process' = "closed"
  /\ dbOpen' = FALSE
  /\ UNCHANGED <<deadline, abrupt, workVars>>

\* run returns.
Exit ==
  /\ process = "closed"
  /\ process' = "exited"
  /\ UNCHANGED <<deadline, abrupt, dbOpen, workVars>>

-----------------------------------------------------------------------------
StopInit ==
  /\ process = "serving"
  /\ deadline = FALSE
  /\ abrupt = FALSE
  /\ dbOpen = TRUE
  /\ request = [c \in Conn |-> "idle"]
  /\ notices = {}
  /\ unwritten = 0
  /\ dropped = 0
  /\ begun = 0

StopStep == Drained \/ Notified \/ CountsStop \/ DatabaseCloses \/ Exit

StopNext ==
  \/ \E c \in Conn : BeginRequest(c, "upload") \/ BeginRequest(c, "download") \/ Uploaded(c) \/ Downloaded(c)
  \/ \E n \in notices : NoticeGoesOn(n)
  \/ Flushes
  \/ TellToStop \/ ListenerFails \/ DeadlinePasses \/ StopStep

\* Time passes and run goes on.  Nothing is assumed of requests, clients and
\* the mirror: they may take for ever.
StopFairness == WF_stopVars(DeadlinePasses) /\ WF_stopVars(StopStep)
StopSpec == StopInit /\ [][StopNext]_stopVars /\ StopFairness

-----------------------------------------------------------------------------
(* Properties.                                                             *)

StopTypeOK ==
  /\ process \in {"serving", "draining", "notifying", "stopping", "closing", "closed", "exited"}
  /\ {deadline, abrupt, dbOpen} \subseteq BOOLEAN
  /\ request \in [Conn -> {"idle", "upload", "download"}]
  /\ notices \subseteq [for : Conn \X (1..MaxServed), service : {"mirror", "sumdb"}, attempt : 1..Attempts]
  /\ unwritten \in 0..MaxServed
  /\ dropped \in 0..MaxServed
  /\ begun \in 0..MaxServed

\* A server that was told to stop, and whose requests ended in time, takes no
\* download count along ("Stop writes any buffered counts").
StopKeepsCounts == process = "exited" /\ ~abrupt => unwritten = 0

\* No request finds the database closed but those that outlast the deadline.
DatabaseOutlivesRequests == Running # {} /\ ~dbOpen => abrupt

\* A server that stops before the deadline leaves no notice under way: each
\* was answered by the mirror, or given up after its last attempt.
NoticesAreWaitedFor == process = "exited" /\ ~abrupt /\ ~deadline => notices = {}

\* A server that is told to stop stops, though a request or the mirror never
\* ends.
StopsInTime == process = "draining" ~> process = "exited"

\* All of that: it stops in this order and in time, however it is stopped.
StopsInOrder == [](StopKeepsCounts /\ DatabaseOutlivesRequests /\ NoticesAreWaitedFor) /\ StopsInTime

=============================================================================
