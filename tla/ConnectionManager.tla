-------------------------- MODULE ConnectionManager --------------------------
(***************************************************************************)
(* The phone's ConnectionManager and its TCPConnections, with the two      *)
(* activities that use them.                                               *)
(*                                                                         *)
(* Four kinds of threads meet here: the main thread (the user, the         *)
(* activities, disconnect coroutines), one IO coroutine per connect call,  *)
(* one reader thread per connection, and the IO coroutines that send.      *)
(* They share tcpConn and connectGeneration under one lock, and each       *)
(* connection's running flag.  connectInternal closes the old connection,  *)
(* and so waits for its reader thread, while it holds that lock.           *)
(*                                                                         *)
(* A connection is known by the generation of the connect call that made   *)
(* it; 0 stands for null.                                                  *)
(***************************************************************************)
EXTENDS Naturals, FiniteSets

CONSTANTS
  MaxGeneration,   \* bound: no connect or close after this many
  MaxDepth,        \* bound: StreamActivity instances on top of each other
  Senders          \* coroutines that send

ASSUME BoundsAssumption == MaxGeneration \in Nat /\ MaxDepth \in Nat

Conn == 1 .. MaxGeneration

VARIABLES
  connectGeneration,
  tcpConn,           \* the current connection
  job,               \* job[k]: where the coroutine of connect call k is
  running,           \* running[k]: the flag of connection k
  socket,            \* socket[k]: whether the socket of k is open
  reader,            \* reader[k]: where the reader thread of k is
  threadSet,         \* threadSet[k]: the field thread of k is initialized
  rejecting,         \* rejecting[k]: what the reader of k is about to close
  main,              \* what the main thread is waiting for, if anything
  posted,            \* connections whose disconnect coroutine is due on main
  opening,           \* starts of StreamActivity due on main
  finishing,         \* a rejected message wants the activity closed
  depth,             \* StreamActivity instances on top of MainActivity
  callback,          \* whose callback is registered: 0 MainActivity, d the
                     \* StreamActivity at depth d
  sender             \* sender[i]: where sending coroutine i is

connVars == <<running, socket, reader, threadSet, rejecting>>
uiVars == <<opening, finishing, depth, callback>>
vars == <<connectGeneration, tcpConn, job, connVars, main, posted, uiVars, sender>>

Idle == [at |-> "idle", conn |-> 0, next |-> "none"]
Crashed == [at |-> "crashed", conn |-> 0, next |-> "none"]

\* connectInternal waits inside its synchronized block; every other one is
\* a single step.
LockFree == main.next # "launch"

Init ==
  /\ connectGeneration = 0 /\ tcpConn = 0
  /\ job = [k \in Conn |-> "none"]
  /\ running = [k \in Conn |-> FALSE]
  /\ socket = [k \in Conn |-> FALSE]
  /\ reader = [k \in Conn |-> "none"]
  /\ threadSet = [k \in Conn |-> FALSE]
  /\ rejecting = [k \in Conn |-> 0]
  /\ main = Idle
  /\ posted = {}
  /\ opening = 0 /\ finishing = FALSE /\ depth = 0 /\ callback = 0
  /\ sender = [i \in Senders |-> "idle"]

-----------------------------------------------------------------------------
(***************************************************************************)
(* TCPConnection.close, called by the main thread                          *)
(***************************************************************************)

\* The flag is cleared and the socket closed, once.
CloseSocket(k) ==
  /\ running' = [running EXCEPT ![k] = FALSE]
  /\ socket' = [socket EXCEPT ![k] = @ /\ ~running[k]]

\* The main thread is going to close k and to go on with next.
CloseAndThen(k, next) ==
  main' = [at |-> IF k = 0 THEN "ready" ELSE "closing", conn |-> k, next |-> next]

\* It waits for the reader thread when there is one to wait for.
CloseConnection ==
  /\ main.at = "closing"
  /\ CloseSocket(main.conn)
  /\ main' = [main EXCEPT !.at = IF running[main.conn] /\ threadSet[main.conn]
                                 THEN "joining" ELSE "ready"]
  /\ UNCHANGED <<connectGeneration, tcpConn, job, reader, threadSet, rejecting,
                 posted, uiVars, sender>>

\* The reader thread has ended.
JoinDone ==
  /\ main.at = "joining"
  /\ reader[main.conn] = "done"
  /\ main' = [main EXCEPT !.at = "ready"]
  /\ UNCHANGED <<connectGeneration, tcpConn, job, connVars, posted, uiVars, sender>>

\* Mutant of JoinTimesOut: the wait for the reader has no limit.
JoinTimesOutNever == FALSE /\ UNCHANGED vars

\* Two seconds have passed and it has not.
JoinTimesOut ==
  /\ main.at = "joining"
  /\ reader[main.conn] # "done"
  /\ main' = [main EXCEPT !.at = "ready"]
  /\ UNCHANGED <<connectGeneration, tcpConn, job, connVars, posted, uiVars, sender>>

-----------------------------------------------------------------------------
(***************************************************************************)
(* connectInternal                                                         *)
(***************************************************************************)

\* The user confirms a scanned code, or USB mode is selected.  The old
\* connection is closed inside the synchronized block.
Connect ==
  /\ main = Idle
  /\ depth = 0
  /\ connectGeneration < MaxGeneration
  /\ connectGeneration' = connectGeneration + 1
  /\ CloseAndThen(tcpConn, "launch")
  /\ UNCHANGED <<tcpConn, job, connVars, posted, uiVars, sender>>

\* tcpConn is cleared, the lock is released and the coroutine is launched.
Launch ==
  /\ main.at = "ready" /\ main.next = "launch"
  /\ tcpConn' = 0
  /\ job' = [job EXCEPT ![connectGeneration] = "connecting"]
  /\ main' = Idle
  /\ UNCHANGED <<connectGeneration, connVars, posted, uiVars, sender>>

\* TCPConnection's constructor: connected and, over Wi-Fi, authenticated.
Establish(k) ==
  /\ job[k] = "connecting"
  /\ job' = [job EXCEPT ![k] = "made"]
  /\ running' = [running EXCEPT ![k] = TRUE]
  /\ socket' = [socket EXCEPT ![k] = TRUE]
  /\ UNCHANGED <<connectGeneration, tcpConn, reader, threadSet, rejecting, main, posted,
                 uiVars, sender>>

\* The constructor fails; the failure is reported to MainActivity, which
\* lets the user try again, unless a later call has taken over.
ConnectFails(k) ==
  /\ job[k] = "connecting"
  /\ LockFree
  /\ job' = [job EXCEPT ![k] = "ended"]
  /\ UNCHANGED <<connectGeneration, tcpConn, connVars, main, posted, uiVars, sender>>

\* Mutant of Decide: a superseded coroutine installs its connection too.
DecideAlways(k) ==
  /\ job[k] = "made"
  /\ LockFree
  /\ tcpConn' = k /\ job' = [job EXCEPT ![k] = "accepted"]
  /\ UNCHANGED <<connectGeneration, connVars, main, posted, uiVars, sender>>

\* The new connection becomes the current one unless a later connect or
\* close has been called.
Decide(k) ==
  /\ job[k] = "made"
  /\ LockFree
  /\ IF k = connectGeneration
     THEN tcpConn' = k /\ job' = [job EXCEPT ![k] = "accepted"]
     ELSE UNCHANGED tcpConn /\ job' = [job EXCEPT ![k] = "discard"]
  /\ UNCHANGED <<connectGeneration, connVars, main, posted, uiVars, sender>>

\* A connection that came too late is closed.
Discard(k) ==
  /\ job[k] = "discard"
  /\ job' = [job EXCEPT ![k] = "ended"]
  /\ CloseSocket(k)
  /\ UNCHANGED <<connectGeneration, tcpConn, reader, threadSet, rejecting, main, posted,
                 uiVars, sender>>

\* startReceiver starts the thread ...
StartThread(k) ==
  /\ job[k] = "accepted"
  /\ job' = [job EXCEPT ![k] = "started"]
  /\ reader' = [reader EXCEPT ![k] = "reading"]
  /\ UNCHANGED <<connectGeneration, tcpConn, running, socket, threadSet, rejecting, main,
                 posted, uiVars, sender>>

\* ... and stores it afterwards.
StoreThread(k) ==
  /\ job[k] = "started"
  /\ job' = [job EXCEPT ![k] = "announce"]
  /\ threadSet' = [threadSet EXCEPT ![k] = TRUE]
  /\ UNCHANGED <<connectGeneration, tcpConn, running, socket, reader, rejecting,
                 main, posted, uiVars, sender>>

\* onConnectionSuccessful of the registered activity: MainActivity starts a
\* StreamActivity, a StreamActivity does nothing.
Announce(k) ==
  /\ job[k] = "announce"
  /\ job' = [job EXCEPT ![k] = "ended"]
  /\ opening' = IF callback = 0 THEN opening + 1 ELSE opening
  /\ UNCHANGED <<connectGeneration, tcpConn, connVars, main, posted, finishing,
                 depth, callback, sender>>

-----------------------------------------------------------------------------
(***************************************************************************)
(* receiveLoop, on the reader thread of connection k                       *)
(***************************************************************************)

\* A frame arrives and onFrameReceived is called.
ReadFrame(k) ==
  /\ reader[k] = "reading"
  /\ running[k] /\ socket[k]
  /\ reader' = [reader EXCEPT ![k] = "checking"]
  /\ UNCHANGED <<connectGeneration, tcpConn, job, running, socket, threadSet, rejecting,
                 main, posted, uiVars, sender>>

\* A frame of a connection that is no longer the current one is ignored.
CheckCurrent(k) ==
  /\ reader[k] = "checking"
  /\ LockFree
  /\ reader' = [reader EXCEPT ![k] = IF tcpConn = k THEN "calling" ELSE "reading"]
  /\ UNCHANGED <<connectGeneration, tcpConn, job, running, socket, threadSet, rejecting,
                 main, posted, uiVars, sender>>

\* The activity handles the packet.
Handle(k) ==
  /\ reader[k] = "calling"
  /\ reader' = [reader EXCEPT ![k] = "reading"]
  /\ UNCHANGED <<connectGeneration, tcpConn, job, running, socket, threadSet, rejecting,
                 main, posted, uiVars, sender>>

\* The activity rejects the packet and closes whatever is connected.
Reject(k) ==
  /\ reader[k] = "calling"
  /\ LockFree
  /\ connectGeneration < MaxGeneration
  /\ connectGeneration' = connectGeneration + 1
  /\ tcpConn' = 0
  /\ rejecting' = [rejecting EXCEPT ![k] = tcpConn]
  /\ reader' = [reader EXCEPT ![k] = "rejecting"]
  /\ UNCHANGED <<job, running, socket, threadSet, main, posted, uiVars, sender>>

\* It asks to be finished.  A thread does not wait for itself, and the wait
\* for another reader would only delay this one.
Rejected(k) ==
  /\ reader[k] = "rejecting"
  /\ IF rejecting[k] # 0 THEN CloseSocket(rejecting[k])
                         ELSE UNCHANGED <<running, socket>>
  /\ rejecting' = [rejecting EXCEPT ![k] = 0]
  /\ finishing' = TRUE
  /\ reader' = [reader EXCEPT ![k] = "reading"]
  /\ UNCHANGED <<connectGeneration, tcpConn, job, threadSet, main, posted,
                 opening, depth, callback, sender>>

\* Mutant of ReaderEnds: the flag is not taken, only read.
ReaderEndsQuietly(k) ==
  /\ reader[k] = "reading"
  /\ reader' = [reader EXCEPT ![k] = "closing"]
  /\ running' = [running EXCEPT ![k] = FALSE]
  /\ UNCHANGED <<connectGeneration, tcpConn, job, socket, threadSet, rejecting, main,
                 posted, uiVars, sender>>

\* The peer hung up, a frame was refused, or the connection was closed: the
\* loop ends.  Whoever takes the running flag down first decides whether
\* this is a disconnect.
ReaderEnds(k) ==
  /\ reader[k] = "reading"
  /\ reader' = [reader EXCEPT ![k] = "closing"]
  /\ posted' = IF running[k] THEN posted \cup {k} ELSE posted
  /\ running' = [running EXCEPT ![k] = FALSE]
  /\ UNCHANGED <<connectGeneration, tcpConn, job, socket, threadSet, rejecting, main,
                 uiVars, sender>>

ReaderCloses(k) ==
  /\ reader[k] = "closing"
  /\ socket' = [socket EXCEPT ![k] = FALSE]
  /\ reader' = [reader EXCEPT ![k] = "done"]
  /\ UNCHANGED <<connectGeneration, tcpConn, job, running, threadSet, rejecting, main,
                 posted, uiVars, sender>>

-----------------------------------------------------------------------------
(***************************************************************************)
(* Sending                                                                 *)
(***************************************************************************)

\* A Streamer launches the coroutine that sends its descriptor or a report.
LaunchSend(i) ==
  /\ sender[i] = "idle"
  /\ depth > 0
  /\ sender' = [sender EXCEPT ![i] = "launched"]
  /\ UNCHANGED <<connectGeneration, tcpConn, job, connVars, main, posted, uiVars>>

\* It sends on the connection of the moment.  Without one a report is
\* dropped, a descriptor fails.
SendBegins(i) ==
  /\ sender[i] = "launched"
  /\ LockFree
  /\ IF tcpConn # 0
     THEN sender' = [sender EXCEPT ![i] = "sending"]
     ELSE \E at \in {"idle", "failed"} : sender' = [sender EXCEPT ![i] = at]
  /\ UNCHANGED <<connectGeneration, tcpConn, job, connVars, main, posted, uiVars>>

SendEnds(i) ==
  /\ sender[i] = "sending"
  /\ sender' = [sender EXCEPT ![i] = "idle"]
  /\ UNCHANGED <<connectGeneration, tcpConn, job, connVars, main, posted, uiVars>>

SendFails(i) ==
  /\ sender[i] = "sending"
  /\ sender' = [sender EXCEPT ![i] = "failed"]
  /\ UNCHANGED <<connectGeneration, tcpConn, job, connVars, main, posted, uiVars>>

\* After a failure the connection of the moment, whichever it is by now, is
\* disconnected.
SendGivesUp(i) ==
  /\ sender[i] = "failed"
  /\ LockFree
  /\ posted' = IF tcpConn # 0 THEN posted \cup {tcpConn} ELSE posted
  /\ sender' = [sender EXCEPT ![i] = "idle"]
  /\ UNCHANGED <<connectGeneration, tcpConn, job, connVars, main, uiVars>>

-----------------------------------------------------------------------------
(***************************************************************************)
(* The main thread                                                         *)
(***************************************************************************)

\* close: the user selects another mode.  The old connection is closed
\* outside the lock.
Close ==
  /\ main = Idle
  /\ depth = 0
  /\ connectGeneration < MaxGeneration
  /\ connectGeneration' = connectGeneration + 1
  /\ tcpConn' = 0
  /\ CloseAndThen(tcpConn, "none")
  /\ UNCHANGED <<job, connVars, posted, uiVars, sender>>

\* Mutant of Disconnected: no look at which connection is the current one.
DisconnectedAny(k) ==
  /\ main = Idle
  /\ k \in posted
  /\ posted' = posted \ {k}
  /\ tcpConn' = 0
  /\ CloseAndThen(k, "notify")
  /\ UNCHANGED <<connectGeneration, job, connVars, uiVars, sender>>

\* The coroutine of onDisconnected: only the current connection counts.
Disconnected(k) ==
  /\ main = Idle
  /\ k \in posted
  /\ posted' = posted \ {k}
  /\ IF tcpConn = k
     THEN tcpConn' = 0 /\ CloseAndThen(k, "notify")
     ELSE UNCHANGED <<tcpConn, main>>
  /\ UNCHANGED <<connectGeneration, job, connVars, uiVars, sender>>

\* The StreamActivity on top is left; MainActivity registers itself again
\* when it reappears.
Leave == /\ depth' = depth - 1
         /\ callback' = IF depth = 1 THEN 0 ELSE callback

\* The registered activity's onDisconnected; a StreamActivity finishes.
Notify ==
  /\ main.at = "ready" /\ main.next # "launch"
  /\ main' = Idle
  /\ IF main.next = "notify" /\ depth > 0 /\ callback = depth
     THEN Leave
     ELSE UNCHANGED <<depth, callback>>
  /\ UNCHANGED <<connectGeneration, tcpConn, job, connVars, posted, opening,
                 finishing, sender>>

\* Mutant of Finish: an activity that is gone is left once more.
FinishUnchecked ==
  /\ main = Idle
  /\ finishing
  /\ finishing' = FALSE
  /\ Leave
  /\ UNCHANGED <<connectGeneration, tcpConn, job, connVars, main, posted,
                 opening, sender>>

\* The activity that rejected a packet finishes.
Finish ==
  /\ main = Idle
  /\ finishing
  /\ finishing' = FALSE
  /\ IF depth > 0 THEN Leave ELSE UNCHANGED <<depth, callback>>
  /\ UNCHANGED <<connectGeneration, tcpConn, job, connVars, main, posted,
                 opening, sender>>

\* The user goes back; the connection stays.
Back ==
  /\ main = Idle
  /\ depth > 0
  /\ Leave
  /\ UNCHANGED <<connectGeneration, tcpConn, job, connVars, main, posted,
                 opening, finishing, sender>>

\* StreamActivity registers itself and creates its Streamer, which asks for
\* the local address of the connection and throws when there is none.
OpenStream ==
  /\ main = Idle
  /\ opening > 0
  /\ depth < MaxDepth
  /\ opening' = opening - 1
  /\ depth' = depth + 1
  /\ callback' = depth + 1
  /\ main' = IF tcpConn = 0 THEN Crashed ELSE main
  /\ UNCHANGED <<connectGeneration, tcpConn, job, connVars, posted, finishing,
                 sender>>

-----------------------------------------------------------------------------
Job(k) == \/ Establish(k) \/ ConnectFails(k) \/ Decide(k) \/ Discard(k)
          \/ StartThread(k) \/ StoreThread(k) \/ Announce(k)

Reader(k) == \/ ReadFrame(k) \/ CheckCurrent(k) \/ Handle(k) \/ Reject(k)
             \/ Rejected(k) \/ ReaderEnds(k) \/ ReaderCloses(k)

Send(i) == \/ LaunchSend(i) \/ SendBegins(i) \/ SendEnds(i) \/ SendFails(i)
           \/ SendGivesUp(i)

MainWait == CloseConnection \/ JoinDone \/ JoinTimesOut \/ Launch \/ Notify

Main == \/ MainWait \/ Connect \/ Close \/ Finish \/ Back \/ OpenStream
        \/ \E k \in Conn : Disconnected(k)

\* An uncaught exception ends the process.
Next ==
  /\ main # Crashed
  /\ \/ Main
     \/ \E k \in Conn : Job(k) \/ Reader(k)
     \/ \E i \in Senders : Send(i)

Spec == Init /\ [][Next]_vars

\* The main thread runs what is due on it, and a reader whose loop has ended
\* finishes.  Nothing is assumed of the network.
Fairness == /\ WF_vars(main # Crashed /\ MainWait)
            /\ \A k \in Conn : SF_vars(main # Crashed /\ Disconnected(k))
            /\ \A k \in Conn : WF_vars(main # Crashed /\ ReaderCloses(k))

FairSpec == Spec /\ Fairness

-----------------------------------------------------------------------------
(***************************************************************************)
(* Properties                                                              *)
(***************************************************************************)

TypeOK ==
  /\ connectGeneration \in 0 .. MaxGeneration
  /\ tcpConn \in 0 .. MaxGeneration
  /\ job \in [Conn -> {"none", "connecting", "made", "accepted", "started",
                       "announce", "discard", "ended"}]
  /\ running \in [Conn -> BOOLEAN]
  /\ socket \in [Conn -> BOOLEAN]
  /\ reader \in [Conn -> {"none", "reading", "checking", "calling",
                          "rejecting", "closing", "done"}]
  /\ threadSet \in [Conn -> BOOLEAN]
  /\ rejecting \in [Conn -> 0 .. MaxGeneration]
  /\ main \in [at : {"idle", "closing", "joining", "ready", "crashed"},
               conn : 0 .. MaxGeneration, next : {"none", "launch", "notify"}]
  /\ posted \subseteq Conn
  /\ opening \in Nat
  /\ finishing \in BOOLEAN
  /\ depth \in 0 .. MaxDepth
  /\ callback \in 0 .. MaxDepth
  /\ sender \in [Senders -> {"idle", "launched", "sending", "failed"}]

\* However the coroutines of several connect calls finish, the current
\* connection is the one of the latest call, and none after a close.
CurrentIsLatest == LockFree /\ tcpConn # 0 => tcpConn = connectGeneration

\* Every open socket still has somebody to close it: it is the current one,
\* its coroutine has yet to decide, its reader thread is on its way out, or
\* somebody has taken it from tcpConn to close it.
NoSocketLeaks ==
  \A k \in Conn : socket[k] => \/ tcpConn = k
                               \/ job[k] \in {"made", "discard"}
                               \/ reader[k] = "closing"
                               \/ main.at = "closing" /\ main.conn = k
                               \/ \E j \in Conn : rejecting[j] = k

\* connectInternal waits for a reader thread while it holds the lock which
\* that thread may be waiting for; it returns nevertheless, and the lock
\* with it.
LockIsReleased == ~LockFree ~> LockFree

\* A connection that has ended does not stay the current one, even if its
\* end came before anybody was told of its beginning.
LossIsNoticed ==
  \A k \in Conn : tcpConn = k /\ reader[k] = "done" ~> tcpConn # k \/ main = Crashed

\* requireNotNull(tcpConn) { "Not connected" } (ConnectionManager.kt): a
\* StreamActivity is created for a success that was announced, so that its
\* Streamer finds a connection.
StreamerFindsConnection == main # Crashed
=============================================================================
