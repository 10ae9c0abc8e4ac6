---------------------- MODULE ConnectionManagerProofs ----------------------
(***************************************************************************)
(* Proofs about ConnectionManager, for any number of connect calls: the    *)
(* current connection is the one of the latest call, and no socket is left *)
(* open without somebody who closes it.                                    *)
(***************************************************************************)
EXTENDS ConnectionManager, TLAPS

\* A coroutine that was let through, or is over.
Decided == {"accepted", "started", "announce", "ended"}

\* A coroutine that has not started its reader thread.
Unread == {"none", "connecting", "made", "accepted", "discard"}

\* No coroutine runs for a call that has not been made, or whose caller
\* still closes the connection before.
Launched ==
  \A k \in Conn : job[k] # "none" => /\ k <= connectGeneration
                                     /\ k = connectGeneration => LockFree

\* A connection has no socket before it is established, and no thread
\* before it is accepted.
Unmade ==
  \A k \in Conn : /\ job[k] \in {"none", "connecting"} => ~socket[k] /\ ~running[k]
                  /\ job[k] \in Unread => reader[k] = "none"

\* Only a reader thread on its way out takes the flag down and leaves the
\* socket for a later step.
FlagGoesWithSocket == \A k \in Conn : socket[k] /\ ~running[k] => reader[k] = "closing"

\* What the main thread closes was the current connection, and connect
\* keeps it as such until it has been closed.
Held ==
  /\ tcpConn # 0 => job[tcpConn] \in Decided
  /\ main.conn # 0 => job[main.conn] \in Decided
  /\ main.at \in {"closing", "joining"} => main.conn # 0
  /\ main.next = "launch" => main.conn = tcpConn
  /\ main.at \in {"joining", "ready"} /\ main.conn # 0 => ~running[main.conn]

\* A reader thread holds what it took from tcpConn only while it closes it.
Rejecting == \A k \in Conn : rejecting[k] # 0 => reader[k] = "rejecting"

Safe == /\ CurrentIsLatest
        /\ Launched
        /\ Unmade
        /\ FlagGoesWithSocket
        /\ Held
        /\ Rejecting
        /\ NoSocketLeaks

IInv == TypeOK /\ Safe

-----------------------------------------------------------------------------
\* Every step keeps the variables in their types.
LEMMA TypeStep ==
  ASSUME TypeOK, [Next]_vars
  PROVE  TypeOK'
<1> USE BoundsAssumption DEF TypeOK, Conn, connVars, uiVars
<1>1. CASE CloseConnection
  BY <1>1 DEF CloseConnection, CloseSocket
<1>2. CASE JoinDone
  BY <1>2 DEF JoinDone
<1>3. CASE JoinTimesOut
  BY <1>3 DEF JoinTimesOut
<1>4. CASE Launch
  <2>1. job' \in [Conn -> {"none", "connecting", "made", "accepted", "started",
                          "announce", "discard", "ended"}]
    BY <1>4 DEF Launch
  <2>2. main' \in [at : {"idle", "closing", "joining", "ready", "crashed"},
                   conn : 0 .. MaxGeneration, next : {"none", "launch", "notify"}]
    BY <1>4 DEF Launch, Idle
  <2> QED
    BY <1>4, <2>1, <2>2 DEF Launch
<1>5. CASE Notify
  BY <1>5 DEF Notify, Idle, Leave
<1>6. CASE Connect
  BY <1>6 DEF Connect, CloseAndThen, Idle
<1>7. CASE Close
  BY <1>7 DEF Close, CloseAndThen, Idle
<1>8. CASE Finish
  <2>1. CASE depth > 0
    <3>1. depth' \in 0 .. MaxDepth
      BY <1>8, <2>1 DEF Finish, Leave
    <3>2. callback' \in 0 .. MaxDepth
      BY <1>8, <2>1 DEF Finish, Leave
    <3> QED
      BY <1>8, <3>1, <3>2 DEF Finish
  <2>2. CASE ~(depth > 0)
    BY <1>8, <2>2 DEF Finish
  <2> QED
    BY <2>1, <2>2
<1>9. CASE Back
  BY <1>9 DEF Back, Idle, Leave
<1>10. CASE OpenStream
  BY <1>10 DEF OpenStream, Idle, Crashed
<1>11. ASSUME NEW k \in Conn, Disconnected(k) PROVE TypeOK'
  BY <1>11 DEF Disconnected, CloseAndThen, Idle
<1>12. ASSUME NEW k \in Conn, Establish(k) PROVE TypeOK'
  BY <1>12 DEF Establish
<1>13. ASSUME NEW k \in Conn, ConnectFails(k) PROVE TypeOK'
  BY <1>13 DEF ConnectFails
<1>14. ASSUME NEW k \in Conn, Decide(k) PROVE TypeOK'
  <2>1. CASE k = connectGeneration
    BY <1>14, <2>1 DEF Decide
  <2>2. CASE k # connectGeneration
    BY <1>14, <2>2 DEF Decide
  <2> QED
    BY <2>1, <2>2
<1>15. ASSUME NEW k \in Conn, Discard(k) PROVE TypeOK'
  BY <1>15 DEF Discard, CloseSocket
<1>16. ASSUME NEW k \in Conn, StartThread(k) PROVE TypeOK'
  BY <1>16 DEF StartThread
<1>17. ASSUME NEW k \in Conn, StoreThread(k) PROVE TypeOK'
  BY <1>17 DEF StoreThread
<1>18. ASSUME NEW k \in Conn, Announce(k) PROVE TypeOK'
  BY <1>18 DEF Announce
<1>19. ASSUME NEW k \in Conn, ReadFrame(k) PROVE TypeOK'
  BY <1>19 DEF ReadFrame
<1>20. ASSUME NEW k \in Conn, CheckCurrent(k) PROVE TypeOK'
  BY <1>20 DEF CheckCurrent
<1>21. ASSUME NEW k \in Conn, Handle(k) PROVE TypeOK'
  BY <1>21 DEF Handle
<1>22. ASSUME NEW k \in Conn, Reject(k) PROVE TypeOK'
  BY <1>22 DEF Reject
<1>23. ASSUME NEW k \in Conn, Rejected(k) PROVE TypeOK'
  <2>1. CASE rejecting[k] # 0
    <3>1. running' \in [Conn -> BOOLEAN]
      BY <1>23, <2>1 DEF Rejected, CloseSocket
    <3>2. socket' \in [Conn -> BOOLEAN]
      BY <1>23, <2>1 DEF Rejected, CloseSocket
    <3> QED
      BY <1>23, <3>1, <3>2 DEF Rejected
  <2>2. CASE rejecting[k] = 0
    BY <1>23, <2>2 DEF Rejected
  <2> QED
    BY <2>1, <2>2
<1>24. ASSUME NEW k \in Conn, ReaderEnds(k) PROVE TypeOK'
  BY <1>24 DEF ReaderEnds
<1>25. ASSUME NEW k \in Conn, ReaderCloses(k) PROVE TypeOK'
  BY <1>25 DEF ReaderCloses
<1>26. ASSUME NEW i \in Senders, LaunchSend(i) PROVE TypeOK'
  BY <1>26 DEF LaunchSend
<1>27. ASSUME NEW i \in Senders, SendBegins(i) PROVE TypeOK'
  <2>1. PICK at \in {"idle", "failed", "sending"} : sender' = [sender EXCEPT ![i] = at]
    BY <1>27 DEF SendBegins
  <2> QED
    BY <1>27, <2>1 DEF SendBegins
<1>28. ASSUME NEW i \in Senders, SendEnds(i) PROVE TypeOK'
  BY <1>28 DEF SendEnds
<1>29. ASSUME NEW i \in Senders, SendFails(i) PROVE TypeOK'
  BY <1>29 DEF SendFails
<1>30. ASSUME NEW i \in Senders, SendGivesUp(i) PROVE TypeOK'
  BY <1>30 DEF SendGivesUp
<1>31. CASE UNCHANGED vars
  BY <1>31 DEF vars
<1> QED
  BY <1>1, <1>2, <1>3, <1>4, <1>5, <1>6, <1>7, <1>8, <1>9, <1>10, <1>11, <1>12, 
     <1>13, <1>14, <1>15, <1>16, <1>17, <1>18, <1>19, <1>20, <1>21, <1>22, <1>23, 
     <1>24, <1>25, <1>26, <1>27, <1>28, <1>29, <1>30, <1>31, 
     [Next]_vars DEF Next, Main, MainWait, Job, Reader, Send
\* What closing connection k leaves of the flags and the sockets.
LEMMA ClosedSocket ==
  ASSUME TypeOK, NEW k \in Conn, CloseSocket(k), NEW j \in Conn
  PROVE  /\ running'[j] => running[j] /\ j # k
         /\ j # k => running'[j] = running[j]
         /\ socket'[j] => socket[j] /\ (j = k => ~running[k])
<1>1. CASE j = k
  BY <1>1 DEF CloseSocket, TypeOK
<1>2. CASE j # k
  BY <1>2 DEF CloseSocket, TypeOK
<1> QED
  BY <1>1, <1>2

\* Every step keeps the rest of the invariant.
LEMMA SafetyStep ==
  ASSUME IInv, TypeOK', [Next]_vars
  PROVE  Safe'
<1>a. ASSUME CloseConnection, NEW j \in Conn, socket'[j]
      PROVE  /\ socket[j]
             /\ j = main.conn => ~running[j]
             /\ j # main.conn => running'[j] = running[j]
  <2>1. main.conn \in Conn /\ CloseSocket(main.conn)
    BY <1>a DEF CloseConnection, IInv, TypeOK, Safe, Held, Conn
  <2> QED
    BY <1>a, <2>1, ClosedSocket DEF IInv
<1>b. ASSUME NEW k \in Conn, Discard(k), NEW j \in Conn, socket'[j]
      PROVE  /\ socket[j]
             /\ j = k => ~running[j]
             /\ j # k => running'[j] = running[j]
  BY <1>b, ClosedSocket DEF Discard, IInv
<1> USE BoundsAssumption DEF IInv, TypeOK, Safe, Conn, connVars, uiVars, LockFree,
      CurrentIsLatest, Launched, Unmade, FlagGoesWithSocket, Held, Rejecting,
      NoSocketLeaks, Decided, Unread
<1>1. CASE CloseConnection
  <2>1. CurrentIsLatest'
    BY <1>1 DEF CloseConnection, CloseSocket
  <2>2. Launched'
    BY <1>1 DEF CloseConnection, CloseSocket
  <2>3. Unmade'
    BY <1>1 DEF CloseConnection, CloseSocket
  <2>4. FlagGoesWithSocket'
    BY <1>1, <1>a DEF CloseConnection
  <2>5. Held'
    BY <1>1 DEF CloseConnection, CloseSocket
  <2>6. Rejecting'
    BY <1>1 DEF CloseConnection, CloseSocket
  <2>7. ASSUME NEW j \in Conn, socket'[j]
        PROVE  \/ tcpConn' = j \/ job'[j] \in {"made", "discard"} \/ reader'[j] = "closing"
               \/ \E r \in Conn : rejecting'[r] = j
    BY <1>1, <1>a, <2>7 DEF CloseConnection
  <2> QED
    BY <2>1, <2>2, <2>3, <2>4, <2>5, <2>6, <2>7
<1>2. CASE JoinDone
  BY <1>2 DEF JoinDone
<1>3. CASE JoinTimesOut
  BY <1>3 DEF JoinTimesOut
<1>4. CASE Launch
  BY <1>4 DEF Launch, Idle
<1>5. CASE Notify
  BY <1>5 DEF Notify, Idle, Leave
<1>6. CASE Connect
  BY <1>6 DEF Connect, CloseAndThen, Idle
<1>7. CASE Close
  BY <1>7 DEF Close, CloseAndThen, Idle
<1>8. CASE Finish
  BY <1>8 DEF Finish, Idle, Leave
<1>9. CASE Back
  BY <1>9 DEF Back, Idle, Leave
<1>10. CASE OpenStream
  BY <1>10 DEF OpenStream, Idle, Crashed
<1>11. ASSUME NEW k \in Conn, Disconnected(k) PROVE Safe'
  BY <1>11 DEF Disconnected, CloseAndThen, Idle
<1>12. ASSUME NEW k \in Conn, Establish(k) PROVE Safe'
  BY <1>12 DEF Establish
<1>13. ASSUME NEW k \in Conn, ConnectFails(k) PROVE Safe'
  BY <1>13 DEF ConnectFails
<1>14. ASSUME NEW k \in Conn, Decide(k) PROVE Safe'
  BY <1>14 DEF Decide
<1>15. ASSUME NEW k \in Conn, Discard(k) PROVE Safe'
  <2>1. CurrentIsLatest'
    BY <1>15 DEF Discard, CloseSocket
  <2>2. Launched'
    BY <1>15 DEF Discard, CloseSocket
  <2>3. Unmade'
    BY <1>15 DEF Discard, CloseSocket
  <2>4. FlagGoesWithSocket'
    BY <1>15, <1>b DEF Discard
  <2>5. Held'
    BY <1>15 DEF Discard, CloseSocket
  <2>6. Rejecting'
    BY <1>15 DEF Discard, CloseSocket
  <2>7. ASSUME NEW j \in Conn, socket'[j]
        PROVE  \/ tcpConn' = j \/ job'[j] \in {"made", "discard"} \/ reader'[j] = "closing"
               \/ main'.at = "closing" /\ main'.conn = j
               \/ \E r \in Conn : rejecting'[r] = j
    <3>1. CASE j = k
      BY <1>15, <1>b, <2>7, <3>1 DEF Discard
    <3>2. CASE j # k
      <4>1. socket[j]
        BY <1>15, <1>b, <2>7, Zenon
      <4>2. job'[j] = job[j]
        BY <1>15, <3>2 DEF Discard
      <4> QED
        BY <1>15, <4>1, <4>2 DEF Discard
    <3> QED
      BY <3>1, <3>2
  <2> QED
    BY <2>1, <2>2, <2>3, <2>4, <2>5, <2>6, <2>7
<1>16. ASSUME NEW k \in Conn, StartThread(k) PROVE Safe'
  BY <1>16 DEF StartThread
<1>17. ASSUME NEW k \in Conn, StoreThread(k) PROVE Safe'
  BY <1>17 DEF StoreThread
<1>18. ASSUME NEW k \in Conn, Announce(k) PROVE Safe'
  BY <1>18 DEF Announce
<1>19. ASSUME NEW k \in Conn, ReadFrame(k) PROVE Safe'
  BY <1>19 DEF ReadFrame
<1>20. ASSUME NEW k \in Conn, CheckCurrent(k) PROVE Safe'
  BY <1>20 DEF CheckCurrent
<1>21. ASSUME NEW k \in Conn, Handle(k) PROVE Safe'
  BY <1>21 DEF Handle
<1>22. ASSUME NEW k \in Conn, Reject(k) PROVE Safe'
  BY <1>22 DEF Reject
<1>23. ASSUME NEW k \in Conn, Rejected(k) PROVE Safe'
  <2>1. CurrentIsLatest'
    BY <1>23 DEF Rejected, CloseSocket
  <2>2. Launched'
    BY <1>23 DEF Rejected, CloseSocket
  <2>3. Unmade'
    BY <1>23 DEF Rejected, CloseSocket
  <2>4. FlagGoesWithSocket'
    BY <1>23 DEF Rejected, CloseSocket
  <2>5. Held'
    BY <1>23 DEF Rejected, CloseSocket
  <2>6. Rejecting'
    BY <1>23 DEF Rejected, CloseSocket
  <2>7. NoSocketLeaks'
    BY <1>23 DEF Rejected, CloseSocket
  <2> QED
    BY <2>1, <2>2, <2>3, <2>4, <2>5, <2>6, <2>7
<1>24. ASSUME NEW k \in Conn, ReaderEnds(k) PROVE Safe'
  BY <1>24 DEF ReaderEnds
<1>25. ASSUME NEW k \in Conn, ReaderCloses(k) PROVE Safe'
  BY <1>25 DEF ReaderCloses
<1>26. ASSUME NEW i \in Senders, LaunchSend(i) PROVE Safe'
  BY <1>26 DEF LaunchSend
<1>27. ASSUME NEW i \in Senders, SendBegins(i) PROVE Safe'
  BY <1>27 DEF SendBegins
<1>28. ASSUME NEW i \in Senders, SendEnds(i) PROVE Safe'
  BY <1>28 DEF SendEnds
<1>29. ASSUME NEW i \in Senders, SendFails(i) PROVE Safe'
  BY <1>29 DEF SendFails
<1>30. ASSUME NEW i \in Senders, SendGivesUp(i) PROVE Safe'
  BY <1>30 DEF SendGivesUp
<1>31. CASE UNCHANGED vars
  BY <1>31 DEF vars
<1> QED
  BY <1>1, <1>2, <1>3, <1>4, <1>5, <1>6, <1>7, <1>8, <1>9, <1>10, <1>11, <1>12, 
     <1>13, <1>14, <1>15, <1>16, <1>17, <1>18, <1>19, <1>20, <1>21, <1>22, <1>23, 
     <1>24, <1>25, <1>26, <1>27, <1>28, <1>29, <1>30, <1>31, 
     [Next]_vars DEF Next, Main, MainWait, Job, Reader, Send
\* The invariant holds before the first call.
LEMMA Initially ==
  ASSUME Init
  PROVE  IInv
<1>1. main \in [at : {"idle", "closing", "joining", "ready", "crashed"},
                conn : 0 .. MaxGeneration, next : {"none", "launch", "notify"}]
  BY BoundsAssumption DEF Init, Idle
<1>2. TypeOK
  <2>1. /\ job \in [Conn -> {"none", "connecting", "made", "accepted", "started",
                            "announce", "discard", "ended"}]
        /\ reader \in [Conn -> {"none", "reading", "checking", "calling",
                               "rejecting", "closing", "done"}]
    BY DEF Init
  <2>2. /\ running \in [Conn -> BOOLEAN] /\ socket \in [Conn -> BOOLEAN]
        /\ threadSet \in [Conn -> BOOLEAN] /\ rejecting \in [Conn -> 0 .. MaxGeneration]
    BY BoundsAssumption DEF Init
  <2>3. sender \in [Senders -> {"idle", "launched", "sending", "failed"}]
    BY DEF Init
  <2>4. /\ connectGeneration \in 0 .. MaxGeneration /\ tcpConn \in 0 .. MaxGeneration
        /\ opening \in Nat /\ depth \in 0 .. MaxDepth /\ callback \in 0 .. MaxDepth
    BY BoundsAssumption DEF Init
  <2>5. posted \subseteq Conn /\ finishing \in BOOLEAN
    BY DEF Init
  <2> QED
    BY <1>1, <2>1, <2>2, <2>3, <2>4, <2>5 DEF TypeOK
<1>3. Safe
  BY DEF Init, Safe, Conn, Idle, LockFree, CurrentIsLatest, Launched, Unmade,
         FlagGoesWithSocket, Held, Rejecting, NoSocketLeaks
<1> QED
  BY <1>2, <1>3 DEF IInv

\* The invariant from which the theorems below follow: it holds in every
\* state, for any number of calls of connect and close.
LEMMA Invariance ==
  Spec => []IInv
<1>1. ASSUME IInv, [Next]_vars PROVE IInv'
  BY <1>1, TypeStep, SafetyStep DEF IInv
<1> QED
  BY <1>1, Initially, PTL DEF Spec

\* Whatever the threads of the phone do, the variables of its connection
\* manager keep their types: an activity that is gone is not left again.
THEOREM TypeCorrectness ==
  Spec => []TypeOK
BY Invariance, PTL DEF IInv

\* However many connect calls overlap and in whatever order their
\* coroutines finish, the current connection is that of the latest call.
THEOREM LatestConnectionIsCurrent ==
  Spec => []CurrentIsLatest
<1>1. IInv => CurrentIsLatest
  BY DEF IInv, Safe
<1> QED
  BY <1>1, Invariance, PTL

\* However many connections were made, refused, superseded or lost, each
\* open socket still has somebody to close it.
THEOREM SocketsAreClosed ==
  Spec => []NoSocketLeaks
<1>1. IInv => NoSocketLeaks
  BY DEF IInv, Safe
<1> QED
  BY <1>1, Invariance, PTL
=============================================================================
