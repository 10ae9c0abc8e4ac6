----------------------------- MODULE WindowsApp -----------------------------
(***************************************************************************)
(* The Windows application: the server with its connections, the RTSP      *)
(* manager with its receiver, and the window that selects a device.        *)
(*                                                                         *)
(* Three threads.  The IO thread accepts phones, notices when they leave   *)
(* and updates the list of devices, without a lock, while the window's     *)
(* thread selects a device by its index.  The receiver's worker opens and  *)
(* reads the stream; the window's thread stops and joins it.               *)
(*                                                                         *)
(* The list belongs to the window's thread: a call of another thread that  *)
(* changes it is a message that this thread handles in its event loop, and *)
(* the caller waits until then.  A write to a phone waits until the phone  *)
(* takes it.                                                               *)
(*                                                                         *)
(* A phone that connects again is another device: its descriptor has a new *)
(* random URL.  An operation on one of the vectors is one step: what the   *)
(* data race inside it may do is left out.  A read beyond the end of a     *)
(* vector is undefined: the process goes on with anything or ends.         *)
(***************************************************************************)
EXTENDS Integers, Sequences

CONSTANT Devices   \* phones, each for one connection

NoDevice == "none"
ASSUME NoDeviceAssumption == NoDevice \notin Devices

VARIABLES
  alive,             \* the process has not been ended by an error
  link,              \* link[d]: the control connection of device d
  connections,       \* Server::connections
  accepting,         \* the acceptor is open
  ioRunning,         \* context has not been stopped
  io,                \* where the IO thread is in a handler, for whom, and its
                     \* currentSelectionIndex
  manager,           \* rtspManager exists
  descriptors,       \* Manager::descriptors
  streamingDevice,   \* Manager::streamingDevice
  choice,            \* the list in the window and its selected entry, 0 for none
  chosen,            \* the device the user has selected last
  gui,               \* where the window's thread is, and on the way to what
  isRunning,         \* Receiver::isRunning
  stopRequested,     \* state.stopRequested
  worker             \* where the worker thread is; "none": not joinable

serverVars == <<link, connections, accepting, ioRunning, io>>
deviceVars == <<manager, descriptors, streamingDevice, choice, chosen>>
receiverVars == <<isRunning, stopRequested, worker>>
vars == <<alive, serverVars, deviceVars, gui, receiverVars>>

IoIdle == [at |-> "idle", device |-> NoDevice, index |-> -1]

\* OnInit starts the server, and with it the IO thread, first.
Init ==
  /\ alive = TRUE
  /\ link = [d \in Devices |-> "none"]
  /\ connections = <<>>
  /\ accepting = TRUE
  /\ ioRunning = TRUE
  /\ io = IoIdle
  /\ manager = FALSE
  /\ descriptors = <<>>
  /\ streamingDevice = -1
  /\ choice = [items |-> <<>>, selected |-> 0]
  /\ chosen = NoDevice
  /\ gui = [at |-> "init", next |-> "connect"]
  /\ isRunning = FALSE
  /\ stopRequested = FALSE
  /\ worker = "none"

\* Uncaught: an exception in an event handler, a null pointer, a joinable
\* thread overwritten.
Terminate == /\ alive' = FALSE
             /\ UNCHANGED <<serverVars, deviceVars, gui, receiverVars>>

-----------------------------------------------------------------------------
(***************************************************************************)
(* The IO thread                                                           *)
(***************************************************************************)

IoAt(place) == io.at = place

IoGoesTo(place) == io' = IF place = "idle" THEN IoIdle ELSE [io EXCEPT !.at = place]

\* A descriptor arrives within eight seconds and is well formed.
AcceptDevice(d) ==
  /\ IoAt("idle") /\ ioRunning /\ accepting
  /\ link[d] = "none"
  /\ link' = [link EXCEPT ![d] = "open"]
  /\ connections' = Append(connections, d)
  /\ io' = [IoIdle EXCEPT !.at = "connected", !.device = d]
  /\ UNCHANGED <<alive, accepting, ioRunning, deviceVars, gui, receiverVars>>

\* It does not.
RejectDescriptor(d) ==
  /\ IoAt("idle") /\ ioRunning /\ accepting
  /\ link[d] = "none"
  /\ link' = [link EXCEPT ![d] = "closed"]
  /\ UNCHANGED <<alive, connections, accepting, ioRunning, io, deviceVars, gui,
                 receiverVars>>

\* OnDeviceConnected.
AddDescriptor ==
  /\ IoAt("connected")
  /\ manager
  /\ descriptors' = Append(descriptors, io.device)
  /\ IoGoesTo("update")
  /\ UNCHANGED <<alive, link, connections, accepting, ioRunning, manager,
                 streamingDevice, choice, chosen, gui, receiverVars>>

\* The phone left, or sent a report that is too long or malformed: Close,
\* once, unless the server has closed the connection itself.
ReadFails(d) ==
  /\ IoAt("idle") /\ ioRunning
  /\ link[d] = "open"
  /\ link' = [link EXCEPT ![d] = "closed"]
  /\ io' = [IoIdle EXCEPT !.at = "disconnected", !.device = d]
  /\ UNCHANGED <<alive, connections, accepting, ioRunning, deviceVars, gui,
                 receiverVars>>

\* The erase-remove idiom; no vector holds a device twice.
Places(s, d) == {i \in 1 .. Len(s) : s[i] = d}
Without(s, d) ==
  IF Places(s, d) = {} THEN s
  ELSE LET i == CHOOSE p \in Places(s, d) : TRUE
       IN SubSeq(s, 1, i - 1) \o SubSeq(s, i + 1, Len(s))

EraseConnection ==
  /\ IoAt("disconnected")
  /\ connections' = Without(connections, io.device)
  /\ IoGoesTo("notify")
  /\ UNCHANGED <<alive, link, accepting, ioRunning, deviceVars, gui, receiverVars>>

\* OnDeviceDisconnected looks at the descriptor of streamingDevice, which may
\* no longer exist, to decide whether the canvas is to be cleared.
CompareStreaming ==
  /\ IoAt("notify")
  /\ manager
  /\ IoGoesTo("remove")
  /\ alive' \in IF streamingDevice < Len(descriptors) THEN {TRUE} ELSE BOOLEAN
  /\ UNCHANGED <<link, connections, accepting, ioRunning, deviceVars, gui,
                 receiverVars>>

\* Mutant of RemoveDescriptor: the descriptor at the end is dropped.
RemoveDescriptorLast ==
  /\ IoAt("remove")
  /\ manager
  /\ descriptors' = SubSeq(descriptors, 1, Len(descriptors) - 1)
  /\ IoGoesTo("update")
  /\ UNCHANGED <<alive, link, connections, accepting, ioRunning, manager,
                 streamingDevice, choice, chosen, gui, receiverVars>>

\* By value.  With one argument, erase needs an element: if there is none to
\* remove, what happens is undefined.
RemoveDescriptor ==
  /\ IoAt("remove")
  /\ manager
  /\ descriptors' = Without(descriptors, io.device)
  /\ alive' \in IF Places(descriptors, io.device) # {} THEN {TRUE} ELSE BOOLEAN
  /\ IoGoesTo("update")
  /\ UNCHANGED <<link, connections, accepting, ioRunning, manager,
                 streamingDevice, choice, chosen, gui, receiverVars>>

\* Mutant of Selection: the index is restored without a look at the list.
SelectionUnchecked == io.index + 1

\* The entry of currentSelectionIndex, if there is one.
Selection ==
  IF io.index >= 0 /\ io.index < Len(descriptors) THEN io.index + 1 ELSE 0

\* The index of the stream's device is read before the list is touched.
UpdateAvailableDevices ==
  /\ IoAt("update")
  /\ manager
  /\ io' = [io EXCEPT !.at = "clear", !.index = streamingDevice]
  /\ UNCHANGED <<alive, link, connections, accepting, ioRunning, deviceVars, gui,
                 receiverVars>>

\* The window's thread is in its event loop, where it carries out what
\* another thread asks of a widget.
InEventLoop == gui.at = "idle"

\* choice->Clear.
ClearChoice ==
  /\ IoAt("clear")
  /\ InEventLoop
  /\ choice' = [items |-> <<>>, selected |-> 0]
  /\ IoGoesTo("devices")
  /\ UNCHANGED <<alive, link, connections, accepting, ioRunning, manager,
                 descriptors, streamingDevice, chosen, gui, receiverVars>>

\* rtspManager->GetDescriptors.
ReadDescriptors ==
  /\ IoAt("devices")
  /\ manager
  /\ IoGoesTo("fill")
  /\ UNCHANGED <<alive, link, connections, accepting, ioRunning, deviceVars, gui,
                 receiverVars>>

\* choice->Append, once for each descriptor.
AppendChoice ==
  /\ IoAt("fill")
  /\ InEventLoop
  /\ Len(choice.items) < Len(descriptors)
  /\ choice' = [choice EXCEPT !.items = Append(@, descriptors[Len(@) + 1])]
  /\ UNCHANGED <<alive, serverVars, manager, descriptors, streamingDevice, chosen,
                 gui, receiverVars>>

\* choice->SetSelection, with an index that was read before the window's
\* thread had its turns.
SetSelection ==
  /\ IoAt("fill")
  /\ InEventLoop
  /\ Len(choice.items) = Len(descriptors)
  /\ choice' = [choice EXCEPT !.selected = Selection]
  /\ IoGoesTo("idle")
  /\ UNCHANGED <<alive, link, connections, accepting, ioRunning, manager,
                 descriptors, streamingDevice, chosen, gui, receiverVars>>

\* A handler runs before OnInit has created the manager or after the window's
\* close handler has destroyed it.
ManagerMissing ==
  /\ io.at \in {"connected", "notify", "remove", "update", "devices"}
  /\ ~manager
  /\ Terminate

\* The manager is destroyed between two Appends: the next descriptor is read
\* from freed memory, which ends the process or goes unnoticed.
DanglingDescriptors ==
  /\ IoAt("fill")
  /\ ~manager
  /\ Terminate

IoHandler == \/ AddDescriptor \/ EraseConnection \/ CompareStreaming
             \/ RemoveDescriptor \/ UpdateAvailableDevices \/ ClearChoice
             \/ ReadDescriptors \/ AppendChoice \/ SetSelection \/ ManagerMissing

-----------------------------------------------------------------------------
(***************************************************************************)
(* The window's thread                                                     *)
(***************************************************************************)

GuiAt(place) == gui.at = place

GuiGoesTo(place) == gui' = [gui EXCEPT !.at = place]

\* The rest of OnInit.
CreateManager ==
  /\ GuiAt("init")
  /\ manager' = TRUE
  /\ GuiGoesTo("idle")
  /\ UNCHANGED <<alive, serverVars, descriptors, streamingDevice, choice, chosen,
                 receiverVars>>

\* The user picks entry i.  The placeholder means nothing; any other entry is
\* an index into the descriptors, which the IO thread may have shortened.
OnSourceChanged(i) ==
  /\ GuiAt("idle")
  /\ choice' = [choice EXCEPT !.selected = i]
  /\ IF i = 0 \/ descriptors = <<>>
     THEN UNCHANGED <<alive, streamingDevice, chosen, gui>>
     ELSE /\ streamingDevice' = i - 1
          /\ chosen' = IF i <= Len(descriptors) THEN descriptors[i] ELSE NoDevice
          /\ gui' = [at |-> "stop", next |-> "connect"]
          /\ alive' \in IF i <= Len(descriptors) THEN {TRUE} ELSE BOOLEAN
  /\ UNCHANGED <<serverVars, manager, descriptors, receiverVars>>

\* The window is closed: rtspManager is null from now on, while ~Receiver
\* stops the worker; then comes Server::Close.
CloseWindow ==
  /\ GuiAt("idle")
  /\ manager' = FALSE
  /\ gui' = [at |-> "stop", next |-> "close"]
  /\ UNCHANGED <<alive, serverVars, descriptors, streamingDevice, choice, chosen,
                 receiverVars>>

Stopped == IF gui.next = "connect" THEN "activate" ELSE "close"

\* Receiver::Stop.
Stop ==
  /\ GuiAt("stop")
  /\ IF isRunning THEN isRunning' = FALSE /\ GuiGoesTo("request")
                  ELSE UNCHANGED isRunning /\ GuiGoesTo(Stopped)
  /\ UNCHANGED <<alive, serverVars, deviceVars, stopRequested, worker>>

RequestStop ==
  /\ GuiAt("request")
  /\ stopRequested' = TRUE
  /\ GuiGoesTo("join")
  /\ UNCHANGED <<alive, serverVars, deviceVars, isRunning, worker>>

JoinWorker ==
  /\ GuiAt("join")
  /\ worker = "exited"
  /\ worker' = "none"
  /\ GuiGoesTo(Stopped)
  /\ UNCHANGED <<alive, serverVars, deviceVars, isRunning, stopRequested>>

\* The index names a connection to send to.
Connected == streamingDevice < Len(connections)

\* ACTIVATION to the connection at the index: the write takes as long as the
\* phone does not read, and throws when the phone has gone.
SendActivation ==
  /\ GuiAt("activate")
  /\ Connected
  /\ GuiGoesTo("start")
  /\ alive' \in BOOLEAN
  /\ UNCHANGED <<serverVars, deviceVars, receiverVars>>

\* There is no such connection.
SendNothing ==
  /\ GuiAt("activate")
  /\ ~Connected
  /\ GuiGoesTo("start")
  /\ UNCHANGED <<alive, serverVars, deviceVars, receiverVars>>

\* Receiver::Start.
Start ==
  /\ GuiAt("start")
  /\ GuiGoesTo("idle")
  /\ alive' = (worker = "none")
  /\ isRunning' = TRUE
  /\ worker' = "top"
  /\ UNCHANGED <<serverVars, deviceVars, stopRequested>>

\* Server::Close: the acceptor and every connection, then the IO thread.
CloseConnections ==
  /\ GuiAt("close")
  /\ accepting' = FALSE
  /\ link' = [d \in Devices |-> IF \E i \in DOMAIN connections : connections[i] = d
                                THEN "closed" ELSE link[d]]
  /\ GuiGoesTo("stopIo")
  /\ UNCHANGED <<alive, connections, ioRunning, io, deviceVars, receiverVars>>

StopContext ==
  /\ GuiAt("stopIo")
  /\ ioRunning' = FALSE
  /\ GuiGoesTo("joinIo")
  /\ UNCHANGED <<alive, link, connections, accepting, io, deviceVars, receiverVars>>

JoinIo ==
  /\ GuiAt("joinIo")
  /\ IoAt("idle")
  /\ GuiGoesTo("exit")
  /\ UNCHANGED <<alive, serverVars, deviceVars, receiverVars>>

GuiHandler == \/ CreateManager \/ Stop \/ RequestStop \/ JoinWorker
              \/ SendNothing \/ Start \/ CloseConnections
              \/ StopContext \/ JoinIo

-----------------------------------------------------------------------------
(***************************************************************************)
(* The receiver's worker                                                   *)
(***************************************************************************)

WorkerMoves(from, to) ==
  /\ worker = from
  /\ worker' = to
  /\ UNCHANGED <<alive, serverVars, deviceVars, gui, isRunning>>

\* WorkerFunc's test.
WorkerTest == /\ WorkerMoves("top", IF isRunning THEN "open" ELSE "exited")
              /\ UNCHANGED stopRequested

\* OpenConnection clears the flag, even if it was set a moment ago.
OpenConnection == WorkerMoves("open", "opening") /\ stopRequested' = FALSE

\* A stream and a decoder are found, or not.
Opened == /\ WorkerMoves("opening", "loop") \/ WorkerMoves("opening", "retry")
          /\ UNCHANGED stopRequested

\* Loop's test.
LoopTest == /\ WorkerMoves("loop", IF isRunning THEN "reading" ELSE "retry")
            /\ UNCHANGED stopRequested

\* av_read_frame returns a packet, whose frames go to the callback, or fails.
ReadFrame == /\ WorkerMoves("reading", "loop") \/ WorkerMoves("reading", "retry")
             /\ UNCHANGED stopRequested

Blocked == worker \in {"opening", "reading"}

\* Mutant of TimedOut: the callback does not look at the clock.
TimedOutNever == FALSE

\* Three seconds without activity.  Time is not modelled: it may be so
\* whenever a call is blocked.
TimedOut == Blocked

\* FFmpegInterrupt::Callback aborts the blocked call.
Interrupted ==
  /\ Blocked
  /\ stopRequested \/ TimedOut
  /\ worker' = "retry"
  /\ UNCHANGED <<alive, serverVars, deviceVars, gui, isRunning, stopRequested>>

\* Mutant of Retry: a lost stream ends the worker.
RetryGivesUp ==
  /\ worker = "retry"
  /\ worker' = "exited"
  /\ isRunning' = FALSE
  /\ UNCHANGED <<alive, serverVars, deviceVars, gui, stopRequested>>

\* After the cleanup, and half a second if it is to go on.
Retry == WorkerMoves("retry", "top") /\ UNCHANGED stopRequested

WorkerLocal == WorkerTest \/ OpenConnection \/ LoopTest \/ Interrupted \/ Retry

-----------------------------------------------------------------------------
Next ==
  /\ alive
  /\ \/ \E d \in Devices : AcceptDevice(d) \/ RejectDescriptor(d) \/ ReadFails(d)
     \/ IoHandler \/ DanglingDescriptors
     \/ GuiHandler \/ SendActivation
     \/ CloseWindow
     \/ \E i \in 0 .. Len(choice.items) : OnSourceChanged(i)
     \/ WorkerLocal \/ Opened \/ ReadFrame

Spec == Init /\ [][Next]_vars

\* The three threads are scheduled; a handler that has begun goes on unless
\* it waits for another thread.  Nothing is assumed of phones and streams: a
\* write to a phone need not return.
Fairness == /\ WF_vars(alive /\ IoHandler)
            /\ WF_vars(alive /\ GuiHandler)
            /\ WF_vars(alive /\ WorkerLocal)

FairSpec == Spec /\ Fairness

-----------------------------------------------------------------------------
(***************************************************************************)
(* Properties                                                              *)
(***************************************************************************)

TypeOK ==
  /\ alive \in BOOLEAN
  /\ link \in [Devices -> {"none", "open", "closed"}]
  /\ connections \in Seq(Devices)
  /\ accepting \in BOOLEAN /\ ioRunning \in BOOLEAN
  /\ io \in [at : {"idle", "connected", "disconnected", "notify", "remove", "update",
                  "clear", "devices", "fill"},
            device : Devices \cup {NoDevice}, index : Int]
  /\ io.at # "idle" => io.device \in Devices
  /\ manager \in BOOLEAN
  /\ descriptors \in Seq(Devices)
  /\ streamingDevice \in Int /\ streamingDevice >= -1
  /\ choice \in [items : Seq(Devices), selected : Nat]
  /\ choice.selected <= Len(choice.items)
  /\ chosen \in Devices \cup {NoDevice}
  /\ gui \in [at : {"init", "idle", "stop", "request", "join", "activate", "start",
                   "close", "stopIo", "joinIo", "exit"},
             next : {"connect", "close"}]
  /\ isRunning \in BOOLEAN /\ stopRequested \in BOOLEAN
  /\ worker \in {"none", "top", "open", "opening", "loop", "reading", "retry", "exited"}

\* One index addresses two vectors in two classes: Manager takes the URL from
\* descriptors, Server the socket from connections.  Whenever the IO thread
\* is between handlers they list the same devices in the same order, and in
\* a handler the descriptor that erase is to remove is there, once.
IndexesAgree ==
  alive /\ manager =>
    /\ io.at = "idle" => connections = descriptors
    /\ io.at = "remove" => \E i \in 1 .. Len(descriptors) :
                             Places(descriptors, io.device) = {i}

\* Start assigns to workerThread, which ends the process if the old thread
\* was not joined; it always was.
ThreadIsJoined == gui.at \in {"activate", "start"} => worker = "none" /\ ~isRunning

\* The window's thread is in the write of an activation.
WaitsForPhone == gui.at = "activate" /\ Connected

\* Server::Close joins the IO thread, which waits for the window's thread to
\* change the list: neither ever goes on.
WaitForEachOther == gui.at = "joinIo" /\ io.at \in {"clear", "fill"}

\* Selecting a device and closing the window wait for the worker and for the
\* IO thread.  They return although the worker may clear a stop request that
\* has just been made, and although the stream may never answer.  The window
\* is stuck only in a write to a phone that does not read, or when it is
\* closed while the IO thread is at the list.
GuiResponds ==
  gui.at \notin {"idle", "exit"} ~>
    gui.at \in {"idle", "exit"} \/ ~alive \/ WaitsForPhone \/ WaitForEachOther

\* "If the previously selected device is gone, or we stopped, select nothing"
\* (application.cpp): once the device the user has selected has left, the list
\* shows none.
GoneDeviceIsDeselected ==
  alive /\ io.at = "idle" /\ gui.at = "idle"
        /\ chosen \in Devices /\ Places(descriptors, chosen) = {}
    => choice.selected = 0
=============================================================================
