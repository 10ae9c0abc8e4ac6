---------------------------- MODULE MediaPipeline ----------------------------
(***************************************************************************)
(* The Linux controller's media worker and the session loop that owns it.  *)
(*                                                                         *)
(* handleClient creates a MediaPipeline per session, starts its thread,    *)
(* polls its state every quarter of a second while it watches the control  *)
(* socket, and stops and joins the thread before it returns.  The thread   *)
(* acquires its resources one by one, copies frames from the RTSP source   *)
(* to the loopback device, and returns through one of many cleanup paths.  *)
(* The two share three objects: the atomic state, the atomic stop flag and *)
(* the error message under its mutex.                                      *)
(***************************************************************************)
EXTENDS Naturals, Sequences, FiniteSets

CONSTANT Sessions   \* bound: sessions of the controller, one after another

ASSUME SessionsAssumption == Sessions \in Nat \ {0}

\* The steps of run before the frame loop, in order.
Setup == <<"network", "context", "open", "info", "video", "decoder", "device",
           "configure", "frames", "buffer">>

\* What a step leaves allocated when it succeeds.
Acquires(step) ==
  CASE step = "network" -> {"network"}
    [] step = "context" -> {"input"}
    [] step = "decoder" -> {"decoder"}
    [] step = "device"  -> {"device"}
    [] step = "frames"  -> {"frames"}
    [] OTHER            -> {}

\* What a step may leave allocated when it fails: a decoder context that does
\* not open, one of the frames and not the others.
Partial(step) == IF step \in {"decoder", "frames"} THEN Acquires(step) ELSE {}

\* Network steps: they may block and are cut off by interruptCallback, and
\* after a stop request their failure is not reported.
Interruptible == {"open", "info"}

\* Mutant of Releases: the device is left open when it cannot be configured.
ReleasesLeaking(step) ==
  CASE step = "network" -> {}
    [] step = "context" -> {"network"}
    [] step \in {"open", "info", "video"} -> {"network", "input"}
    [] step \in {"decoder", "device", "configure"} -> {"network", "input", "decoder"}
    [] OTHER -> {"network", "input", "decoder", "device", "frames"}

\* What the early return of a failed step frees.
Releases(step) ==
  CASE step = "network" -> {}
    [] step = "context" -> {"network"}
    [] step \in {"open", "info", "video"} -> {"network", "input"}
    [] step \in {"decoder", "device"} -> {"network", "input", "decoder"}
    [] step = "configure" -> {"network", "input", "decoder", "device"}
    [] OTHER -> {"network", "input", "decoder", "device", "frames"}

VARIABLES
  owner,           \* where the session loop is
  seen,            \* the state the session loop has read last
  session,         \* the number of the session
  worker,          \* where the thread is, "none" before start and after join
  step,            \* the setup step the thread is at
  held,            \* what the thread has allocated
  successful,      \* run's flag
  state,           \* state_
  stopRequested,   \* stopRequested_
  errorMessage     \* whether errorMessage_ holds a message

ownerVars == <<owner, seen, session>>
workerVars == <<worker, step, held, successful>>
vars == <<ownerVars, workerVars, state, stopRequested, errorMessage>>

Resources == {"network", "input", "decoder", "device", "frames"}

TypeOK ==
  /\ owner \in {"create", "poll", "wait", "report", "stop", "join", "settle", "end"}
  /\ seen \in {"Stopped", "Starting", "Running", "Failed"}
  /\ session \in 1 .. Sessions
  /\ worker \in {"none", "setup", "message", "failed", "free", "loop", "read",
                 "frame", "release", "verdict", "verdict2", "exited"}
  /\ step \in 1 .. Len(Setup)
  /\ held \subseteq Resources
  /\ successful \in BOOLEAN
  /\ state \in {"Stopped", "Starting", "Running", "Failed"}
  /\ stopRequested \in BOOLEAN
  /\ errorMessage \in BOOLEAN

Init ==
  /\ owner = "create" /\ seen = "Stopped" /\ session = 1
  /\ worker = "none" /\ step = 1 /\ held = {} /\ successful = TRUE
  /\ state = "Stopped" /\ stopRequested = FALSE /\ errorMessage = FALSE

-----------------------------------------------------------------------------
(***************************************************************************)
(* The session loop of handleClient                                        *)
(***************************************************************************)

\* start: the shared objects are reset, then the thread is created.
Start ==
  /\ owner = "create"
  /\ stopRequested' = FALSE
  /\ errorMessage' = FALSE
  /\ state' = "Starting"
  /\ worker' = "setup" /\ step' = 1 /\ held' = {} /\ successful' = TRUE
  /\ owner' = "poll"
  /\ UNCHANGED <<seen, session>>

\* Mutant of ReadState: the loop does not look for Failed.
ReadStateStopped ==
  /\ owner = "poll"
  /\ seen' = state
  /\ owner' = IF state = "Stopped" THEN "report" ELSE "wait"
  /\ UNCHANGED <<session, workerVars, state, stopRequested, errorMessage>>

\* The loop reads the state; a worker that is no longer at work ends it.
ReadState ==
  /\ owner = "poll"
  /\ seen' = state
  /\ owner' = IF state \in {"Failed", "Stopped"} THEN "report" ELSE "wait"
  /\ UNCHANGED <<session, workerVars, state, stopRequested, errorMessage>>

\* The error is read after the state, under the mutex, and logged.
Report ==
  /\ owner = "report"
  /\ owner' = "stop"
  /\ UNCHANGED <<seen, session, workerVars, state, stopRequested, errorMessage>>

\* poll returned nothing, was interrupted, or an error report came in.
PollAgain ==
  /\ owner = "wait"
  /\ owner' = "poll"
  /\ UNCHANGED <<seen, session, workerVars, state, stopRequested, errorMessage>>

\* The phone hung up or sent something else.
PhoneLeaves ==
  /\ owner = "wait"
  /\ owner' = "stop"
  /\ UNCHANGED <<seen, session, workerVars, state, stopRequested, errorMessage>>

\* stop, its three parts.  The destructor calls it once more, which finds
\* no thread to join and changes nothing.
RequestStop ==
  /\ owner = "stop"
  /\ stopRequested' = TRUE
  /\ owner' = "join"
  /\ UNCHANGED <<seen, session, workerVars, state, errorMessage>>

Join ==
  /\ owner = "join"
  /\ worker = "exited"
  /\ worker' = "none"
  /\ owner' = "settle"
  /\ UNCHANGED <<seen, session, step, held, successful, state, stopRequested,
                 errorMessage>>

\* Mutant of Settle: the final state is not written.
SettleMissing ==
  /\ owner = "settle"
  /\ owner' = "end"
  /\ UNCHANGED <<seen, session, workerVars, state, stopRequested, errorMessage>>

\* Mutant of Settle: a failure is overwritten.
SettleAlways ==
  /\ owner = "settle"
  /\ state' = "Stopped"
  /\ owner' = "end"
  /\ UNCHANGED <<seen, session, workerVars, stopRequested, errorMessage>>

Settle ==
  /\ owner = "settle"
  /\ state' = IF state # "Failed" THEN "Stopped" ELSE state
  /\ owner' = "end"
  /\ UNCHANGED <<seen, session, workerVars, stopRequested, errorMessage>>

\* handleClient returned; main accepts the next phone, whose session has a
\* MediaPipeline of its own.
NextSession ==
  /\ owner = "end"
  /\ session < Sessions
  /\ session' = session + 1
  /\ owner' = "create"
  /\ state' = "Stopped"
  /\ stopRequested' = FALSE
  /\ errorMessage' = FALSE
  /\ UNCHANGED <<seen, workerVars>>

-----------------------------------------------------------------------------
(***************************************************************************)
(* run: setup                                                              *)
(***************************************************************************)

AtSetup == worker = "setup"

\* Mutant of SetupSucceeds: one step too many.
SetupSucceedsTwice ==
  /\ AtSetup
  /\ held' = held \cup Acquires(Setup[step])
  /\ step' = step + 1
  /\ worker' = IF step > Len(Setup) THEN "loop" ELSE worker
  /\ UNCHANGED <<ownerVars, state, successful, stopRequested, errorMessage>>

\* The step succeeds; after the last one the worker is Running.
SetupSucceeds ==
  /\ AtSetup
  /\ held' = held \cup Acquires(Setup[step])
  /\ IF step < Len(Setup)
     THEN step' = step + 1 /\ UNCHANGED <<worker, state>>
     ELSE worker' = "loop" /\ state' = "Running" /\ UNCHANGED step
  /\ UNCHANGED <<ownerVars, successful, stopRequested, errorMessage>>

\* Mutant of SetupFails: an early return that reports nothing.
SetupFailsQuietly ==
  /\ AtSetup
  /\ Setup[step] \in Interruptible => ~stopRequested
  /\ \E partial \in SUBSET Partial(Setup[step]) : held' = held \cup partial
  /\ worker' = "free"
  /\ UNCHANGED <<ownerVars, step, successful, state, stopRequested, errorMessage>>

\* The step fails and the failure is reported.
SetupFails ==
  /\ AtSetup
  /\ Setup[step] \in Interruptible => ~stopRequested
  /\ \E partial \in SUBSET Partial(Setup[step]) : held' = held \cup partial
  /\ worker' = "message"
  /\ UNCHANGED <<ownerVars, step, successful, state, stopRequested, errorMessage>>

\* A network step is cut off by the stop request.
SetupInterrupted ==
  /\ AtSetup
  /\ Setup[step] \in Interruptible
  /\ stopRequested
  /\ worker' = "free"
  /\ UNCHANGED <<ownerVars, step, held, successful, state, stopRequested, errorMessage>>

\* Mutant of SetMessage: the state is published before the message.
SetMessageLate ==
  /\ worker = "message"
  /\ state' = "Failed"
  /\ worker' = "failed"
  /\ UNCHANGED <<ownerVars, step, held, successful, errorMessage, stopRequested>>

\* setFailure: first the message, under the mutex ...
SetMessage ==
  /\ worker = "message"
  /\ errorMessage' = TRUE
  /\ worker' = "failed"
  /\ UNCHANGED <<ownerVars, step, held, successful, state, stopRequested>>

\* ... then the state.  On an early return the cleanup comes afterwards.
SetFailed ==
  /\ worker = "failed"
  /\ state' = "Failed"
  /\ worker' = IF held # {} THEN "free" ELSE "exited"
  /\ UNCHANGED <<ownerVars, step, held, successful, stopRequested, errorMessage>>

FreeAndReturn ==
  /\ worker = "free"
  /\ held' = held \ Releases(Setup[step])
  /\ worker' = "exited"
  /\ UNCHANGED <<ownerVars, step, successful, state, stopRequested, errorMessage>>

-----------------------------------------------------------------------------
(***************************************************************************)
(* run: the frame loop                                                     *)
(***************************************************************************)

LoopTest ==
  /\ worker = "loop"
  /\ worker' = IF stopRequested THEN "release" ELSE "read"
  /\ UNCHANGED <<ownerVars, step, held, successful, state, stopRequested, errorMessage>>

\* av_read_frame returns a packet.
ReadPacket ==
  /\ worker = "read"
  /\ worker' = "frame"
  /\ UNCHANGED <<ownerVars, step, held, successful, state, stopRequested, errorMessage>>

\* av_read_frame fails by itself or times out.  The flag is read after it:
\* a failure that a stop request explains is none.
ReadFails ==
  /\ worker = "read"
  /\ successful' = stopRequested
  /\ worker' = "release"
  /\ UNCHANGED <<ownerVars, step, held, state, stopRequested, errorMessage>>

\* Mutant of ReadInterrupted: no interrupt callback is installed.
ReadInterruptedNever == FALSE /\ UNCHANGED vars

\* av_read_frame is cut off by interruptCallback.
ReadInterrupted ==
  /\ worker = "read"
  /\ stopRequested
  /\ worker' = "release"
  /\ UNCHANGED <<ownerVars, step, held, successful, state, stopRequested, errorMessage>>

\* The packet is decoded, its frames are scaled and written.
FrameWritten ==
  /\ worker = "frame"
  /\ worker' = "loop"
  /\ UNCHANGED <<ownerVars, step, held, successful, state, stopRequested, errorMessage>>

\* The device cannot take the frame, or stop was requested while the write
\* waited: drainDecodedFrames returns what the flag says by then.
WriteFails ==
  /\ worker = "frame"
  /\ successful' = stopRequested
  /\ worker' = IF stopRequested THEN "loop" ELSE "release"
  /\ UNCHANGED <<ownerVars, step, held, state, stopRequested, errorMessage>>

\* The decoder or the scaler fails.
DecodeFails ==
  /\ worker = "frame"
  /\ successful' = FALSE
  /\ worker' = "release"
  /\ UNCHANGED <<ownerVars, step, held, state, stopRequested, errorMessage>>

\* After the loop everything is freed before a failure is published.
Release ==
  /\ worker = "release"
  /\ held' = {}
  /\ worker' = "verdict"
  /\ UNCHANGED <<ownerVars, step, successful, state, stopRequested, errorMessage>>

\* The first look at the flag: was this a failure nobody asked for?
Verdict ==
  /\ worker = "verdict"
  /\ worker' = IF ~stopRequested /\ ~successful THEN "message" ELSE "verdict2"
  /\ UNCHANGED <<ownerVars, step, held, successful, state, stopRequested, errorMessage>>

\* The second look: an end nobody asked for is a failure all the same.
Verdict2 ==
  /\ worker = "verdict2"
  /\ worker' = IF stopRequested THEN "exited" ELSE "message"
  /\ UNCHANGED <<ownerVars, step, held, successful, state, stopRequested, errorMessage>>

-----------------------------------------------------------------------------
SessionLoop == \/ Start \/ ReadState \/ Report \/ PollAgain \/ PhoneLeaves
               \/ RequestStop \/ Join \/ Settle \/ NextSession

\* What the thread does on its own, without waiting for anybody.
Local == \/ SetMessage \/ SetFailed \/ FreeAndReturn \/ LoopTest \/ Release
         \/ Verdict \/ Verdict2

\* Setup steps that only use memory and the loopback device.
LocalSetup == Setup[step] \notin Interruptible /\ (SetupSucceeds \/ SetupFails)

NetworkSetup == Setup[step] \in Interruptible /\ (SetupSucceeds \/ SetupFails)

Frame == FrameWritten \/ WriteFails \/ DecodeFails

Run == \/ Local \/ LocalSetup \/ NetworkSetup \/ SetupInterrupted \/ ReadPacket
       \/ ReadFails \/ ReadInterrupted \/ Frame

Next == SessionLoop \/ Run

Spec == Init /\ [][Next]_vars

\* The scheduler runs both threads.  Nothing is assumed of the source: a
\* network call returns only because interruptCallback tells it to.
Fairness ==
  /\ WF_vars(ReadState) /\ WF_vars(Report) /\ WF_vars(PollAgain)
  /\ WF_vars(RequestStop) /\ WF_vars(Join) /\ WF_vars(Settle)
  /\ WF_vars(Local) /\ WF_vars(LocalSetup) /\ WF_vars(SetupInterrupted)
  /\ WF_vars(ReadInterrupted) /\ WF_vars(Frame)

FairSpec == Spec /\ Fairness

-----------------------------------------------------------------------------
(***************************************************************************)
(* Properties                                                              *)
(***************************************************************************)

\* A session loop that has seen Failed finds the reason when it asks for it,
\* although the two are published in separate steps of another thread.
FailureHasReason == state = "Failed" => errorMessage

\* Whichever of its returns the thread takes, at whatever moment stop is
\* requested, it has given back everything: the loopback device is free for
\* the next session.
NothingLeaks == worker \in {"none", "exited"} => held = {}

\* A thread that ended without having been asked to has said so: otherwise
\* the session would go on with nobody feeding the camera.
NoSilentExit == worker = "exited" /\ ~stopRequested => state = "Failed"

\* When handleClient returns, the thread is joined, and the pipeline is
\* Stopped or Failed, never Running or Starting.
SettledAtEnd == owner = "end" => worker = "none" /\ state \in {"Stopped", "Failed"}

\* A failure is final: nothing the thread or stop does afterwards turns it
\* into a success; only the next session starts afresh.
FailureIsFinal == [][state = "Failed" => state' = "Failed" \/ session' # session]_vars

\* A stop request ends the session although the source never answers again.
StopCompletes == owner = "stop" ~> owner = "end"

\* A worker that has failed ends the session without the phone's help.
FailureEndsSession == state = "Failed" ~> owner = "end"
=============================================================================
