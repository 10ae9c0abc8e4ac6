------------------------ MODULE MediaPipelineProofs ------------------------
(***************************************************************************)
(* MediaPipeline for any number of sessions: what the worker holds at each *)
(* of its exits, what it has published, and what handleClient finds when   *)
(* the thread is joined.                                                   *)
(*                                                                         *)
(* The inductive invariant says, for every place of the thread, what it    *)
(* has allocated, and ties the stop flag to the place of the session loop. *)
(***************************************************************************)
EXTENDS MediaPipeline, TLAPS

\* What is allocated when setup step number i begins.
HeldBefore(i) ==
  CASE i = 1 -> {}
    [] i = 2 -> {"network"}
    [] i \in 3 .. 6 -> {"network", "input"}
    [] i = 7 -> {"network", "input", "decoder"}
    [] i \in 8 .. 9 -> {"network", "input", "decoder", "device"}
    [] OTHER -> Resources

\* The thread's place determines what it holds.
HeldInv ==
  /\ worker = "setup" => held = HeldBefore(step)
  /\ worker \in {"message", "failed", "free"}
       => held \subseteq HeldBefore(step) \cup Partial(Setup[step])
  /\ worker \in {"none", "verdict", "verdict2", "exited"} => held = {}

\* What the thread has published by the time it is at a place.
PublishedInv ==
  /\ FailureHasReason
  /\ worker = "failed" => errorMessage
  /\ worker = "setup" => state = "Starting"
  /\ worker \in {"free", "exited"} /\ ~stopRequested => state = "Failed"

\* The session loop's place determines the flag and whether a thread exists.
OwnerInv ==
  /\ owner \in {"create", "settle", "end"} <=> worker = "none"
  /\ stopRequested <=> owner \in {"join", "settle", "end"}
  /\ owner = "create" => state = "Stopped"
  /\ owner = "end" => state \in {"Stopped", "Failed"}

IInv == TypeOK /\ HeldInv /\ PublishedInv /\ OwnerInv

-----------------------------------------------------------------------------
\* Every early return frees at least what its step has found allocated.
LEMMA ReleasesAll ==
  ASSUME NEW i \in 1 .. Len(Setup)
  PROVE  (HeldBefore(i) \cup Partial(Setup[i])) \ Releases(Setup[i]) = {}
<1>1. Len(Setup) = 10
  BY DEF Setup
<1>2. \/ i = 1 \/ i = 2 \/ i = 3 \/ i = 4 \/ i = 5
      \/ i = 6 \/ i = 7 \/ i = 8 \/ i = 9 \/ i = 10
  BY <1>1
<1>3. QED
  BY <1>2 DEF HeldBefore, Partial, Acquires, Releases, Setup, Resources

\* A setup step that succeeds leaves what the next one expects.
LEMMA AcquiresNext ==
  ASSUME NEW i \in 1 .. Len(Setup)
  PROVE  /\ i < Len(Setup) => HeldBefore(i) \cup Acquires(Setup[i]) = HeldBefore(i + 1)
         /\ HeldBefore(i) \cup Acquires(Setup[i]) \subseteq Resources
<1>1. Len(Setup) = 10
  BY DEF Setup
<1>2. \/ i = 1 \/ i = 2 \/ i = 3 \/ i = 4 \/ i = 5
      \/ i = 6 \/ i = 7 \/ i = 8 \/ i = 9 \/ i = 10
  BY <1>1
<1>3. QED
  BY <1>1, <1>2 DEF HeldBefore, Acquires, Setup, Resources

-----------------------------------------------------------------------------
\* A pipeline that was only created holds nothing.
LEMMA InitIInv == Init => IInv
<1> SUFFICES ASSUME Init PROVE IInv
  OBVIOUS
<1>1. Len(Setup) = 10
  BY DEF Setup
<1>2. session \in 1 .. Sessions /\ step \in 1 .. Len(Setup)
  BY <1>1, SessionsAssumption DEF Init
<1>3. TypeOK
  BY <1>2 DEF Init, TypeOK
<1>4. QED
  BY <1>3 DEF Init, IInv, HeldInv, PublishedInv, OwnerInv, FailureHasReason

\* One step of the session loop.
LEMMA SessionLoopIInv == IInv /\ SessionLoop => IInv'
<1> SUFFICES ASSUME IInv, SessionLoop PROVE IInv'
  OBVIOUS
<1> USE DEF IInv, TypeOK, HeldInv, PublishedInv, OwnerInv, FailureHasReason, vars, ownerVars, workerVars
<1>0. Len(Setup) = 10
  BY DEF Setup
<1>1. CASE Start
  <2>1. step' \in 1 .. Len(Setup) /\ session' \in 1 .. Sessions /\ HeldBefore(step') = {}
    BY <1>0, <1>1 DEF Start, HeldBefore
  <2>2. QED
    BY <1>1, <2>1 DEF Start
<1>2. CASE ReadState
  BY <1>2 DEF ReadState
<1>3. CASE Report
  BY <1>3 DEF Report
<1>4. CASE PollAgain
  BY <1>4 DEF PollAgain
<1>5. CASE PhoneLeaves
  BY <1>5 DEF PhoneLeaves
<1>6. CASE RequestStop
  BY <1>6 DEF RequestStop
<1>7. CASE Join
  BY <1>7 DEF Join
<1>8. CASE Settle
  BY <1>8 DEF Settle
<1>9. CASE NextSession
  <2>1. session' \in 1 .. Sessions
    BY <1>9, SessionsAssumption DEF NextSession
  <2>2. QED
    BY <1>9, <2>1 DEF NextSession
<1>10. QED
  BY <1>1, <1>2, <1>3, <1>4, <1>5, <1>6, <1>7, <1>8, <1>9 DEF SessionLoop

\* One step of the thread.
LEMMA RunIInv == IInv /\ Run => IInv'
<1> SUFFICES ASSUME IInv, Run PROVE IInv'
  OBVIOUS
<1>0. Len(Setup) = 10
  BY DEF Setup
<1>s. step \in 1 .. Len(Setup)
  BY DEF IInv, TypeOK
<1>1. CASE SetupSucceeds
  <2>1. held = HeldBefore(step)
    BY <1>1 DEF SetupSucceeds, AtSetup, IInv, HeldInv
  <2>2. held' = held \cup Acquires(Setup[step]) /\ held' \subseteq Resources
    BY <1>1, <1>s, <2>1, AcquiresNext DEF SetupSucceeds
  <2>3. CASE step < Len(Setup)
    <3>1. step' = step + 1 /\ step' \in 1 .. Len(Setup) /\ held' = HeldBefore(step')
      BY <1>0, <1>1, <1>s, <2>1, <2>2, <2>3, AcquiresNext DEF SetupSucceeds
    <3>2. QED
      BY <1>1, <2>2, <2>3, <3>1 DEF SetupSucceeds, AtSetup, IInv, TypeOK, HeldInv, PublishedInv, OwnerInv, FailureHasReason, vars, ownerVars, workerVars
  <2>4. CASE ~(step < Len(Setup))
    BY <1>1, <2>2, <2>4 DEF SetupSucceeds, AtSetup, IInv, TypeOK, HeldInv, PublishedInv, OwnerInv, FailureHasReason, vars, ownerVars, workerVars
  <2>5. QED
    BY <2>3, <2>4
<1>2. CASE SetupFails
  <2>1. held = HeldBefore(step)
    BY <1>2 DEF SetupFails, AtSetup, IInv, HeldInv
  <2>2. PICK partial \in SUBSET Partial(Setup[step]) : held' = held \cup partial
    BY <1>2 DEF SetupFails
  <2>3. Partial(Setup[step]) \subseteq Acquires(Setup[step])
    BY DEF Partial
  <2>4. held' \subseteq Resources
    BY <1>s, <2>1, <2>2, <2>3, AcquiresNext
  <2>5. held' \subseteq HeldBefore(step) \cup Partial(Setup[step])
    BY <2>1, <2>2
  <2>6. step' = step
    BY <1>2 DEF SetupFails
  <2>7. QED
    BY <1>2, <2>4, <2>5, <2>6 DEF SetupFails, AtSetup, IInv, TypeOK, HeldInv, PublishedInv, OwnerInv, FailureHasReason, vars, ownerVars, workerVars
<1>3. CASE SetupInterrupted
  BY <1>3 DEF SetupInterrupted, AtSetup, IInv, TypeOK, HeldInv, PublishedInv, OwnerInv, FailureHasReason, vars, ownerVars, workerVars
<1>4. CASE FreeAndReturn
  <2>1. held' = {}
    BY <1>4, <1>s, ReleasesAll DEF FreeAndReturn, IInv, HeldInv
  <2>2. QED
    BY <1>4, <2>1 DEF FreeAndReturn, IInv, TypeOK, HeldInv, PublishedInv, OwnerInv, FailureHasReason, vars, ownerVars, workerVars
<1>5. CASE SetMessage
  BY <1>5 DEF SetMessage, IInv, TypeOK, HeldInv, PublishedInv, OwnerInv, FailureHasReason, vars, ownerVars, workerVars
<1>6. CASE SetFailed
  BY <1>6 DEF SetFailed, IInv, TypeOK, HeldInv, PublishedInv, OwnerInv, FailureHasReason, vars, ownerVars, workerVars
<1>7. CASE LoopTest
  BY <1>7 DEF LoopTest, IInv, TypeOK, HeldInv, PublishedInv, OwnerInv, FailureHasReason, vars, ownerVars, workerVars
<1>8. CASE ReadPacket
  BY <1>8 DEF ReadPacket, IInv, TypeOK, HeldInv, PublishedInv, OwnerInv, FailureHasReason, vars, ownerVars, workerVars
<1>9. CASE ReadFails
  BY <1>9 DEF ReadFails, IInv, TypeOK, HeldInv, PublishedInv, OwnerInv, FailureHasReason, vars, ownerVars, workerVars
<1>10. CASE ReadInterrupted
  BY <1>10 DEF ReadInterrupted, IInv, TypeOK, HeldInv, PublishedInv, OwnerInv, FailureHasReason, vars, ownerVars, workerVars
<1>11. CASE FrameWritten
  BY <1>11 DEF FrameWritten, IInv, TypeOK, HeldInv, PublishedInv, OwnerInv, FailureHasReason, vars, ownerVars, workerVars
<1>12. CASE WriteFails
  BY <1>12 DEF WriteFails, IInv, TypeOK, HeldInv, PublishedInv, OwnerInv, FailureHasReason, vars, ownerVars, workerVars
<1>13. CASE DecodeFails
  BY <1>13 DEF DecodeFails, IInv, TypeOK, HeldInv, PublishedInv, OwnerInv, FailureHasReason, vars, ownerVars, workerVars
<1>14. CASE Release
  BY <1>14 DEF Release, IInv, TypeOK, HeldInv, PublishedInv, OwnerInv, FailureHasReason, vars, ownerVars, workerVars
<1>15. CASE Verdict
  BY <1>15 DEF Verdict, IInv, TypeOK, HeldInv, PublishedInv, OwnerInv, FailureHasReason, vars, ownerVars, workerVars
<1>16. CASE Verdict2
  BY <1>16 DEF Verdict2, IInv, TypeOK, HeldInv, PublishedInv, OwnerInv, FailureHasReason, vars, ownerVars, workerVars
<1>17. QED
  BY <1>1, <1>2, <1>3, <1>4, <1>5, <1>6, <1>7, <1>8, <1>9, <1>10, <1>11, <1>12, <1>13, <1>14, <1>15, <1>16
     DEF Run, Local, LocalSetup, NetworkSetup, Frame

\* The invariant behind every safety theorem of this module.
THEOREM Inductive == Spec => []IInv
<1>1. Init => IInv
  BY InitIInv
<1>2. IInv /\ [Next]_vars => IInv'
  <2> SUFFICES ASSUME IInv, [Next]_vars PROVE IInv'
    OBVIOUS
  <2>1. CASE SessionLoop
    BY <2>1, SessionLoopIInv
  <2>2. CASE Run
    BY <2>2, RunIInv
  <2>3. CASE UNCHANGED vars
    BY <2>3 DEF IInv, TypeOK, HeldInv, PublishedInv, OwnerInv, FailureHasReason, vars, ownerVars, workerVars
  <2>4. QED
    BY <2>1, <2>2, <2>3 DEF Next
<1>3. QED
  BY <1>1, <1>2, PTL DEF Spec

\* Type correctness of MediaPipeline.
THEOREM TypeCorrect == Spec => []TypeOK
<1>1. IInv => TypeOK
  BY DEF IInv
<1>2. QED
  BY <1>1, Inductive, PTL

\* setFailure's message is there whenever its state is.
THEOREM ReasonPublished == Spec => []FailureHasReason
<1>1. IInv => FailureHasReason
  BY DEF IInv, PublishedInv
<1>2. QED
  BY <1>1, Inductive, PTL

\* Every return of run has freed what run had allocated.
THEOREM AllReleased == Spec => []NothingLeaks
<1>1. IInv => NothingLeaks
  BY DEF IInv, HeldInv, NothingLeaks
<1>2. QED
  BY <1>1, Inductive, PTL

\* A thread that ended on its own has published Failed.
THEOREM ExitAnnounced == Spec => []NoSilentExit
<1>1. IInv => NoSilentExit
  BY DEF IInv, PublishedInv, NoSilentExit
<1>2. QED
  BY <1>1, Inductive, PTL

\* handleClient returns with the thread joined and a final state.
THEOREM StopSettles == Spec => []SettledAtEnd
<1>1. IInv => SettledAtEnd
  BY DEF IInv, OwnerInv, SettledAtEnd
<1>2. QED
  BY <1>1, Inductive, PTL

\* A published failure is never overwritten within its session.
THEOREM FailureKept == Spec => FailureIsFinal
<1> DEFINE Kept == state = "Failed" => state' = "Failed" \/ session' # session
<1>1. IInv /\ [Next]_vars => [Kept]_vars
  <2> SUFFICES ASSUME IInv, Next, state = "Failed" PROVE state' = "Failed" \/ session' # session
    BY DEF Kept
  <2>1. worker # "setup" /\ owner # "create"
    BY DEF IInv, PublishedInv, OwnerInv
  <2>2. CASE SessionLoop
    <3>1. CASE NextSession
      <4>1. session' = session + 1 /\ session \in Nat
        BY <3>1, SessionsAssumption DEF NextSession, IInv, TypeOK
      <4>2. QED
        BY <4>1
    <3>2. QED
      BY <2>1, <2>2, <3>1 DEF SessionLoop, Start, ReadState, Report, PollAgain,
         PhoneLeaves, RequestStop, Join, Settle
  <2>3. CASE Run
    BY <2>1, <2>3 DEF Run, Local, LocalSetup, NetworkSetup, Frame, SetupSucceeds,
       SetupFails, SetupInterrupted, AtSetup, SetMessage, SetFailed, FreeAndReturn,
       LoopTest, ReadPacket, ReadFails, ReadInterrupted, FrameWritten, WriteFails,
       DecodeFails, Release, Verdict, Verdict2
  <2>4. QED
    BY <2>2, <2>3 DEF Next
<1>2. QED
  BY <1>1, Inductive, PTL DEF Spec, FailureIsFinal
=============================================================================
