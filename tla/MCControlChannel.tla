-------------------------- MODULE MCControlChannel --------------------------
(* Instances of ControlChannel for TLC. *)
EXTENDS ControlChannel, TLC

CONSTANTS session, camera, errors   \* the sending threads

\* The controller's session thread; the phone's camera callback, which
\* sends the descriptor, and its error reporting.
MCThreads == {session, camera, errors}

MCOwner == [t \in MCThreads |-> IF t = session THEN "server" ELSE "client"]

\* The phone's threads are interchangeable.
PhoneThreadSymmetry == Permutations({camera, errors})

\* UINT64_MAX and Long.MAX_VALUE, scaled down: equal, and with the larger
\* range of the controller.
EqualMaxSeq == [s \in Side |-> 2]
UnequalMaxSeq == [s \in Side |-> IF s = "server" THEN 2 ELSE 1]

\* One payload that only just fits and one that is a byte too long.
MCPayloadSize == [fits |-> 2, long |-> 3]
MCPayloads == DOMAIN MCPayloadSize
MCMaxPayload == 26
=============================================================================
