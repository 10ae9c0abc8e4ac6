--------------------------- MODULE ControlChannel ---------------------------
(***************************************************************************)
(* The encrypted control channel of OCAM v2: the two AuthenticatedChannel  *)
(* objects of one session, the C++ one of the Linux controller ("server")  *)
(* and the Kotlin one of the phone ("client"), and the connection between  *)
(* them.                                                                   *)
(*                                                                         *)
(* A frame on the wire is a clear header (type, size), a clear sequence    *)
(* number and an AES-GCM box.  A box opens only under the key and the      *)
(* nonce it was sealed with, for the header it was sealed with, and only   *)
(* whole; that is all the model assumes of AES-GCM.  Keys and nonce        *)
(* prefixes are named by the side that sends with them.                    *)
(*                                                                         *)
(* The phone sends from several threads (the camera callback's descriptor  *)
(* and the error reports) under sendLock while its reader thread waits in  *)
(* receive under receiveLock; the Linux controller uses one thread.        *)
(***************************************************************************)
EXTENDS Naturals, Sequences, FiniteSets

CONSTANTS
  Threads,       \* threads that call send
  Owner,         \* Owner[t]: the side whose channel thread t uses
  Types,         \* frame types
  Payloads,      \* plaintexts
  PayloadSize,   \* PayloadSize[p]: bytes of plaintext p
  MaxPayload,    \* MAX_PAYLOAD
  MaxSeq,        \* MaxSeq[s]: the largest value of side s's counters
  Interference   \* FALSE: the connection keeps its order; TRUE: it hands over
                 \* any frame made of what was ever written, or none

Side == {"server", "client"}

Peer(s) == IF s = "server" THEN "client" ELSE "server"

\* 8 bytes of sequence number and 16 of GCM tag around every ciphertext.
EncryptedOverhead == 24

ASSUME OwnerAssumption == Owner \in [Threads -> Side]

\* handleClient is the only code that sends on the controller's channel.
ASSUME OneServerThread ==
  \A t, u \in Threads : Owner[t] = "server" /\ Owner[u] = "server" => t = u

ASSUME SizeAssumption == /\ \A p \in Payloads : PayloadSize[p] \in Nat
                         /\ MaxPayload \in Nat

ASSUME SeqAssumption == MaxSeq \in [Side -> Nat]

ASSUME InterferenceAssumption == Interference \in BOOLEAN

VARIABLES
  stage,           \* stage[t]: where thread t is in send
  outgoing,        \* outgoing[t]: the message thread t is sending
  sendSequence,    \* the counters of the two channel objects
  receiveSequence,
  receiving,       \* receiving[s]: a receive of side s is under way
  socket,          \* socket[s]: as side s sees its end of the connection
  transit,         \* transit[s]: frames travelling towards side s, in order
  wire,            \* every box that ever left a side, whole or cut short
  written,         \* written[s]: messages whose frame s wrote completely
  delivered        \* delivered[s]: messages receive returned to side s

vars == <<stage, outgoing, sendSequence, receiveSequence, receiving, socket,
          transit, wire, written, delivered>>

Message == [type : Types, payload : Payloads]

NoMessage == [none |-> TRUE]

\* The box encryptGcm makes: everything it authenticates, and whether all
\* of its bytes left the sender.
Box == [key : Side, prefix : Side, seq : Nat, type : Types, size : Nat,
        payload : Payloads, whole : BOOLEAN]

WireFrame == [type : Types, seq : Nat, box : Box]

TypeOK ==
  /\ stage \in [Threads -> {"idle", "waiting", "sealed", "written"}]
  /\ outgoing \in [Threads -> Message \cup {NoMessage}]
  /\ \A t \in Threads : stage[t] # "idle" => outgoing[t] \in Message
  /\ sendSequence \in [Side -> Nat]
  /\ receiveSequence \in [Side -> Nat]
  /\ \A s \in Side : /\ sendSequence[s] <= MaxSeq[s]
                     /\ receiveSequence[s] <= MaxSeq[s]
  /\ receiving \in [Side -> BOOLEAN]
  /\ socket \in [Side -> {"open", "broken", "closed"}]
  /\ transit \in [Side -> Seq(WireFrame)]
  /\ wire \subseteq Box
  /\ written \in [Side -> Seq(Message)]
  /\ delivered \in [Side -> Seq(Message)]

Init ==
  /\ stage = [t \in Threads |-> "idle"]
  /\ outgoing = [t \in Threads |-> NoMessage]
  /\ sendSequence = [s \in Side |-> 0]
  /\ receiveSequence = [s \in Side |-> 0]
  /\ receiving = [s \in Side |-> FALSE]
  /\ socket = [s \in Side |-> "open"]
  /\ transit = [s \in Side |-> <<>>]
  /\ wire = {}
  /\ written = [s \in Side |-> <<>>]
  /\ delivered = [s \in Side |-> <<>>]

-----------------------------------------------------------------------------
(***************************************************************************)
(* Keys, nonces and boxes                                                  *)
(***************************************************************************)

\* Directional keys: the constructors derive sendKey with the side's own
\* KDF label and receiveKey with the peer's.
SendKey(s) == s
ReceiveKey(s) == Peer(s)

\* SRVR or CLNT, the first half of the nonce; the sequence is the second.
OwnPrefix(s) == s
PeerPrefix(s) == Peer(s)

\* Mutant of FitsFrame: the overhead of the sequence and the tag forgotten.
FitsFrameUnchecked(p) == PayloadSize[p] <= MaxPayload

\* The sender's limit, which includes what encryption adds.
FitsFrame(p) == PayloadSize[p] + EncryptedOverhead <= MaxPayload

\* The frame send builds for message m under the counter value q.
Seal(s, m, q, whole) ==
  [type |-> m.type,
   seq  |-> q,
   box  |-> [key |-> SendKey(s), prefix |-> OwnPrefix(s), seq |-> q,
             type |-> m.type, size |-> PayloadSize[m.payload] + EncryptedOverhead,
             payload |-> m.payload, whole |-> whole]]

\* Mutant of InSequence: any sequence number not yet seen is accepted.
InSequenceOrLater(s, f) == f.seq >= receiveSequence[s]

\* Strict ordering: exactly the next number.
InSequence(s, f) == f.seq = receiveSequence[s]

\* Mutant of Exhausted: receive goes on when its counter is at its end.
ExhaustedNever(s) == FALSE

\* "Control sequence exhausted": the counter has no next value, and receive
\* fails before it reads anything.
Exhausted(s) == receiveSequence[s] = MaxSeq[s]

\* What receive demands of a frame: a counter that is not exhausted,
\* receiveFrame's bounds, the sequence check and decryptGcm with the
\* receiver's own reading of key, nonce and authenticated header.
Opens(s, f) ==
  /\ ~Exhausted(s)
  /\ f.box.size <= MaxPayload
  /\ f.box.size >= EncryptedOverhead
  /\ InSequence(s, f)
  /\ f.box.whole
  /\ f.box.key = ReceiveKey(s)
  /\ f.box.prefix = PeerPrefix(s)
  /\ f.box.seq = f.seq
  /\ f.box.type = f.type

-----------------------------------------------------------------------------
(***************************************************************************)
(* send                                                                    *)
(***************************************************************************)

SendLockFree(s) ==
  \A t \in Threads : Owner[t] = s => stage[t] \notin {"sealed", "written"}

\* A caller enters send and waits for sendLock.
Request(t, m) ==
  /\ stage[t] = "idle"
  /\ stage' = [stage EXCEPT ![t] = "waiting"]
  /\ outgoing' = [outgoing EXCEPT ![t] = m]
  /\ UNCHANGED <<sendSequence, receiveSequence, receiving, socket, transit,
                 wire, written, delivered>>

\* The early returns of send.
MaySend(s, m) == sendSequence[s] # MaxSeq[s] /\ FitsFrame(m.payload)

\* send returns false, or throws, before anything is encrypted.
SendRejected(t) ==
  /\ stage[t] = "waiting"
  /\ SendLockFree(Owner[t])
  /\ ~MaySend(Owner[t], outgoing[t])
  /\ stage' = [stage EXCEPT ![t] = "idle"]
  /\ outgoing' = [outgoing EXCEPT ![t] = NoMessage]
  /\ UNCHANGED <<sendSequence, receiveSequence, receiving, socket,
                 transit, wire, written, delivered>>

\* Mutant of Encrypt: sendLock is not taken.
EncryptUnlocked(t) ==
  /\ stage[t] = "waiting"
  /\ MaySend(Owner[t], outgoing[t])
  /\ stage' = [stage EXCEPT ![t] = "sealed"]
  /\ UNCHANGED <<outgoing, sendSequence, receiveSequence, receiving, socket,
                 transit, wire, written, delivered>>

\* Mutant of Encrypt: one lock for both directions, so that a blocked
\* receive keeps every sender waiting.
EncryptSharingReceiveLock(t) ==
  /\ ~receiving[Owner[t]]
  /\ SendLockFree(Owner[t])
  /\ EncryptUnlocked(t)

\* sendLock is taken and the payload is encrypted under the counter's value.
Encrypt(t) ==
  /\ stage[t] = "waiting"
  /\ SendLockFree(Owner[t])
  /\ MaySend(Owner[t], outgoing[t])
  /\ stage' = [stage EXCEPT ![t] = "sealed"]
  /\ UNCHANGED <<outgoing, sendSequence, receiveSequence, receiving, socket,
                 transit, wire, written, delivered>>

Sealed(t, whole) ==
  Seal(Owner[t], outgoing[t], sendSequence[Owner[t]], whole)

\* Bytes leave side s: the network has the box, and an orderly connection
\* carries the frame to the peer.
Transmit(s, f) ==
  /\ wire' = wire \cup {f.box}
  /\ transit' = IF Interference THEN transit
                ELSE [transit EXCEPT ![Peer(s)] = Append(@, f)]

\* writeFrame, sendFrame: all the bytes of the frame are written.
WriteFrame(t) ==
  LET s == Owner[t] IN
  /\ stage[t] = "sealed"
  /\ socket[s] = "open"
  /\ stage' = [stage EXCEPT ![t] = "written"]
  /\ Transmit(s, Sealed(t, TRUE))
  /\ written' = [written EXCEPT ![s] = Append(@, outgoing[t])]
  /\ UNCHANGED <<outgoing, sendSequence, receiveSequence, receiving, socket,
                 delivered>>

\* The connection fails, or the controller's deadline passes, in the middle
\* of a frame.  The counter is not advanced.  No later write of this side
\* puts anything on the wire: the phone's socket is in error, and
\* handleClient returns at once.
WriteCutShort(t) ==
  LET s == Owner[t] IN
  /\ stage[t] = "sealed"
  /\ socket[s] = "open"
  /\ stage' = [stage EXCEPT ![t] = "idle"]
  /\ outgoing' = [outgoing EXCEPT ![t] = NoMessage]
  /\ socket' = [socket EXCEPT ![s] = "broken"]
  /\ Transmit(s, Sealed(t, FALSE))
  /\ UNCHANGED <<sendSequence, receiveSequence, receiving, written,
                 delivered>>

\* A write on a socket that is in error or closed: nothing leaves.
WriteRefused(t) ==
  /\ stage[t] = "sealed"
  /\ socket[Owner[t]] # "open"
  /\ stage' = [stage EXCEPT ![t] = "idle"]
  /\ outgoing' = [outgoing EXCEPT ![t] = NoMessage]
  /\ UNCHANGED <<sendSequence, receiveSequence, receiving, socket,
                 transit, wire, written, delivered>>

\* The fixed-width increment of a counter.
Advance(s) == (sendSequence[s] + 1) % (MaxSeq[s] + 1)

\* After a complete write the counter moves on and sendLock is released.
CommitSend(t) ==
  /\ stage[t] = "written"
  /\ stage' = [stage EXCEPT ![t] = "idle"]
  /\ outgoing' = [outgoing EXCEPT ![t] = NoMessage]
  /\ sendSequence' = [sendSequence EXCEPT ![Owner[t]] = Advance(Owner[t])]
  /\ UNCHANGED <<receiveSequence, receiving, socket, transit, wire,
                 written, delivered>>

-----------------------------------------------------------------------------
(***************************************************************************)
(* receive, and the end of the connection                                  *)
(***************************************************************************)

\* receiveLock is taken and the side waits for a header.
ReceiveBegin(s) ==
  /\ ~receiving[s]
  /\ socket[s] # "closed"
  /\ ~Exhausted(s)
  /\ receiving' = [receiving EXCEPT ![s] = TRUE]
  /\ UNCHANGED <<stage, outgoing, sendSequence, receiveSequence, socket,
                 transit, wire, written, delivered>>

\* Mutant of Accept: the counter stays, so that the frame is good again.
AcceptReplayable(s, f) ==
  /\ Opens(s, f)
  /\ delivered' = [delivered EXCEPT
                     ![s] = Append(@, [type |-> f.type, payload |-> f.box.payload])]
  /\ UNCHANGED <<receiveSequence, socket>>

\* The frame is accepted: its plaintext is returned and the counter moves on.
Accept(s, f) ==
  /\ Opens(s, f)
  /\ delivered' = [delivered EXCEPT
                     ![s] = Append(@, [type |-> f.type, payload |-> f.box.payload])]
  /\ receiveSequence' = [receiveSequence EXCEPT ![s] = @ + 1]
  /\ UNCHANGED socket

\* The frame is refused: receive fails and its only caller closes the
\* connection (handleClient returns, receiveLoop ends).
Refuse(s, f) ==
  /\ ~Opens(s, f)
  /\ socket' = [socket EXCEPT ![s] = "closed"]
  /\ UNCHANGED <<delivered, receiveSequence>>

\* A frame that arrives in the order of the connection.
ReceiveNext(s) ==
  /\ receiving[s]
  /\ socket[s] # "closed"
  /\ transit[s] # <<>>
  /\ transit' = [transit EXCEPT ![s] = Tail(@)]
  /\ receiving' = [receiving EXCEPT ![s] = FALSE]
  /\ Accept(s, Head(transit[s])) \/ Refuse(s, Head(transit[s]))
  /\ UNCHANGED <<stage, outgoing, sendSequence, wire, written>>

\* A frame an interfering network hands over: any box of either direction,
\* the awaited one too, under any clear type and sequence number.
ReceiveInjected(s) ==
  /\ Interference
  /\ receiving[s]
  /\ socket[s] # "closed"
  /\ \E b \in wire, ty \in Types, q \in 0 .. MaxSeq[s] :
       LET f == [type |-> ty, seq |-> q, box |-> b]
       IN  Accept(s, f) \/ Refuse(s, f)
  /\ receiving' = [receiving EXCEPT ![s] = FALSE]
  /\ UNCHANGED <<stage, outgoing, sendSequence, transit, wire, written>>

\* A deadline passes, the peer hangs up, the socket was closed under the
\* read, or the counter is exhausted: receive fails and the caller closes.
ReceiveFails(s) ==
  /\ receiving[s] \/ (Exhausted(s) /\ socket[s] # "closed")
  /\ receiving' = [receiving EXCEPT ![s] = FALSE]
  /\ socket' = [socket EXCEPT ![s] = "closed"]
  /\ UNCHANGED <<stage, outgoing, sendSequence, receiveSequence, transit, wire,
                 written, delivered>>

\* The side's owner closes the connection.
Close(s) ==
  /\ socket[s] # "closed"
  /\ socket' = [socket EXCEPT ![s] = "closed"]
  /\ UNCHANGED <<stage, outgoing, sendSequence, receiveSequence, receiving,
                 transit, wire, written, delivered>>

SendStep(t) == \/ SendRejected(t)
               \/ Encrypt(t)
               \/ WriteFrame(t)
               \/ WriteCutShort(t)
               \/ WriteRefused(t)
               \/ CommitSend(t)

ReceiveStep(s) == \/ ReceiveBegin(s)
                  \/ ReceiveNext(s)
                  \/ ReceiveInjected(s)
                  \/ ReceiveFails(s)

Next == \/ \E t \in Threads : SendStep(t) \/ \E m \in Message : Request(t, m)
        \/ \E s \in Side : ReceiveStep(s) \/ Close(s)

Spec == Init /\ [][Next]_vars

\* A thread inside send runs on, and sendLock is granted to a thread that
\* waits for it again and again; a side that waits for a frame reads the one
\* that has arrived.  Nothing makes a blocked receive return.
Fairness ==
  /\ \A t \in Threads : SF_vars(SendStep(t))
  /\ \A s \in Side : WF_vars(ReceiveBegin(s)) /\ WF_vars(ReceiveNext(s))

FairSpec == Spec /\ Fairness
-----------------------------------------------------------------------------
(***************************************************************************)
(* Properties                                                              *)
(***************************************************************************)

\* AES-GCM must never see one key and nonce with two plaintexts or two
\* headers.  send and the counter are not atomic: a frame cut short leaves
\* the counter where it was, several threads send, and the counter has a
\* fixed width.  Boxes cut short count: their bytes left the sender too.
NonceUsedOnce ==
  \A b, c \in wire :
    b.key = c.key /\ b.prefix = c.prefix /\ b.seq = c.seq
      => b.type = c.type /\ b.size = c.size /\ b.payload = c.payload

\* What receive has returned to a side is, message by message, what its
\* peer has written: nothing replayed, skipped, reordered, retyped or
\* reflected, whatever the network injects or drops.
InOrderExactlyOnce ==
  \A s \in Side :
    /\ Len(delivered[s]) <= Len(written[Peer(s)])
    /\ \A i \in 1 .. Len(delivered[s]) : delivered[s][i] = written[Peer(s)][i]

\* The two channels with everything below them implement the queue pair of
\* FifoChannel: every step writes one message, returns exactly the next
\* one, or is invisible.
Fifo == INSTANCE FifoChannel
          WITH Messages <- Message, put <- written, got <- delivered

ImplementsFifo == Fifo!Spec

\* On a connection that keeps its order, a frame that send has written
\* whole is one that the peer's receive opens: both ends agree on the size
\* limit, the counters, the keys, the nonce and the header.  The one
\* exception is the end of the numbers: an end whose counter is narrower
\* than its peer's (the phone's Long against uint64_t) refuses the frame
\* that comes when its own counter is exhausted, and only that one.
WholeFrameIsOpened ==
  \A s \in Side :
    ~Interference /\ transit[s] # <<>> /\ Head(transit[s]).box.whole
      => \/ Opens(s, Head(transit[s]))
         \/ Exhausted(s) /\ MaxSeq[s] < MaxSeq[Peer(s)]

\* "A blocked receiver must never prevent the other direction from
\* sending" (ControlProtocol.kt): a thread that has called send gets its
\* answer although nothing ever makes a blocked receive return.
SendsComplete == \A t \in Threads : stage[t] = "waiting" ~> stage[t] = "idle"
=============================================================================
