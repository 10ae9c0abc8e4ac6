------------------------ MODULE ControlChannelProofs ------------------------
(***************************************************************************)
(* ControlChannel, for any number of sending threads, any messages, any    *)
(* counter width and any network: its types, the uniqueness of nonces, the *)
(* order of delivery, and that it implements FifoChannel.                  *)
(*                                                                         *)
(* The inductive invariant ties the three places where a sequence number   *)
(* lives: the counter, the boxes that left the sender, and the position of *)
(* the message in the history of the direction.                            *)
(***************************************************************************)
EXTENDS ControlChannel, TLAPS

HoldsLock(t) == stage[t] \in {"sealed", "written"}

\* sendLock excludes: at most one thread of a side is between encrypting a
\* frame and moving the counter on.
LockInv ==
  \A t, u \in Threads : HoldsLock(t) /\ HoldsLock(u) /\ Owner[t] = Owner[u] => t = u

\* The counter is the number of complete writes, but for the moment between
\* a write and the increment, and a frame under way has a number to use.
CounterInv ==
  /\ \A t \in Threads :
       stage[t] = "written" => Len(written[Owner[t]]) = sendSequence[Owner[t]] + 1
  /\ \A s \in Side :
       (\A t \in Threads : Owner[t] = s => stage[t] # "written")
         => Len(written[s]) = sendSequence[s]
  /\ \A t \in Threads : HoldsLock(t) => sendSequence[Owner[t]] # MaxSeq[Owner[t]]

BoxMessage(b) == [type |-> b.type, payload |-> b.payload]

\* A whole box is the message its number names.
WholeBox(b) == /\ b.seq < Len(written[b.key])
               /\ written[b.key][b.seq + 1] = BoxMessage(b)

\* A box cut short was the last thing its side sent.
CutBox(b) == /\ b.seq = Len(written[b.key])
             /\ socket[b.key] # "open"

WireInv ==
  /\ \A b \in wire : /\ b.size = PayloadSize[b.payload] + EncryptedOverhead
                     /\ b.whole => WholeBox(b)
                     /\ ~b.whole => CutBox(b)
  /\ \A b, c \in wire : ~b.whole /\ ~c.whole /\ b.key = c.key
                          => BoxMessage(b) = BoxMessage(c)

\* An orderly connection carries only what was written.
TransitInv == \A s \in Side : \A i \in 1 .. Len(transit[s]) : transit[s][i].box \in wire

\* The receiving counter counts what was returned, and a receive under way
\* has a number to expect.
DeliveredInv ==
  /\ InOrderExactlyOnce
  /\ \A s \in Side : /\ receiveSequence[s] = Len(delivered[s])
                     /\ receiving[s] => receiveSequence[s] # MaxSeq[s]

IInv == TypeOK /\ LockInv /\ CounterInv /\ WireInv /\ TransitInv /\ DeliveredInv

-----------------------------------------------------------------------------
(***************************************************************************)
(* Facts about the helpers                                                 *)
(***************************************************************************)

\* The frame that send builds is a wire frame with the box of that message.
LEMMA SealedType ==
  ASSUME TypeOK, NEW t \in Threads, stage[t] # "idle", NEW w \in BOOLEAN
  PROVE  /\ Sealed(t, w) \in WireFrame
         /\ Sealed(t, w).box \in Box
         /\ Sealed(t, w).box.key = Owner[t]
         /\ Sealed(t, w).box.seq = sendSequence[Owner[t]]
         /\ Sealed(t, w).box.whole = w
         /\ Sealed(t, w).box.size = PayloadSize[Sealed(t, w).box.payload] + EncryptedOverhead
         /\ BoxMessage(Sealed(t, w).box) = outgoing[t]
<1>1. /\ outgoing[t] \in Message
      /\ outgoing[t] = [type |-> outgoing[t].type, payload |-> outgoing[t].payload]
      /\ Owner[t] \in Side
      /\ sendSequence[Owner[t]] \in Nat
      /\ PayloadSize[outgoing[t].payload] \in Nat
  BY OwnerAssumption, SizeAssumption DEF TypeOK, Message
<1>2. QED
  BY <1>1 DEF Sealed, Seal, SendKey, OwnPrefix, WireFrame, Box, BoxMessage,
              Message, EncryptedOverhead

\* A counter below its maximum does not wrap.
LEMMA AdvanceByOne ==
  ASSUME TypeOK, NEW s \in Side, sendSequence[s] # MaxSeq[s]
  PROVE  Advance(s) = sendSequence[s] + 1 /\ Advance(s) <= MaxSeq[s]
<1> DEFINE n == sendSequence[s]  m == MaxSeq[s]
<1>1. n \in Nat /\ m \in Nat /\ n < m
  BY SeqAssumption DEF TypeOK
<1>2. (n + 1) % (m + 1) = n + 1
  BY <1>1
<1>3. QED
  BY <1>1, <1>2 DEF Advance

-----------------------------------------------------------------------------
(***************************************************************************)
(* The invariant holds initially and every step keeps it                   *)
(***************************************************************************)

\* Fresh channels: nothing sent, nothing received, both counters at zero.
LEMMA InitIInv == Init => IInv
<1> SUFFICES ASSUME Init PROVE IInv
  OBVIOUS
<1>1. TypeOK
  BY SeqAssumption DEF Init, TypeOK
<1>2. LockInv /\ CounterInv
  BY OwnerAssumption DEF Init, LockInv, CounterInv, HoldsLock
<1>3. WireInv /\ TransitInv /\ DeliveredInv
  BY DEF Init, WireInv, TransitInv, DeliveredInv, InOrderExactlyOnce, Side, Peer
<1>4. QED
  BY <1>1, <1>2, <1>3 DEF IInv

\* A thread that asks to send, is turned away, takes the lock or finds the
\* socket unusable touches neither the counters nor the wire.
LEMMA QuietSendStep ==
  ASSUME IInv, NEW t \in Threads,
         \/ \E m \in Message : Request(t, m)
         \/ SendRejected(t)
         \/ Encrypt(t)
         \/ WriteRefused(t)
  PROVE  IInv'
<1> USE DEF IInv
<1>0. UNCHANGED <<sendSequence, receiveSequence, receiving, socket, transit,
                  wire, written, delivered>>
  BY DEF Request, SendRejected, Encrypt, WriteRefused
<1>1. TypeOK'
  BY <1>0 DEF TypeOK, Request, SendRejected, Encrypt, WriteRefused
<1>2. LockInv'
  BY DEF TypeOK, LockInv, HoldsLock, SendLockFree, Request, SendRejected, Encrypt,
         WriteRefused
<1>3. CounterInv'
  <2>1. \A u \in Threads : stage'[u] = "written" <=> stage[u] = "written"
    BY DEF TypeOK, Request, SendRejected, Encrypt, WriteRefused
  <2>2. \A u \in Threads : HoldsLock(u)' => HoldsLock(u) \/ (u = t /\ Encrypt(t))
    BY DEF TypeOK, HoldsLock, Request, SendRejected, Encrypt, WriteRefused
  <2>3. Encrypt(t) => sendSequence[Owner[t]] # MaxSeq[Owner[t]]
    BY DEF Encrypt, MaySend
  <2>4. QED
    BY <1>0, <2>1, <2>2, <2>3 DEF CounterInv
<1>4. WireInv' /\ TransitInv'
  BY <1>0 DEF WireInv, TransitInv, WholeBox, CutBox, BoxMessage
<1>5. DeliveredInv'
  BY <1>0 DEF DeliveredInv, InOrderExactlyOnce
<1>6. QED
  BY <1>1, <1>2, <1>3, <1>4, <1>5

\* A complete write puts the message at the position its number names.
LEMMA WriteFrameStep ==
  ASSUME IInv, NEW t \in Threads, WriteFrame(t)
  PROVE  IInv'
<1> DEFINE s == Owner[t]
<1> USE DEF IInv
<1>f. PICK f \in WireFrame : f = Sealed(t, TRUE)
  BY SealedType DEF WriteFrame
<1>0. /\ s \in Side /\ Peer(s) \in Side
      /\ stage[t] = "sealed" /\ socket[s] = "open"
      /\ f \in WireFrame /\ f.box \in Box
      /\ f.box.key = s /\ f.box.seq = sendSequence[s] /\ f.box.whole
      /\ f.box.size = PayloadSize[f.box.payload] + EncryptedOverhead
      /\ BoxMessage(f.box) = outgoing[t]
      /\ outgoing[t] \in Message
  BY <1>f, SealedType, OwnerAssumption DEF WriteFrame, TypeOK, Side, Peer
<1>1. Len(written[s]) = sendSequence[s]
  BY <1>0 DEF LockInv, CounterInv, HoldsLock
<1>2. /\ stage' = [stage EXCEPT ![t] = "written"]
      /\ wire' = wire \cup {f.box}
      /\ transit' = IF Interference THEN transit
                    ELSE [transit EXCEPT ![Peer(s)] = Append(@, f)]
      /\ written' = [written EXCEPT ![s] = Append(@, outgoing[t])]
      /\ UNCHANGED <<outgoing, sendSequence, receiveSequence, receiving, socket, delivered>>
  BY <1>f DEF WriteFrame, Transmit
<1> HIDE DEF s
<1>3. TypeOK'
  BY <1>0, <1>2 DEF TypeOK
<1>4. LockInv'
  BY <1>0, <1>2 DEF TypeOK, LockInv, HoldsLock
<1>5. /\ Len(written'[s]) = Len(written[s]) + 1
      /\ written'[s][sendSequence[s] + 1] = outgoing[t]
      /\ \A r \in Side : /\ Len(written[r]) \in Nat
                         /\ Len(written'[r]) \in Nat
                         /\ Len(written[r]) <= Len(written'[r])
                         /\ r # s => written'[r] = written[r]
                         /\ \A i \in 1 .. Len(written[r]) : written'[r][i] = written[r][i]
  <2>1. \A r \in Side : written[r] \in Seq(Message)
    BY DEF TypeOK
  <2>2. /\ written'[s] = Append(written[s], outgoing[t])
        /\ \A r \in Side : r # s => written'[r] = written[r]
    BY <1>0, <1>2 DEF TypeOK
  <2>3. QED
    BY <1>0, <1>1, <2>1, <2>2
<1>6. CounterInv'
  <2>1. \A u \in Threads : HoldsLock(u) /\ Owner[u] = s => u = t
    BY <1>0 DEF LockInv, HoldsLock, s
  <2>2. \A u \in Threads : stage'[u] = IF u = t THEN "written" ELSE stage[u]
    BY <1>2 DEF TypeOK
  <2>3. QED
    BY <1>0, <1>1, <1>2, <1>5, <2>1, <2>2, OwnerAssumption DEF CounterInv, HoldsLock, s
<1>7. WireInv'
  <2>1. \A b \in wire : b.key \in Side /\ b.seq \in Nat
    BY DEF TypeOK, Box
  <2>2. \A b \in wire : ~b.whole => b.key # s
    BY <1>0 DEF WireInv, CutBox
  <2>3. \A b \in wire : b.whole => WholeBox(b)'
    <3>1. TAKE b \in wire
    <3>2. HAVE b.whole
    <3>3. b.seq + 1 \in 1 .. Len(written[b.key]) /\ written[b.key][b.seq + 1] = BoxMessage(b)
      BY <2>1, <3>2 DEF WireInv, WholeBox, TypeOK
    <3>4. QED
      BY <2>1, <3>3, <1>5 DEF WholeBox, BoxMessage
  <2>4. \A b \in wire : ~b.whole => CutBox(b)'
    BY <1>2, <1>5, <2>1, <2>2 DEF WireInv, CutBox
  <2>5. WholeBox(f.box)'
    BY <1>0, <1>1, <1>5 DEF WholeBox, BoxMessage
  <2>6. QED
    BY <1>0, <1>2, <2>3, <2>4, <2>5 DEF WireInv, BoxMessage
<1>8. TransitInv'
  <2>1. CASE Interference
    BY <1>2, <2>1 DEF TransitInv
  <2>2. CASE ~Interference
    <3>1. \A r \in Side : \A i \in 1 .. Len(transit'[r]) :
            transit'[r][i] = f \/ (i \in 1 .. Len(transit[r]) /\ transit'[r][i] = transit[r][i])
      <4>1. TAKE r \in Side
      <4>2. transit[r] \in Seq(WireFrame)
        BY DEF TypeOK
      <4>3. transit'[r] = IF r = Peer(s) THEN Append(transit[r], f) ELSE transit[r]
        BY <1>0, <1>2, <2>2 DEF TypeOK
      <4>4. QED
        BY <4>2, <4>3
    <3>2. QED
      BY <1>2, <3>1 DEF TransitInv
  <2>3. QED
    BY <2>1, <2>2
<1>9. DeliveredInv'
  <2>1. \A r \in Side : Peer(r) \in Side
    BY DEF Side, Peer
  <2>2. \A r \in Side : Len(delivered[r]) \in Nat
    BY DEF TypeOK
  <2>3. QED
    BY <1>2, <1>5, <2>1, <2>2 DEF DeliveredInv, InOrderExactlyOnce
<1>10. QED
  BY <1>3, <1>4, <1>6, <1>7, <1>8, <1>9

\* A write cut short leaves the counter, and takes the socket out of use.
LEMMA WriteCutShortStep ==
  ASSUME IInv, NEW t \in Threads, WriteCutShort(t)
  PROVE  IInv'
<1> DEFINE s == Owner[t]
<1> USE DEF IInv
<1>f. PICK f \in WireFrame : f = Sealed(t, FALSE)
  BY SealedType DEF WriteCutShort
<1>0. /\ s \in Side /\ Peer(s) \in Side
      /\ stage[t] = "sealed" /\ socket[s] = "open"
      /\ f.box \in Box
      /\ f.box.key = s /\ f.box.seq = sendSequence[s] /\ ~f.box.whole
      /\ f.box.size = PayloadSize[f.box.payload] + EncryptedOverhead
  BY <1>f, SealedType, OwnerAssumption DEF WriteCutShort, TypeOK, Side, Peer
<1>1. Len(written[s]) = sendSequence[s]
  BY <1>0 DEF LockInv, CounterInv, HoldsLock
<1>2. /\ stage' = [stage EXCEPT ![t] = "idle"]
      /\ outgoing' = [outgoing EXCEPT ![t] = NoMessage]
      /\ socket' = [socket EXCEPT ![s] = "broken"]
      /\ wire' = wire \cup {f.box}
      /\ transit' = IF Interference THEN transit
                    ELSE [transit EXCEPT ![Peer(s)] = Append(@, f)]
      /\ UNCHANGED <<sendSequence, receiveSequence, receiving, written, delivered>>
  BY <1>f DEF WriteCutShort, Transmit
<1> HIDE DEF s
<1>3. TypeOK'
  BY <1>0, <1>2 DEF TypeOK
<1>4. LockInv'
  BY <1>0, <1>2 DEF TypeOK, LockInv, HoldsLock
<1>5. CounterInv'
  BY <1>0, <1>2 DEF TypeOK, CounterInv, HoldsLock
<1>6. WireInv'
  <2>1. \A b \in wire : b.key \in Side /\ (~b.whole => b.key # s)
    BY <1>0 DEF TypeOK, Box, WireInv, CutBox
  <2>2. \A r \in Side : socket[r] # "open" => socket'[r] # "open"
    BY <1>0, <1>2 DEF TypeOK
  <2>3. \A b \in wire : /\ b.whole => WholeBox(b)'
                        /\ ~b.whole => CutBox(b)'
    BY <1>2, <2>1, <2>2 DEF WireInv, WholeBox, CutBox, BoxMessage
  <2>4. CutBox(f.box)'
    BY <1>0, <1>1, <1>2 DEF CutBox, TypeOK
  <2>5. QED
    BY <1>0, <1>2, <2>1, <2>3, <2>4 DEF WireInv, BoxMessage
<1>7. TransitInv'
  <2>1. CASE Interference
    BY <1>2, <2>1 DEF TransitInv
  <2>2. CASE ~Interference
    <3>1. \A r \in Side : \A i \in 1 .. Len(transit'[r]) :
            transit'[r][i] = f \/ (i \in 1 .. Len(transit[r]) /\ transit'[r][i] = transit[r][i])
      <4>1. TAKE r \in Side
      <4>2. transit[r] \in Seq(WireFrame)
        BY DEF TypeOK
      <4>3. transit'[r] = IF r = Peer(s) THEN Append(transit[r], f) ELSE transit[r]
        BY <1>0, <1>2, <2>2 DEF TypeOK
      <4>4. QED
        BY <4>2, <4>3
    <3>2. QED
      BY <1>2, <3>1 DEF TransitInv
  <2>3. QED
    BY <2>1, <2>2
<1>8. DeliveredInv'
  BY <1>2 DEF DeliveredInv, InOrderExactlyOnce
<1>9. QED
  BY <1>3, <1>4, <1>5, <1>6, <1>7, <1>8

\* The counter catches up with the complete write before the lock is free.
LEMMA CommitSendStep ==
  ASSUME IInv, NEW t \in Threads, CommitSend(t)
  PROVE  IInv'
<1> DEFINE s == Owner[t]
<1> USE DEF IInv
<1>0. /\ s \in Side
      /\ stage[t] = "written"
      /\ sendSequence[s] # MaxSeq[s]
      /\ Len(written[s]) = sendSequence[s] + 1
  BY OwnerAssumption DEF CommitSend, CounterInv, HoldsLock
<1>1. Advance(s) = sendSequence[s] + 1 /\ Advance(s) <= MaxSeq[s]
  BY <1>0, AdvanceByOne
<1>2. /\ stage' = [stage EXCEPT ![t] = "idle"]
      /\ outgoing' = [outgoing EXCEPT ![t] = NoMessage]
      /\ sendSequence' = [sendSequence EXCEPT ![s] = sendSequence[s] + 1]
      /\ UNCHANGED <<receiveSequence, receiving, socket, transit, wire, written, delivered>>
  BY <1>1 DEF CommitSend
<1> HIDE DEF s
<1>3. TypeOK'
  BY <1>0, <1>1, <1>2 DEF TypeOK
<1>4. LockInv'
  BY <1>0, <1>2 DEF TypeOK, LockInv, HoldsLock
<1>5. CounterInv'
  <2>1. \A u \in Threads : HoldsLock(u) /\ Owner[u] = s => u = t
    BY <1>0 DEF LockInv, HoldsLock, s
  <2>2. \A u \in Threads : stage'[u] = IF u = t THEN "idle" ELSE stage[u]
    BY <1>2 DEF TypeOK
  <2>3. \A r \in Side : sendSequence'[r] = IF r = s THEN sendSequence[s] + 1 ELSE sendSequence[r]
    BY <1>0, <1>2 DEF TypeOK
  <2>4. QED
    BY <1>0, <1>2, <2>1, <2>2, <2>3, OwnerAssumption DEF CounterInv, HoldsLock, s
<1>6. WireInv' /\ TransitInv'
  BY <1>2 DEF WireInv, TransitInv, WholeBox, CutBox, BoxMessage
<1>7. DeliveredInv'
  BY <1>2 DEF DeliveredInv, InOrderExactlyOnce
<1>8. QED
  BY <1>3, <1>4, <1>5, <1>6, <1>7

\* What receive makes of a frame whose box is on the wire: the frame it
\* opens is exactly the peer's next message.
LEMMA OpenedIsNext ==
  ASSUME IInv, NEW s \in Side, NEW f, f.box \in wire, Opens(s, f)
  PROVE  /\ Len(delivered[s]) < Len(written[Peer(s)])
         /\ [type |-> f.type, payload |-> f.box.payload]
              = written[Peer(s)][Len(delivered[s]) + 1]
<1>1. /\ f.box.whole
      /\ f.box.key = Peer(s)
      /\ f.box.seq = receiveSequence[s]
      /\ f.box.type = f.type
  BY DEF Opens, InSequence, ReceiveKey
<1>2. WholeBox(f.box)
  BY <1>1 DEF IInv, WireInv
<1>3. receiveSequence[s] = Len(delivered[s])
  BY DEF IInv, DeliveredInv
<1>4. QED
  BY <1>1, <1>2, <1>3 DEF WholeBox, BoxMessage

\* A frame that arrives, accepted or refused.
LEMMA ReceiveFrameStep ==
  ASSUME IInv, NEW s \in Side, NEW f, f.box \in wire, f.type \in Types,
         receiving[s],
         Accept(s, f) \/ Refuse(s, f),
         receiving' = [receiving EXCEPT ![s] = FALSE],
         UNCHANGED <<stage, outgoing, sendSequence, wire, written>>,
         \/ UNCHANGED transit
         \/ transit[s] # <<>> /\ transit' = [transit EXCEPT ![s] = Tail(@)]
  PROVE  IInv'
<1> USE DEF IInv
<1> DEFINE m == [type |-> f.type, payload |-> f.box.payload]
<1>0. Peer(s) \in Side /\ \A r \in Side : Peer(r) \in Side
  BY DEF Side, Peer
<1>1. /\ m \in Message
      /\ receiveSequence[s] \in Nat
      /\ receiveSequence[s] # MaxSeq[s]
      /\ receiveSequence[s] <= MaxSeq[s]
      /\ MaxSeq[s] \in Nat
  BY SeqAssumption DEF TypeOK, Box, Message, DeliveredInv
<1>2. \/ /\ Opens(s, f)
         /\ delivered' = [delivered EXCEPT ![s] = Append(@, m)]
         /\ receiveSequence' = [receiveSequence EXCEPT ![s] = @ + 1]
         /\ UNCHANGED socket
      \/ /\ socket' = [socket EXCEPT ![s] = "closed"]
         /\ UNCHANGED <<delivered, receiveSequence>>
  BY DEF Accept, Refuse
<1> HIDE DEF m
<1>3. TypeOK'
  <2>1. transit' \in [Side -> Seq(WireFrame)]
    <3>1. transit[s] \in Seq(WireFrame) /\ (transit[s] # <<>> => Tail(transit[s]) \in Seq(WireFrame))
      BY DEF TypeOK
    <3>2. QED
      BY <3>1 DEF TypeOK
  <2>2. /\ delivered' \in [Side -> Seq(Message)]
        /\ socket' \in [Side -> {"open", "broken", "closed"}]
    <3>1. Append(delivered[s], m) \in Seq(Message)
      BY <1>1 DEF TypeOK
    <3>2. \/ delivered' = [delivered EXCEPT ![s] = Append(delivered[s], m)]
          \/ UNCHANGED delivered
      BY <1>2
    <3>3. delivered' \in [Side -> Seq(Message)]
      BY <3>1, <3>2 DEF TypeOK
    <3>4. socket' \in [Side -> {"open", "broken", "closed"}]
      BY <1>2 DEF TypeOK
    <3>5. QED
      BY <3>3, <3>4
  <2>3. /\ receiveSequence' \in [Side -> Nat]
        /\ \A r \in Side : receiveSequence'[r] <= MaxSeq[r]
    <3>1. receiveSequence[s] + 1 \in Nat /\ receiveSequence[s] + 1 <= MaxSeq[s]
      BY <1>1
    <3>2. \/ receiveSequence' = [receiveSequence EXCEPT ![s] = receiveSequence[s] + 1]
          \/ UNCHANGED receiveSequence
      BY <1>2
    <3>3. QED
      BY <3>1, <3>2 DEF TypeOK
  <2>4. QED
    BY <2>1, <2>2, <2>3 DEF TypeOK
<1>4. LockInv' /\ CounterInv'
  BY DEF LockInv, CounterInv, HoldsLock
<1>5. WireInv'
  <2>1. \A r \in Side : socket[r] # "open" => socket'[r] # "open"
    BY <1>2 DEF TypeOK
  <2>2. \A b \in wire : b.key \in Side
    BY DEF TypeOK, Box
  <2>3. QED
    BY <2>1, <2>2 DEF WireInv, WholeBox, CutBox, BoxMessage
<1>6. TransitInv'
  <2>1. \A r \in Side : \A i \in 1 .. Len(transit'[r]) :
          \E j \in 1 .. Len(transit[r]) : transit'[r][i] = transit[r][j]
    <3>1. TAKE r \in Side
    <3>2. transit[r] \in Seq(WireFrame)
      BY DEF TypeOK
    <3>3. \/ transit'[r] = transit[r]
          \/ transit[r] # <<>> /\ transit'[r] = Tail(transit[r])
      BY DEF TypeOK
    <3>4. TAKE i \in 1 .. Len(transit'[r])
    <3>5. CASE transit'[r] = transit[r]
      BY <3>4, <3>5
    <3>6. CASE transit[r] # <<>> /\ transit'[r] = Tail(transit[r])
      <4>1. Len(Tail(transit[r])) = Len(transit[r]) - 1 /\ Len(transit[r]) \in Nat
        BY <3>2, <3>6
      <4>2. i + 1 \in 1 .. Len(transit[r])
        BY <3>4, <3>6, <4>1
      <4>3. transit'[r][i] = transit[r][i + 1]
        BY <3>2, <3>4, <3>6, <4>1
      <4>4. QED
        BY <4>2, <4>3
    <3>7. QED
      BY <3>3, <3>5, <3>6
  <2>2. QED
    BY <2>1 DEF TransitInv
<1>7. DeliveredInv'
  <2>1. CASE UNCHANGED <<delivered, receiveSequence>>
    BY <2>1 DEF DeliveredInv, InOrderExactlyOnce, TypeOK
  <2>2. CASE /\ Opens(s, f)
             /\ delivered' = [delivered EXCEPT ![s] = Append(@, m)]
             /\ receiveSequence' = [receiveSequence EXCEPT ![s] = @ + 1]
    <3>1. /\ Len(delivered[s]) < Len(written[Peer(s)])
          /\ m = written[Peer(s)][Len(delivered[s]) + 1]
      BY <2>2, OpenedIsNext DEF m
    <3>2. /\ delivered[s] \in Seq(Message)
          /\ delivered'[s] = Append(delivered[s], m)
          /\ receiveSequence'[s] = receiveSequence[s] + 1
          /\ \A r \in Side : r # s => /\ delivered'[r] = delivered[r]
                                      /\ receiveSequence'[r] = receiveSequence[r]
          /\ \A r \in Side : receiving'[r] => receiving[r] /\ r # s
          /\ \A r \in Side : Len(written[r]) \in Nat
      BY <2>2 DEF TypeOK
    <3>3. /\ Len(delivered'[s]) = Len(delivered[s]) + 1
          /\ \A i \in 1 .. Len(delivered'[s]) :
               delivered'[s][i] = IF i = Len(delivered[s]) + 1 THEN m ELSE delivered[s][i]
      BY <1>1, <3>2
    <3>4. InOrderExactlyOnce'
      <4>1. SUFFICES ASSUME NEW r \in Side
                     PROVE  /\ Len(delivered'[r]) <= Len(written[Peer(r)])
                            /\ \A i \in 1 .. Len(delivered'[r]) :
                                 delivered'[r][i] = written[Peer(r)][i]
        BY DEF InOrderExactlyOnce
      <4>2. CASE r = s
        <5>1. Len(delivered[s]) \in Nat /\ Len(written[Peer(s)]) \in Nat
          BY <1>0, <3>2
        <5>2. \A i \in 1 .. Len(delivered[s]) : delivered[s][i] = written[Peer(s)][i]
          BY DEF DeliveredInv, InOrderExactlyOnce
        <5>3. \A i \in 1 .. Len(delivered'[s]) : i # Len(delivered[s]) + 1 => i \in 1 .. Len(delivered[s])
          BY <3>3, <5>1
        <5>4. QED
          BY <3>1, <3>3, <4>2, <5>1, <5>2, <5>3
      <4>3. CASE r # s
        BY <3>2, <4>3 DEF DeliveredInv, InOrderExactlyOnce
      <4>4. QED
        BY <4>2, <4>3
    <3>5. QED
      BY <3>2, <3>3, <3>4 DEF DeliveredInv
  <2>3. QED
    BY <1>2, <2>1, <2>2
<1>8. QED
  BY <1>3, <1>4, <1>5, <1>6, <1>7

\* Every action of the receiving side and of the sockets.
LEMMA ReceiveStepInv ==
  ASSUME IInv, NEW s \in Side, ReceiveStep(s) \/ Close(s)
  PROVE  IInv'
<1> USE DEF IInv
<1>1. CASE ReceiveNext(s)
  <2>1. /\ Head(transit[s]).box \in wire
        /\ Head(transit[s]).type \in Types
    <3>1. transit[s] \in Seq(WireFrame) /\ transit[s] # <<>>
      BY <1>1 DEF ReceiveNext, TypeOK
    <3>2. Head(transit[s]) = transit[s][1] /\ 1 \in 1 .. Len(transit[s])
      BY <3>1
    <3>3. Head(transit[s]) \in WireFrame
      BY <3>1
    <3>4. QED
      BY <3>2, <3>3 DEF TransitInv, WireFrame
  <2>2. QED
    BY <1>1, <2>1, ReceiveFrameStep DEF ReceiveNext
<1>2. CASE ReceiveInjected(s)
  <2>1. PICK b \in wire, ty \in Types, q \in 0 .. MaxSeq[s] :
          LET f == [type |-> ty, seq |-> q, box |-> b]
          IN  Accept(s, f) \/ Refuse(s, f)
    BY <1>2 DEF ReceiveInjected
  <2> DEFINE f == [type |-> ty, seq |-> q, box |-> b]
  <2>2. f.box \in wire /\ f.type \in Types
    OBVIOUS
  <2>3. Accept(s, f) \/ Refuse(s, f)
    BY <2>1
  <2> HIDE DEF f
  <2>4. QED
    BY <1>2, <2>2, <2>3, ReceiveFrameStep DEF ReceiveInjected
<1>3. CASE ReceiveBegin(s) \/ ReceiveFails(s) \/ Close(s)
  <2>1. UNCHANGED <<stage, outgoing, sendSequence, receiveSequence, transit,
                    wire, written, delivered>>
    BY <1>3 DEF ReceiveBegin, ReceiveFails, Close
  <2>2. /\ receiving' \in [Side -> BOOLEAN]
        /\ socket' \in [Side -> {"open", "broken", "closed"}]
        /\ \A r \in Side : socket[r] # "open" => socket'[r] # "open"
        /\ \A r \in Side : receiving'[r] => receiving[r] \/ receiveSequence[r] # MaxSeq[r]
    BY <1>3 DEF ReceiveBegin, Exhausted, ReceiveFails, Close, TypeOK
  <2>3. TypeOK'
    BY <2>1, <2>2 DEF TypeOK
  <2>4. LockInv' /\ CounterInv' /\ TransitInv'
    BY <2>1 DEF LockInv, CounterInv, HoldsLock, TransitInv
  <2>5. WireInv'
    <3>1. \A b \in wire : b.key \in Side
      BY DEF TypeOK, Box
    <3>2. QED
      BY <2>1, <2>2, <3>1 DEF WireInv, WholeBox, CutBox, BoxMessage
  <2>6. DeliveredInv'
    BY <2>1, <2>2 DEF DeliveredInv, InOrderExactlyOnce
  <2>7. QED
    BY <2>3, <2>4, <2>5, <2>6
<1>4. QED
  BY <1>1, <1>2, <1>3 DEF ReceiveStep

-----------------------------------------------------------------------------
(***************************************************************************)
(* The theorems                                                            *)
(***************************************************************************)

\* Every step of the channel keeps the invariant.
LEMMA NextIInv == IInv /\ [Next]_vars => IInv'
<1> SUFFICES ASSUME IInv, [Next]_vars PROVE IInv'
  OBVIOUS
<1>1. CASE UNCHANGED vars
  BY <1>1 DEF vars, IInv, TypeOK, LockInv, HoldsLock, CounterInv, WireInv, WholeBox,
              CutBox, BoxMessage, TransitInv, DeliveredInv, InOrderExactlyOnce
<1>2. ASSUME NEW t \in Threads, SendStep(t) \/ \E m \in Message : Request(t, m)
      PROVE  IInv'
  BY <1>2, QuietSendStep, WriteFrameStep, WriteCutShortStep, CommitSendStep DEF SendStep
<1>3. ASSUME NEW s \in Side, ReceiveStep(s) \/ Close(s)
      PROVE  IInv'
  BY <1>3, ReceiveStepInv
<1>4. QED
  BY <1>1, <1>2, <1>3 DEF Next

\* The counters never exceed their width and every variable keeps its type,
\* however many threads send.
THEOREM TypeCorrect == Spec => []TypeOK
<1>1. IInv => TypeOK
  BY DEF IInv
<1>2. QED
  BY InitIInv, NextIInv, <1>1, PTL DEF Spec

\* Each direction delivers a prefix of what was written into it, for any
\* network, any counter width and any threads.
THEOREM DeliveryInOrder == Spec => []InOrderExactlyOnce
<1>1. IInv => InOrderExactlyOnce
  BY DEF IInv, DeliveredInv
<1>2. QED
  BY InitIInv, NextIInv, <1>1, PTL DEF Spec

\* No key and nonce are ever used for two plaintexts or two headers, frames
\* cut short included.
THEOREM NoncesUnique == Spec => []NonceUsedOnce
<1>1. IInv => NonceUsedOnce
  <2>1. SUFFICES ASSUME IInv, NEW b \in wire, NEW c \in wire,
                        b.key = c.key, b.seq = c.seq
                 PROVE  b.type = c.type /\ b.size = c.size /\ b.payload = c.payload
    BY DEF NonceUsedOnce
  <2>2. b.key \in Side /\ b.seq \in Nat /\ Len(written[b.key]) \in Nat
    <3>1. b \in Box /\ written \in [Side -> Seq(Message)]
      BY <2>1 DEF IInv, TypeOK
    <3>2. b.key \in Side /\ b.seq \in Nat
      BY <3>1 DEF Box
    <3>3. QED
      BY <3>1, <3>2
  <2>3. BoxMessage(b) = BoxMessage(c)
    <3>1. CASE b.whole /\ c.whole
      BY <2>1, <3>1 DEF IInv, WireInv, WholeBox
    <3>2. CASE ~b.whole /\ ~c.whole
      BY <2>1, <3>2 DEF IInv, WireInv
    <3>3. b.whole <=> c.whole
      <4>1. \A d \in wire : d.whole \in BOOLEAN
        BY <2>1 DEF IInv, TypeOK, Box
      <4>2. (b.whole => WholeBox(b)) /\ (c.whole => WholeBox(c))
        BY <2>1 DEF IInv, WireInv
      <4>3. (~b.whole => CutBox(b)) /\ (~c.whole => CutBox(c))
        BY <2>1 DEF IInv, WireInv
      <4>4. ~(WholeBox(b) /\ CutBox(c))
        BY <2>1, <2>2 DEF WholeBox, CutBox
      <4>5. ~(WholeBox(c) /\ CutBox(b))
        BY <2>1, <2>2 DEF WholeBox, CutBox
      <4>6. QED
        BY <4>1, <4>2, <4>3, <4>4, <4>5
    <3>4. QED
      BY <3>1, <3>2, <3>3
  <2>4. b.type = c.type /\ b.payload = c.payload
    BY <2>3 DEF BoxMessage
  <2>5. /\ b.size = PayloadSize[b.payload] + EncryptedOverhead
        /\ c.size = PayloadSize[c.payload] + EncryptedOverhead
    BY <2>1 DEF IInv, WireInv
  <2>6. QED
    BY <2>4, <2>5
<1>2. QED
  BY InitIInv, NextIInv, <1>1, PTL DEF Spec

\* The step simulation behind the refinement: writing a frame puts its
\* message, accepting one gets the next message, all else is invisible.
LEMMA StepRefines == IInv /\ [Next]_vars => [Fifo!Next]_<<written, delivered>>
<1> SUFFICES ASSUME IInv, [Next]_vars, ~ UNCHANGED <<written, delivered>>
             PROVE  Fifo!Next
  OBVIOUS
<1>0. Fifo!Side = Side /\ \A s : Fifo!Peer(s) = Peer(s)
  BY DEF Fifo!Side, Side, Fifo!Peer, Peer
<1>1. ASSUME NEW t \in Threads, WriteFrame(t)
      PROVE  Fifo!Next
  <2>1. Owner[t] \in Side /\ outgoing[t] \in Message
    BY <1>1, OwnerAssumption DEF WriteFrame, IInv, TypeOK
  <2>2. Fifo!Put(Owner[t], outgoing[t])
    BY <1>1 DEF WriteFrame, Fifo!Put
  <2>3. QED
    BY <1>0, <2>1, <2>2 DEF Fifo!Next
<1>2. ASSUME NEW s \in Side, NEW f, f.box \in wire, Accept(s, f), UNCHANGED written
      PROVE  Fifo!Next
  <2>1. /\ Len(delivered[s]) < Len(written[Peer(s)])
        /\ [type |-> f.type, payload |-> f.box.payload]
             = written[Peer(s)][Len(delivered[s]) + 1]
    BY <1>2, OpenedIsNext DEF Accept
  <2>2. delivered' = [delivered EXCEPT ![s] =
                        Append(delivered[s], written[Peer(s)][Len(delivered[s]) + 1])]
    BY <1>2, <2>1 DEF Accept
  <2>3. Fifo!Get(s)
    BY <1>0, <1>2, <2>1, <2>2 DEF Fifo!Get
  <2>4. QED
    BY <1>0, <2>3 DEF Fifo!Next
<1>3. ASSUME NEW s \in Side, ReceiveNext(s)
      PROVE  Fifo!Next
  <2>1. Head(transit[s]).box \in wire
    <3>1. transit[s] \in Seq(WireFrame) /\ transit[s] # <<>>
      BY <1>3 DEF ReceiveNext, IInv, TypeOK
    <3>2. Head(transit[s]) = transit[s][1] /\ 1 \in 1 .. Len(transit[s])
      BY <3>1
    <3>3. QED
      BY <3>2 DEF IInv, TransitInv
  <2>2. Accept(s, Head(transit[s])) /\ UNCHANGED written
    BY <1>3 DEF ReceiveNext, Refuse
  <2>3. QED
    BY <1>2, <2>1, <2>2
<1>4. ASSUME NEW s \in Side, ReceiveInjected(s)
      PROVE  Fifo!Next
  <2>1. PICK b \in wire, ty \in Types, q \in 0 .. MaxSeq[s] :
          LET f == [type |-> ty, seq |-> q, box |-> b]
          IN  Accept(s, f) \/ Refuse(s, f)
    BY <1>4 DEF ReceiveInjected
  <2> DEFINE f == [type |-> ty, seq |-> q, box |-> b]
  <2>2. f.box \in wire /\ UNCHANGED written
    BY <1>4 DEF ReceiveInjected
  <2>3. Accept(s, f)
    BY <1>4, <2>1, <2>2 DEF Refuse
  <2> HIDE DEF f
  <2>4. QED
    BY <1>2, <2>2, <2>3
<1>5. ASSUME NEW t \in Threads, SendStep(t) \/ \E m \in Message : Request(t, m)
      PROVE  WriteFrame(t)
  BY <1>5 DEF SendStep, Request, SendRejected, Encrypt, WriteCutShort, WriteRefused,
              CommitSend
<1>6. ASSUME NEW s \in Side, ReceiveStep(s) \/ Close(s)
      PROVE  ReceiveNext(s) \/ ReceiveInjected(s)
  BY <1>6 DEF ReceiveStep, ReceiveBegin, ReceiveFails, Close
<1>7. Next
  BY DEF vars
<1>8. QED
  BY <1>1, <1>3, <1>4, <1>5, <1>6, <1>7 DEF Next

\* The encrypted channel, over any network, is the pair of queues that
\* FifoChannel describes.
THEOREM RefinesFifo == Spec => ImplementsFifo
<1>1. Init => Fifo!Init
  BY DEF Init, Fifo!Init, Fifo!Side, Side
<1>2. IInv /\ [Next]_vars => [Fifo!Next]_(Fifo!fifoVars)
  BY StepRefines DEF Fifo!fifoVars
<1>3. QED
  BY InitIInv, NextIInv, <1>1, <1>2, PTL DEF Spec, ImplementsFifo, Fifo!Spec

-----------------------------------------------------------------------------
(***************************************************************************)
(* The order of an undisturbed connection                                  *)
(***************************************************************************)

\* A frame is sealed only when the peer will take its size.
FitInv == \A t \in Threads : stage[t] = "sealed" => FitsFrame(outgoing[t].payload)

\* Frame f is the i-th the side will read when its counter is k.
Expected(s, k, f, i) ==
  /\ f.seq = k + i - 1
  /\ f.box.seq = f.seq /\ f.box.type = f.type
  /\ f.box.key = Peer(s) /\ f.box.prefix = Peer(s)
  /\ f.box.size >= EncryptedOverhead /\ f.box.size <= MaxPayload

\* Nothing follows a frame that was cut short.
Queued(s) ==
  /\ \A i \in 1 .. Len(transit[s]) :
       /\ Expected(s, receiveSequence[s], transit[s][i], i)
       /\ ~transit[s][i].box.whole => i = Len(transit[s]) /\ socket[Peer(s)] # "open"
  /\ socket[Peer(s)] = "open" => Len(written[Peer(s)]) = receiveSequence[s] + Len(transit[s])

\* What travels towards a side are the messages between the one it has
\* received last and the one its peer has written last.
OrderInv == ~Interference => \A s \in Side : Queued(s)

\* The first of the expected frames opens, unless it was cut short or the
\* receiver's counter is at its end.
LEMMA FirstOpens ==
  ASSUME TypeOK, NEW s \in Side, Queued(s), transit[s] # <<>>, Head(transit[s]).box.whole,
         ~Exhausted(s)
  PROVE  Opens(s, Head(transit[s]))
<1>1. transit[s] \in Seq(WireFrame)
  BY DEF TypeOK
<1>2. Head(transit[s]) = transit[s][1] /\ 1 \in 1 .. Len(transit[s])
  BY <1>1
<1>3. PICK f : f = Head(transit[s]) /\ Expected(s, receiveSequence[s], f, 1) /\ f.box.whole
  BY <1>2 DEF Queued
<1>4. receiveSequence[s] \in Nat
  BY DEF TypeOK
<1>5. Opens(s, f)
  BY <1>3, <1>4 DEF Expected, Opens, InSequence, ReceiveKey, PeerPrefix
<1> QED
  BY <1>3, <1>5

\* A receiver whose counter is at its end has a smaller range than the peer
\* that has written one frame more.
LEMMA ExhaustedIsNarrower ==
  ASSUME IInv, NEW s \in Side, Queued(s), transit[s] # <<>>, Head(transit[s]).box.whole,
         Exhausted(s)
  PROVE  MaxSeq[s] < MaxSeq[Peer(s)]
<1>1. PICK p \in Side : p = Peer(s)
  BY DEF Side, Peer
<1>2. transit[s] \in Seq(WireFrame)
  BY DEF IInv, TypeOK
<1>3. Head(transit[s]) = transit[s][1] /\ 1 \in 1 .. Len(transit[s])
  BY <1>2
<1>4. PICK f : f = Head(transit[s]) /\ Expected(s, receiveSequence[s], f, 1) /\ f.box.whole
               /\ f.box \in wire
  BY <1>3 DEF Queued, IInv, TransitInv
<1>5. receiveSequence[s] \in Nat /\ receiveSequence[s] = MaxSeq[s]
  BY DEF IInv, TypeOK, Exhausted
<1>6. f.box.key = p /\ f.box.seq = MaxSeq[s]
  BY <1>1, <1>4, <1>5 DEF Expected
<1>7. MaxSeq[s] < Len(written[p])
  BY <1>4, <1>6 DEF IInv, WireInv, WholeBox
<1>8. Len(written[p]) <= MaxSeq[p]
  <2>1. /\ sendSequence[p] \in Nat /\ sendSequence[p] <= MaxSeq[p]
        /\ MaxSeq[p] \in Nat
    BY SeqAssumption DEF IInv, TypeOK
  <2>2. CASE \A t \in Threads : Owner[t] = p => stage[t] # "written"
    BY <2>1, <2>2 DEF IInv, CounterInv
  <2>3. CASE \E t \in Threads : Owner[t] = p /\ stage[t] = "written"
    <3>1. Len(written[p]) = sendSequence[p] + 1 /\ sendSequence[p] # MaxSeq[p]
      BY <2>3 DEF IInv, CounterInv, HoldsLock
    <3> QED
      BY <2>1, <3>1
  <2> QED
    BY <2>2, <2>3
<1>9. /\ Len(written[p]) \in Nat /\ MaxSeq[p] \in Nat /\ MaxSeq[s] \in Nat
  BY SeqAssumption DEF IInv, TypeOK
<1> QED
  BY <1>1, <1>7, <1>8, <1>9

\* The sizes that are sealed fit.
LEMMA FitStep == TypeOK /\ FitInv /\ [Next]_vars => FitInv'
<1> SUFFICES ASSUME TypeOK, FitInv, [Next]_vars
             PROVE  FitInv'
  OBVIOUS
<1>1. CASE UNCHANGED vars
  BY <1>1 DEF vars, FitInv
<1>2. ASSUME NEW t \in Threads, SendStep(t)
      PROVE  FitInv'
  <2>1. CASE Encrypt(t)
    BY <2>1 DEF Encrypt, MaySend, FitInv, FitsFrame, TypeOK
  <2>2. CASE \/ SendRejected(t) \/ WriteFrame(t) \/ WriteCutShort(t) \/ WriteRefused(t)
             \/ CommitSend(t)
    <3>1. stage'[t] # "sealed" /\ \A u \in Threads : u # t => stage'[u] = stage[u]
                                                             /\ outgoing'[u] = outgoing[u]
      BY <2>2 DEF SendRejected, WriteFrame, WriteCutShort, WriteRefused, CommitSend, TypeOK
    <3> QED
      BY <3>1 DEF FitInv, FitsFrame
  <2> QED
    BY <1>2, <2>1, <2>2 DEF SendStep
<1>3. ASSUME NEW t \in Threads, NEW m \in Message, Request(t, m)
      PROVE  FitInv'
  BY <1>3 DEF Request, FitInv, FitsFrame, TypeOK
<1>4. ASSUME NEW s \in Side, ReceiveStep(s) \/ Close(s)
      PROVE  FitInv'
  BY <1>4 DEF ReceiveStep, ReceiveBegin, ReceiveNext, ReceiveInjected, ReceiveFails, Close,
              FitInv, FitsFrame
<1> QED
  BY <1>1, <1>2, <1>3, <1>4 DEF Next

\* Sockets that fail or are closed leave what travels as it is.
LEMMA OrderKept ==
  ASSUME OrderInv, UNCHANGED <<transit, receiveSequence, written>>,
         \A s \in Side : socket'[s] = "open" => socket[s] = "open"
  PROVE  OrderInv'
<1>1. \A s \in Side : Peer(s) \in Side
  BY DEF Side, Peer
<1> QED
  BY <1>1 DEF OrderInv, Queued, Expected

\* A frame is put behind those that travel already.
LEMMA OrderGrows ==
  ASSUME IInv, FitInv, OrderInv, NEW t \in Threads, WriteFrame(t) \/ WriteCutShort(t)
  PROVE  OrderInv'
<1> SUFFICES ASSUME ~Interference
             PROVE  \A r \in Side : Queued(r)'
  BY DEF OrderInv, WriteFrame, WriteCutShort
<1>1. PICK s \in Side, p \in Side : s = Owner[t] /\ p = Peer(s) /\ Peer(p) = s /\ p # s
  BY OwnerAssumption DEF Side, Peer
<1>2. stage[t] = "sealed" /\ socket[s] = "open"
  BY <1>1 DEF WriteFrame, WriteCutShort
<1>3. PICK w \in BOOLEAN, f \in WireFrame :
        /\ f = Sealed(t, w)
        /\ transit' = [transit EXCEPT ![p] = Append(@, f)]
        /\ w => /\ written' = [written EXCEPT ![s] = Append(@, outgoing[t])]
                /\ socket' = socket
        /\ ~w => written' = written /\ socket' = [socket EXCEPT ![s] = "broken"]
  <2>1. \A w \in BOOLEAN : Sealed(t, w) \in WireFrame
    BY <1>2, SealedType DEF IInv
  <2>2. CASE WriteFrame(t)
    BY <1>1, <2>1, <2>2 DEF WriteFrame, Transmit
  <2>3. CASE WriteCutShort(t)
    BY <1>1, <2>1, <2>3 DEF WriteCutShort, Transmit
  <2> QED
    BY <2>2, <2>3
<1>4. /\ f.seq = sendSequence[s] /\ f.box.seq = f.seq /\ f.box.type = f.type
      /\ f.box.key = s /\ f.box.prefix = s /\ f.box.whole = w
  BY <1>1, <1>3 DEF Sealed, Seal, SendKey, OwnPrefix
<1>5. f.box.size >= EncryptedOverhead /\ f.box.size <= MaxPayload
  <2>1. outgoing[t] \in Message
    BY <1>2 DEF IInv, TypeOK
  <2>2. PICK z \in Nat : z = PayloadSize[outgoing[t].payload]
    BY <2>1, SizeAssumption DEF Message
  <2>3. f.box.size = z + EncryptedOverhead
    BY <1>3, <2>2 DEF Sealed, Seal
  <2>4. z + EncryptedOverhead <= MaxPayload
    BY <1>2, <2>2 DEF FitInv, FitsFrame
  <2> QED
    BY <2>2, <2>3, <2>4, SizeAssumption DEF EncryptedOverhead
<1>6. receiveSequence' = receiveSequence
  BY DEF WriteFrame, WriteCutShort
<1>7. PICK n \in Nat, k \in Nat :
        n = Len(transit[p]) /\ k = receiveSequence[p] /\ sendSequence[s] = k + n
        /\ Len(written[s]) = k + n
  <2>1. Len(written[s]) = sendSequence[s]
    BY <1>1, <1>2 DEF IInv, LockInv, CounterInv, HoldsLock
  <2>2. Len(written[s]) = receiveSequence[p] + Len(transit[p])
    BY <1>1, <1>2 DEF OrderInv, Queued
  <2>3. Len(transit[p]) \in Nat /\ receiveSequence[p] \in Nat
    BY DEF IInv, TypeOK
  <2> QED
    BY <2>1, <2>2, <2>3
<1>8. /\ Len(transit'[p]) = n + 1 /\ transit'[p][n + 1] = f
      /\ \A i \in 1 .. n : transit'[p][i] = transit[p][i]
  <2>1. transit[p] \in Seq(WireFrame) /\ transit'[p] = Append(transit[p], f)
    BY <1>3 DEF IInv, TypeOK
  <2> QED
    BY <1>7, <2>1
<1>9. Queued(p)'
  <2>1. \A i \in 1 .. n : Expected(p, k, transit[p][i], i) /\ transit[p][i].box.whole
    BY <1>1, <1>2, <1>7 DEF OrderInv, Queued
  <2>2. Expected(p, k, f, n + 1)
    BY <1>1, <1>4, <1>5, <1>7 DEF Expected
  <2>3. \A i \in 1 .. n + 1 : i \in 1 .. n \/ i = n + 1
    BY <1>7
  <2>4. \A i \in 1 .. n + 1 : Expected(p, k, transit'[p][i], i)
    BY <1>8, <2>1, <2>2, <2>3
  <2>5. \A i \in 1 .. n + 1 : ~transit'[p][i].box.whole => i = n + 1 /\ ~w
    BY <1>4, <1>8, <2>1, <2>3
  <2>6. ~w => socket'[s] # "open"
    BY <1>3 DEF IInv, TypeOK
  <2>7. w => Len(written'[s]) = k + (n + 1)
    <3>1. written[s] \in Seq(Message) /\ written \in [Side -> Seq(Message)]
      BY DEF IInv, TypeOK
    <3>2. w => written'[s] = Append(written[s], outgoing[t])
      BY <1>3, <3>1
    <3>3. Len(Append(written[s], outgoing[t])) = Len(written[s]) + 1
      BY <3>1
    <3>4. (k + n) + 1 = k + (n + 1)
      OBVIOUS
    <3> QED
      BY <1>7, <3>2, <3>3, <3>4
  <2> QED
    BY <1>1, <1>6, <1>7, <1>8, <2>4, <2>5, <2>6, <2>7 DEF Queued
<1>10. Queued(s)'
  <2>1. transit'[s] = transit[s] /\ socket'[p] = socket[p] /\ written'[p] = written[p]
    BY <1>1, <1>3 DEF IInv, TypeOK
  <2>2. Queued(s)
    BY DEF OrderInv
  <2> QED
    BY <1>1, <1>6, <2>1, <2>2 DEF Queued, Expected
<1> QED
  BY <1>1, <1>9, <1>10 DEF Side

\* The first frame is taken: it opens, or it was the last.
LEMMA OrderShrinks ==
  ASSUME IInv, OrderInv, NEW s \in Side, ReceiveNext(s)
  PROVE  OrderInv'
<1> SUFFICES ASSUME ~Interference
             PROVE  \A r \in Side : Queued(r)'
  BY DEF OrderInv
<1>1. PICK p \in Side : p = Peer(s) /\ Peer(p) = s /\ p # s
  BY DEF Side, Peer
<1>2. Queued(s) /\ Queued(p)
  BY DEF OrderInv
<1>3. PICK n \in Nat, k \in Nat : n + 1 = Len(transit[s]) /\ k = receiveSequence[s]
  <2>1. transit[s] \in Seq(WireFrame) /\ transit[s] # <<>> /\ receiveSequence[s] \in Nat
    BY DEF IInv, TypeOK, ReceiveNext
  <2>2. Len(transit[s]) \in Nat \ {0}
    BY <2>1
  <2>3. Len(transit[s]) - 1 \in Nat /\ (Len(transit[s]) - 1) + 1 = Len(transit[s])
    BY <2>2
  <2> QED
    BY <2>1, <2>3
<1>4. Len(transit'[s]) = n /\ \A i \in 1 .. n : transit'[s][i] = transit[s][i + 1]
  <2>1. transit[s] \in Seq(WireFrame) /\ transit[s] # <<>> /\ transit'[s] = Tail(transit[s])
    BY DEF IInv, TypeOK, ReceiveNext
  <2> QED
    BY <1>3, <2>1
<1>5. PICK h : h = Head(transit[s]) /\ h = transit[s][1] /\ (Accept(s, h) \/ Refuse(s, h))
  <2>1. transit[s] \in Seq(WireFrame) /\ transit[s] # <<>>
    BY DEF IInv, TypeOK, ReceiveNext
  <2>2. Head(transit[s]) = transit[s][1]
    BY <2>1
  <2> QED
    BY <2>2 DEF ReceiveNext
<1>6. /\ transit'[p] = transit[p] /\ written' = written /\ receiveSequence'[p] = receiveSequence[p]
      /\ socket'[p] = socket[p] /\ (socket'[s] = "open" => socket[s] = "open")
  BY <1>1, <1>5 DEF IInv, TypeOK, ReceiveNext, Accept, Refuse
<1>7. Queued(p)'
  BY <1>1, <1>2, <1>6 DEF Queued, Expected
<1>8. CASE Accept(s, h)
  <2>1. receiveSequence'[s] = k + 1
    BY <1>3, <1>8 DEF Accept, IInv, TypeOK
  <2>2. ASSUME NEW i \in 1 .. n
        PROVE  Expected(s, k + 1, transit'[s][i], i)
    <3>1. i + 1 \in 1 .. n + 1
      OBVIOUS
    <3>2. Expected(s, k, transit[s][i + 1], i + 1)
      BY <1>2, <1>3, <3>1 DEF Queued
    <3>3. k + (i + 1) - 1 = (k + 1) + i - 1
      OBVIOUS
    <3> QED
      BY <1>3, <1>4, <2>1, <3>2, <3>3 DEF Expected
  <2>3. ASSUME NEW i \in 1 .. n, ~transit'[s][i].box.whole
        PROVE  i = n /\ socket[p] # "open"
    <3>1. i + 1 \in 1 .. n + 1 /\ (i + 1 = n + 1 => i = n)
      OBVIOUS
    <3> QED
      BY <1>1, <1>2, <1>3, <1>4, <2>3, <3>1 DEF Queued
  <2>4. socket[p] = "open" => Len(written[p]) = (k + 1) + n
    <3>1. socket[p] = "open" => Len(written[p]) = k + (n + 1)
      BY <1>1, <1>2, <1>3 DEF Queued
    <3>2. k + (n + 1) = (k + 1) + n
      OBVIOUS
    <3> QED
      BY <3>1, <3>2
  <2>5. Queued(s)'
    BY <1>1, <1>4, <1>6, <2>1, <2>2, <2>3, <2>4 DEF Queued
  <2> QED
    BY <1>1, <1>7, <2>5 DEF Side
<1>9. CASE Refuse(s, h)
  <2>1. ~h.box.whole
    BY <1>2, <1>5, <1>9, FirstOpens DEF Refuse, IInv, ReceiveNext, DeliveredInv, Exhausted
  <2>2. 1 = n + 1 /\ socket[p] # "open"
    <3>1. 1 \in 1 .. n + 1
      OBVIOUS
    <3> QED
      BY <1>1, <1>2, <1>3, <1>5, <2>1, <3>1 DEF Queued
  <2>3. n = 0
    BY <2>2
  <2>4. Queued(s)'
    BY <1>1, <1>4, <1>6, <2>2, <2>3 DEF Queued
  <2> QED
    BY <1>1, <1>7, <2>4 DEF Side
<1> QED
  BY <1>5, <1>8, <1>9

\* No step disturbs the order of a connection that keeps it.
LEMMA OrderStep == IInv /\ FitInv /\ OrderInv /\ [Next]_vars => OrderInv'
<1> SUFFICES ASSUME IInv, FitInv, OrderInv, [Next]_vars
             PROVE  OrderInv'
  OBVIOUS
<1>1. CASE UNCHANGED vars
  BY <1>1, OrderKept DEF vars
<1>2. ASSUME NEW t \in Threads, SendStep(t) \/ \E m \in Message : Request(t, m)
      PROVE  OrderInv'
  <2>1. CASE WriteFrame(t) \/ WriteCutShort(t)
    BY <2>1, OrderGrows
  <2>2. CASE SendRejected(t) \/ Encrypt(t) \/ WriteRefused(t) \/ CommitSend(t)
             \/ \E m \in Message : Request(t, m)
    <3>1. UNCHANGED <<transit, receiveSequence, written, socket>>
      BY <2>2 DEF SendRejected, Encrypt, WriteRefused, CommitSend, Request
    <3> QED
      BY <3>1, OrderKept
  <2> QED
    BY <1>2, <2>1, <2>2 DEF SendStep
<1>3. ASSUME NEW s \in Side, ReceiveStep(s) \/ Close(s)
      PROVE  OrderInv'
  <2>1. CASE ReceiveNext(s)
    BY <2>1, OrderShrinks
  <2>2. CASE ReceiveInjected(s)
    BY <2>2 DEF ReceiveInjected, OrderInv
  <2>3. CASE ReceiveBegin(s) \/ ReceiveFails(s) \/ Close(s)
    <3>1. /\ UNCHANGED <<transit, receiveSequence, written>>
          /\ \A r \in Side : socket'[r] = "open" => socket[r] = "open"
      BY <2>3 DEF ReceiveBegin, ReceiveFails, Close, IInv, TypeOK
    <3> QED
      BY <3>1, OrderKept
  <2> QED
    BY <1>3, <2>1, <2>2, <2>3 DEF ReceiveStep
<1> QED
  BY <1>1, <1>2, <1>3 DEF Next

\* On a connection that keeps its order, every frame written whole opens when
\* it is read: the limits, counters, keys, nonces and headers of both ends
\* agree, for any counter widths and any threads.  A receiver refuses one only
\* at the end of its own counter, and only if that is narrower than the peer's.
THEOREM WholeFramesOpen == Spec => []WholeFrameIsOpened
<1>1. Init => FitInv /\ OrderInv
  BY DEF Init, FitInv, OrderInv, Queued, Side, Peer
<1>2. IInv /\ OrderInv => WholeFrameIsOpened
  <2>1. SUFFICES ASSUME IInv, OrderInv, NEW s \in Side, ~Interference, transit[s] # <<>>,
                        Head(transit[s]).box.whole
                 PROVE  \/ Opens(s, Head(transit[s]))
                        \/ Exhausted(s) /\ MaxSeq[s] < MaxSeq[Peer(s)]
    BY DEF WholeFrameIsOpened
  <2> QED
    BY <2>1, FirstOpens, ExhaustedIsNarrower DEF IInv, OrderInv
<1>3. IInv => TypeOK
  BY DEF IInv
<1> QED
  BY InitIInv, NextIInv, FitStep, OrderStep, <1>1, <1>2, <1>3, PTL DEF Spec
=============================================================================
