-------------------------- MODULE ControllerProofs --------------------------
(***************************************************************************)
(* Proofs about Controller, for any number of attempts, any lifetime and   *)
(* any bounds: a secret opens one session, within its lifetime, and the    *)
(* two ends of a session agree on it, whatever handshake frames the        *)
(* network repeats.                                                        *)
(***************************************************************************)
EXTENDS Controller, FiniteSetTheorems, TLAPS

\* A phone that has not answered a SERVER_HELLO.
Early == {"none", "scanned", "hello"}

\* Where the secret on the screen is the current one and not yet used.
Waiting == {"poll", "accepted", "auth", "verified"}

\* Where the session of conn has been opened.
Serving == {"descriptor", "activate", "probe", "session", "closing"}

Proof(b) == makeProof(token[b], "client proof v2", helloNonce[b], b)
Answer(a) == makeProof(serverKey[a].secret, "server proof v2", a, serverKey[a].client)

\* Only these frames were ever sent: the controller's hellos, the proof of
\* each phone that answered, and the answer to each session's phone.
FramesInv ==
  \A f \in seen : \/ \E a \in Attempts : f = Hello(a)
                  \/ \E b \in Attempts : phase[b] \notin Early /\ f = ClientAuth(b, Proof(b))
                  \/ \E a \in Attempts : Opened(a) /\ f = ServerAuth(Answer(a))

\* What is on its way was sent.
LinkInv ==
  /\ link \in [Attempts -> [up : seen \cup {NoFrame}, down : seen \cup {NoFrame}]]

\* An attempt is served once: it is not connected yet, waits in the queue
\* at one place, is being served, or is over.
OnceInv ==
  /\ \A i, j \in 1 .. Len(backlog) : backlog[i] = backlog[j] => i = j
  /\ \A i \in 1 .. Len(backlog) : /\ phase[backlog[i]] \notin {"none", "scanned"}
                                  /\ ~Opened(backlog[i])
                                  /\ backlog[i] # conn
  /\ \A a \in Attempts : Opened(a) \/ a = conn => phase[a] \notin {"none", "scanned"}
  /\ pc \in {"accepted", "auth", "verified"} => ~Opened(conn)

\* The proof that was accepted is the one of a phone that scanned the
\* current secret and answered this connection's nonce.
ClientInv ==
  pc = "verified" => /\ clientNonce \in Attempts
                     /\ phase[clientNonce] \notin Early
                     /\ PhoneKey(clientNonce) = Key(secret, conn, clientNonce)

\* A session's key is that of the phone whose nonce is in it.
KeysInv ==
  \A a \in Attempts : Opened(a) =>
    /\ phase[serverKey[a].client] \notin Early
    /\ serverKey[a] = Key(serverKey[a].secret, a, serverKey[a].client)
    /\ serverKey[a] = PhoneKey(serverKey[a].client)

\* A phone that verified the answer has the key of the connection it
\* answered.
PairedInv ==
  \A b \in Attempts : phase[b] \in {"paired", "left"} =>
    /\ helloNonce[b] \in Attempts
    /\ Opened(helloNonce[b])
    /\ serverKey[helloNonce[b]] = PhoneKey(b)

\* The current secret is used by the session being served, or by the last
\* one before the exit.
SecretInv ==
  /\ pc \notin {"top", "exit"} => secret > 0
  /\ \A a \in Attempts : Opened(a) =>
       /\ serverKey[a].secret <= secret
       /\ serverKey[a].secret = secret =>
            pc = "exit" \/ (a = conn /\ authenticated /\ pc \in Serving)

\* The lifetime in force began no later than the code was shown.
LifeInv ==
  /\ pairingExpires <= now + Lifetime
  /\ pc \in Waiting => pairingExpires <= shownAt + Lifetime

Safe == /\ FramesInv
        /\ LinkInv
        /\ OnceInv
        /\ ClientInv
        /\ KeysInv
        /\ PairedInv
        /\ SecretInv
        /\ LifeInv
        /\ SecretOpensOneSession
        /\ SecretLifetime

IInv == TypeOK /\ Safe

-----------------------------------------------------------------------------
\* A phone that has connected stays so, and what a phone has answered with
\* does not change any more.
LEMMA PhoneStep ==
  ASSUME TypeOK, [Next]_vars, NEW b \in Attempts
  PROVE  /\ phase[b] \notin Early => /\ phase'[b] \notin Early
                                     /\ token'[b] = token[b]
                                     /\ helloNonce'[b] = helloNonce[b]
         /\ phase[b] \notin {"none", "scanned"} => phase'[b] \notin {"none", "scanned"}
<1> USE DEF TypeOK, Early, phoneVars
<1>1. CASE \E a \in Attempts : Phone(a)
  <2>1. PICK a \in Attempts : Phone(a)
    BY <1>1
  <2>2. CASE Scan(a)
    BY <2>2 DEF Scan
  <2>3. CASE Connect(a)
    BY <2>3 DEF Connect
  <2>4. CASE Prove(a)
    <3>1. /\ phase[a] = "hello"
          /\ \E f : helloNonce' = [helloNonce EXCEPT ![a] = f.nonce]
          /\ phase' = [phase EXCEPT ![a] = "proof"]
          /\ token' = token
      BY <2>4 DEF Prove
    <3> QED
      BY <3>1
  <2>5. CASE Verify(a)
    BY <2>5 DEF Verify
  <2>6. CASE Abandon(a)
    BY <2>6 DEF Abandon
  <2> QED
    BY <2>1, <2>2, <2>3, <2>4, <2>5, <2>6 DEF Phone
<1>2. CASE ~\E a \in Attempts : Phone(a)
  <2>1. UNCHANGED phoneVars
    <3>1. CASE MainLoop
      BY <3>1 DEF MainLoop, ShowQr, GiveUp, PollExpired, PollInterrupted, Accept,
                  AcceptedTooLate, Closing
    <3>2. CASE HandleClient
      BY <3>2 DEF HandleClient, SendHello, ReceiveClientAuth, SendServerAuth,
                  ReceiveDescriptor, SendActivation, ProbeAgain, StartMedia,
                  HandshakeFails, SessionEnds, LeaveTo
    <3>3. CASE Tick \/ UNCHANGED vars
      BY <3>3 DEF Tick, vars
    <3> QED
      BY <1>2, <3>1, <3>2, <3>3 DEF Next
  <2> QED
    BY <2>1
<1> QED
  BY <1>1, <1>2

\* A session is opened by SendServerAuth and never changed.
LEMMA SessionStep ==
  ASSUME [Next]_vars, ~SendServerAuth
  PROVE  UNCHANGED <<serverKey, ageAtUse>>
<1>1. CASE MainLoop
  BY <1>1 DEF MainLoop, ShowQr, GiveUp, PollExpired, PollInterrupted, Accept,
              AcceptedTooLate, Closing
<1>2. CASE HandleClient
  BY <1>2 DEF HandleClient, SendHello, ReceiveClientAuth, ReceiveDescriptor, SendActivation,
              ProbeAgain, StartMedia, HandshakeFails, SessionEnds, LeaveTo
<1>3. CASE Tick \/ UNCHANGED vars
  BY <1>3 DEF Tick, vars, serverVars
<1>4. CASE \E a \in Attempts : Phone(a)
  BY <1>4 DEF Phone, Scan, Connect, Prove, Verify, Abandon, serverVars
<1> QED
  BY <1>1, <1>2, <1>3, <1>4 DEF Next

\* Frames are sent by three steps.
LEMMA SeenStep ==
  ASSUME [Next]_vars, ~SendServerAuth, ~SendHello, \A a \in Attempts : ~Prove(a)
  PROVE  UNCHANGED seen
<1>1. CASE MainLoop
  BY <1>1 DEF MainLoop, ShowQr, GiveUp, PollExpired, PollInterrupted, Accept,
              AcceptedTooLate, Closing
<1>2. CASE HandleClient
  BY <1>2 DEF HandleClient, ReceiveClientAuth, ReceiveDescriptor, SendActivation,
              ProbeAgain, StartMedia, HandshakeFails, SessionEnds, LeaveTo
<1>3. CASE Tick \/ UNCHANGED vars
  BY <1>3 DEF Tick, vars
<1>4. CASE \E a \in Attempts : Phone(a)
  BY <1>4 DEF Phone, Scan, Connect, Verify, Abandon
<1> QED
  BY <1>1, <1>2, <1>3, <1>4 DEF Next

\* A read returns a frame that was sent.
LEMMA Arrived ==
  ASSUME LinkInv, NEW a \in Attempts, NEW f,
         f \in Arriving(link[a].up) \/ f \in Arriving(link[a].down)
  PROVE  f \in seen
<1>1. link[a].up \in seen \cup {NoFrame} /\ link[a].down \in seen \cup {NoFrame}
  BY DEF LinkInv
<1> QED
  BY <1>1 DEF Arriving

\* What a frame of each type says.
LEMMA FrameSays ==
  ASSUME FramesInv, NEW f \in seen
  PROVE  /\ f.type = "SERVER_HELLO" => f.nonce \in Attempts
         /\ f.type = "CLIENT_AUTH" => /\ f.nonce \in Attempts
                                      /\ phase[f.nonce] \notin Early
                                      /\ f.proof = Proof(f.nonce)
         /\ f.type = "SERVER_AUTH" =>
              \E a \in Attempts : Opened(a) /\ f.proof = Answer(a)
<1>1. CASE \E a \in Attempts : f = Hello(a)
  BY <1>1 DEF Hello
<1>2. CASE \E b \in Attempts : phase[b] \notin Early /\ f = ClientAuth(b, Proof(b))
  BY <1>2 DEF ClientAuth
<1>3. CASE \E a \in Attempts : Opened(a) /\ f = ServerAuth(Answer(a))
  BY <1>3 DEF ServerAuth
<1> QED
  BY <1>1, <1>2, <1>3 DEF FramesInv

\* A session's key is made of a secret and two nonces.
LEMMA OpenedKey ==
  ASSUME TypeOK, NEW a \in Attempts, Opened(a)
  PROVE  /\ serverKey[a].secret \in 1 .. MaxSecrets
         /\ serverKey[a].client \in Attempts
         /\ serverKey[a].server \in Attempts
BY DEF TypeOK, Opened, Keys

\* The step that opens a session adds one to the sessions there were.
LEMMA Opening ==
  ASSUME IInv, SendServerAuth
  PROVE  /\ conn \in Attempts /\ ~Opened(conn) /\ Opened(conn)'
         /\ serverKey'[conn] = Key(secret, conn, clientNonce)
         /\ Key(secret, conn, clientNonce) \in Keys
         /\ \A a \in Attempts : a # conn => serverKey'[a] = serverKey[a]
         /\ UNCHANGED <<phoneVars, secret, conn>>
<1> USE DEF IInv, Safe
<1>1. /\ pc = "verified"
      /\ serverKey' = [serverKey EXCEPT ![conn] = Key(secret, conn, clientNonce)]
      /\ UNCHANGED <<phoneVars, secret, conn>>
  BY DEF SendServerAuth, serverNonce
<1>2. conn \in Attempts
  BY <1>1 DEF TypeOK, Handshaking
<1>3. ~Opened(conn) /\ clientNonce \in Attempts /\ secret \in 1 .. MaxSecrets
  BY <1>1 DEF OnceInv, ClientInv, SecretInv, TypeOK
<1>4. Key(secret, conn, clientNonce) \in Keys
  BY <1>2, <1>3 DEF Key, Keys
<1>5. Key(secret, conn, clientNonce) # NoKey
  BY <1>3 DEF Key, NoKey
<1>6. serverKey'[conn] = Key(secret, conn, clientNonce)
  BY <1>1, <1>2 DEF TypeOK
<1>7. Opened(conn)'
  BY <1>1, <1>5, <1>6 DEF Opened
<1>8. \A a \in Attempts : a # conn => serverKey'[a] = serverKey[a]
  BY <1>1 DEF TypeOK
<1> QED
  BY <1>1, <1>2, <1>3, <1>4, <1>6, <1>7, <1>8

-----------------------------------------------------------------------------
\* The main loop keeps every variable in its type.
LEMMA TypeMain ==
  ASSUME IInv, MainLoop
  PROVE  TypeOK'
<1> USE LifetimeAssumption, BoundsAssumption, NoAttemptAssumption
<1> USE DEF TypeOK, IInv, Handshaking, Stages, phoneVars
<1>1. CASE ShowQr
  BY <1>1 DEF ShowQr, randomSecret
<1>2. CASE GiveUp
  BY <1>2 DEF GiveUp
<1>3. CASE PollExpired \/ AcceptedTooLate \/ Closing
  <2>1. Renew \/ UNCHANGED <<secret, pairingExpires>>
    BY <1>3 DEF PollExpired, AcceptedTooLate, Closing
  <2>2. /\ secret' \in 0 .. MaxSecrets /\ shown \in 0 .. secret'
        /\ pairingExpires' \in 0 .. MaxTime + Lifetime
    BY <2>1 DEF Renew, randomSecret
  <2>3. conn' = NoAttempt /\ pc' \in {"top", "exit"}
    BY <1>3 DEF PollExpired, AcceptedTooLate, Closing
  <2>4. UNCHANGED <<now, shown, shownAt, backlog, clientNonce, probes, authenticated,
                    phoneVars, serverKey, ageAtUse>>
    BY <1>3 DEF PollExpired, AcceptedTooLate, Closing
  <2> QED
    BY <2>2, <2>3, <2>4
<1>4. CASE PollInterrupted
  BY <1>4 DEF PollInterrupted
<1>5. CASE Accept
  <2>1. /\ Head(backlog) \in Attempts
        /\ Tail(backlog) \in Seq(Attempts)
        /\ Len(Tail(backlog)) <= Backlog
    BY <1>5 DEF Accept
  <2>2. /\ backlog' \in Seq(Attempts) /\ Len(backlog') <= Backlog
        /\ conn' \in Attempts /\ conn' # NoAttempt
        /\ clientNonce' = NoAttempt /\ probes' = 0 /\ authenticated' = FALSE
        /\ pc' = "accepted"
    BY <1>5, <2>1 DEF Accept
  <2>3. UNCHANGED <<now, secret, pairingExpires, shown, shownAt, phoneVars, serverKey,
                    ageAtUse>>
    BY <1>5 DEF Accept
  <2>4. /\ clientNonce' \in Attempts \cup {NoAttempt}
        /\ probes' \in 0 .. ProbeAttempts
        /\ pc' \in Stages
        /\ pc' \in Handshaking \cup {"session", "closing"}
    BY <2>2
  <2>5. authenticated' \in BOOLEAN
    BY <1>5, Zenon DEF Accept
  <2> QED
    BY <2>2, <2>3, <2>4, <2>5
<1> QED
  BY <1>1, <1>2, <1>3, <1>4, <1>5 DEF MainLoop

\* handleClient does: the nonce it reads is one that was drawn, since every
\* CLIENT_AUTH that was sent holds one.
LEMMA TypeClient ==
  ASSUME IInv, HandleClient
  PROVE  TypeOK'
<1> USE LifetimeAssumption, BoundsAssumption, NoAttemptAssumption
<1> USE DEF TypeOK, Handshaking, Stages, phoneVars
<1> TypeOK
  BY DEF IInv
<1>1. CASE SendHello
  BY <1>1 DEF SendHello
<1>2. CASE ReceiveClientAuth
  <2>1. PICK f \in Arriving(link[conn].up) : ClientProved(f) /\ clientNonce' = f.nonce
    BY <1>2 DEF ReceiveClientAuth
  <2>2. conn \in Attempts
    BY <1>2 DEF ReceiveClientAuth
  <2>3. f \in seen
    BY <2>1, <2>2, Arrived DEF IInv, Safe
  <2>4. clientNonce' \in Attempts
    BY <2>1, <2>3, FrameSays DEF ClientProved, IInv, Safe
  <2> QED
    BY <1>2, <2>4 DEF ReceiveClientAuth
<1>3. CASE SendServerAuth
  <2>1. /\ conn \in Attempts
        /\ Key(secret, conn, clientNonce) \in Keys
    BY <1>3, Opening
  <2>2. serverKey' \in [Attempts -> Keys \cup {NoKey}]
    BY <1>3, <2>1 DEF SendServerAuth, serverNonce
  <2>3. now - shownAt \in 0 .. MaxTime
    OBVIOUS
  <2>4. ageAtUse' = [ageAtUse EXCEPT ![conn] = now - shownAt]
    BY <1>3 DEF SendServerAuth
  <2>5. ageAtUse' \in [Attempts -> 0 .. MaxTime]
    BY <2>3, <2>4
  <2> QED
    BY <1>3, <2>1, <2>2, <2>5 DEF SendServerAuth
<1>4. CASE ReceiveDescriptor
  BY <1>4 DEF ReceiveDescriptor
<1>5. CASE SendActivation
  BY <1>5 DEF SendActivation
<1>6. CASE ProbeAgain
  BY <1>6 DEF ProbeAgain
<1>7. CASE StartMedia
  BY <1>7 DEF StartMedia
<1>8. CASE HandshakeFails
  BY <1>8 DEF HandshakeFails, LeaveTo, Deadlines
<1>9. CASE SessionEnds
  BY <1>9 DEF SessionEnds, LeaveTo
<1> QED
  BY <1>1, <1>2, <1>3, <1>4, <1>5, <1>6, <1>7, <1>8, <1>9 DEF HandleClient

\* So does every step.
LEMMA TypeStep ==
  ASSUME IInv, [Next]_vars
  PROVE  TypeOK'
<1> USE LifetimeAssumption, BoundsAssumption, NoAttemptAssumption
<1> USE DEF TypeOK, serverVars, phoneVars
<1> TypeOK
  BY DEF IInv
<1>1. CASE MainLoop
  BY <1>1, TypeMain
<1>2. CASE HandleClient
  BY <1>2, TypeClient
<1>3. CASE Tick
  BY <1>3 DEF Tick
<1>4. CASE UNCHANGED vars
  BY <1>4 DEF vars
<1>5. CASE \E a \in Attempts : Phone(a)
  <2>1. PICK a \in Attempts : Phone(a)
    BY <1>5
  <2>2. CASE Scan(a)
    BY <2>2 DEF Scan
  <2>3. CASE Connect(a)
    <3>1. Append(backlog, a) \in Seq(Attempts) /\ Len(Append(backlog, a)) <= Backlog
      BY <2>3 DEF Connect
    <3> QED
      BY <2>3, <3>1 DEF Connect
  <2>4. CASE Prove(a)
    <3>1. PICK f \in Arriving(link[a].down) :
            /\ f.type = "SERVER_HELLO"
            /\ helloNonce' = [helloNonce EXCEPT ![a] = f.nonce]
      BY <2>4 DEF Prove
    <3>2. f.nonce \in Attempts
      BY <3>1, Arrived, FrameSays DEF IInv, Safe
    <3>3. helloNonce' \in [Attempts -> Attempts \cup {NoAttempt}]
      BY <3>1, <3>2
    <3> QED
      BY <2>4, <3>3 DEF Prove
  <2>5. CASE Verify(a)
    BY <2>5 DEF Verify
  <2>6. CASE Abandon(a)
    BY <2>6 DEF Abandon
  <2> QED
    BY <2>1, <2>2, <2>3, <2>4, <2>5, <2>6 DEF Phone
<1> QED
  BY <1>1, <1>2, <1>3, <1>4, <1>5 DEF Next

\* A session that is open stays open, with its key.
LEMMA KeyStep ==
  ASSUME IInv, [Next]_vars, NEW a \in Attempts, Opened(a)
  PROVE  Opened(a)' /\ serverKey'[a] = serverKey[a]
<1>1. CASE SendServerAuth
  <2>1. a # conn
    BY <1>1, Opening
  <2> QED
    BY <1>1, <2>1, Opening DEF Opened
<1>2. CASE ~SendServerAuth
  BY <1>2, SessionStep DEF Opened
<1> QED
  BY <1>1, <1>2

\* No step sends a frame of another kind, and what the sent ones say stays
\* true.
LEMMA FramesStep ==
  ASSUME IInv, [Next]_vars
  PROVE  FramesInv'
<1> DEFINE Sent(f) == \/ \E a \in Attempts : f = Hello(a)
                      \/ \E b \in Attempts : phase[b] \notin Early /\ f = ClientAuth(b, Proof(b))
                      \/ \E a \in Attempts : Opened(a) /\ f = ServerAuth(Answer(a))
<1>1. ASSUME NEW f \in seen
      PROVE  Sent(f)'
  <2>1. CASE \E a \in Attempts : f = Hello(a)
    BY <2>1 DEF Hello
  <2>2. CASE \E b \in Attempts : phase[b] \notin Early /\ f = ClientAuth(b, Proof(b))
    <3>1. PICK b \in Attempts : phase[b] \notin Early /\ f = ClientAuth(b, Proof(b))
      BY <2>2
    <3>2. phase'[b] \notin Early /\ token'[b] = token[b] /\ helloNonce'[b] = helloNonce[b]
      BY <3>1, PhoneStep DEF IInv
    <3>3. Proof(b)' = Proof(b)
      BY <3>2 DEF Proof, makeProof
    <3>4. f = ClientAuth(b, Proof(b)')
      BY <3>1, <3>3
    <3> QED
      BY <3>2, <3>4 DEF ClientAuth, Early
  <2>3. CASE \E a \in Attempts : Opened(a) /\ f = ServerAuth(Answer(a))
    <3>1. PICK a \in Attempts : Opened(a) /\ f = ServerAuth(Answer(a))
      BY <2>3
    <3>2. Opened(a)' /\ serverKey'[a] = serverKey[a]
      BY <3>1, KeyStep
    <3>3. Answer(a)' = Answer(a)
      BY <3>2 DEF Answer, makeProof
    <3>4. f = ServerAuth(Answer(a)')
      BY <3>1, <3>3
    <3> QED
      BY <3>2, <3>4 DEF ServerAuth
  <2> QED
    BY <2>1, <2>2, <2>3 DEF IInv, Safe, FramesInv
<1>2. CASE SendHello
  <2>1. seen' = seen \cup {Hello(conn)} /\ conn \in Attempts
    BY <1>2 DEF SendHello, serverNonce, IInv, TypeOK, Handshaking
  <2> QED
    BY <1>1, <2>1 DEF FramesInv, Hello
<1>3. CASE SendServerAuth
  <2>1. PICK c \in Attempts : c = conn
    BY <1>3, Opening
  <2>2. PICK g : g = ServerAuth(makeProof(secret, "server proof v2", c, clientNonce))
    OBVIOUS
  <2>3. /\ seen' = seen \cup {g}
        /\ Opened(c)'
        /\ serverKey'[c] = Key(secret, c, clientNonce)
    <3>1. seen' = seen \cup {g}
      BY <1>3, <2>1, <2>2 DEF SendServerAuth, serverNonce
    <3>2. serverKey'[c] = Key(secret, c, clientNonce)
      BY <1>3, <2>1, Opening
    <3>3. serverKey'[c] # NoKey
      BY <3>2 DEF Key, NoKey
    <3> QED
      BY <3>1, <3>2, <3>3 DEF Opened
  <2>4. Answer(c)' = makeProof(secret, "server proof v2", c, clientNonce)
    BY <2>3 DEF Answer, makeProof, Key
  <2>5. g = ServerAuth(Answer(c)')
    BY <2>2, <2>4
  <2>6. Sent(g)'
    BY <2>3, <2>5 DEF ServerAuth
  <2> QED
    BY <1>1, <2>3, <2>6 DEF FramesInv
<1>4. CASE \E a \in Attempts : Prove(a)
  <2>1. PICK a \in Attempts : Prove(a)
    BY <1>4
  <2>2. PICK f : /\ helloNonce' = [helloNonce EXCEPT ![a] = f.nonce]
                 /\ seen' = seen \cup {ClientAuth(a, makeProof(token[a], "client proof v2",
                                                               f.nonce, a))}
    BY <2>1 DEF Prove
  <2>3. PICK g : g = ClientAuth(a, makeProof(token[a], "client proof v2", f.nonce, a))
    OBVIOUS
  <2>4. /\ token' = token
        /\ phase' = [phase EXCEPT ![a] = "proof"]
    BY <2>1 DEF Prove
  <2>5. helloNonce'[a] = f.nonce /\ phase'[a] = "proof"
    BY <2>2, <2>4 DEF IInv, TypeOK
  <2>6. Proof(a)' = makeProof(token[a], "client proof v2", f.nonce, a)
    BY <2>4, <2>5 DEF Proof, makeProof
  <2>7. g = ClientAuth(a, Proof(a)') /\ phase'[a] \notin Early
    BY <2>3, <2>5, <2>6 DEF Early
  <2>8. Sent(g)'
    BY <2>7 DEF ClientAuth, Early
  <2> QED
    BY <1>1, <2>2, <2>3, <2>8 DEF FramesInv
<1>5. CASE ~SendServerAuth /\ ~SendHello /\ ~\E a \in Attempts : Prove(a)
  <2>1. seen' = seen
    BY <1>5, SeenStep
  <2> QED
    BY <1>1, <2>1 DEF FramesInv
<1> QED
  BY <1>2, <1>3, <1>4, <1>5

\* What is put on the way is sent, and what was sent stays so.
LEMMA LinkStep ==
  ASSUME IInv, [Next]_vars
  PROVE  LinkInv'
<1> DEFINE Way(s) == [up : s \cup {NoFrame}, down : s \cup {NoFrame}]
<1>1. link \in [Attempts -> Way(seen)]
  BY DEF IInv, Safe, LinkInv
<1>2. SUFFICES link' \in [Attempts -> Way(seen')]
  BY <1>2 DEF LinkInv
<1>3. CASE MainLoop
  <2>1. UNCHANGED <<link, seen>>
    BY <1>3 DEF MainLoop, ShowQr, GiveUp, PollExpired, PollInterrupted, Accept,
                AcceptedTooLate, Closing
  <2> QED
    BY <1>1, <2>1
<1>4. CASE HandleClient
  <2>1. CASE SendHello \/ SendServerAuth
    <3>1. PICK f : link' = [link EXCEPT ![conn].down = f] /\ seen' = seen \cup {f}
      BY <2>1 DEF SendHello, SendServerAuth
    <3> QED
      BY <1>1, <3>1
  <2>2. CASE ReceiveClientAuth
    <3>1. link' = [link EXCEPT ![conn].up = NoFrame] /\ seen' = seen
      BY <2>2 DEF ReceiveClientAuth
    <3> QED
      BY <1>1, <3>1
  <2>3. CASE ~SendHello /\ ~SendServerAuth /\ ~ReceiveClientAuth
    <3>1. UNCHANGED <<link, seen>>
      BY <1>4, <2>3 DEF HandleClient, ReceiveDescriptor, SendActivation, ProbeAgain,
                        StartMedia, HandshakeFails, SessionEnds, LeaveTo
    <3> QED
      BY <1>1, <3>1
  <2> QED
    BY <2>1, <2>2, <2>3
<1>5. CASE Tick \/ UNCHANGED vars
  <2>1. UNCHANGED <<link, seen>>
    BY <1>5 DEF Tick, vars
  <2> QED
    BY <1>1, <2>1
<1>6. CASE \E a \in Attempts : Phone(a)
  <2>1. PICK a \in Attempts : Phone(a)
    BY <1>6
  <2>2. CASE Scan(a) \/ Connect(a)
    <3>1. UNCHANGED <<link, seen>>
      BY <2>2 DEF Scan, Connect
    <3> QED
      BY <1>1, <3>1
  <2>3. CASE Prove(a)
    <3>1. PICK g : /\ link' = [link EXCEPT ![a] = [up |-> g, down |-> NoFrame]]
                   /\ seen' = seen \cup {g}
      BY <2>3 DEF Prove
    <3> QED
      BY <1>1, <3>1
  <2>4. CASE Verify(a) \/ Abandon(a)
    <3>1. link' = [link EXCEPT ![a].down = NoFrame] /\ seen' = seen
      BY <2>4 DEF Verify, Abandon
    <3> QED
      BY <1>1, <3>1
  <2> QED
    BY <2>1, <2>2, <2>3, <2>4 DEF Phone
<1> QED
  BY <1>3, <1>4, <1>5, <1>6 DEF Next

\* Where the connection being served and the queue change.
LEMMA QueueStep ==
  ASSUME TypeOK, [Next]_vars, ~Accept, \A a \in Attempts : ~Connect(a)
  PROVE  /\ backlog' = backlog
         /\ conn' \in {conn, NoAttempt}
         /\ pc' \in {"accepted", "auth", "verified"} =>
              pc \in {"accepted", "auth", "verified"} /\ conn' = conn
<1>1. CASE MainLoop
  BY <1>1 DEF MainLoop, ShowQr, GiveUp, PollExpired, PollInterrupted, AcceptedTooLate,
              Closing
<1>2. CASE HandleClient
  BY <1>2 DEF HandleClient, SendHello, ReceiveClientAuth, SendServerAuth, ReceiveDescriptor,
              SendActivation, ProbeAgain, StartMedia, HandshakeFails, SessionEnds, LeaveTo
<1>3. CASE Tick \/ UNCHANGED vars
  BY <1>3 DEF Tick, vars, serverVars
<1>4. CASE \E a \in Attempts : Phone(a)
  BY <1>4 DEF Phone, Scan, Prove, Verify, Abandon, serverVars
<1> QED
  BY <1>1, <1>2, <1>3, <1>4 DEF Next

\* An attempt joins the queue once and is accepted once.
LEMMA OnceStep ==
  ASSUME IInv, [Next]_vars
  PROVE  OnceInv'
<1> USE NoAttemptAssumption
<1>1. TypeOK /\ OnceInv
  BY DEF IInv, Safe
<1>2. backlog \in Seq(Attempts)
  BY <1>1 DEF TypeOK
<1>3. \A b \in Attempts : phase[b] \notin {"none", "scanned"} =>
                            phase'[b] \notin {"none", "scanned"}
  BY <1>1, PhoneStep
<1>4. CASE Accept
  <2>1. /\ backlog # <<>> /\ conn' = Head(backlog) /\ backlog' = Tail(backlog)
        /\ UNCHANGED <<phase, serverKey>>
    BY <1>4 DEF Accept, phoneVars
  <2>2. /\ Len(backlog') = Len(backlog) - 1
        /\ \A i \in 1 .. Len(backlog') : backlog'[i] = backlog[i + 1] /\ i + 1 \in 1 .. Len(backlog)
        /\ conn' = backlog[1] /\ 1 \in 1 .. Len(backlog)
    BY <1>2, <2>1
  <2>3. \A i \in 1 .. Len(backlog') :
          /\ phase'[backlog'[i]] \notin {"none", "scanned"}
          /\ ~Opened(backlog'[i])
          /\ backlog'[i] # conn'
    BY <1>1, <2>1, <2>2 DEF OnceInv
  <2>4. \A i, j \in 1 .. Len(backlog') : backlog'[i] = backlog'[j] => i = j
    <3> TAKE i, j \in 1 .. Len(backlog')
    <3>1. HAVE backlog'[i] = backlog'[j]
    <3>2. backlog[i + 1] = backlog[j + 1]
      BY <2>2, <3>1
    <3>3. i + 1 = j + 1
      BY <1>1, <2>2, <3>2 DEF OnceInv
    <3> QED
      BY <3>3
  <2>5. conn' \in Attempts /\ phase'[conn'] \notin {"none", "scanned"} /\ ~Opened(conn')
    BY <1>1, <1>2, <2>1, <2>2 DEF OnceInv
  <2>6. \A a \in Attempts : Opened(a)' <=> Opened(a)
    BY <2>1 DEF Opened
  <2> QED
    BY <1>1, <2>1, <2>3, <2>4, <2>5, <2>6 DEF OnceInv, Opened
<1>5. CASE \E a \in Attempts : Connect(a)
  <2>1. PICK a \in Attempts : Connect(a)
    BY <1>5
  <2>2. /\ backlog' = Append(backlog, a) /\ phase[a] = "scanned"
        /\ phase' = [phase EXCEPT ![a] = "hello"]
        /\ UNCHANGED <<pc, conn, serverKey>>
    BY <2>1 DEF Connect, serverVars
  <2>3. phase'[a] = "hello"
    BY <1>1, <2>2 DEF TypeOK
  <2>4. ~Opened(a) /\ a # conn /\ \A i \in 1 .. Len(backlog) : backlog[i] # a
    BY <1>1, <2>2 DEF OnceInv
  <2>5. /\ Len(backlog') = Len(backlog) + 1
        /\ \A i \in 1 .. Len(backlog) : backlog'[i] = backlog[i]
        /\ backlog'[Len(backlog) + 1] = a
    BY <1>2, <2>2
  <2>6. \A i, j \in 1 .. Len(backlog') : backlog'[i] = backlog'[j] => i = j
    BY <1>1, <1>2, <2>4, <2>5 DEF OnceInv
  <2>7. \A i \in 1 .. Len(backlog') : /\ phase'[backlog'[i]] \notin {"none", "scanned"}
                                      /\ ~Opened(backlog'[i])
                                      /\ backlog'[i] # conn'
    BY <1>1, <1>2, <1>3, <2>2, <2>3, <2>4, <2>5 DEF OnceInv
  <2> QED
    BY <1>1, <1>3, <2>2, <2>6, <2>7 DEF OnceInv, Opened
<1>6. CASE ~Accept /\ ~\E a \in Attempts : Connect(a)
  <2>1. /\ backlog' = backlog
        /\ conn' \in {conn, NoAttempt}
        /\ pc' \in {"accepted", "auth", "verified"} =>
             pc \in {"accepted", "auth", "verified"} /\ conn' = conn
    BY <1>1, <1>6, QueueStep
  <2>2. \A i \in 1 .. Len(backlog) : backlog[i] \in Attempts /\ backlog[i] # NoAttempt
    BY <1>2
  <2>3. CASE SendServerAuth
    <3>1. /\ conn \in Attempts /\ conn' = conn
          /\ \A a \in Attempts : a # conn => serverKey'[a] = serverKey[a]
      BY <2>3, Opening
    <3>2. pc' = "descriptor"
      BY <2>3 DEF SendServerAuth
    <3> QED
      BY <1>1, <1>3, <2>1, <2>2, <3>1, <3>2 DEF OnceInv, Opened
  <2>4. CASE ~SendServerAuth
    <3>1. serverKey' = serverKey
      BY <2>4, SessionStep
    <3> QED
      BY <1>1, <1>3, <2>1, <2>2, <3>1 DEF OnceInv, Opened
  <2> QED
    BY <2>3, <2>4
<1> QED
  BY <1>4, <1>5, <1>6

-----------------------------------------------------------------------------
\* What only the step that proves and the step that checks a proof change.
LEMMA VerifiedStep ==
  ASSUME [Next]_vars, ~ReceiveClientAuth, pc' = "verified"
  PROVE  pc = "verified" /\ UNCHANGED <<secret, conn, clientNonce>>
<1>1. ~MainLoop
  BY DEF MainLoop, ShowQr, GiveUp, PollExpired, PollInterrupted, Accept,
         AcceptedTooLate, Closing
<1>2. CASE HandleClient
  BY <1>2 DEF HandleClient, SendHello, SendServerAuth, ReceiveDescriptor, SendActivation,
              ProbeAgain, StartMedia, HandshakeFails, SessionEnds, LeaveTo
<1>3. CASE Tick \/ UNCHANGED vars
  BY <1>3 DEF Tick, vars, serverVars
<1>4. CASE \E a \in Attempts : Phone(a)
  BY <1>4 DEF Phone, Scan, Connect, Prove, Verify, Abandon, serverVars
<1> QED
  BY <1>1, <1>2, <1>3, <1>4 DEF Next

\* A proof that is accepted was computed by the phone it names, from the
\* current secret and this connection's nonce: nothing else that was sent
\* equals it.
LEMMA ClientStep ==
  ASSUME IInv, [Next]_vars
  PROVE  ClientInv'
<1> SUFFICES ASSUME pc' = "verified"
             PROVE  /\ clientNonce' \in Attempts
                    /\ phase'[clientNonce'] \notin Early
                    /\ PhoneKey(clientNonce)' = Key(secret', conn', clientNonce')
  BY DEF ClientInv
<1>1. TypeOK /\ FramesInv /\ LinkInv /\ ClientInv
  BY DEF IInv, Safe
<1>2. CASE ReceiveClientAuth
  <2>1. PICK f \in Arriving(link[conn].up) : ClientProved(f) /\ clientNonce' = f.nonce
    BY <1>2 DEF ReceiveClientAuth
  <2>2. conn \in Attempts
    BY <1>1, <1>2 DEF ReceiveClientAuth, TypeOK, Handshaking
  <2>3. f \in seen
    BY <1>1, <2>1, <2>2, Arrived
  <2>4. /\ f.nonce \in Attempts /\ phase[f.nonce] \notin Early /\ f.proof = Proof(f.nonce)
        /\ f.proof = makeProof(secret, "client proof v2", conn, f.nonce)
    BY <1>1, <2>1, <2>3, FrameSays DEF ClientProved, serverNonce
  <2>5. token[f.nonce] = secret /\ helloNonce[f.nonce] = conn
    <3>1. PICK p, n : p = f.proof /\ n = f.nonce
      OBVIOUS
    <3>2. p = makeProof(token[n], "client proof v2", helloNonce[n], n)
      BY <2>4, <3>1 DEF Proof
    <3>3. p = makeProof(secret, "client proof v2", conn, n)
      BY <2>4, <3>1
    <3>4. p.key = token[n] /\ p.server = helloNonce[n]
      BY <3>2 DEF makeProof
    <3>5. p.key = secret /\ p.server = conn
      BY <3>3 DEF makeProof
    <3> QED
      BY <3>1, <3>4, <3>5
  <2>6. UNCHANGED <<secret, conn, phase, token, helloNonce>>
    BY <1>2 DEF ReceiveClientAuth, phoneVars
  <2> QED
    BY <2>1, <2>4, <2>5, <2>6 DEF PhoneKey, Key
<1>3. CASE ~ReceiveClientAuth
  <2>1. pc = "verified" /\ UNCHANGED <<secret, conn, clientNonce>>
    BY <1>3, VerifiedStep
  <2>2. /\ clientNonce \in Attempts
        /\ phase[clientNonce] \notin Early
        /\ PhoneKey(clientNonce) = Key(secret, conn, clientNonce)
    BY <1>1, <2>1 DEF ClientInv
  <2>3. /\ phase'[clientNonce] \notin Early
        /\ token'[clientNonce] = token[clientNonce]
        /\ helloNonce'[clientNonce] = helloNonce[clientNonce]
    BY <1>1, <2>2, PhoneStep
  <2> QED
    BY <2>1, <2>2, <2>3 DEF PhoneKey, Key
<1> QED
  BY <1>2, <1>3

\* The key of a phone that has answered does not change.
LEMMA PhoneKeyStep ==
  ASSUME IInv, [Next]_vars, NEW b \in Attempts, phase[b] \notin Early
  PROVE  phase'[b] \notin Early /\ PhoneKey(b)' = PhoneKey(b)
<1>1. /\ phase'[b] \notin Early
      /\ token'[b] = token[b]
      /\ helloNonce'[b] = helloNonce[b]
  BY PhoneStep DEF IInv
<1> QED
  BY <1>1 DEF PhoneKey, Key

\* A session is opened with the key of the phone whose proof was accepted.
LEMMA KeysStep ==
  ASSUME IInv, [Next]_vars
  PROVE  KeysInv'
<1> DEFINE Backed(a) == /\ phase[serverKey[a].client] \notin Early
                        /\ serverKey[a] = Key(serverKey[a].secret, a, serverKey[a].client)
                        /\ serverKey[a] = PhoneKey(serverKey[a].client)
<1> SUFFICES ASSUME NEW a \in Attempts, Opened(a)'
             PROVE  Backed(a)'
  BY DEF KeysInv
<1>1. CASE Opened(a)
  <2>1. serverKey'[a] = serverKey[a]
    BY <1>1, KeyStep
  <2>2. Backed(a)
    BY <1>1 DEF IInv, Safe, KeysInv
  <2>3. PICK b \in Attempts : b = serverKey[a].client
    BY <1>1, OpenedKey DEF IInv
  <2>4. phase'[b] \notin Early /\ PhoneKey(b)' = PhoneKey(b)
    BY <2>2, <2>3, PhoneKeyStep
  <2> QED
    BY <2>1, <2>2, <2>3, <2>4 DEF PhoneKey
<1>2. CASE ~Opened(a)
  <2>1. SendServerAuth
    BY <1>2, SessionStep DEF Opened
  <2>2. a = conn
    BY <1>2, <2>1, Opening DEF Opened
  <2>3. /\ serverKey'[a] = Key(secret, a, clientNonce)
        /\ UNCHANGED <<phase, token, helloNonce>>
    BY <2>1, <2>2, Opening DEF phoneVars
  <2>4. /\ phase[clientNonce] \notin Early
        /\ PhoneKey(clientNonce) = Key(secret, a, clientNonce)
    BY <2>1, <2>2 DEF SendServerAuth, IInv, Safe, ClientInv
  <2>5. /\ serverKey'[a].secret = secret
        /\ serverKey'[a].client = clientNonce
    BY <2>3 DEF Key
  <2> QED
    BY <2>3, <2>4, <2>5 DEF PhoneKey
<1> QED
  BY <1>1, <1>2

\* A phone considers itself paired when it has verified an answer.
LEMMA PairingStep ==
  ASSUME TypeOK, [Next]_vars, NEW b \in Attempts, phase'[b] \in {"paired", "left"}
  PROVE  phase[b] \in {"paired", "left"} \/ Verify(b)
<1> USE DEF TypeOK
<1>1. CASE \E a \in Attempts : Phone(a)
  <2>1. PICK a \in Attempts : Phone(a)
    BY <1>1
  <2>2. CASE Scan(a) \/ Connect(a) \/ Prove(a)
    BY <2>2 DEF Scan, Connect, Prove
  <2>3. CASE Verify(a)
    BY <2>3 DEF Verify
  <2>4. CASE Abandon(a)
    BY <2>4 DEF Abandon
  <2> QED
    BY <2>1, <2>2, <2>3, <2>4 DEF Phone
<1>2. CASE MainLoop
  BY <1>2 DEF MainLoop, ShowQr, GiveUp, PollExpired, PollInterrupted, Accept,
              AcceptedTooLate, Closing, phoneVars
<1>3. CASE HandleClient
  BY <1>3 DEF HandleClient, SendHello, ReceiveClientAuth, SendServerAuth, ReceiveDescriptor,
              SendActivation, ProbeAgain, StartMedia, HandshakeFails, SessionEnds, LeaveTo,
              phoneVars
<1>4. CASE Tick \/ UNCHANGED vars
  BY <1>4 DEF Tick, vars, phoneVars
<1> QED
  BY <1>1, <1>2, <1>3, <1>4 DEF Next

\* The answer a phone verifies is the one of the connection whose nonce it
\* answered, and that session has the phone's key.
LEMMA PairedStep ==
  ASSUME IInv, [Next]_vars
  PROVE  PairedInv'
<1> DEFINE Shared(b) == /\ helloNonce[b] \in Attempts
                        /\ Opened(helloNonce[b])
                        /\ serverKey[helloNonce[b]] = PhoneKey(b)
<1> SUFFICES ASSUME NEW b \in Attempts, phase'[b] \in {"paired", "left"}
             PROVE  Shared(b)'
  BY DEF PairedInv
<1>1. TypeOK /\ FramesInv /\ LinkInv /\ KeysInv /\ PairedInv
  BY DEF IInv, Safe
<1>2. phase[b] \notin Early
  BY <1>1, PairingStep DEF Early, Verify
<1>3. Shared(b)
  <2>1. CASE phase[b] \in {"paired", "left"}
    BY <1>1, <2>1 DEF PairedInv
  <2>2. CASE Verify(b)
    <3>1. PICK f \in Arriving(link[b].down) : ServerProved(b, f)
      BY <2>2 DEF Verify
    <3>2. f \in seen
      BY <1>1, <3>1, Arrived
    <3>3. PICK a \in Attempts : Opened(a) /\ f.proof = Answer(a)
      BY <1>1, <3>1, <3>2, FrameSays DEF ServerProved
    <3>4. a = helloNonce[b] /\ serverKey[a].client = b
      <4>1. PICK p : p = f.proof
        OBVIOUS
      <4>2. p = makeProof(token[b], "server proof v2", helloNonce[b], b)
        BY <3>1, <4>1 DEF ServerProved
      <4>3. p = makeProof(serverKey[a].secret, "server proof v2", a, serverKey[a].client)
        BY <3>3, <4>1 DEF Answer
      <4>4. p.server = helloNonce[b] /\ p.client = b
        BY <4>2 DEF makeProof
      <4>5. p.server = a /\ p.client = serverKey[a].client
        BY <4>3 DEF makeProof
      <4> QED
        BY <4>4, <4>5
    <3>5. serverKey[a] = PhoneKey(serverKey[a].client)
      BY <1>1, <3>3 DEF KeysInv
    <3> QED
      BY <3>3, <3>4, <3>5
  <2> QED
    BY <1>1, <2>1, <2>2, PairingStep
<1>4. PICK a \in Attempts : a = helloNonce[b]
  BY <1>3
<1>5. Opened(a)' /\ serverKey'[a] = serverKey[a]
  BY <1>3, <1>4, KeyStep
<1>6. helloNonce'[b] = a /\ PhoneKey(b)' = PhoneKey(b)
  BY <1>1, <1>2, <1>4, PhoneStep, PhoneKeyStep
<1> QED
  BY <1>3, <1>4, <1>5, <1>6 DEF Opened

-----------------------------------------------------------------------------
\* Where the secret, its code and its lifetime change.
LEMMA SecretSteps ==
  ASSUME TypeOK, [Next]_vars, ~MainLoop
  PROVE  UNCHANGED <<secret, pairingExpires, shown, shownAt, conn>>
<1>1. CASE HandleClient
  BY <1>1 DEF HandleClient, SendHello, ReceiveClientAuth, SendServerAuth, ReceiveDescriptor,
              SendActivation, ProbeAgain, StartMedia, HandshakeFails, SessionEnds, LeaveTo
<1>2. CASE Tick \/ UNCHANGED vars
  BY <1>2 DEF Tick, vars, serverVars
<1>3. CASE \E a \in Attempts : Phone(a)
  BY <1>3 DEF Phone, Scan, Connect, Prove, Verify, Abandon, serverVars
<1> QED
  BY <1>1, <1>2, <1>3 DEF Next

\* The stages of handleClient follow one another, and a session that is
\* being served stays so until its connection is closed.
LEMMA StageStep ==
  ASSUME TypeOK, [Next]_vars, ~MainLoop, ~SendServerAuth
  PROVE  /\ pc \in {"top", "exit"} <=> pc' \in {"top", "exit"}
         /\ pc = "exit" => pc' = "exit"
         /\ pc \in Serving => pc' \in Serving
         /\ pc' \in Waiting => pc \in Waiting
         /\ authenticated' = authenticated
<1> USE DEF Serving, Waiting
<1>1. CASE HandleClient
  BY <1>1 DEF HandleClient, SendHello, ReceiveClientAuth, ReceiveDescriptor,
              SendActivation, ProbeAgain, StartMedia, HandshakeFails, SessionEnds, LeaveTo,
              Deadlines, Handshaking
<1>2. CASE Tick \/ UNCHANGED vars
  BY <1>2 DEF Tick, vars, serverVars
<1>3. CASE \E a \in Attempts : Phone(a)
  BY <1>3 DEF Phone, Scan, Connect, Prove, Verify, Abandon, serverVars
<1> QED
  BY <1>1, <1>2, <1>3 DEF Next

\* After a session the loop draws a new secret before it accepts again, or
\* exits: no session but the one being served has the current secret.
LEMMA SecretStep ==
  ASSUME IInv, [Next]_vars
  PROVE  SecretInv'
<1>1. TypeOK /\ SecretInv
  BY DEF IInv, Safe
<1>2. /\ secret \in Nat
      /\ \A a \in Attempts : Opened(a) => serverKey[a].secret \in Nat
  BY <1>1, OpenedKey, BoundsAssumption DEF TypeOK
<1>3. CASE MainLoop
  <2>1. serverKey' = serverKey
    BY <1>3, SessionStep DEF MainLoop, ShowQr, GiveUp, PollExpired, PollInterrupted, Accept,
                             AcceptedTooLate, Closing
  <2>2. \A a \in Attempts : Opened(a)' <=> Opened(a)
    BY <2>1 DEF Opened
  <2>3. CASE ShowQr
    <3>1. pc = "top" /\ secret' = secret + 1
      BY <2>3 DEF ShowQr, randomSecret
    <3> QED
      BY <1>1, <1>2, <2>1, <2>2, <3>1 DEF SecretInv
  <2>4. CASE GiveUp
    <3>1. pc' = "exit" /\ secret' = secret
      BY <2>4 DEF GiveUp
    <3> QED
      BY <1>1, <2>1, <2>2, <3>1 DEF SecretInv
  <2>5. CASE PollExpired \/ AcceptedTooLate \/ (Closing /\ authenticated)
    <3>1. \/ secret' = secret + 1 /\ pc' = "top"
          \/ secret' = secret /\ pc' = "exit"
      BY <2>5 DEF PollExpired, AcceptedTooLate, Closing, Renew, randomSecret
    <3> QED
      BY <1>1, <1>2, <2>1, <2>2, <3>1 DEF SecretInv
  <2>6. CASE PollInterrupted \/ Accept \/ (Closing /\ ~authenticated)
    <3>1. /\ secret' = secret /\ pc' \in {"top", "accepted"}
          /\ pc \in {"poll", "closing"}
          /\ pc = "poll" \/ ~authenticated
      BY <2>6 DEF PollInterrupted, Accept, Closing
    <3> QED
      BY <1>1, <2>1, <2>2, <3>1 DEF SecretInv, Serving
  <2> QED
    BY <1>3, <2>3, <2>4, <2>5, <2>6 DEF MainLoop
<1>4. CASE SendServerAuth
  <2>1. /\ pc = "verified" /\ pc' = "descriptor" /\ authenticated'
    BY <1>4 DEF SendServerAuth
  <2>2. /\ conn \in Attempts /\ conn' = conn /\ secret' = secret
        /\ \A a \in Attempts : a # conn => serverKey'[a] = serverKey[a]
        /\ serverKey'[conn] = Key(secret, conn, clientNonce)
    BY <1>4, Opening
  <2>3. serverKey'[conn].secret = secret
    BY <2>2 DEF Key
  <2>4. \A a \in Attempts : a # conn => (Opened(a)' <=> Opened(a))
    BY <2>2 DEF Opened
  <2> QED
    BY <1>1, <1>2, <2>1, <2>2, <2>3, <2>4 DEF SecretInv, Serving
<1>5. CASE ~MainLoop /\ ~SendServerAuth
  <2>1. UNCHANGED <<secret, conn, serverKey, authenticated>>
    BY <1>1, <1>5, SecretSteps, StageStep, SessionStep
  <2>2. \A a \in Attempts : Opened(a)' <=> Opened(a)
    BY <2>1 DEF Opened
  <2>3. /\ pc \in {"top", "exit"} <=> pc' \in {"top", "exit"}
        /\ pc = "exit" => pc' = "exit"
        /\ pc \in Serving => pc' \in Serving
    BY <1>1, <1>5, StageStep
  <2> QED
    BY <1>1, <2>1, <2>2, <2>3 DEF SecretInv
<1> QED
  BY <1>3, <1>4, <1>5

\* So the secret a session is opened with was not used before.
LEMMA OneSessionStep ==
  ASSUME IInv, [Next]_vars
  PROVE  SecretOpensOneSession'
<1>1. SecretOpensOneSession /\ SecretInv
  BY DEF IInv, Safe
<1>2. CASE SendServerAuth
  <2>1. /\ conn \in Attempts
        /\ \A a \in Attempts : a # conn => serverKey'[a] = serverKey[a]
        /\ serverKey'[conn] = Key(secret, conn, clientNonce)
    BY <1>2, Opening
  <2>2. serverKey'[conn].secret = secret
    BY <2>1 DEF Key
  <2>3. \A a \in Attempts : Opened(a) => serverKey[a].secret # secret
    BY <1>1, <1>2 DEF SecretInv, SendServerAuth, Serving
  <2>4. \A a \in Attempts : a # conn => (Opened(a)' <=> Opened(a))
    BY <2>1 DEF Opened
  <2> QED
    BY <1>1, <2>1, <2>2, <2>3, <2>4 DEF SecretOpensOneSession
<1>3. CASE ~SendServerAuth
  <2>1. serverKey' = serverKey
    BY <1>3, SessionStep
  <2> QED
    BY <1>1, <2>1 DEF SecretOpensOneSession, Opened
<1> QED
  BY <1>2, <1>3

\* A lifetime begins when a secret is drawn, and the code is shown then or
\* later.
LEMMA LifeStep ==
  ASSUME IInv, [Next]_vars
  PROVE  LifeInv'
<1> USE LifetimeAssumption, BoundsAssumption
<1>1. TypeOK /\ LifeInv
  BY DEF IInv, Safe
<1>2. /\ now \in Nat /\ shownAt \in Nat /\ pairingExpires \in Nat
      /\ now' \in Nat
  <2>1. TypeOK'
    BY TypeStep
  <2> QED
    BY <1>1, <2>1 DEF TypeOK
<1>3. CASE MainLoop
  <2>1. now' = now
    BY <1>3 DEF MainLoop, ShowQr, GiveUp, PollExpired, PollInterrupted, Accept,
                AcceptedTooLate, Closing
  <2>2. CASE ShowQr
    <3>1. shownAt' = now /\ pairingExpires' = pairingExpires
      BY <2>2 DEF ShowQr
    <3> QED
      BY <1>1, <1>2, <2>1, <3>1 DEF LifeInv
  <2>3. CASE GiveUp \/ PollInterrupted
    <3>1. pc' \notin Waiting /\ pairingExpires' = pairingExpires
      BY <2>3 DEF GiveUp, PollInterrupted, Waiting
    <3> QED
      BY <1>1, <1>2, <2>1, <3>1 DEF LifeInv
  <2>4. CASE Accept
    <3>1. pc \in Waiting /\ UNCHANGED <<shownAt, pairingExpires>>
      BY <2>4 DEF Accept, Waiting
    <3> QED
      BY <1>1, <1>2, <2>1, <3>1 DEF LifeInv
  <2>5. CASE PollExpired \/ AcceptedTooLate \/ Closing
    <3>1. /\ pc' \notin Waiting
          /\ pairingExpires' = pairingExpires \/ pairingExpires' = now + Lifetime
      BY <2>5 DEF PollExpired, AcceptedTooLate, Closing, Renew, Waiting
    <3> QED
      BY <1>1, <1>2, <2>1, <3>1 DEF LifeInv
  <2> QED
    BY <1>3, <2>2, <2>3, <2>4, <2>5 DEF MainLoop
<1>4. CASE SendServerAuth
  <2>1. pc' \notin Waiting /\ UNCHANGED <<pairingExpires, now>>
    BY <1>4 DEF SendServerAuth, Waiting
  <2> QED
    BY <1>1, <1>2, <2>1 DEF LifeInv
<1>5. CASE ~MainLoop /\ ~SendServerAuth
  <2>1. UNCHANGED <<pairingExpires, shownAt>> /\ (pc' \in Waiting => pc \in Waiting)
    BY <1>1, <1>5, SecretSteps, StageStep
  <2>2. now' = now \/ now' = now + 1
    BY <1>5 DEF Next, HandleClient, SendHello, ReceiveClientAuth, SendServerAuth,
                ReceiveDescriptor, SendActivation, ProbeAgain, StartMedia, HandshakeFails,
                SessionEnds, LeaveTo, Tick, vars, Phone, Scan, Connect, Prove, Verify, Abandon
  <2>3. pairingExpires' <= now' + Lifetime
    <3>1. now <= now'
      BY <1>2, <2>2
    <3>2. pairingExpires' \in Nat /\ pairingExpires' <= now + Lifetime
      BY <1>1, <1>2, <2>1 DEF LifeInv
    <3>3. \A e, m, n, l \in Nat : e <= m + l /\ m <= n => e <= n + l
      OBVIOUS
    <3>4. Lifetime \in Nat
      OBVIOUS
    <3> QED
      BY <1>2, <3>1, <3>2, <3>3, <3>4, Zenon
  <2>4. pc' \in Waiting => pairingExpires' <= shownAt' + Lifetime
    BY <1>1, <2>1 DEF LifeInv
  <2> QED
    BY <2>3, <2>4 DEF LifeInv
<1> QED
  BY <1>3, <1>4, <1>5

\* The clock is read again before the secret is used.
LEMMA AgeStep ==
  ASSUME IInv, [Next]_vars
  PROVE  SecretLifetime'
<1> USE LifetimeAssumption, BoundsAssumption
<1>1. TypeOK /\ SecretLifetime /\ LifeInv
  BY DEF IInv, Safe
<1>2. CASE SendServerAuth
  <2>1. /\ conn \in Attempts
        /\ \A a \in Attempts : a # conn => serverKey'[a] = serverKey[a]
    BY <1>2, Opening
  <2>2. /\ ageAtUse' = [ageAtUse EXCEPT ![conn] = now - shownAt]
        /\ now < pairingExpires /\ pc = "verified"
    BY <1>2 DEF SendServerAuth, NotExpired
  <2>3. now - shownAt < Lifetime
    BY <1>1, <2>2 DEF LifeInv, Waiting, TypeOK
  <2>4. ageAtUse'[conn] < Lifetime /\ \A a \in Attempts : a # conn => ageAtUse'[a] = ageAtUse[a]
    BY <1>1, <2>1, <2>2, <2>3 DEF TypeOK
  <2> QED
    BY <1>1, <2>1, <2>4 DEF SecretLifetime, Opened
<1>3. CASE ~SendServerAuth
  <2>1. UNCHANGED <<serverKey, ageAtUse>>
    BY <1>3, SessionStep
  <2> QED
    BY <1>1, <2>1 DEF SecretLifetime, Opened
<1> QED
  BY <1>2, <1>3

-----------------------------------------------------------------------------
\* The inductive invariant holds initially.
LEMMA InitIInv == ASSUME Init PROVE IInv
<1> USE LifetimeAssumption, BoundsAssumption, NoAttemptAssumption
<1>1. TypeOK
  <2>1. /\ backlog \in Seq(Attempts) /\ Len(backlog) <= Backlog
        /\ pc \in Stages
        /\ pc \in Handshaking \cup {"session", "closing"} <=> conn # NoAttempt
    BY DEF Init, Stages, Handshaking
  <2>2. /\ now \in 0 .. MaxTime /\ secret \in 0 .. MaxSecrets
        /\ pairingExpires \in 0 .. MaxTime + Lifetime
        /\ shown \in 0 .. secret /\ shownAt \in 0 .. now
        /\ probes \in 0 .. ProbeAttempts
    BY DEF Init
  <2>3. /\ token \in [Attempts -> 0 .. MaxSecrets]
        /\ ageAtUse \in [Attempts -> 0 .. MaxTime]
    BY DEF Init
  <2>4. authenticated \in BOOLEAN
    BY Zenon DEF Init
  <2> QED
    BY <2>1, <2>2, <2>3, <2>4 DEF Init, TypeOK
<1>2. \A a \in Attempts : ~Opened(a)
  BY DEF Init, Opened
<1>3. FramesInv /\ ClientInv /\ LifeInv /\ SecretLifetime
  BY <1>2 DEF Init, FramesInv, ClientInv, LifeInv, SecretLifetime, Waiting
<1>4. LinkInv
  BY DEF Init, LinkInv
<1>5. OnceInv /\ SecretInv /\ KeysInv /\ SecretOpensOneSession
  BY <1>2 DEF Init, OnceInv, SecretInv, KeysInv, SecretOpensOneSession
<1>6. PairedInv
  BY DEF Init, PairedInv
<1> QED
  BY <1>1, <1>3, <1>4, <1>5, <1>6 DEF IInv, Safe

\* Every step keeps it.
LEMMA StepIInv == ASSUME IInv, [Next]_vars PROVE IInv'
BY TypeStep, FramesStep, LinkStep, OnceStep, ClientStep, KeysStep, PairedStep, SecretStep,
   LifeStep, OneSessionStep, AgeStep DEF IInv, Safe

\* The invariant holds in every reachable state.
LEMMA Inductive == Spec => []IInv
BY InitIInv, StepIInv, PTL DEF Spec

\* Every variable of the controller and of its phones keeps its type; the
\* nonce read from a frame is one that was drawn.
THEOREM TypeCorrectness == Spec => []TypeOK
<1>1. IInv => TypeOK
  BY DEF IInv
<1> QED
  BY <1>1, Inductive, PTL

\* No two connections open a session with the same secret.
THEOREM OneSessionPerSecret == Spec => []SecretOpensOneSession
<1>1. IInv => SecretOpensOneSession
  BY DEF IInv, Safe
<1> QED
  BY <1>1, Inductive, PTL

\* A code is accepted only within its lifetime.
THEOREM CodeExpires == Spec => []SecretLifetime
<1>1. IInv => SecretLifetime
  BY DEF IInv, Safe
<1> QED
  BY <1>1, Inductive, PTL

\* Every session of the controller has the key of a phone that answered it.
THEOREM SessionsAreBacked == Spec => []SessionHasItsPhone
<1>1. ASSUME IInv PROVE SessionHasItsPhone
  <2> SUFFICES ASSUME NEW a \in Attempts, Opened(a)
               PROVE  \E b \in Attempts : /\ phase[b] \notin {"none", "scanned", "hello"}
                                          /\ serverKey[a] = PhoneKey(b)
    BY DEF SessionHasItsPhone
  <2>1. serverKey[a].client \in Attempts
    BY <1>1, OpenedKey DEF IInv
  <2>2. /\ phase[serverKey[a].client] \notin Early
        /\ serverKey[a] = PhoneKey(serverKey[a].client)
    BY <1>1 DEF IInv, Safe, KeysInv
  <2> QED
    BY <2>1, <2>2 DEF Early
<1> QED
  BY <1>1, Inductive, PTL

\* Every phone that considers itself paired shares its key with one
\* connection of the controller.
THEOREM PairedPhonesAreServed == Spec => []PairedPhoneHasItsSession
<1>1. ASSUME IInv PROVE PairedPhoneHasItsSession
  <2> SUFFICES ASSUME NEW b \in Attempts, phase[b] \in {"paired", "left"}
               PROVE  Cardinality({a \in Attempts : Opened(a) /\ serverKey[a] = PhoneKey(b)}) = 1
    BY DEF PairedPhoneHasItsSession
  <2>1. /\ helloNonce[b] \in Attempts
        /\ Opened(helloNonce[b])
        /\ serverKey[helloNonce[b]] = PhoneKey(b)
    BY <1>1 DEF IInv, Safe, PairedInv
  <2>2. ASSUME NEW a \in Attempts, Opened(a), serverKey[a] = PhoneKey(b)
        PROVE  a = helloNonce[b]
    <3>1. serverKey[a] = Key(serverKey[a].secret, a, serverKey[a].client)
      BY <1>1, <2>2 DEF IInv, Safe, KeysInv
    <3>2. serverKey[a].server = a
      BY <3>1 DEF Key
    <3>3. serverKey[a].server = helloNonce[b]
      BY <2>2 DEF PhoneKey, Key
    <3> QED
      BY <3>2, <3>3
  <2>3. {a \in Attempts : Opened(a) /\ serverKey[a] = PhoneKey(b)} = {helloNonce[b]}
    BY <2>1, <2>2
  <2>4. Cardinality({helloNonce[b]}) = 1
    BY FS_Singleton
  <2> QED
    BY <2>3, <2>4
<1> QED
  BY <1>1, Inductive, PTL
=============================================================================
