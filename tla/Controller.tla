----------------------------- MODULE Controller -----------------------------
(***************************************************************************)
(* The Linux controller's main loop and handleClient, and the phones that  *)
(* pair with it through ControlProtocol.authenticate.                      *)
(*                                                                         *)
(* The controller shows a secret as a QR code, accepts one connection at a *)
(* time from the listen queue, proves and checks knowledge of the secret,  *)
(* and runs the session.  An attempt is one scan of the code and the one   *)
(* connection made with it.  Secrets are numbered in the order in which    *)
(* they are drawn; the nonces drawn for a connection are named after its   *)
(* attempt, so that a nonce is drawn once, as 32 random bytes are.  An     *)
(* HMAC is the record of what it was computed from.                        *)
(*                                                                         *)
(* Frames of the handshake are not encrypted: the network may answer a     *)
(* read with any handshake frame that was ever sent.                       *)
(***************************************************************************)
EXTENDS Naturals, Sequences, FiniteSets

CONSTANTS
  Attempts,      \* scans of a QR code, each followed by one connection
  Lifetime,      \* PAIRING_LIFETIME, in clock ticks
  Backlog,       \* the length of the listen queue
  ProbeAttempts, \* attempts of waitForRtsp
  MaxTime,       \* bound: the clock stops here
  MaxSecrets     \* bound: no secret is drawn after this many

ASSUME LifetimeAssumption == Lifetime \in Nat \ {0}
ASSUME BoundsAssumption == /\ Backlog \in Nat \ {0}
                           /\ ProbeAttempts \in Nat \ {0}
                           /\ MaxTime \in Nat
                           /\ MaxSecrets \in Nat

NoAttempt == "none"
ASSUME NoAttemptAssumption == NoAttempt \notin Attempts

VARIABLES
  now,             \* the steady clock
  pc,              \* where main and handleClient are
  secret,          \* pairingSecret: the number of the secret drawn last
  pairingExpires,
  shown,           \* the secret of the QR code on the screen, 0 before any
  shownAt,         \* when that code was shown
  backlog,         \* connections not yet accepted
  conn,            \* the attempt being served
  clientNonce,     \* the nonce in the CLIENT_AUTH being served
  probes,          \* attempts of waitForRtsp made so far
  authenticated,   \* handleClient's out parameter
  phase,           \* phase[a]: where the phone is in attempt a
  token,           \* token[a]: the secret scanned
  helloNonce,      \* helloNonce[a]: the server nonce the phone received
  link,            \* link[a]: handshake frames on the way, up and down
  seen,            \* every handshake frame ever sent
  serverKey,       \* serverKey[a]: what the controller derived the session key from
  ageAtUse         \* ageAtUse[a]: the age of the code when the secret was accepted

serverVars == <<pc, secret, pairingExpires, shown, shownAt, conn, clientNonce,
                probes, authenticated, serverKey, ageAtUse>>
phoneVars == <<phase, token, helloNonce>>
vars == <<now, serverVars, backlog, phoneVars, link, seen>>

NoKey == [secret |-> 0]
Key(k, sn, cn) == [secret |-> k, server |-> sn, client |-> cn]

NoFrame == [type |-> "none"]
Hello(sn) == [type |-> "SERVER_HELLO", nonce |-> sn]
ClientAuth(cn, proof) == [type |-> "CLIENT_AUTH", nonce |-> cn, proof |-> proof]
ServerAuth(proof) == [type |-> "SERVER_AUTH", proof |-> proof]

\* An HMAC over the label and both nonces.
makeProof(k, label, sn, cn) == [key |-> k, label |-> label, server |-> sn, client |-> cn]

Stages == {"top", "poll", "accepted", "auth", "verified", "descriptor",
           "activate", "probe", "session", "closing", "exit"}

Handshaking == {"accepted", "auth", "verified", "descriptor", "activate", "probe"}

Init ==
  /\ now = 0
  /\ pc = "top"
  /\ secret = 0
  /\ pairingExpires = Lifetime
  /\ shown = 0
  /\ shownAt = 0
  /\ backlog = <<>>
  /\ conn = NoAttempt
  /\ clientNonce = NoAttempt
  /\ probes = 0
  /\ authenticated = FALSE
  /\ phase = [a \in Attempts |-> "none"]
  /\ token = [a \in Attempts |-> 0]
  /\ helloNonce = [a \in Attempts |-> NoAttempt]
  /\ link = [a \in Attempts |-> [up |-> NoFrame, down |-> NoFrame]]
  /\ seen = {}
  /\ serverKey = [a \in Attempts |-> NoKey]
  /\ ageAtUse = [a \in Attempts |-> 0]

\* Time passes whatever the others do.
Tick == /\ now < MaxTime
        /\ now' = now + 1
        /\ UNCHANGED <<serverVars, backlog, phoneVars, link, seen>>

\* What a read of a connection can return when the frame f has arrived.
Arriving(f) == seen \cup (IF f = NoFrame THEN {} ELSE {f})

-----------------------------------------------------------------------------
(***************************************************************************)
(* main: the pairing loop                                                  *)
(***************************************************************************)

\* Mutant of randomSecret: a failed draw leaves the old secret in place.
randomSecretStuck(old, new) == new = 1

\* 32 bytes never drawn before.
randomSecret(old, new) == old < MaxSecrets /\ new = old + 1

\* Each turn of the loop draws a secret and shows it.
ShowQr ==
  /\ pc = "top"
  /\ randomSecret(secret, secret')
  /\ shown' = secret'
  /\ shownAt' = now
  /\ pc' = "poll"
  /\ UNCHANGED <<now, pairingExpires, backlog, conn, clientNonce, probes,
                 authenticated, phoneVars, link, seen, serverKey, ageAtUse>>

\* No randomness or no qrencode: main returns.
GiveUp ==
  /\ pc = "top"
  /\ pc' = "exit"
  /\ UNCHANGED <<now, secret, pairingExpires, shown, shownAt, backlog, conn,
                 clientNonce, probes, authenticated, phoneVars, link, seen,
                 serverKey, ageAtUse>>

\* A new secret and a new lifetime.
Renew == /\ randomSecret(secret, secret')
         /\ pairingExpires' = now + Lifetime

\* poll ran out, or the code had expired when it returned.
PollExpired ==
  /\ pc = "poll"
  /\ now >= pairingExpires
  /\ \/ Renew /\ pc' = "top"
     \/ UNCHANGED <<secret, pairingExpires>> /\ pc' = "exit"
  /\ UNCHANGED <<now, shown, shownAt, backlog, conn, clientNonce, probes,
                 authenticated, phoneVars, link, seen, serverKey, ageAtUse>>

\* poll or accept4 fails or is interrupted by a signal: continue.
PollInterrupted ==
  /\ pc = "poll"
  /\ pc' = "top"
  /\ UNCHANGED <<now, secret, pairingExpires, shown, shownAt, backlog, conn,
                 clientNonce, probes, authenticated, phoneVars, link, seen,
                 serverKey, ageAtUse>>

Accept ==
  /\ pc = "poll"
  /\ now < pairingExpires
  /\ backlog # <<>>
  /\ conn' = Head(backlog)
  /\ backlog' = Tail(backlog)
  /\ authenticated' = FALSE
  /\ clientNonce' = NoAttempt
  /\ probes' = 0
  /\ pc' = "accepted"
  /\ UNCHANGED <<now, secret, pairingExpires, shown, shownAt, phoneVars, link,
                 seen, serverKey, ageAtUse>>

\* The code expired while accept4 ran: the connection is dropped.
AcceptedTooLate ==
  /\ pc = "accepted"
  /\ now >= pairingExpires
  /\ conn' = NoAttempt
  /\ \/ Renew /\ pc' = "top"
     \/ UNCHANGED <<secret, pairingExpires>> /\ pc' = "exit"
  /\ UNCHANGED <<now, shown, shownAt, backlog, clientNonce, probes,
                 authenticated, phoneVars, link, seen, serverKey, ageAtUse>>

\* handleClient has returned: close, and after a pairing renew.
Closing ==
  /\ pc = "closing"
  /\ conn' = NoAttempt
  /\ IF authenticated
     THEN \/ Renew /\ pc' = "top"
          \/ UNCHANGED <<secret, pairingExpires>> /\ pc' = "exit"
     ELSE UNCHANGED <<secret, pairingExpires>> /\ pc' = "top"
  /\ UNCHANGED <<now, shown, shownAt, backlog, clientNonce, probes,
                 authenticated, phoneVars, link, seen, serverKey, ageAtUse>>

-----------------------------------------------------------------------------
(***************************************************************************)
(* handleClient                                                            *)
(***************************************************************************)

\* Drawn for this connection.
serverNonce(a) == a

\* Where handleClient may return early: every wait has a deadline.
Deadlines == Handshaking

LeaveTo(stages) ==
  /\ pc \in stages
  /\ pc' = "closing"
  /\ UNCHANGED <<now, secret, pairingExpires, shown, shownAt, backlog, conn,
                 clientNonce, probes, authenticated, phoneVars, link, seen,
                 serverKey, ageAtUse>>

\* handleClient returns early: no randomness, a deadline, a failed send, the
\* peer hung up, a frame, proof or descriptor that is not the one due, an
\* expired code, no loopback device, no stream.
HandshakeFails == LeaveTo(Deadlines)

\* The session loop ends: the worker failed, the peer left or broke the
\* protocol.
SessionEnds == LeaveTo({"session"})

SendHello ==
  /\ pc = "accepted"
  /\ now < pairingExpires
  /\ LET f == Hello(serverNonce(conn)) IN
       /\ link' = [link EXCEPT ![conn].down = f]
       /\ seen' = seen \cup {f}
  /\ pc' = "auth"
  /\ UNCHANGED <<now, secret, pairingExpires, shown, shownAt, backlog, conn,
                 clientNonce, probes, authenticated, phoneVars, serverKey,
                 ageAtUse>>

\* Mutant of ClientProved: a proof for any server nonce is taken.
ClientProvedForAnyNonce(f) ==
  /\ f.type = "CLIENT_AUTH"
  /\ \E a \in Attempts : f.proof = makeProof(secret, "client proof v2", a, f.nonce)

\* CLIENT_AUTH with the right type, size and proof.
ClientProved(f) ==
  /\ f.type = "CLIENT_AUTH"
  /\ f.proof = makeProof(secret, "client proof v2", serverNonce(conn), f.nonce)

\* The proof is checked; anything else is HandshakeFails.
ReceiveClientAuth ==
  /\ pc = "auth"
  /\ \E f \in Arriving(link[conn].up) :
       ClientProved(f) /\ clientNonce' = f.nonce
  /\ link' = [link EXCEPT ![conn].up = NoFrame]
  /\ pc' = "verified"
  /\ UNCHANGED <<now, secret, pairingExpires, shown, shownAt, backlog, conn,
                 probes, authenticated, phoneVars, seen, serverKey, ageAtUse>>

\* Mutant of NotExpired: no second look at the clock after the handshake.
NotExpiredUnchecked == TRUE

\* The proof may have arrived late.
NotExpired == now < pairingExpires

\* The key is derived, SERVER_AUTH is sent and the secret counts as used.
SendServerAuth ==
  /\ pc = "verified"
  /\ NotExpired
  /\ LET f == ServerAuth(makeProof(secret, "server proof v2",
                                   serverNonce(conn), clientNonce)) IN
       /\ link' = [link EXCEPT ![conn].down = f]
       /\ seen' = seen \cup {f}
  /\ authenticated' = TRUE
  /\ serverKey' = [serverKey EXCEPT
                     ![conn] = Key(secret, serverNonce(conn), clientNonce)]
  /\ ageAtUse' = [ageAtUse EXCEPT ![conn] = now - shownAt]
  /\ pc' = "descriptor"
  /\ UNCHANGED <<now, secret, pairingExpires, shown, shownAt, backlog, conn,
                 clientNonce, probes, phoneVars>>

\* The key the phone of attempt a derives from what it knows.
PhoneKey(a) == Key(token[a], helloNonce[a], a)

\* The encrypted frames open under the key the phone sends with.
SameKey == \E a \in Attempts : /\ phase[a] \in {"paired", "left"}
                               /\ PhoneKey(a) = serverKey[conn]

\* A DESCRIPTOR that parses and names an endpoint on the peer's address.
ReceiveDescriptor ==
  /\ pc = "descriptor"
  /\ SameKey
  /\ pc' = "activate"
  /\ UNCHANGED <<now, secret, pairingExpires, shown, shownAt, backlog, conn,
                 clientNonce, probes, authenticated, phoneVars, link, seen,
                 serverKey, ageAtUse>>

\* The loopback device exists and ACTIVATION was sent.
SendActivation ==
  /\ pc = "activate"
  /\ pc' = "probe"
  /\ UNCHANGED <<now, secret, pairingExpires, shown, shownAt, backlog, conn,
                 clientNonce, probes, authenticated, phoneVars, link, seen,
                 serverKey, ageAtUse>>

\* Mutant of ProbeAgain: one probe too many.
ProbeAgainOffByOne ==
  /\ pc = "probe"
  /\ probes <= ProbeAttempts
  /\ probes' = probes + 1
  /\ UNCHANGED <<now, pc, secret, pairingExpires, shown, shownAt, backlog, conn,
                 clientNonce, authenticated, phoneVars, link, seen, serverKey,
                 ageAtUse>>

\* waitForRtsp: a probe fails and another is due.
ProbeAgain ==
  /\ pc = "probe"
  /\ probes < ProbeAttempts
  /\ probes' = probes + 1
  /\ UNCHANGED <<now, pc, secret, pairingExpires, shown, shownAt, backlog, conn,
                 clientNonce, authenticated, phoneVars, link, seen, serverKey,
                 ageAtUse>>

\* The stream answers, the phone's credential being the one of the same
\* session key, and the media worker starts.
StartMedia ==
  /\ pc = "probe"
  /\ probes < ProbeAttempts
  /\ SameKey
  /\ pc' = "session"
  /\ UNCHANGED <<now, secret, pairingExpires, shown, shownAt, backlog, conn,
                 clientNonce, probes, authenticated, phoneVars, link, seen,
                 serverKey, ageAtUse>>

-----------------------------------------------------------------------------
(***************************************************************************)
(* The phone                                                               *)
(***************************************************************************)

\* The code on the screen is scanned, whatever the controller is doing.
Scan(a) ==
  /\ phase[a] = "none"
  /\ shown # 0
  /\ phase' = [phase EXCEPT ![a] = "scanned"]
  /\ token' = [token EXCEPT ![a] = shown]
  /\ UNCHANGED <<now, serverVars, backlog, helloNonce, link, seen>>

\* The connection enters the listen queue.
Connect(a) ==
  /\ phase[a] = "scanned"
  /\ pc # "exit"
  /\ Len(backlog) < Backlog
  /\ backlog' = Append(backlog, a)
  /\ phase' = [phase EXCEPT ![a] = "hello"]
  /\ UNCHANGED <<now, serverVars, token, helloNonce, link, seen>>

\* authenticate, steps 1 to 3.
Prove(a) ==
  /\ phase[a] = "hello"
  /\ \E f \in Arriving(link[a].down) :
       /\ f.type = "SERVER_HELLO"
       /\ helloNonce' = [helloNonce EXCEPT ![a] = f.nonce]
       /\ LET g == ClientAuth(a, makeProof(token[a], "client proof v2", f.nonce, a)) IN
            /\ link' = [link EXCEPT ![a] = [up |-> g, down |-> NoFrame]]
            /\ seen' = seen \cup {g}
  /\ phase' = [phase EXCEPT ![a] = "proof"]
  /\ UNCHANGED <<now, serverVars, backlog, token>>

\* Mutant of ServerProved: the answer's label is not distinguished.
ServerProvedUnlabelled(a, f) ==
  \E l \in {"client proof v2", "server proof v2"} :
    /\ f.type \in {"SERVER_AUTH", "CLIENT_AUTH"}
    /\ f.proof = makeProof(token[a], l, helloNonce[a], a)

\* Step 4: the expected SERVER_AUTH.
ServerProved(a, f) ==
  /\ f.type = "SERVER_AUTH"
  /\ f.proof = makeProof(token[a], "server proof v2", helloNonce[a], a)

\* Step 5: both sides have derived the session key.
Verify(a) ==
  /\ phase[a] = "proof"
  /\ \E f \in Arriving(link[a].down) : ServerProved(a, f)
  /\ phase' = [phase EXCEPT ![a] = "paired"]
  /\ link' = [link EXCEPT ![a].down = NoFrame]
  /\ UNCHANGED <<now, serverVars, backlog, token, helloNonce, seen>>

\* A wrong frame, a deadline, a refused connection, or the user leaves:
\* the socket is closed.  What a paired phone sent before may still arrive.
Abandon(a) ==
  /\ phase[a] \in {"scanned", "hello", "proof", "paired"}
  /\ phase' = [phase EXCEPT ![a] = IF @ = "paired" THEN "left" ELSE "gone"]
  /\ link' = [link EXCEPT ![a].down = NoFrame]
  /\ UNCHANGED <<now, serverVars, backlog, token, helloNonce, seen>>

-----------------------------------------------------------------------------
HandleClient == \/ SendHello \/ ReceiveClientAuth \/ SendServerAuth
                \/ ReceiveDescriptor \/ SendActivation \/ ProbeAgain \/ StartMedia
                \/ HandshakeFails \/ SessionEnds

MainLoop == \/ ShowQr \/ GiveUp \/ PollExpired \/ PollInterrupted \/ Accept
            \/ AcceptedTooLate \/ Closing

Phone(a) == Scan(a) \/ Connect(a) \/ Prove(a) \/ Verify(a) \/ Abandon(a)

Next == Tick \/ MainLoop \/ HandleClient \/ \E a \in Attempts : Phone(a)

Spec == Init /\ [][Next]_vars

-----------------------------------------------------------------------------
(***************************************************************************)
(* Properties                                                              *)
(***************************************************************************)

Keys == [secret : 1 .. MaxSecrets, server : Attempts, client : Attempts]

TypeOK ==
  /\ now \in 0 .. MaxTime
  /\ pc \in Stages
  /\ secret \in 0 .. MaxSecrets
  /\ pairingExpires \in 0 .. MaxTime + Lifetime
  /\ shown \in 0 .. secret
  /\ shownAt \in 0 .. now
  /\ backlog \in Seq(Attempts) /\ Len(backlog) <= Backlog
  /\ conn \in Attempts \cup {NoAttempt}
  /\ pc \in Handshaking \cup {"session", "closing"} <=> conn # NoAttempt
  /\ clientNonce \in Attempts \cup {NoAttempt}
  /\ probes \in 0 .. ProbeAttempts
  /\ authenticated \in BOOLEAN
  /\ phase \in [Attempts -> {"none", "scanned", "hello", "proof", "paired", "left",
                           "gone"}]
  /\ token \in [Attempts -> 0 .. MaxSecrets]
  /\ helloNonce \in [Attempts -> Attempts \cup {NoAttempt}]
  /\ serverKey \in [Attempts -> Keys \cup {NoKey}]
  /\ ageAtUse \in [Attempts -> 0 .. MaxTime]

Opened(a) == serverKey[a] # NoKey

\* "Stale QR codes cannot open another control session" (main.cpp): two
\* connections never open a session with the same secret, whichever phones
\* scanned it, waited in the queue with it, or had their frames repeated.
SecretOpensOneSession ==
  \A a, b \in Attempts :
    Opened(a) /\ Opened(b) /\ serverKey[a].secret = serverKey[b].secret => a = b

\* A session of the controller is backed by a phone that scanned the very
\* secret and answered the very nonce: no earlier handshake, repeated, opens
\* one.
SessionHasItsPhone ==
  \A a \in Attempts : Opened(a) =>
    \E b \in Attempts : /\ phase[b] \notin {"none", "scanned", "hello"}
                        /\ serverKey[a] = PhoneKey(b)

\* A phone that has considered itself paired shares its key with exactly one
\* connection of the controller.
PairedPhoneHasItsSession ==
  \A b \in Attempts : phase[b] \in {"paired", "left"} =>
    Cardinality({a \in Attempts : Opened(a) /\ serverKey[a] = PhoneKey(b)}) = 1

\* A code is accepted only within its lifetime, counted from the moment it
\* was shown, although the connection may have been accepted, and its proof
\* sent, long before.
SecretLifetime == \A a \in Attempts : Opened(a) => ageAtUse[a] < Lifetime

\* "OpenCam pairing token (one successful use)": the code on the screen
\* stays good until a phone has paired with it or its time is over.
CodeGoodUntilUsed ==
  [][shown' # shown => \/ shown = 0
                       \/ \E a \in Attempts : serverKey[a].secret = shown
                       \/ now >= shownAt + Lifetime]_vars
=============================================================================
