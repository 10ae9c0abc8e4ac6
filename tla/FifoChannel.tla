---------------------------- MODULE FifoChannel ----------------------------
(***************************************************************************)
(* What the OpenCam control channel promises to the code above it: two     *)
(* sides exchange messages, each direction is a queue that loses nothing   *)
(* it has already passed over, and a side obtains its peer's messages once *)
(* each, in the order in which they were put.  Nothing is promised about   *)
(* how far a side gets: the connection may end at any point.               *)
(*                                                                         *)
(* README.md, "Sequence validation to reject replayed, duplicated, or      *)
(* out-of-order control frames".                                           *)
(***************************************************************************)
EXTENDS Naturals, Sequences

CONSTANT Messages   \* what can be put into either direction

VARIABLES put,      \* put[s]: the messages side s has put, in order
          got       \* got[s]: the messages side s has obtained, in order

fifoVars == <<put, got>>

Side == {"server", "client"}

Peer(s) == IF s = "server" THEN "client" ELSE "server"

Init == /\ put = [s \in Side |-> <<>>]
        /\ got = [s \in Side |-> <<>>]

Put(s, m) == /\ put' = [put EXCEPT ![s] = Append(@, m)]
             /\ UNCHANGED got

\* The next message of the peer, never an earlier or a later one.
Get(s) == /\ Len(got[s]) < Len(put[Peer(s)])
          /\ got' = [got EXCEPT ![s] = Append(@, put[Peer(s)][Len(@) + 1])]
          /\ UNCHANGED put

Next == \E s \in Side : \/ \E m \in Messages : Put(s, m)
                        \/ Get(s)

Spec == Init /\ [][Next]_fifoVars
=============================================================================
