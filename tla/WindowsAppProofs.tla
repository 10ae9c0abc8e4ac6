-------------------------- MODULE WindowsAppProofs --------------------------
(***************************************************************************)
(* WindowsApp for any set of devices, finite or not: its types, that one   *)
(* index addresses the same device in both vectors and erase finds what it *)
(* is to remove, and that the receiver's thread is joined before another   *)
(* is started.                                                             *)
(*                                                                         *)
(* The two vectors change in different steps of a handler, so the          *)
(* invariant says for each place of the IO thread how they differ, and     *)
(* what the states of the links say about who is listed.                   *)
(***************************************************************************)
EXTENDS WindowsApp, SequenceTheorems, TLAPS

\* Some place of vector s holds device d; no two places hold the same one.
Lists(s, d) == \E i \in 1 .. Len(s) : s[i] = d
Once(s) == \A i, j \in 1 .. Len(s) : s[i] = s[j] => i = j

\* How the vectors differ while the IO thread is in a handler.
VectorsInv ==
  /\ io.at \in {"idle", "disconnected", "update", "clear", "devices", "fill"} =>
       connections = descriptors
  /\ io.at = "connected" => connections = Append(descriptors, io.device)
  /\ io.at \in {"notify", "remove"} => connections = Without(descriptors, io.device)

\* Who is listed, by the states of the links: a phone that is connected is
\* listed, one that has not come is not, and the phone whose leaving is being
\* handled still has its descriptor.
ListedInv ==
  /\ Once(connections) /\ Once(descriptors)
  /\ \A d \in Devices : link[d] = "open" => Lists(connections, d)
  /\ \A d \in Devices : Lists(connections, d) => link[d] # "none"
  /\ io.at \in {"disconnected", "notify", "remove"} =>
       link[io.device] = "closed" /\ Lists(descriptors, io.device)

\* Whether there is a thread to join, by the place of the window's thread.
ThreadInv ==
  /\ gui.at \in {"idle", "stop"} => (isRunning <=> worker # "none")
  /\ gui.at \in {"request", "join"} => ~isRunning /\ worker # "none"
  /\ gui.at \notin {"idle", "stop", "request", "join"} => ~isRunning /\ worker = "none"

IInv == TypeOK /\ VectorsInv /\ ListedInv /\ ThreadInv

\* The parts of TypeOK, by the thread that owns the variables.
ServerOK ==
  /\ link \in [Devices -> {"none", "open", "closed"}]
  /\ connections \in Seq(Devices)
  /\ accepting \in BOOLEAN /\ ioRunning \in BOOLEAN
  /\ io \in [at : {"idle", "connected", "disconnected", "notify", "remove", "update",
                  "clear", "devices", "fill"},
            device : Devices \cup {NoDevice}, index : Int]
  /\ io.at # "idle" => io.device \in Devices

DevicesOK ==
  /\ manager \in BOOLEAN
  /\ descriptors \in Seq(Devices)
  /\ streamingDevice \in Int /\ streamingDevice >= -1
  /\ choice \in [items : Seq(Devices), selected : Nat]
  /\ choice.selected <= Len(choice.items)
  /\ chosen \in Devices \cup {NoDevice}

ThreadsOK ==
  /\ alive \in BOOLEAN
  /\ gui \in [at : {"init", "idle", "stop", "request", "join", "activate", "start",
                   "close", "stopIo", "joinIo", "exit"},
             next : {"connect", "close"}]
  /\ isRunning \in BOOLEAN /\ stopRequested \in BOOLEAN
  /\ worker \in {"none", "top", "open", "opening", "loop", "reading", "retry", "exited"}

\* Together they are TypeOK.
LEMMA TypeParts == TypeOK <=> ServerOK /\ DevicesOK /\ ThreadsOK
BY DEF TypeOK, ServerOK, DevicesOK, ThreadsOK

-----------------------------------------------------------------------------
(* The two operations on a vector                                          *)

\* What is left when the entry at place i is taken out.
Cut(s, i) == SubSeq(s, 1, i - 1) \o SubSeq(s, i + 1, Len(s))

\* The other entries keep their order.
LEMMA CutOne ==
  ASSUME NEW S, NEW s \in Seq(S), NEW i \in 1 .. Len(s)
  PROVE  /\ Cut(s, i) \in Seq(S)
         /\ Len(Cut(s, i)) = Len(s) - 1
         /\ \A j \in 1 .. Len(s) - 1 : Cut(s, i)[j] = s[IF j < i THEN j ELSE j + 1]
<1> DEFINE a == SubSeq(s, 1, i - 1)
           b == SubSeq(s, i + 1, Len(s))
<1>1. Len(s) \in Nat /\ i \in Nat
  OBVIOUS
<1>2. a \in Seq(S) /\ Len(a) = i - 1 /\ \A j \in 1 .. i - 1 : a[j] = s[j]
  BY <1>1
<1>3. b \in Seq(S) /\ Len(b) = Len(s) - i /\ \A j \in 1 .. Len(s) - i : b[j] = s[i + j]
  BY <1>1
<1>4. Cut(s, i) = a \o b
  BY DEF Cut
<1> HIDE DEF a, b
<1>5. a \o b \in Seq(S) /\ Len(a \o b) = Len(s) - 1
  <2>1. a \o b \in Seq(S) /\ Len(a \o b) = Len(a) + Len(b)
    BY <1>2, <1>3, ConcatProperties
  <2> QED
    BY <1>1, <1>2, <1>3, <2>1
<1>6. \A j \in 1 .. Len(s) - 1 : (a \o b)[j] = IF j < i THEN a[j] ELSE b[j - (i - 1)]
  <2>1. \A j \in 1 .. Len(a) + Len(b) : (a \o b)[j] = IF j <= Len(a) THEN a[j] ELSE b[j - Len(a)]
    BY <1>2, <1>3, ConcatProperties
  <2> QED
    BY <1>1, <1>2, <1>3, <2>1
<1>7. \A j \in 1 .. Len(s) - 1 : (a \o b)[j] = s[IF j < i THEN j ELSE j + 1]
  BY <1>1, <1>2, <1>3, <1>6
<1> QED
  BY <1>4, <1>5, <1>7

\* Removing a device by value keeps every other one and adds none.
LEMMA WithoutDevice ==
  ASSUME NEW s \in Seq(Devices), Once(s), NEW d, NEW w, w = Without(s, d)
  PROVE  /\ w \in Seq(Devices)
         /\ Once(w)
         /\ \A e : Lists(w, e) => Lists(s, e)
         /\ \A e : e # d /\ Lists(s, e) => Lists(w, e)
<1>1. CASE Places(s, d) = {}
  BY <1>1 DEF Without
<1>2. CASE Places(s, d) # {}
  <2> DEFINE i == CHOOSE p \in Places(s, d) : TRUE
  <2>1. i \in 1 .. Len(s) /\ s[i] = d
    BY <1>2 DEF Places
  <2>2. w = Cut(s, i)
    BY <1>2 DEF Without, Cut
  <2> HIDE DEF i
  <2>3. /\ w \in Seq(Devices) /\ Len(w) = Len(s) - 1
        /\ \A j \in 1 .. Len(s) - 1 : w[j] = s[IF j < i THEN j ELSE j + 1]
    BY <2>1, <2>2, CutOne
  <2>4. Len(s) \in Nat /\ i \in Nat
    BY <2>1
  <2>5. Once(w)
    <3> SUFFICES ASSUME NEW j \in 1 .. Len(w), NEW k \in 1 .. Len(w), w[j] = w[k]
                 PROVE  j = k
      BY DEF Once
    <3> DEFINE At(p) == IF p < i THEN p ELSE p + 1
    <3>1. At(j) \in 1 .. Len(s) /\ At(k) \in 1 .. Len(s) /\ s[At(j)] = s[At(k)]
      BY <2>1, <2>3, <2>4
    <3>2. At(j) = At(k)
      BY <3>1 DEF Once
    <3>3. QED
      BY <2>3, <2>4, <3>2
  <2>6. ASSUME NEW e, Lists(w, e)
        PROVE  Lists(s, e)
    <3>1. PICK j \in 1 .. Len(w) : w[j] = e
      BY <2>6 DEF Lists
    <3>2. (IF j < i THEN j ELSE j + 1) \in 1 .. Len(s)
      BY <2>1, <2>3, <2>4
    <3>3. QED
      BY <2>3, <3>1, <3>2 DEF Lists
  <2>7. ASSUME NEW e, e # d, Lists(s, e)
        PROVE  Lists(w, e)
    <3>1. PICK j \in 1 .. Len(s) : s[j] = e
      BY <2>7 DEF Lists
    <3>2. j # i
      BY <2>1, <2>7, <3>1
    <3>3. CASE j < i
      <4>1. j \in 1 .. Len(w) /\ w[j] = s[j]
        BY <2>1, <2>3, <2>4, <3>3
      <4>2. QED
        BY <3>1, <4>1 DEF Lists
    <3>4. CASE j > i
      <4>1. j - 1 \in 1 .. Len(s) - 1 /\ ~(j - 1 < i) /\ (j - 1) + 1 = j
        BY <2>1, <2>4, <3>4
      <4>2. w[j - 1] = s[j]
        BY <2>3, <4>1
      <4>3. QED
        BY <2>3, <3>1, <4>1, <4>2 DEF Lists
    <3>5. QED
      BY <2>4, <3>2, <3>3, <3>4
  <2>8. QED
    BY <2>3, <2>5, <2>6, <2>7
<1>3. QED
  BY <1>1, <1>2

\* A device that no place holds is added at the end.
LEMMA AppendDevice ==
  ASSUME NEW s \in Seq(Devices), Once(s), NEW d \in Devices, ~Lists(s, d),
         NEW w, w = Append(s, d)
  PROVE  /\ w \in Seq(Devices)
         /\ Once(w)
         /\ \A e : Lists(w, e) <=> Lists(s, e) \/ e = d
<1>1. /\ w \in Seq(Devices) /\ Len(w) = Len(s) + 1 /\ w[Len(s) + 1] = d
      /\ \A j \in 1 .. Len(s) : w[j] = s[j]
      /\ Len(s) \in Nat
  OBVIOUS
<1>2. Once(w)
  BY <1>1 DEF Once, Lists
<1>3. ASSUME NEW e
      PROVE  Lists(w, e) <=> Lists(s, e) \/ e = d
  <2>1. Lists(w, e) => Lists(s, e) \/ e = d
    BY <1>1 DEF Lists
  <2>2. Lists(s, e) => Lists(w, e)
    BY <1>1 DEF Lists
  <2>3. Lists(w, d)
    BY <1>1 DEF Lists
  <2>4. QED
    BY <2>1, <2>2, <2>3
<1>4. QED
  BY <1>1, <1>2, <1>3

\* In a vector without duplicates a device that is listed has one place.
LEMMA OnePlace ==
  ASSUME NEW s, Once(s), NEW d, Lists(s, d)
  PROVE  \E i \in 1 .. Len(s) : Places(s, d) = {i}
BY DEF Once, Lists, Places

-----------------------------------------------------------------------------
\* At the start there is neither a device nor a worker.
LEMMA InitIInv == Init => IInv
<1> SUFFICES ASSUME Init PROVE IInv
  OBVIOUS
<1>1. TypeOK
  <2>1. <<>> \in Seq(Devices) /\ Len(<<>>) = 0
    OBVIOUS
  <2>2. /\ choice \in [items : Seq(Devices), selected : Nat]
        /\ choice.selected <= Len(choice.items)
    BY <2>1 DEF Init
  <2>3. ServerOK
    BY <2>1 DEF Init, ServerOK, IoIdle
  <2>4. DevicesOK
    <3>1. manager = FALSE /\ descriptors = <<>> /\ streamingDevice = -1 /\ chosen = NoDevice
      BY DEF Init
    <3>2. streamingDevice \in Int /\ streamingDevice >= -1
      BY <3>1
    <3>3. QED
      BY <2>1, <2>2, <3>1, <3>2, Zenon DEF DevicesOK
  <2>5. ThreadsOK
    BY DEF Init, ThreadsOK
  <2>6. QED
    BY <2>3, <2>4, <2>5, TypeParts
<1>2. VectorsInv
  BY DEF Init, VectorsInv, IoIdle
<1>3. ListedInv
  BY DEF Init, ListedInv, Once, Lists, IoIdle
<1>4. ThreadInv
  BY DEF Init, ThreadInv
<1>5. QED
  BY <1>1, <1>2, <1>3, <1>4 DEF IInv

\* An accepted phone is not listed yet, and is from now on.
LEMMA AcceptIInv ==
  ASSUME IInv, NEW d \in Devices, AcceptDevice(d)
  PROVE  IInv'
<1> USE DEF IInv, deviceVars, receiverVars
<1>1. /\ io.at = "idle" /\ link[d] = "none" /\ link' = [link EXCEPT ![d] = "open"]
      /\ io' = [at |-> "connected", device |-> d, index |-> -1]
      /\ connections' = Append(connections, d)
      /\ UNCHANGED <<alive, accepting, ioRunning, manager, descriptors, streamingDevice,
                     choice, chosen, gui, isRunning, stopRequested, worker>>
  BY DEF AcceptDevice, IoAt, IoIdle
<1>2. /\ connections' \in Seq(Devices) /\ Once(connections')
      /\ \A e : Lists(connections', e) <=> Lists(connections, e) \/ e = d
  BY <1>1, AppendDevice DEF TypeOK, ListedInv
<1>3. TypeOK'
  BY <1>1, <1>2 DEF TypeOK
<1>4. VectorsInv'
  BY <1>1 DEF VectorsInv
<1>5. ListedInv'
  BY <1>1, <1>2 DEF ListedInv, TypeOK
<1>6. ThreadInv'
  BY <1>1 DEF ThreadInv
<1>7. QED
  BY <1>3, <1>4, <1>5, <1>6

\* Losing a phone begins a handler; the vectors still list it.
LEMMA LoseIInv ==
  ASSUME IInv, NEW d \in Devices, RejectDescriptor(d) \/ ReadFails(d)
  PROVE  IInv'
<1> USE DEF IInv, deviceVars, receiverVars
<1>1. CASE RejectDescriptor(d)
  <2>1. TypeOK'
    BY <1>1 DEF RejectDescriptor, TypeOK
  <2>2. VectorsInv' /\ ThreadInv'
    BY <1>1 DEF RejectDescriptor, VectorsInv, ThreadInv
  <2>3. ListedInv'
    BY <1>1 DEF RejectDescriptor, ListedInv, TypeOK, IoAt
  <2>4. QED
    BY <2>1, <2>2, <2>3
<1>2. CASE ReadFails(d)
  <2>1. TypeOK'
    <3>1. ServerOK'
      <4>1. io' = [at |-> "disconnected", device |-> d, index |-> -1]
        BY <1>2 DEF ReadFails, IoIdle
      <4>2. link' = [link EXCEPT ![d] = "closed"] /\ UNCHANGED <<connections, accepting, ioRunning>>
        BY <1>2 DEF ReadFails
      <4>3. QED
        BY <4>1, <4>2, TypeParts DEF ServerOK
    <3>2. DevicesOK'
      BY <1>2, TypeParts DEF ReadFails, DevicesOK
    <3>3. ThreadsOK'
      BY <1>2, TypeParts DEF ReadFails, ThreadsOK
    <3>4. QED
      BY <3>1, <3>2, <3>3 DEF TypeOK, ServerOK, DevicesOK, ThreadsOK
  <2>2. connections = descriptors
    BY <1>2 DEF ReadFails, IoAt, VectorsInv
  <2>3. VectorsInv' /\ ThreadInv'
    BY <1>2, <2>2 DEF ReadFails, VectorsInv, ThreadInv
  <2>4. ListedInv'
    BY <1>2, <2>2 DEF ReadFails, ListedInv, TypeOK
  <2>5. QED
    BY <2>1, <2>3, <2>4
<1>3. QED
  BY <1>1, <1>2

\* What the IO thread does to the list: the entry that is selected exists.
LEMMA ChoiceKept ==
  ASSUME TypeOK, ClearChoice \/ AppendChoice \/ SetSelection
  PROVE  /\ choice' \in [items : Seq(Devices), selected : Nat]
         /\ choice'.selected <= Len(choice'.items)
<1>1. /\ choice \in [items : Seq(Devices), selected : Nat]
      /\ choice.selected <= Len(choice.items)
      /\ Len(choice.items) \in Nat
      /\ descriptors \in Seq(Devices)
      /\ io.index \in Int
  BY DEF TypeOK
<1>2. CASE ClearChoice
  <2>1. <<>> \in Seq(Devices) /\ Len(<<>>) = 0
    OBVIOUS
  <2>2. choice' = [items |-> <<>>, selected |-> 0]
    BY <1>2 DEF ClearChoice
  <2> QED
    BY <2>1, <2>2
<1>3. CASE AppendChoice
  <2>1. PICK d : d = descriptors[Len(choice.items) + 1]
    OBVIOUS
  <2>2. /\ Len(choice.items) < Len(descriptors)
        /\ choice' = [choice EXCEPT !.items = Append(choice.items, d)]
    BY <1>3, <2>1 DEF AppendChoice
  <2>3. d \in Devices
    BY <1>1, <2>1, <2>2
  <2>4. /\ Append(choice.items, d) \in Seq(Devices)
        /\ Len(Append(choice.items, d)) = Len(choice.items) + 1
    BY <1>1, <2>3
  <2>5. /\ choice'.items = Append(choice.items, d) /\ choice'.selected = choice.selected
        /\ choice' \in [items : Seq(Devices), selected : Nat]
    BY <1>1, <2>2, <2>4
  <2> QED
    BY <1>1, <2>4, <2>5
<1>4. CASE SetSelection
  <2>1. /\ Len(choice.items) = Len(descriptors)
        /\ choice' = [choice EXCEPT !.selected = Selection]
    BY <1>4 DEF SetSelection
  <2>2. Selection \in Nat /\ Selection <= Len(descriptors)
    BY <1>1 DEF Selection
  <2> HIDE DEF Selection
  <2> QED
    BY <1>1, <2>1, <2>2
<1> QED
  BY <1>2, <1>3, <1>4

\* A step of a handler of the IO thread: the second vector follows the first.
LEMMA IoContinues == IInv /\ (IoHandler \/ DanglingDescriptors) => IInv'
<1> SUFFICES ASSUME IInv, IoHandler \/ DanglingDescriptors PROVE IInv'
  OBVIOUS
<1> USE DEF IInv, deviceVars, receiverVars, serverVars, IoAt, IoGoesTo, IoIdle
<1>1. CASE AddDescriptor
  <2>1. descriptors' = connections /\ connections' = connections
    BY <1>1 DEF AddDescriptor, VectorsInv
  <2>2. io' = [io EXCEPT !.at = "update"]
    BY <1>1 DEF AddDescriptor
  <2>3. TypeOK'
    <3>1. ServerOK'
      BY <1>1, <2>1, <2>2, TypeParts DEF AddDescriptor, ServerOK
    <3>2. DevicesOK'
      <4>1. descriptors' \in Seq(Devices)
        BY <2>1, TypeParts DEF ServerOK
      <4>2. UNCHANGED <<manager, streamingDevice, choice, chosen>>
        BY <1>1 DEF AddDescriptor
      <4>3. QED
        BY <4>1, <4>2, TypeParts DEF DevicesOK
    <3>3. ThreadsOK'
      BY <1>1, <2>1, <2>2, TypeParts DEF AddDescriptor, ThreadsOK
    <3>4. QED
      BY <3>1, <3>2, <3>3 DEF TypeOK, ServerOK, DevicesOK, ThreadsOK
  <2>4. VectorsInv' /\ ThreadInv'
    BY <1>1, <2>1, <2>2 DEF AddDescriptor, TypeOK, VectorsInv, ThreadInv
  <2>5. ListedInv'
    BY <1>1, <2>1, <2>2 DEF AddDescriptor, TypeOK, ListedInv
  <2>6. QED
    BY <2>3, <2>4, <2>5
<1>2. CASE EraseConnection
  <2>1. /\ io.at = "disconnected" /\ io.device \in Devices
        /\ io' = [io EXCEPT !.at = "notify"]
        /\ connections' = Without(connections, io.device)
        /\ UNCHANGED <<link, descriptors>>
    BY <1>2 DEF EraseConnection, TypeOK
  <2>2. /\ connections' \in Seq(Devices) /\ Once(connections')
        /\ \A e : Lists(connections', e) => Lists(connections, e)
        /\ \A e : e # io.device /\ Lists(connections, e) => Lists(connections', e)
    BY <2>1, WithoutDevice DEF TypeOK, ListedInv
  <2>3. TypeOK'
    BY <1>2, <2>1, <2>2 DEF EraseConnection, TypeOK
  <2>4. VectorsInv' /\ ThreadInv'
    BY <1>2, <2>1 DEF EraseConnection, TypeOK, VectorsInv, ThreadInv
  <2>5. io'.at = "notify" /\ io'.device = io.device /\ link[io.device] = "closed"
    BY <2>1 DEF TypeOK, ListedInv
  <2>6. ListedInv'
    BY <2>1, <2>2, <2>5 DEF ListedInv
  <2>7. QED
    BY <2>3, <2>4, <2>6
<1>3. CASE CompareStreaming
  <2>1. /\ io.at = "notify" /\ io' = [io EXCEPT !.at = "remove"] /\ alive' \in BOOLEAN
        /\ UNCHANGED <<link, connections, descriptors>>
    BY <1>3 DEF CompareStreaming
  <2>2. TypeOK'
    <3>1. ServerOK' /\ DevicesOK'
      BY <1>3, TypeParts DEF CompareStreaming, ServerOK, DevicesOK
    <3>2. ThreadsOK'
      BY <1>3, <2>1, TypeParts DEF CompareStreaming, ThreadsOK
    <3>3. QED
      BY <3>1, <3>2 DEF TypeOK, ServerOK, DevicesOK, ThreadsOK
  <2>3. VectorsInv' /\ ThreadInv'
    BY <1>3, <2>1 DEF CompareStreaming, TypeOK, VectorsInv, ThreadInv
  <2>4. ListedInv'
    BY <2>1 DEF TypeOK, ListedInv
  <2>5. QED
    BY <2>2, <2>3, <2>4
<1>4. CASE RemoveDescriptor
  <2>1. /\ io.at = "remove" /\ io' = [io EXCEPT !.at = "update"] /\ alive' \in BOOLEAN
        /\ descriptors' = connections
        /\ UNCHANGED <<link, connections>>
    BY <1>4 DEF RemoveDescriptor, VectorsInv
  <2>2. TypeOK'
    <3>1. ServerOK'
      BY <1>4, <2>1, TypeParts DEF RemoveDescriptor, ServerOK
    <3>2. DevicesOK'
      <4>1. descriptors' \in Seq(Devices)
        BY <2>1, TypeParts DEF ServerOK
      <4>2. UNCHANGED <<manager, streamingDevice, choice, chosen>>
        BY <1>4 DEF RemoveDescriptor
      <4>3. QED
        BY <4>1, <4>2, TypeParts DEF DevicesOK
    <3>3. ThreadsOK'
      BY <1>4, <2>1, TypeParts DEF RemoveDescriptor, ThreadsOK
    <3>4. QED
      BY <3>1, <3>2, <3>3 DEF TypeOK, ServerOK, DevicesOK, ThreadsOK
  <2>3. VectorsInv' /\ ThreadInv'
    BY <1>4, <2>1 DEF RemoveDescriptor, TypeOK, VectorsInv, ThreadInv
  <2>4. ListedInv'
    BY <2>1 DEF TypeOK, ListedInv
  <2>5. QED
    BY <2>2, <2>3, <2>4
<1>5. CASE UpdateAvailableDevices \/ ReadDescriptors
  <2>1. /\ io.at \in {"update", "devices"} /\ io'.at \in {"clear", "fill"}
        /\ io'.device = io.device /\ io'.index \in Int
        /\ io' \in [at : {"clear", "fill"}, device : {io.device}, index : Int]
        /\ UNCHANGED <<alive, link, connections, accepting, ioRunning, manager, descriptors,
                       streamingDevice, choice, chosen, gui, isRunning, stopRequested, worker>>
    BY <1>5 DEF UpdateAvailableDevices, ReadDescriptors, TypeOK
  <2>2. TypeOK'
    BY <2>1 DEF TypeOK
  <2>3. VectorsInv' /\ ListedInv' /\ ThreadInv'
    BY <2>1 DEF VectorsInv, ListedInv, ThreadInv
  <2>4. QED
    BY <2>2, <2>3
<1>5a. CASE ClearChoice \/ AppendChoice \/ SetSelection
  <2>1. /\ io.at \in {"clear", "fill"} /\ io'.at \in {"devices", "fill", "idle"}
        /\ io' \in [at : {"devices", "fill"}, device : {io.device}, index : Int]
           \/ io' = [at |-> "idle", device |-> NoDevice, index |-> -1]
        /\ UNCHANGED <<alive, link, connections, accepting, ioRunning, manager, descriptors,
                       streamingDevice, chosen, gui, isRunning, stopRequested, worker>>
    BY <1>5a DEF ClearChoice, AppendChoice, SetSelection, TypeOK
  <2>2. choice' \in [items : Seq(Devices), selected : Nat] /\ choice'.selected <= Len(choice'.items)
    BY <1>5a, ChoiceKept DEF TypeOK
  <2>3. TypeOK'
    BY <2>1, <2>2 DEF TypeOK
  <2>4. VectorsInv' /\ ListedInv' /\ ThreadInv'
    BY <2>1 DEF VectorsInv, ListedInv, ThreadInv
  <2>5. QED
    BY <2>3, <2>4
<1>6. CASE ManagerMissing \/ DanglingDescriptors
  <2>1. TypeOK'
    <3>1. ServerOK'
      BY <1>6, TypeParts DEF ManagerMissing, DanglingDescriptors, Terminate, ServerOK
    <3>2. DevicesOK'
      BY <1>6, TypeParts DEF ManagerMissing, DanglingDescriptors, Terminate, DevicesOK
    <3>3. ThreadsOK'
      BY <1>6, TypeParts DEF ManagerMissing, DanglingDescriptors, Terminate, ThreadsOK
    <3>4. QED
      BY <3>1, <3>2, <3>3 DEF TypeOK, ServerOK, DevicesOK, ThreadsOK
  <2>2. VectorsInv' /\ ListedInv'
    BY <1>6 DEF ManagerMissing, DanglingDescriptors, Terminate, VectorsInv, ListedInv
  <2>3. ThreadInv'
    BY <1>6 DEF ManagerMissing, DanglingDescriptors, Terminate, TypeOK, ThreadInv
  <2>4. QED
    BY <2>1, <2>2, <2>3
<1>7. QED
  BY <1>1, <1>2, <1>3, <1>4, <1>5, <1>5a, <1>6 DEF IoHandler

\* A step of the window's thread that leaves the server and the descriptors
\* alone is about the threads only.
LEMMA GuiOnly ==
  ASSUME IInv, UNCHANGED <<serverVars, descriptors, streamingDevice, choice, chosen>>,
         manager' \in BOOLEAN, ThreadsOK', ThreadInv'
  PROVE  IInv'
<1>1. ServerOK'
  BY TypeParts DEF serverVars, IInv, ServerOK
<1>2. DevicesOK'
  BY TypeParts DEF IInv, DevicesOK
<1>3. TypeOK'
  BY <1>1, <1>2 DEF TypeOK, ServerOK, DevicesOK, ThreadsOK
<1>4. VectorsInv' /\ ListedInv'
  BY DEF serverVars, IInv, VectorsInv, ListedInv
<1>5. QED
  BY <1>3, <1>4 DEF IInv

\* A step of the window's thread leaves the vectors alone; Close closes the
\* links of those that are listed.
LEMMA GuiStepIInv ==
  ASSUME IInv, GuiHandler \/ SendActivation \/ CloseWindow \/ \E i \in 0 .. Len(choice.items) : OnSourceChanged(i)
  PROVE  IInv'
<1> USE DEF IInv, deviceVars, receiverVars, serverVars, GuiAt, GuiGoesTo
<1>0. ServerOK /\ DevicesOK /\ ThreadsOK
  BY TypeParts
<1>1. CASE CreateManager
  <2>1. ThreadsOK'
    BY <1>0, <1>1 DEF CreateManager, ThreadsOK
  <2>2. ThreadInv'
    BY <1>0, <1>1 DEF CreateManager, ThreadsOK, ThreadInv
  <2>3. QED
    BY <1>0, <1>1, <2>1, <2>2, GuiOnly DEF CreateManager, DevicesOK
<1>2. CASE Stop
  <2>1. ThreadsOK'
    BY <1>0, <1>2 DEF Stop, Stopped, ThreadsOK
  <2>2. ThreadInv'
    BY <1>0, <1>2 DEF Stop, Stopped, ThreadsOK, ThreadInv
  <2>3. QED
    BY <1>0, <1>2, <2>1, <2>2, GuiOnly DEF Stop, DevicesOK
<1>3. CASE RequestStop
  <2>1. ThreadsOK'
    BY <1>0, <1>3 DEF RequestStop, ThreadsOK
  <2>2. ThreadInv'
    BY <1>0, <1>3 DEF RequestStop, ThreadsOK, ThreadInv
  <2>3. QED
    BY <1>0, <1>3, <2>1, <2>2, GuiOnly DEF RequestStop, DevicesOK
<1>4. CASE JoinWorker
  <2>1. ThreadsOK'
    BY <1>0, <1>4 DEF JoinWorker, Stopped, ThreadsOK
  <2>2. ThreadInv'
    BY <1>0, <1>4 DEF JoinWorker, Stopped, ThreadsOK, ThreadInv
  <2>3. QED
    BY <1>0, <1>4, <2>1, <2>2, GuiOnly DEF JoinWorker, DevicesOK
<1>5. CASE SendActivation \/ SendNothing
  <2>1. ThreadsOK'
    BY <1>0, <1>5 DEF SendActivation, SendNothing, ThreadsOK
  <2>2. ThreadInv'
    BY <1>0, <1>5 DEF SendActivation, SendNothing, ThreadsOK, ThreadInv
  <2>3. QED
    BY <1>0, <1>5, <2>1, <2>2, GuiOnly DEF SendActivation, SendNothing, DevicesOK
<1>6. CASE Start
  <2>1. ThreadsOK'
    BY <1>0, <1>6 DEF Start, ThreadsOK
  <2>2. ThreadInv'
    BY <1>0, <1>6 DEF Start, ThreadsOK, ThreadInv
  <2>3. QED
    BY <1>0, <1>6, <2>1, <2>2, GuiOnly DEF Start, DevicesOK
<1>7. CASE CloseConnections
  <2>1. /\ UNCHANGED <<connections, io, descriptors>>
        /\ link' = [d \in Devices |-> IF Lists(connections, d) THEN "closed" ELSE link[d]]
    BY <1>0, <1>7, DOMAIN connections = 1 .. Len(connections) DEF CloseConnections, ServerOK, Lists
  <2>2. ServerOK'
    BY <1>0, <1>7, <2>1 DEF CloseConnections, ServerOK
  <2>3. DevicesOK' /\ ThreadsOK'
    BY <1>0, <1>7 DEF CloseConnections, DevicesOK, ThreadsOK
  <2>4. VectorsInv' /\ ThreadInv'
    BY <1>0, <1>7, <2>1 DEF CloseConnections, ThreadsOK, VectorsInv, ThreadInv
  <2>5. ListedInv'
    BY <1>0, <2>1 DEF ServerOK, ListedInv
  <2>6. QED
    BY <2>2, <2>3, <2>4, <2>5 DEF TypeOK, ServerOK, DevicesOK, ThreadsOK
<1>8. CASE StopContext
  <2>1. ServerOK'
    BY <1>0, <1>8 DEF StopContext, ServerOK
  <2>2. DevicesOK' /\ ThreadsOK'
    BY <1>0, <1>8 DEF StopContext, DevicesOK, ThreadsOK
  <2>3. VectorsInv' /\ ListedInv'
    BY <1>8 DEF StopContext, VectorsInv, ListedInv
  <2>4. ThreadInv'
    BY <1>0, <1>8 DEF StopContext, ThreadsOK, ThreadInv
  <2>5. QED
    BY <2>1, <2>2, <2>3, <2>4 DEF TypeOK, ServerOK, DevicesOK, ThreadsOK
<1>9. CASE JoinIo
  <2>1. ThreadsOK'
    BY <1>0, <1>9 DEF JoinIo, ThreadsOK
  <2>2. ThreadInv'
    BY <1>0, <1>9 DEF JoinIo, ThreadsOK, ThreadInv
  <2>3. QED
    BY <1>0, <1>9, <2>1, <2>2, GuiOnly DEF JoinIo, DevicesOK
<1>10. CASE CloseWindow
  <2>1. ThreadsOK'
    BY <1>0, <1>10 DEF CloseWindow, ThreadsOK
  <2>2. ThreadInv'
    BY <1>0, <1>10 DEF CloseWindow, ThreadsOK, ThreadInv
  <2>3. QED
    BY <1>0, <1>10, <2>1, <2>2, GuiOnly DEF CloseWindow, DevicesOK
<1>11. ASSUME NEW i \in 0 .. Len(choice.items), OnSourceChanged(i)
       PROVE  IInv'
  <2>1. gui' = gui \/ gui' = [at |-> "stop", next |-> "connect"]
    BY <1>11 DEF OnSourceChanged
  <2>2. gui.at = "idle" /\ UNCHANGED <<serverVars, manager, descriptors, receiverVars>>
    BY <1>11 DEF OnSourceChanged
  <2>3. VectorsInv' /\ ListedInv' /\ ThreadInv'
    BY <2>1, <2>2 DEF TypeOK, VectorsInv, ListedInv, ThreadInv
  <2>4. choice' \in [items : Seq(Devices), selected : Nat] /\ choice'.selected <= Len(choice'.items)
    <3>1. choice' = [choice EXCEPT !.selected = i] /\ i \in Nat /\ i <= Len(choice.items)
      BY <1>11 DEF OnSourceChanged, TypeOK
    <3>2. QED
      BY <3>1 DEF TypeOK
  <2>5. /\ streamingDevice' \in Int /\ streamingDevice' >= -1
        /\ chosen' \in Devices \cup {NoDevice}
        /\ alive' \in BOOLEAN
    <3>1. CASE i = 0 \/ descriptors = <<>>
      <4>1. UNCHANGED <<alive, streamingDevice, chosen>>
        BY <1>11, <3>1 DEF OnSourceChanged
      <4>2. QED
        BY <4>1 DEF TypeOK
    <3>2. CASE ~(i = 0 \/ descriptors = <<>>)
      <4>1. /\ streamingDevice' = i - 1
            /\ chosen' = IF i <= Len(descriptors) THEN descriptors[i] ELSE NoDevice
        BY <1>11, <3>2 DEF OnSourceChanged
      <4>2. i \in Nat /\ i # 0 /\ descriptors \in Seq(Devices)
        BY <3>2 DEF TypeOK
      <4>3. alive' \in IF i <= Len(descriptors) THEN {TRUE} ELSE BOOLEAN
        BY <1>11, <3>2, Zenon DEF OnSourceChanged
      <4>4. alive' \in BOOLEAN
        BY <4>3
      <4>5. QED
        BY <4>1, <4>2, <4>4
    <3>3. QED
      BY <3>1, <3>2
  <2>8. TypeOK'
    BY <2>1, <2>2, <2>4, <2>5 DEF TypeOK
  <2>9. QED
    BY <2>3, <2>8
<1>12. QED
  BY <1>1, <1>2, <1>3, <1>4, <1>5, <1>6, <1>7, <1>8, <1>9, <1>10, <1>11 DEF GuiHandler

\* The worker never becomes joinable or unjoinable by itself.
LEMMA WorkerStepIInv == IInv /\ (WorkerLocal \/ Opened \/ ReadFrame) => IInv'
<1> SUFFICES ASSUME IInv, WorkerLocal \/ Opened \/ ReadFrame PROVE IInv'
  OBVIOUS
<1>1. /\ worker # "none" /\ worker' \in {"top", "open", "opening", "loop", "reading", "retry", "exited"}
      /\ stopRequested' \in {stopRequested, FALSE}
      /\ UNCHANGED <<alive, serverVars, deviceVars, gui, isRunning>>
  BY DEF WorkerLocal, Opened, ReadFrame, WorkerTest, OpenConnection, LoopTest,
         Interrupted, Retry, WorkerMoves, Blocked
<1>2. TypeOK'
  <2>1. ServerOK'
    BY <1>1, TypeParts DEF serverVars, deviceVars, IInv, ServerOK
  <2>2. DevicesOK'
    BY <1>1, TypeParts DEF serverVars, deviceVars, IInv, DevicesOK
  <2>3. ThreadsOK'
    BY <1>1, TypeParts DEF serverVars, deviceVars, IInv, ThreadsOK
  <2>4. QED
    BY <2>1, <2>2, <2>3 DEF TypeOK, ServerOK, DevicesOK, ThreadsOK
<1>3. VectorsInv' /\ ListedInv'
  BY <1>1 DEF serverVars, deviceVars, IInv, VectorsInv, ListedInv
<1>4. ThreadInv'
  BY <1>1 DEF IInv, ThreadInv
<1>5. QED
  BY <1>2, <1>3, <1>4 DEF IInv

\* Every step of the three threads keeps the invariant.
LEMMA NextIInv == IInv /\ [Next]_vars => IInv'
<1> SUFFICES ASSUME IInv, [Next]_vars PROVE IInv'
  OBVIOUS
<1>1. CASE UNCHANGED vars
  BY <1>1 DEF vars, serverVars, deviceVars, receiverVars, IInv, TypeOK,
              VectorsInv, ListedInv, ThreadInv
<1>2. CASE Next
  BY <1>2, AcceptIInv, LoseIInv, IoContinues, GuiStepIInv, WorkerStepIInv DEF Next
<1>3. QED
  BY <1>1, <1>2

-----------------------------------------------------------------------------
\* The vectors hold devices only, and the entry that is selected in the list
\* exists, for any devices that come and go.
THEOREM TypeCorrect == Spec => []TypeOK
<1>1. IInv => TypeOK
  BY DEF IInv
<1>2. QED
  BY InitIInv, NextIInv, <1>1, PTL DEF Spec

\* One index names one device in Manager and in Server whenever the IO thread
\* is between handlers, and RemoveDescriptor's erase always finds the one
\* descriptor it is to remove.
THEOREM VectorsAgree == Spec => []IndexesAgree
<1>1. IInv => IndexesAgree
  BY OnePlace DEF IInv, VectorsInv, ListedInv, IndexesAgree
<1>2. QED
  BY InitIInv, NextIInv, <1>1, PTL DEF Spec

\* Start never overwrites a thread that has not been joined.
THEOREM JoinedBeforeStart == Spec => []ThreadIsJoined
<1>1. IInv => ThreadIsJoined
  BY DEF IInv, ThreadInv, ThreadIsJoined
<1>2. QED
  BY InitIInv, NextIInv, <1>1, PTL DEF Spec
=============================================================================
