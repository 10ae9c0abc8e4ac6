--------------------------- MODULE StreamerProofs ---------------------------
(***************************************************************************)
(* Streamer for any peer, any number of messages, filters and surfaces:    *)
(* types, the credentials after the end, the mode of a running stream and  *)
(* the camera in use.                                                      *)
(***************************************************************************)
EXTENDS Streamer, SequenceTheorems, TLAPS

\* n options and m filters have been created.
OptionsUpTo(m) ==
  [width : Sizes, height : Sizes, fps : Rates, facing : Facings, codec : Codecs,
   effect : 0 .. m, corrections : SUBSET (1 .. m), flips : [Axes -> 0 .. m]]
FilterNames == Effects \cup Corrections \cup Axes
Filters == [name : FilterNames, value : Values \cup {0}, applied : Nat]
Servers ==
  [preview : BOOLEAN, facing : Facings, streaming : BOOLEAN, mode : Sizes \X Sizes \X Rates,
   codec : Codecs, password : {"session", "random"}]
Tasks(n, m) ==
  [kind : {"start"}, old : 1 .. n, new : 1 .. n]
    \cup [kind : {"restart", "disconnected"}]
    \cup [kind : {"effect"}, name : Effects \cup {None}]
    \cup [kind : {"correction"}, filter : 1 .. m, value : Values]
    \cup [kind : {"flip"}, axis : Axes]
Steps(n, m) ==
  [kind : {"apply"}, changes : {None}, arg : 1 .. n]
    \cup [kind : {"idle", "prepare", "ready"}, changes : {None}, arg : {0}]
    \cup [kind : {"effect"}, changes : {"effect"}, arg : 0 .. m]
    \cup [kind : {"flip"}, changes : Axes, arg : 1 .. n]
Readers(n) ==
  [at : {"idle", "switched"}]
    \cup [at : {"posting"}, old : 1 .. n, new : 1 .. n]
    \cup [at : {"resizing"}, height : Sizes]

\* What refers to options and filters refers to ones that were created.
RefsInv ==
  /\ filters \in Seq(Filters)
  /\ options \in Seq(OptionsUpTo(Len(filters))) /\ current \in 1 .. Len(options)
  /\ looper \in Seq(Tasks(Len(options), Len(filters)))
  /\ main \in Steps(Len(options), Len(filters))
  /\ reader \in Readers(Len(options))
StateInv ==
  /\ server \in Servers
  /\ repertoire \in Repertoires /\ messages \in 0 .. repertoire.messages
  /\ surfaces \in 0 .. MaxSurfaces
  /\ connected \in BOOLEAN /\ ended \in BOOLEAN /\ bypassed \in BOOLEAN

\* The password of the session is never used after stop.
PasswordInv == ended => server.password = "random"

\* Tasks of that kind are posted.
Posted(kinds) == \E i \in 1 .. Len(looper) : looper[i].kind \in kinds

\* A stream that runs, or is about to, with another mode than that of the
\* options will be prepared again, or was left running by an activation.
Unsettled ==
  \/ reader.at \in {"posting", "resizing"}
  \/ Posted({"start", "restart"})
  \/ main.kind \in {"apply", "prepare"}
ModeInv ==
  (server.streaming \/ main.kind = "ready") /\ ~bypassed /\ server.mode # Mode(this) => Unsettled

\* Activations follow each other: each start replaces options which the one
\* before made current.
LinkInv ==
  /\ reader.at = "posting" => reader.new = current
  /\ \A i \in 1 .. Len(looper) : looper[i].kind = "start" =>
       \/ looper[i].new = current
       \/ reader.at = "posting" /\ reader.old = looper[i].new
       \/ \E j \in i + 1 .. Len(looper) :
            looper[j].kind = "start" /\ looper[j].old = looper[i].new

\* The options of the activations that were not started yet, and the ones they
\* replaced.
Replaced(k) == \E i \in 1 .. Len(looper) : looper[i].kind = "start" /\ k = looper[i].old
Awaited(k) ==
  \/ k = current
  \/ reader.at = "posting" /\ k = reader.old
  \/ Replaced(k)

\* The camera is the one of some of these options, or is being switched while
\* there is no activation.
FacingInv ==
  server.preview /\ "camera" \notin crossed =>
    IF reader.at = "switched" THEN server.facing = OtherFacing(this.facing) /\ ~Starting
    ELSE \E k \in 1 .. Len(options) : Awaited(k) /\ server.facing = options[k].facing

IInv ==
  /\ RefsInv
  /\ StateInv
  /\ PasswordInv
  /\ ModeInv
  /\ LinkInv
  /\ FacingInv

-----------------------------------------------------------------------------
(* Sequences and bounds                                                    *)

\* What is left of the looper when task i has been taken out.
Without(s, i) == SubSeq(s, 1, i - 1) \o SubSeq(s, i + 1, Len(s))

\* The other tasks keep their order.
LEMMA WithoutOne ==
  ASSUME NEW S, NEW s \in Seq(S), NEW i \in 1 .. Len(s)
  PROVE  /\ Without(s, i) \in Seq(S)
         /\ Len(Without(s, i)) = Len(s) - 1
         /\ \A j \in 1 .. Len(s) - 1 : Without(s, i)[j] = s[IF j < i THEN j ELSE j + 1]
<1> DEFINE a == SubSeq(s, 1, i - 1)
           b == SubSeq(s, i + 1, Len(s))
<1>1. Len(s) \in Nat /\ i \in Nat
  OBVIOUS
<1>2. a \in Seq(S) /\ Len(a) = i - 1 /\ \A j \in 1 .. i - 1 : a[j] = s[j]
  BY <1>1
<1>3. b \in Seq(S) /\ Len(b) = Len(s) - i /\ \A j \in 1 .. Len(s) - i : b[j] = s[i + j]
  BY <1>1
<1>4. Without(s, i) = a \o b
  BY DEF Without
<1> HIDE DEF a, b
<1>5. a \o b \in Seq(S) /\ Len(a \o b) = Len(s) - 1
  <2>1. a \o b \in Seq(S) /\ Len(a \o b) = Len(a) + Len(b)
    BY <1>2, <1>3, ConcatProperties
  <2> QED
    BY <1>1, <1>2, <1>3, <2>1
<1>6. \A j \in 1 .. Len(s) - 1 : (a \o b)[j] = IF j < i THEN a[j] ELSE b[j - (i - 1)]
  <2>1. \A j \in 1 .. Len(a) + Len(b) : (a \o b)[j] = IF j <= Len(a) THEN a[j] ELSE b[j - Len(a)]
    BY <1>2, <1>3, ConcatProperties
  <2> QED
    BY <1>1, <1>2, <1>3, <2>1
<1>7. \A j \in 1 .. Len(s) - 1 : (a \o b)[j] = s[IF j < i THEN j ELSE j + 1]
  BY <1>1, <1>2, <1>3, <1>6
<1> QED
  BY <1>4, <1>5, <1>7

\* A sequence of members of a set is one of members of a larger set.
LEMMA SeqGrows ==
  ASSUME NEW S, NEW T, S \subseteq T, NEW s \in Seq(S)
  PROVE  s \in Seq(T)
OBVIOUS

\* An entry is changed.
LEMMA SeqChanged ==
  ASSUME NEW S, NEW s \in Seq(S), NEW i \in 1 .. Len(s), NEW v \in S
  PROVE  [s EXCEPT ![i] = v] \in Seq(S) /\ Len([s EXCEPT ![i] = v]) = Len(s)
OBVIOUS

\* More options and filters make the sets larger.
LEMMA Bounds ==
  ASSUME NEW n \in Nat, NEW m \in Nat, NEW n2 \in Nat, NEW m2 \in Nat, n <= n2, m <= m2
  PROVE  /\ OptionsUpTo(m) \subseteq OptionsUpTo(m2)
         /\ Tasks(n, m) \subseteq Tasks(n2, m2)
         /\ Steps(n, m) \subseteq Steps(n2, m2)
         /\ Readers(n) \subseteq Readers(n2)
<1>1. 1 .. n \subseteq 1 .. n2 /\ 1 .. m \subseteq 1 .. m2 /\ 0 .. m \subseteq 0 .. m2
  OBVIOUS
<1>2. OptionsUpTo(m) \subseteq OptionsUpTo(m2)
  BY <1>1 DEF OptionsUpTo
<1>3. Tasks(n, m) \subseteq Tasks(n2, m2)
  BY <1>1 DEF Tasks
<1>4. Steps(n, m) \subseteq Steps(n2, m2)
  BY <1>1 DEF Steps
<1>5. Readers(n) \subseteq Readers(n2)
  BY <1>1 DEF Readers
<1> QED
  BY <1>2, <1>3, <1>4, <1>5

\* References stay valid when options and filters are added.
LEMMA RefsGrow ==
  ASSUME RefsInv, NEW n \in Nat, NEW m \in Nat, Len(options) <= n, Len(filters) <= m
  PROVE  /\ options \in Seq(OptionsUpTo(m)) /\ current \in 1 .. n
         /\ looper \in Seq(Tasks(n, m)) /\ main \in Steps(n, m) /\ reader \in Readers(n)
<1>1. PICK n0 \in Nat, m0 \in Nat : n0 = Len(options) /\ m0 = Len(filters)
  BY DEF RefsInv
<1>2. /\ OptionsUpTo(m0) \subseteq OptionsUpTo(m) /\ Tasks(n0, m0) \subseteq Tasks(n, m)
      /\ Steps(n0, m0) \subseteq Steps(n, m) /\ Readers(n0) \subseteq Readers(n)
  BY <1>1, Bounds
<1>3. options \in Seq(OptionsUpTo(m0)) /\ looper \in Seq(Tasks(n0, m0))
  BY <1>1 DEF RefsInv
<1>4. main \in Steps(n, m) /\ reader \in Readers(n)
  BY <1>1, <1>2 DEF RefsInv
<1>5. options \in Seq(OptionsUpTo(m)) /\ looper \in Seq(Tasks(n, m))
  BY <1>2, <1>3, SeqGrows
<1>6. current \in 1 .. n
  BY <1>1 DEF RefsInv
<1> QED
  BY <1>4, <1>5, <1>6

\* Options, as an activation or the default gives them.
LEMMA NewOptions ==
  ASSUME NEW size \in Sizes, NEW fps \in Rates, NEW facing \in Facings, NEW codec \in Codecs,
         NEW m \in Nat, NEW e \in 0 .. m, NEW c \in SUBSET (1 .. m)
  PROVE  [StreamOptions(size, fps, facing, codec) EXCEPT !.effect = e, !.corrections = c]
           \in OptionsUpTo(m)
<1>1. /\ 0 \in 0 .. m /\ {} \in SUBSET (1 .. m)
      /\ [x \in Axes |-> 0] \in [Axes -> 0 .. m]
  OBVIOUS
<1>2. StreamOptions(size, fps, facing, codec) \in OptionsUpTo(m)
  BY <1>1 DEF StreamOptions, OptionsUpTo
<1> QED
  BY <1>2 DEF OptionsUpTo

\* The default options refer to no filter.
LEMMA Defaults ==
  /\ DefaultOptions \in OptionsUpTo(0)
  /\ Mode(DefaultOptions) \in Sizes \X Sizes \X Rates
<1>1. (CHOOSE s \in Sizes : TRUE) \in Sizes /\ (CHOOSE r \in Rates : TRUE) \in Rates
  BY ActivationsAssumption
<1>2. DefaultOptions \in OptionsUpTo(0)
  BY <1>1 DEF DefaultOptions, StreamOptions, OptionsUpTo, Facings, Codecs
<1> QED
  BY <1>2 DEF Mode, OptionsUpTo

Activations ==
  [size : Sizes, fps : Rates, facing : Facings, codec : Codecs,
   effect : Effects \cup {None}, correction : Corrections \cup {None}, value : Values]
EffectOf(a) == IF a.effect = None THEN <<>> ELSE <<NewFilter(a.effect, 0, 0)>>
CorrectionOf(a) == IF a.correction = None THEN <<>> ELSE <<NewFilter(a.correction, a.value, 0)>>
Created(f, a) == f \o EffectOf(a) \o CorrectionOf(a)
Taken(f, a) ==
  [StreamOptions(a.size, a.fps, a.facing, a.codec) EXCEPT
     !.effect = IF a.effect = None THEN 0 ELSE Len(f) + 1,
     !.corrections = IF a.correction = None THEN {} ELSE {Len(f) + 1 + Len(EffectOf(a))}]

\* The filters and the options an activation makes.
LEMMA Activated ==
  ASSUME NEW f \in Seq(Filters), NEW a \in Activations
  PROVE  /\ Created(f, a) \in Seq(Filters)
         /\ Len(f) <= Len(Created(f, a))
         /\ Taken(f, a) \in OptionsUpTo(Len(Created(f, a)))
<1> DEFINE e == EffectOf(a)
           c == CorrectionOf(a)
<1>1. e \in Seq(Filters) /\ Len(e) = IF a.effect = None THEN 0 ELSE 1
  <2>1. CASE a.effect = None
    BY <2>1 DEF EffectOf
  <2>2. CASE a.effect # None
    <3>1. NewFilter(a.effect, 0, 0) \in Filters
      BY <2>2 DEF Activations, NewFilter, Filters, FilterNames
    <3> QED
      BY <2>2, <3>1 DEF EffectOf
  <2> QED
    BY <2>1, <2>2
<1>2. c \in Seq(Filters) /\ Len(c) = IF a.correction = None THEN 0 ELSE 1
  <2>1. CASE a.correction = None
    BY <2>1 DEF CorrectionOf
  <2>2. CASE a.correction # None
    <3>1. NewFilter(a.correction, a.value, 0) \in Filters
      BY <2>2 DEF Activations, NewFilter, Filters, FilterNames
    <3> QED
      BY <2>2, <3>1 DEF CorrectionOf
  <2> QED
    BY <2>1, <2>2
<1>3. Created(f, a) = (f \o e) \o c
  BY DEF Created
<1> HIDE DEF e, c
<1>4. Created(f, a) \in Seq(Filters) /\ Len(Created(f, a)) = Len(f) + Len(e) + Len(c)
  <2>1. f \o e \in Seq(Filters) /\ Len(f \o e) = Len(f) + Len(e)
    BY <1>1, ConcatProperties
  <2>2. (f \o e) \o c \in Seq(Filters) /\ Len((f \o e) \o c) = Len(f \o e) + Len(c)
    BY <1>2, <2>1, ConcatProperties
  <2> QED
    BY <1>3, <2>1, <2>2
<1>5. PICK k \in Nat, m \in Nat, x \in Nat, y \in Nat :
        /\ k = Len(f) /\ m = Len(Created(f, a)) /\ x = Len(e) /\ y = Len(c)
        /\ m = k + x + y
  <2>1. Len(f) \in Nat /\ Len(e) \in Nat /\ Len(c) \in Nat
    BY <1>1, <1>2
  <2>2. Len(Created(f, a)) \in Nat
    BY <1>4
  <2> QED
    BY <1>4, <2>1, <2>2
<1>6. k <= m
  BY <1>5
<1>7. (IF a.effect = None THEN 0 ELSE k + 1) \in 0 .. m
  <2>1. a.effect # None => x = 1
    BY <1>1, <1>5
  <2> QED
    BY <1>5, <2>1
<1>8. (IF a.correction = None THEN {} ELSE {k + 1 + Len(e)}) \in SUBSET (1 .. m)
  <2>1. a.correction # None => y = 1
    BY <1>2, <1>5
  <2> QED
    BY <1>5, <2>1
<1>9. a.size \in Sizes /\ a.fps \in Rates /\ a.facing \in Facings /\ a.codec \in Codecs
  BY DEF Activations
<1>10. Taken(f, a) \in OptionsUpTo(m)
  <2>1. PICK ef \in 0 .. m, co \in SUBSET (1 .. m) :
          /\ ef = IF a.effect = None THEN 0 ELSE k + 1
          /\ co = IF a.correction = None THEN {} ELSE {k + 1 + Len(e)}
    BY <1>7, <1>8
  <2>2. Taken(f, a) = [StreamOptions(a.size, a.fps, a.facing, a.codec) EXCEPT
                         !.effect = ef, !.corrections = co]
    BY <1>5, <2>1 DEF Taken, e
  <2>3. PICK s \in Sizes, r \in Rates, g \in Facings, d \in Codecs :
          s = a.size /\ r = a.fps /\ g = a.facing /\ d = a.codec
    BY <1>9
  <2>4. PICK o : o = [StreamOptions(s, r, g, d) EXCEPT !.effect = ef, !.corrections = co]
    OBVIOUS
  <2>5. o \in OptionsUpTo(m)
    BY <2>4, NewOptions, Zenon
  <2>6. Taken(f, a) = o
    BY <2>2, <2>3, <2>4
  <2> QED
    BY <2>5, <2>6
<1> QED
  BY <1>4, <1>5, <1>6, <1>10

-----------------------------------------------------------------------------
(* The parts of the state                                                  *)

\* A change of one field leaves options well formed.
LEMMA OptionsField ==
  ASSUME NEW m \in Nat, NEW o \in OptionsUpTo(m)
  PROVE  /\ \A s \in Sizes : /\ [o EXCEPT !.width = s] \in OptionsUpTo(m)
                             /\ [o EXCEPT !.height = s] \in OptionsUpTo(m)
         /\ \A r \in Rates : [o EXCEPT !.fps = r] \in OptionsUpTo(m)
         /\ \A g \in Facings : [o EXCEPT !.facing = g] \in OptionsUpTo(m)
         /\ \A e \in 0 .. m : [o EXCEPT !.effect = e] \in OptionsUpTo(m)
         /\ \A f \in 1 .. m : [o EXCEPT !.corrections = @ \cup {f}] \in OptionsUpTo(m)
         /\ \A x \in Axes, e \in 0 .. m : [o EXCEPT !.flips[x] = e] \in OptionsUpTo(m)
<1>1. /\ \A s \in Sizes : /\ [o EXCEPT !.width = s] \in OptionsUpTo(m)
                          /\ [o EXCEPT !.height = s] \in OptionsUpTo(m)
      /\ \A r \in Rates : [o EXCEPT !.fps = r] \in OptionsUpTo(m)
      /\ \A g \in Facings : [o EXCEPT !.facing = g] \in OptionsUpTo(m)
  BY DEF OptionsUpTo
<1>2. /\ \A e \in 0 .. m : [o EXCEPT !.effect = e] \in OptionsUpTo(m)
      /\ \A f \in 1 .. m : [o EXCEPT !.corrections = @ \cup {f}] \in OptionsUpTo(m)
  BY DEF OptionsUpTo
<1>3. \A x \in Axes, e \in 0 .. m : [o EXCEPT !.flips[x] = e] \in OptionsUpTo(m)
  BY DEF OptionsUpTo
<1> QED
  BY <1>1, <1>2, <1>3

\* What the fields of a task and of a step refer to.
LEMMA TaskFields ==
  ASSUME NEW n \in Nat, NEW m \in Nat, NEW t \in Tasks(n, m)
  PROVE  /\ t.kind = "start" => t.old \in 1 .. n /\ t.new \in 1 .. n
         /\ t.kind = "effect" => t.name \in Effects \cup {None}
         /\ t.kind = "correction" => t.filter \in 1 .. m /\ t.value \in Values
         /\ t.kind = "flip" => t.axis \in Axes
BY DEF Tasks

\* What the fields of the step being run refer to.
LEMMA StepFields ==
  ASSUME NEW n \in Nat, NEW m \in Nat, NEW t \in Steps(n, m)
  PROVE  /\ t.kind = "apply" => t.arg \in 1 .. n
         /\ t.kind = "effect" => t.arg \in 0 .. m
         /\ t.kind = "flip" => t.arg \in 1 .. n /\ t.changes \in Axes
BY DEF Steps

\* What the reader is in the middle of.
LEMMA ReaderFields ==
  ASSUME NEW n \in Nat, NEW r \in Readers(n)
  PROVE  /\ r.at = "posting" => r.old \in 1 .. n /\ r.new \in 1 .. n
         /\ r.at = "resizing" => r.height \in Sizes
BY DEF Readers

\* The server stays a server, whatever is done with it.
LEMMA ServerStopped ==
  ASSUME NEW s \in Servers
  PROVE  StopPreview(s) \subseteq Servers /\ StopStream(s) \in Servers
<1>1. [s EXCEPT !.preview = FALSE] \in Servers
  BY DEF Servers
<1>2. [s EXCEPT !.streaming = FALSE] \in Servers
  BY DEF Servers
<1> QED
  BY <1>1, <1>2 DEF StopPreview, StopStream

\* A change of one field leaves a server.
LEMMA ServerField ==
  ASSUME NEW s \in Servers
  PROVE  /\ \A g \in Facings : /\ [s EXCEPT !.facing = g] \in Servers
                               /\ [s EXCEPT !.preview = TRUE, !.facing = g] \in Servers
         /\ \A c \in Codecs : [s EXCEPT !.codec = c] \in Servers
         /\ \A x \in Sizes \X Sizes \X Rates : [s EXCEPT !.mode = x] \in Servers
         /\ [s EXCEPT !.streaming = TRUE] \in Servers
         /\ [s EXCEPT !.password = "random"] \in Servers
BY DEF Servers

\* The options in use, and how many of everything there are.
LEMMA Current ==
  ASSUME RefsInv
  PROVE  /\ Len(options) \in Nat /\ Len(filters) \in Nat /\ Len(looper) \in Nat
         /\ this \in OptionsUpTo(Len(filters))
         /\ this.facing \in Facings /\ OtherFacing(this.facing) \in Facings
         /\ Mode(this) \in Sizes \X Sizes \X Rates
<1>1. Len(options) \in Nat /\ Len(filters) \in Nat /\ Len(looper) \in Nat
  BY DEF RefsInv
<1>2. this \in OptionsUpTo(Len(filters))
  BY DEF RefsInv, this
<1>3. PICK o : o = this
  OBVIOUS
<1>4. PICK m \in Nat : m = Len(filters)
  BY <1>1
<1>5. o \in OptionsUpTo(m)
  BY <1>2, <1>3, <1>4
<1>6. o.facing \in Facings /\ OtherFacing(o.facing) \in Facings
  BY <1>5 DEF OptionsUpTo, OtherFacing, Facings
<1>7. Mode(o) \in Sizes \X Sizes \X Rates
  BY <1>5 DEF OptionsUpTo, Mode
<1> QED
  BY <1>1, <1>2, <1>3, <1>6, <1>7

-----------------------------------------------------------------------------
(* References and types                                                    *)

\* An entry of the options is changed.
LEMMA OptionsChanged ==
  ASSUME RefsInv, NEW k \in 1 .. Len(options), NEW o \in OptionsUpTo(Len(filters)),
         options' = [options EXCEPT ![k] = o]
  PROVE  options' \in Seq(OptionsUpTo(Len(filters))) /\ Len(options') = Len(options)
<1>1. options \in Seq(OptionsUpTo(Len(filters)))
  BY DEF RefsInv
<1> QED
  BY <1>1, SeqChanged

\* The part of the state a received message leaves well formed.
LEMMA ReceivesState ==
  ASSUME StateInv, NEW c, Receives(c), server' \in Servers
  PROVE  StateInv'
BY BoundsAssumption DEF StateInv, Receives

\* The part of the state the rest of a handler leaves well formed.
LEMMA ContinuesState ==
  ASSUME StateInv, NEW c, Continues(c), server' \in Servers
  PROVE  StateInv'
BY DEF StateInv, Continues, peer

\* The reader changes the options, at most, and posts a task, at most.
LEMMA ReaderRefs ==
  ASSUME RefsInv, filters' = filters, current' = current, main' = main,
         options' \in Seq(OptionsUpTo(Len(filters))), Len(options') = Len(options),
         \/ looper' = looper
         \/ \E t \in Tasks(Len(options), Len(filters)) : looper' = Append(looper, t),
         reader' \in Readers(Len(options))
  PROVE  RefsInv'
<1>1. PICK T : T = Tasks(Len(options), Len(filters))
  OBVIOUS
<1>2. looper \in Seq(T)
  BY <1>1 DEF RefsInv
<1>3. looper' = looper \/ \E t \in T : looper' = Append(looper, t)
  BY <1>1
<1>4. looper' \in Seq(T)
  BY <1>2, <1>3
<1> QED
  BY <1>1, <1>4 DEF RefsInv

\* Steps of the reader that change the options.
LEMMA RefsOptions ==
  ASSUME RefsInv, StateInv, Switched \/ setResolution \/ Resized \/ setFps
  PROVE  RefsInv' /\ StateInv'
<1>1. PICK n \in Nat, m \in Nat : n = Len(options) /\ m = Len(filters)
  BY Current
<1>2. PICK o \in OptionsUpTo(m) : o = this
  BY <1>1, Current
<1>3. current \in 1 .. Len(options) /\ reader \in Readers(n) /\ server \in Servers
  BY <1>1 DEF RefsInv, StateInv
<1>4. [kind |-> "restart"] \in Tasks(n, m) /\ [at |-> "idle"] \in Readers(n)
  BY DEF Tasks, Readers
<1>5. CASE Switched
  <2>1. OtherFacing(o.facing) \in Facings
    BY <1>2, Current
  <2>2. options' = [options EXCEPT ![current] = [o EXCEPT !.facing = OtherFacing(o.facing)]]
    BY <1>2, <1>5 DEF Switched, this
  <2>3. [o EXCEPT !.facing = OtherFacing(o.facing)] \in OptionsUpTo(m)
    BY <2>1, OptionsField
  <2>4. options' \in Seq(OptionsUpTo(Len(filters))) /\ Len(options') = Len(options)
    BY <1>1, <1>3, <2>2, <2>3, OptionsChanged
  <2>5. RefsInv'
    BY <1>1, <1>4, <1>5, <2>4, ReaderRefs DEF Switched, Continues, Goes
  <2> QED
    BY <1>3, <1>5, <2>5, ContinuesState DEF Switched
<1>6. CASE setResolution
  <2>1. PICK s \in Sizes : /\ options' = [options EXCEPT ![current].width = s]
                           /\ reader' = [at |-> "resizing", height |-> s]
    BY <1>6 DEF setResolution
  <2>2. options' = [options EXCEPT ![current] = [o EXCEPT !.width = s]]
    BY <1>2, <2>1 DEF this
  <2>3. [o EXCEPT !.width = s] \in OptionsUpTo(m)
    BY OptionsField
  <2>4. options' \in Seq(OptionsUpTo(Len(filters))) /\ Len(options') = Len(options)
    BY <1>1, <1>3, <2>2, <2>3, OptionsChanged
  <2>5. reader' \in Readers(n)
    BY <2>1 DEF Readers
  <2>6. RefsInv'
    BY <1>1, <1>6, <2>4, <2>5, ReaderRefs DEF setResolution, Receives
  <2> QED
    BY <1>3, <1>6, <2>6, ReceivesState DEF setResolution
<1>7. CASE Resized
  <2>1. PICK s \in Sizes : s = reader.height
    BY <1>3, <1>7, ReaderFields DEF Resized, Continues
  <2>2. options' = [options EXCEPT ![current] = [o EXCEPT !.height = s]]
    BY <1>2, <1>7, <2>1 DEF this, Resized
  <2>3. [o EXCEPT !.height = s] \in OptionsUpTo(m)
    BY OptionsField
  <2>4. options' \in Seq(OptionsUpTo(Len(filters))) /\ Len(options') = Len(options)
    BY <1>1, <1>3, <2>2, <2>3, OptionsChanged
  <2>5. RefsInv'
    BY <1>1, <1>4, <1>7, <2>4, ReaderRefs DEF Resized, Continues, Goes, restartStream, Posts
  <2> QED
    BY <1>3, <1>7, <2>5, ContinuesState DEF Resized
<1>8. CASE setFps
  <2>1. PICK r \in Rates : options' = [options EXCEPT ![current].fps = r]
    BY <1>8 DEF setFps
  <2>2. options' = [options EXCEPT ![current] = [o EXCEPT !.fps = r]]
    BY <1>2, <2>1 DEF this
  <2>3. [o EXCEPT !.fps = r] \in OptionsUpTo(m)
    BY OptionsField
  <2>4. options' \in Seq(OptionsUpTo(Len(filters))) /\ Len(options') = Len(options)
    BY <1>1, <1>3, <2>2, <2>3, OptionsChanged
  <2>5. reader' \in Readers(n)
    BY <1>3, <1>8 DEF setFps
  <2>6. RefsInv'
    BY <1>1, <1>4, <1>8, <2>4, <2>5, ReaderRefs DEF setFps, Receives, restartStream, Posts
  <2> QED
    BY <1>3, <1>8, <2>6, ReceivesState DEF setFps
<1> QED
  BY <1>5, <1>6, <1>7, <1>8

\* Steps of the reader that leave the options as they are.
LEMMA RefsPosts ==
  ASSUME RefsInv, StateInv,
         PostStart \/ switchCamera \/ setH265Codec \/ applyEffectFilter \/ flip \/ Disconnect
  PROVE  RefsInv' /\ StateInv'
<1>1. PICK n \in Nat, m \in Nat : n = Len(options) /\ m = Len(filters)
  BY Current
<1>2. reader \in Readers(n) /\ options \in Seq(OptionsUpTo(Len(filters)))
  BY <1>1 DEF RefsInv
<1>3. PICK s \in Servers : s = server
  BY DEF StateInv
<1>4. /\ [kind |-> "restart"] \in Tasks(n, m) /\ [kind |-> "disconnected"] \in Tasks(n, m)
      /\ \A e \in Effects \cup {None} : [kind |-> "effect", name |-> e] \in Tasks(n, m)
      /\ \A x \in Axes : [kind |-> "flip", axis |-> x] \in Tasks(n, m)
      /\ \A i, j \in 1 .. n : [kind |-> "start", old |-> i, new |-> j] \in Tasks(n, m)
      /\ [at |-> "idle"] \in Readers(n) /\ [at |-> "switched"] \in Readers(n)
  BY DEF Tasks, Readers
<1>5. CASE PostStart
  <2>1. reader.old \in 1 .. n /\ reader.new \in 1 .. n
    BY <1>2, <1>5, ReaderFields DEF PostStart, Continues
  <2>2. [kind |-> "start", old |-> reader.old, new |-> reader.new] \in Tasks(n, m)
    BY <1>4, <2>1
  <2>3. RefsInv'
    BY <1>1, <1>2, <1>4, <1>5, <2>2, ReaderRefs DEF PostStart, Continues, Goes, Posts
  <2> QED
    BY <1>3, <1>5, <2>3, ContinuesState DEF PostStart
<1>6. CASE switchCamera
  <2>1. OtherFacing(s.facing) \in Facings
    BY DEF OtherFacing, Facings
  <2>2. server' = [s EXCEPT !.facing = OtherFacing(s.facing)] \/ server' = s
    BY <1>3, <1>6 DEF switchCamera
  <2>3. server' \in Servers
    BY <2>1, <2>2, ServerField
  <2>4. reader' \in Readers(n)
    BY <1>2, <1>4, <1>6 DEF switchCamera, Goes
  <2>5. RefsInv'
    BY <1>1, <1>2, <1>6, <2>4, ReaderRefs DEF switchCamera, Receives
  <2> QED
    BY <1>6, <2>3, <2>5, ReceivesState DEF switchCamera
<1>7. CASE setH265Codec
  <2>1. PICK c \in Codecs : server' = [s EXCEPT !.codec = c]
    BY <1>3, <1>7 DEF setH265Codec
  <2>2. server' \in Servers
    BY <2>1, ServerField
  <2>3. looper' = looper \/ looper' = Append(looper, [kind |-> "restart"])
    BY <1>7 DEF setH265Codec, restartStream, Posts
  <2>4. RefsInv'
    BY <1>1, <1>2, <1>4, <1>7, <2>3, ReaderRefs DEF setH265Codec, Receives
  <2> QED
    BY <1>7, <2>2, <2>4, ReceivesState DEF setH265Codec
<1>8. CASE applyEffectFilter
  <2>1. RefsInv'
    BY <1>1, <1>2, <1>4, <1>8, ReaderRefs DEF applyEffectFilter, Receives, Posts
  <2> QED
    BY <1>3, <1>8, <2>1, ReceivesState DEF applyEffectFilter
<1>9. CASE flip
  <2>1. RefsInv'
    BY <1>1, <1>2, <1>4, <1>9, ReaderRefs DEF flip, Receives, Posts
  <2> QED
    BY <1>3, <1>9, <2>1, ReceivesState DEF flip
<1>10. CASE Disconnect
  <2>1. RefsInv'
    BY <1>1, <1>2, <1>4, <1>10, ReaderRefs DEF Disconnect, Posts
  <2> QED
    BY <1>10, <2>1 DEF Disconnect, StateInv
<1> QED
  BY <1>5, <1>6, <1>7, <1>8, <1>9, <1>10

\* An activation: the filters and the options it creates.
LEMMA RefsActivation ==
  ASSUME RefsInv, StateInv, startStream
  PROVE  RefsInv' /\ StateInv'
<1>1. PICK a \in Activations :
        filters' = Created(filters, a) /\ options' = Append(options, Taken(filters, a))
  <2>1. repertoire.activations \subseteq Activations
    BY ActivationsAssumption DEF StateInv, Activations
  <2> QED
    BY <2>1 DEF startStream, Created, Taken, EffectOf, CorrectionOf
<1>2. PICK f \in Seq(Filters) : f = filters
  BY DEF RefsInv
<1>3. /\ filters' \in Seq(Filters) /\ Len(f) <= Len(filters')
      /\ Taken(f, a) \in OptionsUpTo(Len(filters'))
  BY <1>1, <1>2, Activated
<1>4. PICK m \in Nat : m = Len(filters')
  BY <1>3
<1>5. PICK n \in Nat : n = Len(options)
  BY Current
<1>6. /\ options \in Seq(OptionsUpTo(m)) /\ looper \in Seq(Tasks(n + 1, m))
      /\ main \in Steps(n + 1, m) /\ current \in 1 .. n
  <2>1. Len(options) <= n + 1 /\ n + 1 \in Nat /\ Len(filters) <= m
    BY <1>2, <1>3, <1>4, <1>5
  <2>2. /\ options \in Seq(OptionsUpTo(m)) /\ looper \in Seq(Tasks(n + 1, m))
        /\ main \in Steps(n + 1, m)
    BY <2>1, RefsGrow
  <2> QED
    BY <1>5, <2>2 DEF RefsInv
<1>7. options' \in Seq(OptionsUpTo(m)) /\ Len(options') = n + 1
  BY <1>1, <1>2, <1>3, <1>4, <1>5, <1>6
<1>8. current' = n + 1 /\ reader' = [at |-> "posting", old |-> current, new |-> n + 1]
  BY <1>7 DEF startStream
<1>9. reader' \in Readers(n + 1) /\ current' \in 1 .. n + 1
  BY <1>6, <1>8 DEF Readers
<1>10. RefsInv'
  BY <1>3, <1>4, <1>6, <1>7, <1>9 DEF RefsInv, startStream, Receives
<1>11. StateInv'
  BY ReceivesState DEF startStream, StateInv
<1> QED
  BY <1>10, <1>11

\* A filter is added, or one is changed, without options.
LEMMA RefsFilters ==
  ASSUME RefsInv, filters' \in Seq(Filters), Len(filters) <= Len(filters'),
         options' = options, current' = current, main' = main, reader' = reader,
         \/ looper' = looper
         \/ \E t \in Tasks(Len(options), Len(filters')) : looper' = Append(looper, t)
  PROVE  RefsInv'
<1>1. PICK n \in Nat, m \in Nat : n = Len(options) /\ m = Len(filters')
  BY Current
<1>2. /\ options \in Seq(OptionsUpTo(m)) /\ current \in 1 .. n
      /\ looper \in Seq(Tasks(n, m)) /\ main \in Steps(n, m) /\ reader \in Readers(n)
  BY <1>1, RefsGrow
<1>3. PICK T : T = Tasks(n, m)
  OBVIOUS
<1>4. looper' = looper \/ \E t \in T : looper' = Append(looper, t)
  BY <1>1, <1>3
<1>5. looper' \in Seq(T)
  <2>1. looper \in Seq(T)
    BY <1>2, <1>3
  <2>2. ASSUME NEW t \in T, looper' = Append(looper, t)
        PROVE  looper' \in Seq(T)
    BY <2>1, <2>2
  <2> QED
    BY <1>4, <2>1, <2>2
<1> QED
  BY <1>1, <1>2, <1>3, <1>5 DEF RefsInv

\* A correction is adjusted, or one is created and posted to be added.
LEMMA RefsCorrection ==
  ASSUME RefsInv, StateInv, applyCorrectionFilter
  PROVE  RefsInv' /\ StateInv'
<1>1. PICK p \in Corrections, v \in Values :
        IF Find(this, p) = {} THEN Create(p, v)
        ELSE /\ \E i \in Find(this, p) : filters' = [filters EXCEPT ![i].value = v]
             /\ UNCHANGED looper
  BY DEF applyCorrectionFilter
<1>2. PICK f \in Seq(Filters) : f = filters
  BY DEF RefsInv
<1>3. CASE Find(this, p) = {}
  <2>1. NewFilter(p, 0, 0) \in Filters
    BY DEF NewFilter, Filters, FilterNames
  <2>2. filters' \in Seq(Filters) /\ Len(filters') = Len(f) + 1
    BY <1>1, <1>2, <1>3, <2>1 DEF Create
  <2>3. PICK m \in Nat : m = Len(filters') /\ m \in 1 .. m
    BY <1>2, <2>2
  <2>4. [kind |-> "correction", filter |-> m, value |-> v] \in Tasks(Len(options), m)
    BY <2>3 DEF Tasks
  <2>5. RefsInv'
    BY <1>1, <1>2, <1>3, <2>2, <2>3, <2>4, RefsFilters
       DEF Create, Posts, applyCorrectionFilter, Receives
  <2> QED
    BY <2>5, ReceivesState DEF applyCorrectionFilter, StateInv
<1>4. CASE Find(this, p) # {}
  <2>1. PICK i \in Find(this, p) : filters' = [filters EXCEPT ![i].value = v]
    BY <1>1, <1>4
  <2>2. this.corrections \subseteq 1 .. Len(filters)
    BY Current DEF OptionsUpTo
  <2>3. i \in 1 .. Len(f)
    BY <1>2, <2>2 DEF Find
  <2>4. [f[i] EXCEPT !.value = v] \in Filters
    <3>1. PICK g \in Filters : g = f[i]
      BY <2>3
    <3>2. [g EXCEPT !.value = v] \in Filters
      BY DEF Filters
    <3> QED
      BY <3>1, <3>2
  <2>5. filters' = [f EXCEPT ![i] = [f[i] EXCEPT !.value = v]]
    BY <1>2, <2>1
  <2>6. filters' \in Seq(Filters) /\ Len(filters') = Len(f)
    BY <2>3, <2>4, <2>5, SeqChanged
  <2>7. RefsInv'
    BY <1>1, <1>2, <1>4, <2>6, RefsFilters DEF applyCorrectionFilter, Receives
  <2> QED
    BY <2>7, ReceivesState DEF applyCorrectionFilter, StateInv
<1> QED
  BY <1>3, <1>4

\* A task is taken from the looper.
LEMMA BeginsRefs ==
  ASSUME RefsInv, NEW i \in 1 .. Len(looper), NEW kind, Begins(i, kind)
  PROVE  /\ looper' = Without(looper, i)
         /\ looper' \in Seq(Tasks(Len(options), Len(filters)))
         /\ looper[i] \in Tasks(Len(options), Len(filters)) /\ looper[i].kind = kind
         /\ current' = current /\ reader' = reader
<1>1. PICK T : T = Tasks(Len(options), Len(filters))
  OBVIOUS
<1>2. looper \in Seq(T)
  BY <1>1 DEF RefsInv
<1>3. looper' = Without(looper, i)
  BY DEF Begins, Without
<1>4. looper' \in Seq(T)
  BY <1>2, <1>3, WithoutOne
<1>5. looper[i] \in T
  BY <1>2
<1> QED
  BY <1>1, <1>3, <1>4, <1>5 DEF Begins

\* What the main thread leaves well formed.
LEMMA MainState ==
  ASSUME StateInv, server' \in Servers, ended' \in BOOLEAN, bypassed' \in BOOLEAN,
         \/ \E i, kind : Begins(i, kind)
         \/ \E kind : GoesOn(kind)
         \/ SurfaceEvent
  PROVE  StateInv'
<1>1. UNCHANGED peer
  BY DEF Begins, GoesOn, SurfaceEvent
<1>2. surfaces' = surfaces \/ (surfaces < MaxSurfaces /\ surfaces' = surfaces + 1)
  <2>1. ASSUME NEW i, NEW kind, Begins(i, kind)
        PROVE  surfaces' = surfaces
    BY <2>1 DEF Begins
  <2>2. ASSUME NEW kind, GoesOn(kind)
        PROVE  surfaces' = surfaces
    BY <2>2 DEF GoesOn
  <2>3. SurfaceEvent => surfaces < MaxSurfaces /\ surfaces' = surfaces + 1
    BY DEF SurfaceEvent
  <2> QED
    BY <2>1, <2>2, <2>3
<1>3. surfaces' \in 0 .. MaxSurfaces
  BY <1>2, BoundsAssumption DEF StateInv
<1> QED
  BY <1>1, <1>3 DEF StateInv, peer

\* The preview is on after startPreview, and the stream as it was.
LEMMA PreviewStarted ==
  ASSUME RefsInv, NEW s \in Servers, NEW b, startPreview(s, b)
  PROVE  /\ server' \in Servers /\ server'.preview
         /\ server'.streaming = s.streaming /\ server'.mode = s.mode
         /\ server'.password = s.password
<1>1. CASE s.preview
  BY <1>1 DEF startPreview
<1>2. CASE ~s.preview
  <2>1. PICK g \in Facings : g = this.facing
    BY Current
  <2>2. server' = [s EXCEPT !.preview = TRUE, !.facing = g]
    BY <1>2, <2>1 DEF startPreview
  <2>3. server' \in Servers
    BY <2>2, ServerField
  <2> QED
    BY <2>2, <2>3 DEF Servers
<1> QED
  BY <1>1, <1>2

\* A filter is taken off the picture.
LEMMA FilterRemoved ==
  ASSUME filters \in Seq(Filters), NEW i \in 0 .. Len(filters)
  PROVE  RemoveFilter(i) \in Seq(Filters) /\ Len(RemoveFilter(i)) = Len(filters)
<1>1. CASE i # 0 /\ filters[i].applied > 0
  <2>1. i \in 1 .. Len(filters)
    BY <1>1
  <2>2. PICK g \in Filters : g = filters[i]
    BY <2>1
  <2>3. [g EXCEPT !.applied = g.applied - 1] \in Filters
    BY <1>1, <2>2 DEF Filters
  <2>4. RemoveFilter(i) = [filters EXCEPT ![i] = [g EXCEPT !.applied = g.applied - 1]]
    BY <1>1, <2>2 DEF RemoveFilter
  <2> QED
    BY <2>1, <2>3, <2>4, SeqChanged
<1>2. CASE ~(i # 0 /\ filters[i].applied > 0)
  BY <1>2 DEF RemoveFilter
<1> QED
  BY <1>1, <1>2

\* Steps of the main thread that only concern the server.
LEMMA RefsServer ==
  ASSUME RefsInv, options' = options, filters' = filters, current' = current, reader' = reader,
         looper' \in Seq(Tasks(Len(options), Len(filters))),
         main' \in Steps(Len(options), Len(filters))
  PROVE  RefsInv'
BY DEF RefsInv

\* The tasks that prepare a stream or end it.
LEMMA RefsStream ==
  ASSUME RefsInv, StateInv, NEW i \in 1 .. Len(looper),
         StartTask(i) \/ RestartTask(i) \/ DisconnectedTask(i)
  PROVE  RefsInv' /\ StateInv'
<1>1. PICK n \in Nat, m \in Nat : n = Len(options) /\ m = Len(filters)
  BY Current
<1>2. PICK s \in Servers : s = server
  BY DEF StateInv
<1>3. main \in Steps(n, m) /\ ended \in BOOLEAN /\ bypassed \in BOOLEAN
  BY <1>1 DEF RefsInv, StateInv
<1>4. Step("prepare", None, 0) \in Steps(n, m) /\ Idle \in Steps(n, m)
  BY DEF Steps, Step, Idle
<1>5. CASE StartTask(i)
  <2>1. Begins(i, "start")
    BY <1>5 DEF StartTask
  <2>2. looper[i].new \in 1 .. n
    BY <1>1, <2>1, BeginsRefs, TaskFields
  <2>3. main' \in Steps(n, m)
    BY <1>5, <2>2 DEF StartTask, Step, Steps
  <2>4. PICK t \in StopPreview(s) \cup {s} : \E b : startPreview(t, b)
    BY <1>2, <1>5 DEF StartTask
  <2>5. server' \in Servers
    BY <2>4, ServerStopped, PreviewStarted
  <2>6. RefsInv'
    BY <1>1, <1>5, <2>1, <2>3, BeginsRefs, RefsServer DEF StartTask
  <2> QED
    BY <1>3, <1>5, <2>1, <2>5, <2>6, MainState DEF StartTask
<1>6. CASE RestartTask(i)
  <2>1. Begins(i, "restart")
    BY <1>6 DEF RestartTask
  <2>2. main' \in Steps(n, m)
    BY <1>4, <1>6 DEF RestartTask
  <2>3. PICK t \in StopPreview(StopStream(s)) : startPreview(t, TRUE)
    BY <1>2, <1>6 DEF RestartTask
  <2>4. server' \in Servers
    BY <2>3, ServerStopped, PreviewStarted
  <2>5. RefsInv'
    BY <1>1, <1>6, <2>1, <2>2, BeginsRefs, RefsServer DEF RestartTask
  <2> QED
    BY <1>3, <1>6, <2>1, <2>4, <2>5, MainState DEF RestartTask
<1>7. CASE DisconnectedTask(i)
  <2>1. Begins(i, "disconnected")
    BY <1>7 DEF DisconnectedTask
  <2>2. PICK t \in StopPreview(s) : server' = [StopStream(t) EXCEPT !.password = "random"]
    BY <1>2, <1>7 DEF DisconnectedTask, stop
  <2>3. server' \in Servers
    BY <2>2, ServerStopped, ServerField
  <2>4. RefsInv'
    BY <1>1, <1>3, <1>7, <2>1, BeginsRefs, RefsServer DEF DisconnectedTask
  <2> QED
    BY <1>3, <1>7, <2>1, <2>3, <2>4, MainState DEF DisconnectedTask, stop
<1> QED
  BY <1>5, <1>6, <1>7

\* The rest of a start or restart, and the surface.
LEMMA RefsServing ==
  ASSUME RefsInv, StateInv,
         startStreamInternal \/ StartServer \/ SurfaceCreated \/ SurfaceDestroyed
  PROVE  RefsInv' /\ StateInv'
<1>1. PICK n \in Nat, m \in Nat : n = Len(options) /\ m = Len(filters)
  BY Current
<1>2. PICK s \in Servers : s = server
  BY DEF StateInv
<1>3. /\ main \in Steps(n, m) /\ looper \in Seq(Tasks(n, m))
      /\ ended \in BOOLEAN /\ bypassed \in BOOLEAN
  BY <1>1 DEF RefsInv, StateInv
<1>4. Step("ready", None, 0) \in Steps(n, m) /\ Idle \in Steps(n, m)
  BY DEF Steps, Step, Idle
<1>5. CASE startStreamInternal
  <2>1. GoesOn("prepare")
    BY <1>5 DEF startStreamInternal
  <2>2. main' \in Steps(n, m)
    BY <1>4, <1>5 DEF startStreamInternal
  <2>3. server' = s \/ server' = [s EXCEPT !.mode = Mode(this)]
    BY <1>2, <1>5 DEF startStreamInternal
  <2>4. server' \in Servers
    BY <2>3, Current, ServerField
  <2>5. bypassed' \in BOOLEAN /\ ended' \in BOOLEAN
    BY <1>3, <1>5 DEF startStreamInternal
  <2>6. RefsInv'
    BY <1>1, <1>3, <1>5, <2>1, <2>2, RefsServer DEF startStreamInternal, GoesOn
  <2> QED
    BY <2>1, <2>4, <2>5, <2>6, MainState
<1>6. CASE StartServer
  <2>1. GoesOn("ready")
    BY <1>6 DEF StartServer
  <2>2. server' \in Servers
    BY <1>2, <1>6, ServerField DEF StartServer
  <2>3. RefsInv'
    BY <1>1, <1>3, <1>4, <1>6, <2>1, RefsServer DEF StartServer, GoesOn
  <2> QED
    BY <1>3, <1>6, <2>1, <2>2, <2>3, MainState DEF StartServer
<1>7. CASE SurfaceCreated
  <2>1. SurfaceEvent /\ startPreview(s, FALSE)
    BY <1>2, <1>7 DEF SurfaceCreated
  <2>2. server' \in Servers
    BY <2>1, PreviewStarted
  <2>3. RefsInv'
    BY <1>1, <1>3, <2>1, RefsServer DEF SurfaceEvent
  <2> QED
    BY <1>3, <1>7, <2>1, <2>2, <2>3, MainState DEF SurfaceCreated, SurfaceEvent
<1>8. CASE SurfaceDestroyed
  <2>1. SurfaceEvent
    BY <1>8 DEF SurfaceDestroyed
  <2>2. PICK t \in StopPreview(s) : server' = [StopStream(t) EXCEPT !.password = "random"]
    BY <1>2, <1>8 DEF SurfaceDestroyed, stop
  <2>3. server' \in Servers
    BY <2>2, ServerStopped, ServerField
  <2>4. RefsInv'
    BY <1>1, <1>3, <2>1, RefsServer DEF SurfaceEvent
  <2> QED
    BY <1>3, <1>8, <2>1, <2>3, <2>4, MainState DEF SurfaceDestroyed, SurfaceEvent, stop
<1> QED
  BY <1>5, <1>6, <1>7, <1>8

\* A filter of the activation is applied.
LEMMA RefsApply ==
  ASSUME RefsInv, StateInv, applyOptionsToStream
  PROVE  RefsInv' /\ StateInv'
<1>1. PICK n \in Nat, m \in Nat : n = Len(options) /\ m = Len(filters)
  BY Current
<1>2. PICK f \in Seq(Filters) : f = filters
  BY DEF RefsInv
<1>3. /\ main \in Steps(n, m) /\ looper \in Seq(Tasks(n, m)) /\ options \in Seq(OptionsUpTo(m))
      /\ reader \in Readers(n) /\ current \in 1 .. n
  BY <1>1 DEF RefsInv
<1>4. GoesOn("apply")
  BY DEF applyOptionsToStream
<1>5. PICK o \in OptionsUpTo(m) : o = options[main.arg]
  <2>1. main.arg \in 1 .. n
    BY <1>3, <1>4, StepFields DEF GoesOn
  <2> QED
    BY <1>1, <1>3, <2>1
<1>6. filters' \in Seq(Filters) /\ Len(filters') = m
  <2>1. filters' = [i \in 1 .. m |-> IF i = o.effect \/ i \in o.corrections
                                     THEN [f[i] EXCEPT !.applied = @ + 1] ELSE f[i]]
    BY <1>1, <1>2, <1>5 DEF applyOptionsToStream
  <2>2. ASSUME NEW g \in Filters
        PROVE  [g EXCEPT !.applied = @ + 1] \in Filters
    <3>1. g.applied + 1 \in Nat
      BY DEF Filters
    <3> QED
      BY <3>1 DEF Filters
  <2>3. \A i \in 1 .. m : f[i] \in Filters
    BY <1>1, <1>2
  <2>4. \A i \in 1 .. m : (IF i = o.effect \/ i \in o.corrections
                           THEN [f[i] EXCEPT !.applied = @ + 1] ELSE f[i]) \in Filters
    BY <2>2, <2>3
  <2>5. filters' \in [1 .. m -> Filters]
    BY <2>1, <2>4
  <2> QED
    BY <2>5
<1>7. main' \in Steps(n, m)
  BY DEF applyOptionsToStream, Step, Steps
<1>8. RefsInv'
  BY <1>1, <1>3, <1>4, <1>6, <1>7 DEF RefsInv, applyOptionsToStream, GoesOn
<1>9. server' \in Servers
  <2>1. o.codec \in Codecs
    BY DEF OptionsUpTo
  <2>2. PICK s \in Servers : s = server
    BY DEF StateInv
  <2>3. server' = [s EXCEPT !.codec = o.codec]
    BY <1>5, <2>2 DEF applyOptionsToStream
  <2> QED
    BY <2>1, <2>3, ServerField
<1> QED
  BY <1>4, <1>8, <1>9, MainState DEF applyOptionsToStream, StateInv

\* The coroutines of the effect and of a flip, each in two steps.
LEMMA RefsEffect ==
  ASSUME RefsInv, StateInv, NEW i \in 1 .. Len(looper), EffectTask(i)
  PROVE  RefsInv' /\ StateInv'
<1>1. Begins(i, "effect")
  BY DEF EffectTask
<1>2. PICK k \in Nat, n \in Nat, m \in Nat :
        k = Len(filters) /\ n = Len(options) /\ m = Len(filters')
        /\ filters' \in Seq(Filters) /\ k <= m
        /\ main' = Step("effect", "effect", IF looper[i].name = None THEN 0 ELSE m)
  <2>1. this.effect \in 0 .. Len(filters) /\ filters \in Seq(Filters) /\ Len(filters) \in Nat
    BY Current DEF OptionsUpTo, RefsInv
  <2>2. PICK r \in Seq(Filters) : r = RemoveFilter(this.effect) /\ Len(r) = Len(filters)
    BY <2>1, FilterRemoved
  <2>3. looper[i].name \in Effects \cup {None}
    BY <1>1, BeginsRefs, TaskFields, Current
  <2>4. CASE looper[i].name = None
    BY <2>1, <2>2, <2>4, Current DEF EffectTask
  <2>5. CASE looper[i].name # None
    <3>1. NewFilter(looper[i].name, 0, 1) \in Filters
      BY <2>3, <2>5 DEF NewFilter, Filters, FilterNames
    <3>2. filters' = Append(r, NewFilter(looper[i].name, 0, 1))
      BY <2>2, <2>5 DEF EffectTask
    <3>3. filters' \in Seq(Filters) /\ Len(filters') = Len(filters) + 1
      BY <2>2, <3>1, <3>2
    <3> QED
      BY <2>1, <2>5, <3>3, Current DEF EffectTask
  <2> QED
    BY <2>4, <2>5
<1>3. /\ options \in Seq(OptionsUpTo(m)) /\ current \in 1 .. n /\ reader \in Readers(n)
  BY <1>2, RefsGrow
<1>4. looper' \in Seq(Tasks(n, m))
  <2>1. looper' \in Seq(Tasks(n, k)) /\ Tasks(n, k) \subseteq Tasks(n, m)
    BY <1>1, <1>2, BeginsRefs, Bounds
  <2> QED
    BY <2>1, SeqGrows
<1>5. main' \in Steps(n, m)
  BY <1>2 DEF Step, Steps
<1>6. RefsInv'
  BY <1>1, <1>2, <1>3, <1>4, <1>5, BeginsRefs DEF RefsInv, EffectTask
<1> QED
  BY <1>1, <1>6, MainState DEF EffectTask, StateInv

\* The effect is recorded in the options of that moment.
LEMMA RefsRecord ==
  ASSUME RefsInv, StateInv, RecordEffect
  PROVE  RefsInv' /\ StateInv'
<1>1. PICK n \in Nat, m \in Nat : n = Len(options) /\ m = Len(filters)
  BY Current
<1>2. PICK o \in OptionsUpTo(m) : o = this
  BY <1>1, Current
<1>3. GoesOn("effect") /\ current \in 1 .. Len(options) /\ main \in Steps(n, m)
  BY <1>1 DEF RecordEffect, RefsInv
<1>4. PICK e \in 0 .. m : e = main.arg
  BY <1>3, StepFields DEF GoesOn
<1>5. options' = [options EXCEPT ![current] = [o EXCEPT !.effect = e]]
  BY <1>2, <1>4 DEF RecordEffect, this
<1>6. [o EXCEPT !.effect = e] \in OptionsUpTo(m)
  BY OptionsField
<1>7. options' \in Seq(OptionsUpTo(m)) /\ Len(options') = n
  BY <1>1, <1>3, <1>5, <1>6, OptionsChanged
<1>8. main' \in Steps(n, m)
  BY DEF RecordEffect, Idle, Step, Steps
<1>9. RefsInv'
  BY <1>1, <1>3, <1>7, <1>8 DEF RefsInv, RecordEffect, GoesOn
<1> QED
  BY <1>3, <1>9, MainState DEF RecordEffect, StateInv

\* The correction that was posted is applied and recorded.
LEMMA RefsAdd ==
  ASSUME RefsInv, StateInv, NEW i \in 1 .. Len(looper), CorrectionTask(i)
  PROVE  RefsInv' /\ StateInv'
<1>1. PICK n \in Nat, m \in Nat : n = Len(options) /\ m = Len(filters)
  BY Current
<1>2. PICK o \in OptionsUpTo(m) : o = this
  BY <1>1, Current
<1>3. Begins(i, "correction") /\ current \in 1 .. Len(options)
  BY DEF CorrectionTask, RefsInv
<1>4. PICK f \in 1 .. m, v \in Values : f = looper[i].filter /\ v = looper[i].value
  BY <1>1, <1>3, BeginsRefs, TaskFields
<1>5. filters \in Seq(Filters)
  BY DEF RefsInv
<1>6. PICK g \in Filters : g = filters[f]
  BY <1>1, <1>5
<1>7. filters' = [filters EXCEPT ![f] = [g EXCEPT !.value = v, !.applied = g.applied + 1]]
  <2>1. filters' = [filters EXCEPT ![f].value = v, ![f].applied = @ + 1]
    BY <1>4 DEF CorrectionTask
  <2> QED
    BY <1>1, <1>5, <1>6, <2>1
<1>8. [g EXCEPT !.value = v, !.applied = g.applied + 1] \in Filters
  <2>1. g.applied + 1 \in Nat /\ v \in Values \cup {0}
    BY DEF Filters
  <2> QED
    BY <2>1 DEF Filters
<1>9. filters' \in Seq(Filters) /\ Len(filters') = m
  BY <1>1, <1>5, <1>7, <1>8, SeqChanged
<1>10. options' = [options EXCEPT ![current] = [o EXCEPT !.corrections = @ \cup {f}]]
  BY <1>2, <1>4 DEF CorrectionTask, this
<1>11. [o EXCEPT !.corrections = @ \cup {f}] \in OptionsUpTo(m)
  BY OptionsField
<1>12. options' \in Seq(OptionsUpTo(m)) /\ Len(options') = n
  BY <1>1, <1>3, <1>10, <1>11, OptionsChanged
<1>13. RefsInv'
  BY <1>1, <1>3, <1>9, <1>12, BeginsRefs DEF RefsInv, CorrectionTask
<1> QED
  BY <1>3, <1>13, MainState DEF CorrectionTask, StateInv

\* The flip looks the options up that it will change.
LEMMA RefsFlip ==
  ASSUME RefsInv, StateInv, NEW i \in 1 .. Len(looper), FlipTask(i)
  PROVE  RefsInv' /\ StateInv'
<1>1. PICK n \in Nat, m \in Nat : n = Len(options) /\ m = Len(filters)
  BY Current
<1>2. Begins(i, "flip") /\ current \in 1 .. n
  BY <1>1 DEF FlipTask, RefsInv
<1>3. looper[i].axis \in Axes
  BY <1>1, <1>2, BeginsRefs, TaskFields
<1>4. main' \in Steps(n, m)
  BY <1>2, <1>3 DEF FlipTask, Step, Steps
<1>5. RefsInv'
  BY <1>1, <1>2, <1>4, BeginsRefs, RefsServer DEF FlipTask
<1> QED
  BY <1>2, <1>5, MainState DEF FlipTask, StateInv

\* A flip filter is removed or applied, and recorded.
LEMMA RefsToggle ==
  ASSUME RefsInv, StateInv, toggleFilter
  PROVE  RefsInv' /\ StateInv'
<1>1. PICK n \in Nat, k \in Nat : n = Len(options) /\ k = Len(filters)
  BY Current
<1>2. GoesOn("flip") /\ main \in Steps(n, k) /\ filters \in Seq(Filters)
  BY <1>1 DEF toggleFilter, RefsInv
<1>3. PICK a \in 1 .. n, x \in Axes : a = main.arg /\ x = main.changes
  BY <1>2, StepFields DEF GoesOn
<1>4. PICK f \in 0 .. k : f = this.flips[x]
  BY <1>1, Current DEF OptionsUpTo
<1>5. PICK m \in Nat, e \in Nat :
        /\ e \in 0 .. m /\ m = Len(filters') /\ filters' \in Seq(Filters) /\ k <= m
        /\ options' = [options EXCEPT ![a].flips[x] = e]
  <2>1. CASE f # 0
    <3>1. filters' = RemoveFilter(f) /\ options' = [options EXCEPT ![a].flips[x] = 0]
      BY <1>3, <1>4, <2>1 DEF toggleFilter
    <3>2. filters' \in Seq(Filters) /\ Len(filters') = k
      BY <1>1, <1>2, <3>1, FilterRemoved
    <3>3. k <= k /\ 0 \in 0 .. k
      OBVIOUS
    <3> QED
      BY <3>1, <3>2, <3>3
  <2>2. CASE f = 0
    <3>1. /\ filters' = Append(filters, NewFilter(x, 0, 1))
          /\ options' = [options EXCEPT ![a].flips[x] = Len(filters')]
      BY <1>3, <1>4, <2>2 DEF toggleFilter
    <3>2. NewFilter(x, 0, 1) \in Filters
      BY DEF NewFilter, Filters, FilterNames
    <3>3. filters' \in Seq(Filters) /\ Len(filters') = k + 1
      BY <1>1, <1>2, <3>1, <3>2
    <3>4. k + 1 \in Nat /\ k <= k + 1 /\ k + 1 \in 0 .. k + 1
      OBVIOUS
    <3> QED
      BY <3>1, <3>3, <3>4
  <2> QED
    BY <2>1, <2>2
<1>6. /\ options \in Seq(OptionsUpTo(m)) /\ current \in 1 .. n
      /\ looper \in Seq(Tasks(n, m)) /\ reader \in Readers(n)
  BY <1>1, <1>5, RefsGrow
<1>7. options' \in Seq(OptionsUpTo(m)) /\ Len(options') = n
  <2>1. PICK o \in OptionsUpTo(m) : o = options[a]
    BY <1>1, <1>6
  <2>2. options' = [options EXCEPT ![a] = [o EXCEPT !.flips[x] = e]]
    BY <1>5, <2>1
  <2>3. [o EXCEPT !.flips[x] = e] \in OptionsUpTo(m)
    BY <1>5, OptionsField
  <2> QED
    BY <1>1, <1>6, <2>2, <2>3, SeqChanged
<1>8. main' \in Steps(n, m)
  BY DEF toggleFilter, Idle, Step, Steps
<1>9. RefsInv'
  BY <1>1, <1>2, <1>5, <1>6, <1>7, <1>8 DEF RefsInv, toggleFilter, GoesOn
<1> QED
  BY <1>2, <1>9, MainState DEF toggleFilter, StateInv

\* Whatever is done, references and types stay right.
LEMMA RefsStep ==
  ASSUME RefsInv, StateInv, [Next]_vars
  PROVE  RefsInv' /\ StateInv'
<1>1. CASE Reader
  BY <1>1, RefsOptions, RefsPosts, RefsActivation, RefsCorrection DEF Reader
<1>2. CASE Disconnect
  BY <1>2, RefsPosts
<1>3. ASSUME NEW i \in 1 .. Len(looper), Task(i)
      PROVE  RefsInv' /\ StateInv'
  BY <1>3, RefsStream, RefsEffect, RefsAdd, RefsFlip DEF Task
<1>4. CASE \/ applyOptionsToStream \/ startStreamInternal \/ StartServer \/ RecordEffect
           \/ toggleFilter \/ SurfaceCreated \/ SurfaceDestroyed
  BY <1>4, RefsApply, RefsServing, RefsRecord, RefsToggle
<1>5. CASE UNCHANGED vars
  BY <1>5 DEF vars, RefsInv, StateInv, peer
<1> QED
  BY <1>1, <1>2, <1>3, <1>4, <1>5 DEF Next, Main

-----------------------------------------------------------------------------
(* The credentials                                                         *)

\* stop replaces the password, and no step brings the old one back.
LEMMA PasswordStep ==
  ASSUME RefsInv, StateInv, PasswordInv, [Next]_vars
  PROVE  PasswordInv'
<1>1. PICK s \in Servers : s = server
  BY DEF StateInv
<1>2. ASSUME NEW t \in Servers, t.password = s.password, NEW b, startPreview(t, b)
      PROVE  server'.password = s.password
  BY <1>2, PreviewStarted
<1>3. \A t \in StopPreview(s) : t \in Servers /\ t.password = s.password
  BY ServerStopped DEF StopPreview, Servers
<1>4. \A t \in StopPreview(StopStream(s)) : t \in Servers /\ t.password = s.password
  <2>1. PICK u \in Servers : u = StopStream(s)
    BY ServerStopped
  <2>2. u.password = s.password
    BY <2>1 DEF StopStream, Servers
  <2>3. \A t \in StopPreview(u) : t \in Servers /\ t.password = u.password
    BY ServerStopped DEF StopPreview, Servers
  <2> QED
    BY <2>1, <2>2, <2>3
<1>5. stop => PasswordInv'
  <2>1. \A t \in Servers : [StopStream(t) EXCEPT !.password = "random"].password = "random"
    BY DEF StopStream, Servers
  <2> QED
    BY <1>1, <1>3, <2>1 DEF stop, PasswordInv
<1>6. (server'.password = s.password /\ ended' = ended) => PasswordInv'
  BY <1>1 DEF PasswordInv
<1>7. CASE Reader
  <2>1. server' = server \/ switchCamera \/ setH265Codec
    BY <1>7 DEF Reader, startStream, PostStart, Switched, setResolution, Resized, setFps,
                applyEffectFilter, flip, applyCorrectionFilter
  <2>2. server'.password = s.password
    BY <1>1, <2>1 DEF switchCamera, setH265Codec, Servers
  <2>3. ended' = ended
    BY <1>7 DEF Reader, startStream, PostStart, Switched, setResolution, Resized, setFps,
                applyEffectFilter, flip, applyCorrectionFilter, switchCamera, setH265Codec,
                Receives, Continues
  <2> QED
    BY <1>6, <2>2, <2>3
<1>8. CASE Disconnect
  BY <1>1, <1>6, <1>8 DEF Disconnect
<1>9. ASSUME NEW i \in 1 .. Len(looper), Task(i)
      PROVE  PasswordInv'
  <2>1. CASE StartTask(i)
    BY <1>1, <1>2, <1>3, <1>6, <2>1 DEF StartTask
  <2>2. CASE RestartTask(i)
    BY <1>1, <1>2, <1>4, <1>6, <2>2 DEF RestartTask
  <2>3. CASE DisconnectedTask(i)
    BY <1>5, <2>3 DEF DisconnectedTask
  <2>4. CASE EffectTask(i) \/ CorrectionTask(i) \/ FlipTask(i)
    BY <1>1, <1>6, <2>4 DEF EffectTask, CorrectionTask, FlipTask
  <2> QED
    BY <1>9, <2>1, <2>2, <2>3, <2>4 DEF Task
<1>10. CASE applyOptionsToStream \/ startStreamInternal \/ StartServer
  BY <1>1, <1>6, <1>10 DEF applyOptionsToStream, startStreamInternal, StartServer, Servers
<1>11. CASE RecordEffect \/ toggleFilter
  BY <1>1, <1>6, <1>11 DEF RecordEffect, toggleFilter
<1>12. CASE SurfaceCreated
  BY <1>1, <1>2, <1>6, <1>12 DEF SurfaceCreated
<1>13. CASE SurfaceDestroyed
  BY <1>5, <1>13 DEF SurfaceDestroyed
<1>14. CASE UNCHANGED vars
  BY <1>1, <1>6, <1>14 DEF vars
<1> QED
  BY <1>7, <1>8, <1>9, <1>10, <1>11, <1>12, <1>13, <1>14 DEF Next, Main

-----------------------------------------------------------------------------
(* The mode                                                                *)

\* A posted task is there, and the ones before it still are.
LEMMA PostedGrows ==
  ASSUME RefsInv, NEW t, looper' = Append(looper, t), NEW K
  PROVE  /\ Posted(K) => Posted(K)'
         /\ t.kind \in K => Posted(K)'
<1>1. PICK l \in Nat : l = Len(looper)
  BY Current
<1>2. PICK T : looper \in Seq(T)
  BY DEF RefsInv
<1>3. Len(looper') = l + 1 /\ looper'[l + 1] = t /\ \A i \in 1 .. l : looper'[i] = looper[i]
  BY <1>1, <1>2
<1>4. 1 .. l \subseteq 1 .. l + 1 /\ l + 1 \in 1 .. l + 1
  OBVIOUS
<1> QED
  BY <1>1, <1>3, <1>4 DEF Posted

\* Taking a task leaves those of other kinds.
LEMMA PostedStays ==
  ASSUME RefsInv, NEW i \in 1 .. Len(looper), NEW kind, Begins(i, kind), NEW K, kind \notin K
  PROVE  Posted(K) => Posted(K)'
<1>1. PICK l \in Nat : l = Len(looper)
  BY Current
<1>2. PICK T : looper \in Seq(T)
  BY DEF RefsInv
<1>3. looper' = Without(looper, i) /\ looper[i].kind = kind
  BY BeginsRefs
<1>4. /\ Len(looper') = l - 1
      /\ \A j \in 1 .. l - 1 : looper'[j] = looper[IF j < i THEN j ELSE j + 1]
  BY <1>1, <1>2, <1>3, WithoutOne
<1>5. SUFFICES ASSUME NEW j \in 1 .. l, looper[j].kind \in K
               PROVE  \E k \in 1 .. l - 1 : looper'[k] = looper[j]
  BY <1>1, <1>4 DEF Posted
<1>6. j # i
  BY <1>3, <1>5
<1>7. CASE j < i
  <2>1. j \in 1 .. l - 1
    BY <1>1, <1>7
  <2> QED
    BY <1>4, <1>7, <2>1
<1>8. CASE j > i
  <2>1. j - 1 \in 1 .. l - 1 /\ ~(j - 1 < i) /\ (j - 1) + 1 = j
    BY <1>1, <1>8
  <2> QED
    BY <1>4, <2>1
<1> QED
  BY <1>1, <1>6, <1>7, <1>8

\* The mode is that of the options if nothing it depends on has changed.
LEMMA ModeKept ==
  ASSUME ModeInv, bypassed' = bypassed, server'.mode = server.mode, Mode(this)' = Mode(this),
         (server'.streaming \/ main'.kind = "ready") => (server.streaming \/ main.kind = "ready"),
         Unsettled => Unsettled'
  PROVE  ModeInv'
BY DEF ModeInv

\* Changes of other fields of the options.
LEMMA ModeOfOptions ==
  ASSUME RefsInv, Switched \/ RecordEffect \/ toggleFilter \/ \E i : CorrectionTask(i)
  PROVE  Mode(this)' = Mode(this)
<1>1. PICK T : options \in Seq(T) /\ current \in 1 .. Len(options)
  BY DEF RefsInv
<1>2. current' = current
  BY DEF Switched, RecordEffect, toggleFilter, CorrectionTask, Begins, GoesOn
<1>3. PICK o : o = options[current]
  OBVIOUS
<1>4. PICK m \in Nat : o \in OptionsUpTo(m)
  BY <1>3, Current DEF this
<1>5. CASE Switched
  <2>1. options'[current] = [o EXCEPT !.facing = OtherFacing(@)]
    BY <1>1, <1>3, <1>5 DEF Switched
  <2> QED
    BY <1>2, <1>3, <1>4, <2>1 DEF this, Mode, OptionsUpTo
<1>6. CASE RecordEffect
  <2>1. options'[current] = [o EXCEPT !.effect = main.arg]
    BY <1>1, <1>3, <1>6 DEF RecordEffect
  <2> QED
    BY <1>2, <1>3, <1>4, <2>1 DEF this, Mode, OptionsUpTo
<1>7. CASE toggleFilter
  <2>1. PICK a, x, e : options' = [options EXCEPT ![a].flips[x] = e]
    BY <1>7 DEF toggleFilter
  <2>2. CASE a = current
    <3>1. options'[current] = [o EXCEPT !.flips[x] = e]
      BY <1>1, <1>3, <2>1, <2>2
    <3> QED
      BY <1>2, <1>3, <1>4, <3>1 DEF this, Mode, OptionsUpTo
  <2>3. CASE a # current
    <3>1. options'[current] = o
      BY <1>1, <1>3, <2>1, <2>3
    <3> QED
      BY <1>2, <1>3, <3>1 DEF this
  <2> QED
    BY <2>2, <2>3
<1>8. CASE \E i : CorrectionTask(i)
  <2>1. PICK i : CorrectionTask(i)
    BY <1>8
  <2>2. PICK c : c = o.corrections \cup {looper[i].filter}
    OBVIOUS
  <2>3. options' = [options EXCEPT ![current] = [o EXCEPT !.corrections = c]]
    BY <1>3, <2>1, <2>2 DEF CorrectionTask
  <2>4. options'[current] = [o EXCEPT !.corrections = c]
    BY <1>1, <2>3
  <2> QED
    BY <1>2, <1>3, <1>4, <2>4 DEF this, Mode, OptionsUpTo
<1> QED
  BY <1>5, <1>6, <1>7, <1>8

\* Every change of the size or the rate leaves something that will prepare
\* the stream again.
LEMMA ModeOfReader ==
  ASSUME RefsInv, StateInv, ModeInv, Reader \/ Disconnect
  PROVE  ModeInv'
<1>1. PICK K : K = {"start", "restart"}
  OBVIOUS
<1>2. /\ server \in Servers /\ main' = main /\ bypassed' = bypassed
  BY DEF StateInv, Reader, Disconnect, startStream, PostStart, Switched, setResolution, Resized,
         setFps, applyEffectFilter, flip, applyCorrectionFilter, switchCamera, setH265Codec,
         Receives, Continues
<1>3. CASE startStream \/ setResolution
  <2>1. ASSUME startStream PROVE reader'.at = "posting"
    BY <2>1 DEF startStream
  <2>2. ASSUME setResolution PROVE reader'.at = "resizing"
    <3>1. PICK s : reader' = [at |-> "resizing", height |-> s]
      BY <2>2 DEF setResolution
    <3> QED
      BY <3>1
  <2> QED
    BY <1>3, <2>1, <2>2 DEF ModeInv, Unsettled
<1>4. CASE PostStart \/ Resized \/ setFps
  <2>1. PICK t : looper' = Append(looper, t) /\ t.kind \in K
    BY <1>1, <1>4 DEF PostStart, Resized, setFps, restartStream, Posts
  <2>2. Posted(K)'
    BY <2>1, PostedGrows
  <2> QED
    BY <1>1, <2>2 DEF ModeInv, Unsettled
<1>5. CASE \/ switchCamera \/ Switched \/ setH265Codec \/ applyEffectFilter \/ flip
           \/ applyCorrectionFilter \/ Disconnect
  <2>1. looper' = looper \/ \E t : looper' = Append(looper, t)
    BY <1>5 DEF switchCamera, Switched, setH265Codec, applyEffectFilter, flip,
                applyCorrectionFilter, Create, Disconnect, restartStream, Posts
  <2>2. Posted(K) => Posted(K)'
    BY <2>1, PostedGrows DEF Posted
  <2>3. reader.at \in {"posting", "resizing"} => reader'.at \in {"posting", "resizing"}
    BY <1>5 DEF switchCamera, Switched, setH265Codec, applyEffectFilter, flip,
                applyCorrectionFilter, Disconnect, Receives, Continues
  <2>4. Unsettled => Unsettled'
    BY <1>1, <1>2, <2>2, <2>3 DEF Unsettled
  <2>5. server'.mode = server.mode /\ server'.streaming = server.streaming
    BY <1>2, <1>5 DEF Servers, switchCamera, Switched, setH265Codec, applyEffectFilter, flip,
                applyCorrectionFilter, Disconnect
  <2>6. Mode(this)' = Mode(this)
    <3>1. CASE Switched
      BY <3>1, ModeOfOptions
    <3>2. CASE ~Switched
      BY <1>5, <3>2 DEF this, switchCamera, setH265Codec, applyEffectFilter, flip,
                        applyCorrectionFilter, Disconnect
    <3> QED
      BY <3>1, <3>2
  <2> QED
    BY <1>2, <2>4, <2>5, <2>6, ModeKept
<1> QED
  BY <1>3, <1>4, <1>5 DEF Reader

\* The main thread runs what is posted, and prepares a stream for the options
\* of that moment.
LEMMA ModeOfMain ==
  ASSUME RefsInv, StateInv, ModeInv, Main
  PROVE  ModeInv'
<1>1. PICK K : K = {"start", "restart"}
  OBVIOUS
<1>2. PICK s \in Servers : s = server
  BY DEF StateInv
<1>3. \A t \in StopPreview(s) : /\ t \in Servers /\ t.mode = s.mode
                                /\ t.streaming = s.streaming /\ ~StopStream(t).streaming
  <2>1. \A t \in StopPreview(s) : t \in Servers /\ t.mode = s.mode /\ t.streaming = s.streaming
    BY ServerStopped DEF StopPreview, Servers
  <2>2. \A t \in Servers : ~StopStream(t).streaming
    BY DEF StopStream, Servers
  <2> QED
    BY <2>1, <2>2
<1>4. ASSUME NEW i \in 1 .. Len(looper), Task(i)
      PROVE  ModeInv'
  <2>1. CASE StartTask(i)
    <3>1. main'.kind = "apply"
      BY <2>1 DEF StartTask, Step
    <3> QED
      BY <3>1 DEF ModeInv, Unsettled
  <2>2. CASE RestartTask(i)
    <3>1. main' = Idle \/ main'.kind = "prepare"
      BY <2>2 DEF RestartTask, Step
    <3>2. PICK t \in StopPreview(StopStream(s)) : startPreview(t, TRUE)
      BY <1>2, <2>2 DEF RestartTask
    <3>3. t \in Servers /\ ~t.streaming
      <4>1. PICK u \in Servers : u = StopStream(s)
        BY ServerStopped
      <4>2. ~u.streaming
        BY <4>1 DEF StopStream, Servers
      <4>3. StopPreview(u) \subseteq Servers
        BY ServerStopped
      <4>4. \A v \in StopPreview(u) : v.streaming = u.streaming
        BY DEF StopPreview, Servers
      <4> QED
        BY <3>2, <4>1, <4>2, <4>3, <4>4
    <3>4. ~server'.streaming
      BY <3>2, <3>3, PreviewStarted
    <3>5. main'.kind = "prepare" => Unsettled'
      BY DEF Unsettled
    <3> QED
      BY <3>1, <3>4, <3>5 DEF ModeInv, Idle, Step
  <2>3. CASE DisconnectedTask(i)
    <3>1. ~server'.streaming
      BY <1>2, <1>3, <2>3 DEF DisconnectedTask, stop, StopStream, StopPreview, Servers
    <3>2. main'.kind = "idle"
      BY <2>3 DEF DisconnectedTask, Begins, Idle, Step
    <3> QED
      BY <3>1, <3>2 DEF ModeInv
  <2>4. CASE EffectTask(i) \/ CorrectionTask(i) \/ FlipTask(i)
    <3>1. PICK kind \in {"effect", "correction", "flip"} : Begins(i, kind)
      BY <2>4 DEF EffectTask, CorrectionTask, FlipTask
    <3>2. Posted(K) => Posted(K)'
      <4>1. kind \notin K
        BY <1>1, <3>1
      <4> QED
        BY <3>1, <4>1, PostedStays
    <3>3. main.kind = "idle" /\ reader' = reader
      BY <3>1 DEF Begins, Idle, Step
    <3>4. Unsettled => Unsettled'
      BY <1>1, <3>2, <3>3 DEF Unsettled
    <3>5. main'.kind # "ready"
      <4>1. CorrectionTask(i) => main' = main
        BY DEF CorrectionTask
      <4>2. EffectTask(i) => main'.kind = "effect"
        BY DEF EffectTask, Step
      <4>3. FlipTask(i) => main'.kind = "flip"
        BY DEF FlipTask, Step
      <4> QED
        BY <2>4, <3>3, <4>1, <4>2, <4>3
    <3>6. server' = server /\ bypassed' = bypassed
      BY <2>4 DEF EffectTask, CorrectionTask, FlipTask
    <3>7. Mode(this)' = Mode(this)
      <4>1. CorrectionTask(i) => Mode(this)' = Mode(this)
        BY ModeOfOptions
      <4>2. CASE EffectTask(i) \/ FlipTask(i)
        BY <4>2 DEF EffectTask, FlipTask, Begins, this
      <4> QED
        BY <2>4, <4>1, <4>2
    <3> QED
      BY <3>4, <3>5, <3>6, <3>7, ModeKept
  <2> QED
    BY <1>4, <2>1, <2>2, <2>3, <2>4 DEF Task
<1>5. CASE applyOptionsToStream
  <2>1. main'.kind = "prepare"
    BY <1>5 DEF applyOptionsToStream, Step
  <2> QED
    BY <2>1 DEF ModeInv, Unsettled
<1>6. CASE startStreamInternal
  <2>1. CASE server.streaming
    <3>1. bypassed'
      BY <1>6, <2>1 DEF startStreamInternal
    <3> QED
      BY <3>1 DEF ModeInv
  <2>2. CASE ~server.streaming /\ main' = Idle
    <3>1. server' = server
      BY <1>6, <2>2 DEF startStreamInternal, Idle, Step
    <3> QED
      BY <2>2, <3>1 DEF ModeInv, Idle, Step
  <2>3. CASE server' = [server EXCEPT !.mode = Mode(this)]
    <3>1. Mode(this)' = Mode(this)
      BY <1>6 DEF startStreamInternal, GoesOn, this
    <3>2. server'.mode = Mode(this)
      BY <1>2, <2>3 DEF Servers
    <3> QED
      BY <3>1, <3>2 DEF ModeInv
  <2> QED
    BY <1>6, <2>1, <2>2, <2>3 DEF startStreamInternal
<1>7. CASE StartServer
  <2>1. /\ main.kind = "ready" /\ looper' = looper /\ reader' = reader
        /\ bypassed' = bypassed /\ Mode(this)' = Mode(this)
    BY <1>7 DEF StartServer, GoesOn, this
  <2>2. server'.mode = server.mode
    BY <1>2, <1>7 DEF StartServer, Servers
  <2>3. Unsettled => Unsettled'
    BY <2>1 DEF Unsettled, Posted
  <2> QED
    BY <2>1, <2>2, <2>3, ModeKept
<1>8. CASE RecordEffect \/ toggleFilter
  <2>1. /\ main.kind \in {"effect", "flip"} /\ looper' = looper /\ reader' = reader
        /\ bypassed' = bypassed /\ server' = server /\ main'.kind = "idle"
    BY <1>8 DEF RecordEffect, toggleFilter, GoesOn, Idle, Step
  <2>2. Mode(this)' = Mode(this)
    BY <1>8, ModeOfOptions
  <2>3. Unsettled => Unsettled'
    BY <2>1 DEF Unsettled, Posted
  <2> QED
    BY <2>1, <2>2, <2>3, ModeKept
<1>9. CASE SurfaceCreated
  <2>1. /\ main' = main /\ looper' = looper /\ reader' = reader
        /\ bypassed' = bypassed /\ Mode(this)' = Mode(this)
    BY <1>9 DEF SurfaceCreated, SurfaceEvent, this
  <2>2. server'.mode = server.mode /\ server'.streaming = server.streaming
    BY <1>2, <1>9, PreviewStarted DEF SurfaceCreated
  <2>3. Unsettled => Unsettled'
    BY <2>1 DEF Unsettled, Posted
  <2> QED
    BY <2>1, <2>2, <2>3, ModeKept
<1>10. CASE SurfaceDestroyed
  <2>1. ~server'.streaming
    BY <1>2, <1>3, <1>10 DEF SurfaceDestroyed, stop, StopStream, StopPreview, Servers
  <2>2. main'.kind = "idle"
    BY <1>10 DEF SurfaceDestroyed, SurfaceEvent, Idle, Step
  <2> QED
    BY <2>1, <2>2 DEF ModeInv
<1> QED
  BY <1>4, <1>5, <1>6, <1>7, <1>8, <1>9, <1>10 DEF Main

\* No step forgets a mode that has to be prepared.
LEMMA ModeStep ==
  ASSUME RefsInv, StateInv, ModeInv, [Next]_vars
  PROVE  ModeInv'
<1>1. CASE UNCHANGED vars
  BY <1>1 DEF vars, ModeInv, Unsettled, Posted, this
<1> QED
  BY <1>1, ModeOfReader, ModeOfMain DEF Next

-----------------------------------------------------------------------------
(* The camera                                                              *)

\* Where the tasks are after one has been taken.
LEMMA TaskTaken ==
  ASSUME RefsInv, NEW i \in 1 .. Len(looper), NEW kind, Begins(i, kind),
         NEW l \in Nat, l = Len(looper)
  PROVE  /\ Len(looper') = l - 1
         /\ \A j \in 1 .. l : j < i => j \in 1 .. l - 1 /\ looper'[j] = looper[j]
         /\ \A j \in 1 .. l : i < j => j - 1 \in 1 .. l - 1 /\ looper'[j - 1] = looper[j]
         /\ \A j \in 1 .. l - 1 : j < i => j \in 1 .. l /\ looper'[j] = looper[j]
         /\ \A j \in 1 .. l - 1 : i <= j => j + 1 \in 1 .. l /\ looper'[j] = looper[j + 1]
<1>1. PICK T : looper \in Seq(T)
  BY DEF RefsInv
<1>2. looper' = Without(looper, i)
  BY BeginsRefs
<1>3. /\ Len(looper') = l - 1
      /\ \A j \in 1 .. l - 1 : looper'[j] = looper[IF j < i THEN j ELSE j + 1]
  BY <1>1, <1>2, WithoutOne
<1>4. i \in 1 .. l
  OBVIOUS
<1>5. \A j \in 1 .. l : j < i => j \in 1 .. l - 1 /\ looper'[j] = looper[j]
  BY <1>3, <1>4
<1>6. \A j \in 1 .. l : i < j => j - 1 \in 1 .. l - 1 /\ looper'[j - 1] = looper[j]
  <2>1. SUFFICES ASSUME NEW j \in 1 .. l, i < j
                 PROVE  j - 1 \in 1 .. l - 1 /\ looper'[j - 1] = looper[j]
    OBVIOUS
  <2>2. j - 1 \in 1 .. l - 1 /\ ~(j - 1 < i) /\ (j - 1) + 1 = j
    BY <1>4, <2>1
  <2> QED
    BY <1>3, <2>2
<1>7. \A j \in 1 .. l - 1 : j < i => j \in 1 .. l /\ looper'[j] = looper[j]
  BY <1>3, <1>4
<1>8. \A j \in 1 .. l - 1 : i <= j => j + 1 \in 1 .. l /\ looper'[j] = looper[j + 1]
  BY <1>3, <1>4
<1> QED
  BY <1>3, <1>5, <1>6, <1>7, <1>8

\* A start is not a coroutine: it is only run when it is the oldest task.
LEMMA StartsInOrder ==
  ASSUME NEW i \in 1 .. Len(looper), NEW kind, Begins(i, kind)
  PROVE  i = 1 \/ kind # "start"
BY DEF Begins, Runnable, Coroutines

\* A task is posted.
LEMMA StartsPosted ==
  ASSUME RefsInv, NEW t, looper' = Append(looper, t)
  PROVE  /\ \A k : Replaced(k) => Replaced(k)'
         /\ t.kind = "start" => Replaced(t.old)'
         /\ t.kind # "start" => (Posted({"start"})' => Posted({"start"}))
<1>1. PICK l \in Nat : l = Len(looper)
  BY Current
<1>2. PICK T : looper \in Seq(T)
  BY DEF RefsInv
<1>3. Len(looper') = l + 1 /\ looper'[l + 1] = t /\ \A i \in 1 .. l : looper'[i] = looper[i]
  BY <1>1, <1>2
<1>4. \A i \in 1 .. l + 1 : i \in 1 .. l \/ i = l + 1
  OBVIOUS
<1>5. 1 .. l \subseteq 1 .. l + 1 /\ l + 1 \in 1 .. l + 1
  OBVIOUS
<1>6. \A k : Replaced(k) => Replaced(k)'
  BY <1>1, <1>3, <1>5 DEF Replaced
<1>7. t.kind = "start" => Replaced(t.old)'
  BY <1>3, <1>5 DEF Replaced
<1>8. t.kind # "start" => (Posted({"start"})' => Posted({"start"}))
  BY <1>1, <1>3, <1>4 DEF Posted
<1> QED
  BY <1>6, <1>7, <1>8

\* A task of another kind is taken.
LEMMA StartsStay ==
  ASSUME RefsInv, NEW i \in 1 .. Len(looper), NEW kind, Begins(i, kind), kind # "start"
  PROVE  /\ \A k : Replaced(k) => Replaced(k)'
         /\ Posted({"start"})' => Posted({"start"})
<1>1. PICK l \in Nat : l = Len(looper)
  BY Current
<1>2. looper[i].kind # "start" /\ i \in 1 .. l
  BY <1>1, BeginsRefs
<1>3. ASSUME NEW k, NEW j \in 1 .. l, looper[j].kind = "start", k = looper[j].old
      PROVE  Replaced(k)'
  <2>1. j < i \/ i < j
    BY <1>2, <1>3
  <2>2. \E h \in 1 .. l - 1 : looper'[h] = looper[j]
    BY <1>1, <2>1, TaskTaken
  <2>3. Len(looper') = l - 1
    BY <1>1, TaskTaken
  <2> QED
    BY <1>3, <2>2, <2>3 DEF Replaced
<1>4. ASSUME NEW j \in 1 .. l - 1, looper'[j].kind = "start"
      PROVE  \E h \in 1 .. l : looper[h].kind = "start"
  <2>1. j < i \/ i <= j
    BY <1>2
  <2>2. \E h \in 1 .. l : looper'[j] = looper[h]
    BY <1>1, <2>1, TaskTaken
  <2> QED
    BY <1>4, <2>2
<1>5. Len(looper') = l - 1
  BY <1>1, TaskTaken
<1> QED
  BY <1>1, <1>3, <1>4, <1>5 DEF Replaced, Posted

\* A start stays linked to the one that replaces its options.
LEMMA LinkTaken ==
  ASSUME RefsInv, LinkInv, NEW i \in 1 .. Len(looper), NEW kind, Begins(i, kind)
  PROVE  LinkInv'
<1>1. PICK l \in Nat : l = Len(looper)
  BY Current
<1>2. i \in 1 .. l /\ (i = 1 \/ looper[i].kind # "start") /\ reader' = reader /\ current' = current
  BY <1>1, BeginsRefs, StartsInOrder
<1>3. Len(looper') = l - 1
  BY <1>1, TaskTaken
<1>4. ASSUME NEW j \in 1 .. l - 1, looper'[j].kind = "start"
      PROVE  \/ looper'[j].new = current
             \/ reader.at = "posting" /\ reader.old = looper'[j].new
             \/ \E h \in j + 1 .. l - 1 :
                  looper'[h].kind = "start" /\ looper'[h].old = looper'[j].new
  <2>1. PICK p \in 1 .. l : looper[p] = looper'[j] /\ p = IF j < i THEN j ELSE j + 1
    <3>1. CASE j < i
      BY <1>1, <3>1, TaskTaken
    <3>2. CASE ~(j < i)
      <4>1. i <= j
        BY <1>2, <3>2
      <4>2. j + 1 \in 1 .. l /\ looper'[j] = looper[j + 1]
        BY <1>1, <4>1, TaskTaken
      <4> QED
        BY <3>2, <4>2
    <3> QED
      BY <3>1, <3>2
  <2>2. \/ looper[p].new = current
        \/ reader.at = "posting" /\ reader.old = looper[p].new
        \/ \E q \in p + 1 .. l : looper[q].kind = "start" /\ looper[q].old = looper[p].new
    BY <1>1, <1>4, <2>1 DEF LinkInv
  <2>3. ASSUME NEW q \in p + 1 .. l, looper[q].kind = "start", looper[q].old = looper[p].new
        PROVE  \E h \in j + 1 .. l - 1 : looper'[h] = looper[q]
    <3>1. q \in 1 .. l /\ q # i
      <4>1. q \in 1 .. l /\ q > 1
        BY <2>3
      <4> QED
        BY <1>2, <2>3, <4>1
    <3>2. CASE q < i
      <4>1. q \in 1 .. l - 1 /\ looper'[q] = looper[q]
        BY <1>1, <3>1, <3>2, TaskTaken
      <4>2. q \in j + 1 .. l - 1
        BY <1>2, <2>1, <2>3, <3>2, <4>1
      <4> QED
        BY <4>1, <4>2
    <3>3. CASE i < q
      <4>1. q - 1 \in 1 .. l - 1 /\ looper'[q - 1] = looper[q]
        BY <1>1, <3>1, <3>3, TaskTaken
      <4>2. q - 1 \in j + 1 .. l - 1
        BY <1>2, <2>1, <2>3, <3>3, <4>1
      <4> QED
        BY <4>1, <4>2
    <3> QED
      BY <1>2, <3>1, <3>2, <3>3
  <2>4. ASSUME NEW q \in p + 1 .. l, looper[q].kind = "start", looper[q].old = looper[p].new
        PROVE  \E h \in j + 1 .. l - 1 :
                 looper'[h].kind = "start" /\ looper'[h].old = looper'[j].new
    BY <2>1, <2>3, <2>4
  <2> QED
    BY <2>1, <2>2, <2>4
<1>5. reader.at = "posting" => reader.new = current
  BY DEF LinkInv
<1> QED
  BY <1>2, <1>3, <1>4, <1>5 DEF LinkInv

\* An activation makes its options current, so that the start before it is
\* linked to the one it will post.
LEMMA LinkActivation ==
  ASSUME RefsInv, LinkInv, startStream \/ PostStart
  PROVE  LinkInv'
<1>1. PICK l \in Nat : l = Len(looper)
  BY Current
<1>2. PICK T : looper \in Seq(T)
  BY DEF RefsInv
<1>3. CASE startStream
  <2>1. /\ reader.at = "idle" /\ looper' = looper
        /\ reader'.at = "posting" /\ reader'.old = current /\ reader'.new = current'
    BY <1>3 DEF startStream, Receives
  <2> QED
    BY <2>1 DEF LinkInv
<1>4. CASE PostStart
  <2>1. PICK t : /\ looper' = Append(looper, t)
                 /\ t.kind = "start" /\ t.old = reader.old /\ t.new = reader.new
    BY <1>4 DEF PostStart, Posts
  <2>2. Len(looper') = l + 1 /\ looper'[l + 1] = t /\ \A i \in 1 .. l : looper'[i] = looper[i]
    BY <1>1, <1>2, <2>1
  <2>3. reader.at = "posting" /\ reader'.at = "idle" /\ current' = current
    BY <1>4 DEF PostStart, Continues, Goes
  <2>4. t.new = current
    BY <2>1, <2>3 DEF LinkInv
  <2>5. ASSUME NEW i \in 1 .. l, looper[i].kind = "start"
        PROVE  \/ looper[i].new = current
               \/ \E j \in i + 1 .. l + 1 :
                    looper'[j].kind = "start" /\ looper'[j].old = looper[i].new
    <3>1. \/ looper[i].new = current
          \/ reader.old = looper[i].new
          \/ \E j \in i + 1 .. l : looper[j].kind = "start" /\ looper[j].old = looper[i].new
      BY <1>1, <2>3, <2>5 DEF LinkInv
    <3>2. l + 1 \in i + 1 .. l + 1 /\ i + 1 .. l \subseteq i + 1 .. l + 1
          /\ i + 1 .. l \subseteq 1 .. l
      OBVIOUS
    <3>3. CASE reader.old = looper[i].new
      BY <2>1, <2>2, <3>2, <3>3
    <3>4. CASE \E j \in i + 1 .. l : looper[j].kind = "start" /\ looper[j].old = looper[i].new
      BY <2>2, <3>2, <3>4
    <3> QED
      BY <3>1, <3>3, <3>4
  <2>6. \A i \in 1 .. l + 1 : i \in 1 .. l \/ i = l + 1
    OBVIOUS
  <2> QED
    BY <2>2, <2>3, <2>4, <2>5, <2>6 DEF LinkInv
<1> QED
  BY <1>3, <1>4

\* Other tasks are not links.
LEMMA LinkPosted ==
  ASSUME RefsInv, LinkInv, current' = current,
         reader' = reader \/ (reader.at # "posting" /\ reader'.at # "posting"),
         looper' = looper \/ \E t : looper' = Append(looper, t) /\ t.kind # "start"
  PROVE  LinkInv'
<1>1. PICK l \in Nat : l = Len(looper)
  BY Current
<1>2. PICK T : looper \in Seq(T)
  BY DEF RefsInv
<1>3. CASE looper' = looper
  BY <1>3 DEF LinkInv
<1>4. ASSUME NEW t, looper' = Append(looper, t), t.kind # "start"
      PROVE  LinkInv'
  <2>1. Len(looper') = l + 1 /\ looper'[l + 1] = t /\ \A i \in 1 .. l : looper'[i] = looper[i]
    BY <1>1, <1>2, <1>4
  <2>2. \A i \in 1 .. l + 1 : i \in 1 .. l \/ i = l + 1
    OBVIOUS
  <2>3. ASSUME NEW i \in 1 .. l, looper[i].kind = "start"
        PROVE  \/ looper[i].new = current
               \/ reader'.at = "posting" /\ reader'.old = looper[i].new
               \/ \E j \in i + 1 .. l + 1 :
                    looper'[j].kind = "start" /\ looper'[j].old = looper[i].new
    <3>1. \/ looper[i].new = current
          \/ reader.at = "posting" /\ reader.old = looper[i].new
          \/ \E j \in i + 1 .. l : looper[j].kind = "start" /\ looper[j].old = looper[i].new
      BY <1>1, <2>3 DEF LinkInv
    <3>2. i + 1 .. l \subseteq i + 1 .. l + 1 /\ i + 1 .. l \subseteq 1 .. l
      OBVIOUS
    <3>3. CASE \E j \in i + 1 .. l : looper[j].kind = "start" /\ looper[j].old = looper[i].new
      BY <2>1, <3>2, <3>3
    <3> QED
      BY <3>1, <3>3
  <2>4. reader'.at = "posting" => reader'.new = current
    BY DEF LinkInv
  <2> QED
    BY <1>4, <2>1, <2>2, <2>3, <2>4 DEF LinkInv
<1> QED
  BY <1>3, <1>4

\* Steps that do not concern activations.
Otherwise ==
  /\ current' = current
  /\ reader' = reader \/ (reader.at # "posting" /\ reader'.at # "posting")
  /\ looper' = looper \/ \E t : looper' = Append(looper, t) /\ t.kind # "start"

\* The messages other than an activation post no start.
LEMMA ReaderOtherwise ==
  ASSUME \/ switchCamera \/ Switched \/ setResolution \/ Resized \/ setFps \/ setH265Codec
         \/ applyEffectFilter \/ flip \/ applyCorrectionFilter \/ Disconnect
  PROVE  Otherwise
<1>1. current' = current
  BY DEF switchCamera, Switched, setResolution, Resized, setFps, setH265Codec,
         applyEffectFilter, flip, applyCorrectionFilter, Disconnect
<1>2. reader' = reader \/ (reader.at # "posting" /\ reader'.at # "posting")
  <2>1. CASE switchCamera \/ Switched \/ Resized
    BY <2>1 DEF switchCamera, Switched, Resized, Receives, Continues, Goes
  <2>2. CASE setResolution
    <3>1. reader.at = "idle" /\ \E s : reader' = [at |-> "resizing", height |-> s]
      BY <2>2 DEF setResolution, Receives
    <3> QED
      BY <3>1
  <2>3. CASE setFps \/ setH265Codec \/ applyEffectFilter \/ flip \/ applyCorrectionFilter
             \/ Disconnect
    BY <2>3 DEF setFps, setH265Codec, applyEffectFilter, flip, applyCorrectionFilter, Disconnect
  <2> QED
    BY <2>1, <2>2, <2>3
<1>3. looper' = looper \/ \E t : looper' = Append(looper, t) /\ t.kind # "start"
  <2>1. CASE switchCamera \/ Switched \/ setResolution
    BY <2>1 DEF switchCamera, Switched, setResolution
  <2>2. CASE Resized \/ setFps \/ setH265Codec
    BY <2>2 DEF Resized, setFps, setH265Codec, restartStream, Posts
  <2>3. CASE applyEffectFilter
    BY <2>3 DEF applyEffectFilter, Posts
  <2>4. CASE flip
    BY <2>4 DEF flip, Posts
  <2>5. CASE applyCorrectionFilter
    BY <2>5 DEF applyCorrectionFilter, Create, Posts
  <2>6. CASE Disconnect
    BY <2>6 DEF Disconnect, Posts
  <2> QED
    BY <2>1, <2>2, <2>3, <2>4, <2>5, <2>6
<1> QED
  BY <1>1, <1>2, <1>3 DEF Otherwise

\* The main thread takes no task while it runs one.
LEMMA MainOtherwise ==
  ASSUME \/ applyOptionsToStream \/ startStreamInternal \/ StartServer \/ RecordEffect
         \/ toggleFilter \/ SurfaceCreated \/ SurfaceDestroyed
  PROVE  current' = current /\ reader' = reader /\ looper' = looper
BY DEF applyOptionsToStream, startStreamInternal, StartServer, RecordEffect, toggleFilter,
       SurfaceCreated, SurfaceDestroyed, GoesOn, SurfaceEvent

\* Every task begins by being taken.
LEMMA TaskBegins ==
  ASSUME NEW i, Task(i)
  PROVE  \E kind : Begins(i, kind)
BY DEF Task, StartTask, RestartTask, EffectTask, CorrectionTask, FlipTask, DisconnectedTask

\* No step breaks the chain of activations.
LEMMA LinkStep ==
  ASSUME RefsInv, LinkInv, [Next]_vars
  PROVE  LinkInv'
<1>1. CASE Reader \/ Disconnect
  <2>1. CASE startStream \/ PostStart
    BY <2>1, LinkActivation
  <2>2. CASE ~(startStream \/ PostStart)
    <3>1. Otherwise
      BY <1>1, <2>2, ReaderOtherwise DEF Reader
    <3> QED
      BY <3>1, LinkPosted DEF Otherwise
  <2> QED
    BY <2>1, <2>2
<1>2. ASSUME NEW i \in 1 .. Len(looper), Task(i)
      PROVE  LinkInv'
  BY <1>2, TaskBegins, LinkTaken
<1>3. CASE \/ applyOptionsToStream \/ startStreamInternal \/ StartServer \/ RecordEffect
           \/ toggleFilter \/ SurfaceCreated \/ SurfaceDestroyed
  BY <1>3, MainOtherwise, LinkPosted
<1>4. CASE UNCHANGED vars
  BY <1>4, LinkPosted DEF vars
<1> QED
  BY <1>1, <1>2, <1>3, <1>4 DEF Next, Main

\* The camera stays one of those awaited.
LEMMA FacingKept ==
  ASSUME RefsInv, FacingInv,
         server'.preview => server.preview, server'.facing = server.facing,
         "camera" \in crossed => "camera" \in crossed',
         current' = current,
         \A k \in 1 .. Len(options) : /\ k \in 1 .. Len(options')
                                      /\ options'[k].facing = options[k].facing,
         \/ reader' = reader
         \/ (reader.at \notin {"posting", "switched"} /\ reader'.at \notin {"posting", "switched"}),
         \A k : Replaced(k) => Replaced(k)',
         Posted({"start"})' => Posted({"start"})
  PROVE  FacingInv'
<1>1. SUFFICES ASSUME server'.preview /\ "camera" \notin crossed'
               PROVE  IF reader'.at = "switched"
                      THEN server'.facing = OtherFacing(this'.facing) /\ ~Starting'
                      ELSE \E k \in 1 .. Len(options') :
                             Awaited(k)' /\ server'.facing = options'[k].facing
  BY DEF FacingInv
<1>2. CASE reader.at = "switched"
  <2>1. server.facing = OtherFacing(this.facing) /\ ~Starting
    BY <1>1, <1>2 DEF FacingInv
  <2>2. reader' = reader
    BY <1>2
  <2>3. ~Starting'
    BY <1>2, <2>1, <2>2 DEF Starting, Posted
  <2>4. this'.facing = this.facing
    BY DEF this, RefsInv
  <2> QED
    BY <1>2, <2>1, <2>2, <2>3, <2>4
<1>3. CASE reader.at # "switched"
  <2>1. PICK k \in 1 .. Len(options) : Awaited(k) /\ server.facing = options[k].facing
    BY <1>1, <1>3 DEF FacingInv
  <2>2. Awaited(k)'
    BY <2>1 DEF Awaited
  <2>3. k \in 1 .. Len(options') /\ options'[k].facing = options[k].facing
    BY <2>1
  <2> QED
    BY <1>3, <2>1, <2>2, <2>3
<1> QED
  BY <1>2, <1>3

\* Nothing else is done to the camera of the options.
LEMMA FacingsKept ==
  ASSUME RefsInv, \/ setResolution \/ Resized \/ setFps \/ RecordEffect \/ toggleFilter
                  \/ \E i : CorrectionTask(i)
  PROVE  \A k \in 1 .. Len(options) : /\ k \in 1 .. Len(options')
                                      /\ options'[k].facing = options[k].facing
<1>1. PICK n \in Nat, m \in Nat : n = Len(options) /\ options \in Seq(OptionsUpTo(m))
  BY Current DEF RefsInv
<1>2. SUFFICES ASSUME NEW c, NEW o, options' = [options EXCEPT ![c] = o],
                      c \in 1 .. n => o.facing = options[c].facing
               PROVE  \A k \in 1 .. n : k \in 1 .. Len(options')
                                        /\ options'[k].facing = options[k].facing
  <2>1. \A c \in 1 .. n : options[c] \in OptionsUpTo(m)
    BY <1>1
  <2>2. current \in 1 .. n
    BY <1>1 DEF RefsInv
  <2>3. CASE setResolution
    <3>1. PICK s : options' = [options EXCEPT ![current] = [options[current] EXCEPT !.width = s]]
      BY <2>3 DEF setResolution
    <3>2. [options[current] EXCEPT !.width = s].facing = options[current].facing
      BY <2>1, <2>2 DEF OptionsUpTo
    <3> QED
      BY <1>1, <1>2, <3>1, <3>2
  <2>4. CASE Resized
    <3>1. PICK s : options' = [options EXCEPT ![current] = [options[current] EXCEPT !.height = s]]
      BY <2>4 DEF Resized
    <3>2. [options[current] EXCEPT !.height = s].facing = options[current].facing
      BY <2>1, <2>2 DEF OptionsUpTo
    <3> QED
      BY <1>1, <1>2, <3>1, <3>2
  <2>5. CASE setFps
    <3>1. PICK r : options' = [options EXCEPT ![current] = [options[current] EXCEPT !.fps = r]]
      BY <2>5 DEF setFps
    <3>2. [options[current] EXCEPT !.fps = r].facing = options[current].facing
      BY <2>1, <2>2 DEF OptionsUpTo
    <3> QED
      BY <1>1, <1>2, <3>1, <3>2
  <2>6. CASE RecordEffect
    <3>1. PICK e : options' = [options EXCEPT ![current] = [options[current] EXCEPT !.effect = e]]
      BY <2>6 DEF RecordEffect
    <3>2. [options[current] EXCEPT !.effect = e].facing = options[current].facing
      BY <2>1, <2>2 DEF OptionsUpTo
    <3> QED
      BY <1>1, <1>2, <3>1, <3>2
  <2>7. CASE toggleFilter
    <3>1. PICK a, x, e :
            options' = [options EXCEPT ![a] = [options[a] EXCEPT !.flips[x] = e]]
      BY <2>7 DEF toggleFilter
    <3>2. a \in 1 .. n => [options[a] EXCEPT !.flips[x] = e].facing = options[a].facing
      BY <2>1 DEF OptionsUpTo
    <3> QED
      BY <1>1, <1>2, <3>1, <3>2
  <2>8. CASE \E i : CorrectionTask(i)
    <3>1. PICK i : CorrectionTask(i)
      BY <2>8
    <3>2. PICK f : options' = [options EXCEPT ![current] =
                                 [options[current] EXCEPT !.corrections = f]]
      BY <3>1 DEF CorrectionTask
    <3>3. [options[current] EXCEPT !.corrections = f].facing = options[current].facing
      BY <2>1, <2>2 DEF OptionsUpTo
    <3> QED
      BY <1>1, <1>2, <3>2, <3>3
  <2> QED
    BY <2>3, <2>4, <2>5, <2>6, <2>7, <2>8
<1>3. Len(options') = n
  BY <1>1, <1>2
<1>4. \A k \in 1 .. n : options'[k] = options[k] \/ (k = c /\ options'[k] = o)
  BY <1>1, <1>2
<1> QED
  BY <1>1, <1>2, <1>3, <1>4

\* The reader only changes the camera by switching it.
LEMMA FacingOfReader ==
  ASSUME RefsInv, StateInv, FacingInv, Reader \/ Disconnect
  PROVE  FacingInv'
<1>1. PICK s \in Servers : s = server
  BY DEF StateInv
<1>2. PICK n \in Nat, l \in Nat : n = Len(options) /\ l = Len(looper)
  BY Current
<1>3. current \in 1 .. n
  BY <1>2 DEF RefsInv
<1>4. CASE startStream
  <2>1. /\ reader.at = "idle" /\ server' = server /\ looper' = looper
        /\ reader'.at = "posting" /\ reader'.old = current
        /\ "camera" \in crossed => "camera" \in crossed'
    BY <1>4 DEF startStream, Receives
  <2>2. \A k \in 1 .. n : k \in 1 .. Len(options') /\ options'[k] = options[k]
    <3>1. PICK a : options' = Append(options, a)
      BY <1>4 DEF startStream
    <3>2. PICK T : options \in Seq(T)
      BY DEF RefsInv
    <3>3. Len(options') = n + 1 /\ \A k \in 1 .. n : options'[k] = options[k]
      BY <1>2, <3>1, <3>2
    <3> QED
      BY <3>3
  <2>3. SUFFICES ASSUME server.preview, "camera" \notin crossed
                 PROVE  \E k \in 1 .. n : Awaited(k)' /\ server.facing = options'[k].facing
    BY <1>2, <2>1, <2>2 DEF FacingInv
  <2>4. PICK k \in 1 .. n : Awaited(k) /\ server.facing = options[k].facing
    BY <1>2, <2>1, <2>3 DEF FacingInv
  <2>5. Awaited(k)'
    BY <2>1, <2>4 DEF Awaited, Replaced
  <2> QED
    BY <2>2, <2>4, <2>5
<1>5. CASE PostStart
  <2>1. PICK t : looper' = Append(looper, t) /\ t.kind = "start" /\ t.old = reader.old
    BY <1>5 DEF PostStart, Posts
  <2>2. /\ reader.at = "posting" /\ reader'.at = "idle" /\ current' = current
        /\ server' = server /\ options' = options /\ crossed' = crossed
    BY <1>5 DEF PostStart, Continues, Goes
  <2>3. \A k : Awaited(k) => Awaited(k)'
    BY <2>1, <2>2, StartsPosted DEF Awaited
  <2> QED
    BY <2>2, <2>3 DEF FacingInv
<1>6. CASE switchCamera
  <2>1. /\ reader.at = "idle" /\ looper' = looper /\ options' = options /\ current' = current
    BY <1>6 DEF switchCamera, Receives
  <2>2. CASE server' = server /\ crossed' = crossed /\ reader' = reader
    BY <2>1, <2>2, FacingKept DEF Replaced, Posted
  <2>3. CASE /\ server' = [server EXCEPT !.facing = OtherFacing(@)]
             /\ crossed' = IF Starting THEN crossed \cup {"camera"} ELSE crossed
             /\ Goes("switched")
    <3>1. CASE Starting
      BY <2>3, <3>1 DEF FacingInv
    <3>2. CASE ~Starting
      <4>1. server'.preview = server.preview /\ server'.facing = OtherFacing(server.facing)
        BY <1>1, <2>3 DEF Servers
      <4>2. SUFFICES ASSUME server.preview, "camera" \notin crossed
                     PROVE  server'.facing = OtherFacing(this.facing) /\ ~Starting'
        BY <2>1, <2>3, <3>2, <4>1 DEF FacingInv, Goes, this
      <4>3. \A k : Awaited(k) => k = current
        BY <2>1, <3>2 DEF Awaited, Replaced, Starting
      <4>4. server.facing = this.facing
        BY <2>1, <4>2, <4>3 DEF FacingInv, this
      <4>5. ~Starting'
        BY <2>1, <2>3, <3>2 DEF Starting, Goes
      <4> QED
        BY <4>1, <4>4, <4>5
    <3> QED
      BY <3>1, <3>2
  <2> QED
    BY <1>6, <2>2, <2>3 DEF switchCamera
<1>7. CASE Switched
  <2>1. /\ reader.at = "switched" /\ reader'.at = "idle" /\ current' = current
        /\ server' = server /\ crossed' = crossed
    BY <1>7 DEF Switched, Continues, Goes
  <2>2. /\ Len(options') = n /\ options'[current].facing = OtherFacing(this.facing)
    <3>1. PICK m \in Nat : options \in Seq(OptionsUpTo(m))
      BY Current DEF RefsInv
    <3>2. PICK o \in OptionsUpTo(m) : o = options[current]
      BY <1>2, <1>3, <3>1
    <3>3. options' = [options EXCEPT ![current] = [o EXCEPT !.facing = OtherFacing(o.facing)]]
      BY <1>7, <3>2 DEF Switched
    <3>4. [o EXCEPT !.facing = OtherFacing(o.facing)].facing = OtherFacing(o.facing)
      BY DEF OptionsUpTo
    <3> QED
      BY <1>2, <1>3, <3>1, <3>2, <3>3, <3>4 DEF this
  <2>3. Awaited(current)'
    BY <2>1 DEF Awaited
  <2> QED
    BY <1>3, <2>1, <2>2, <2>3 DEF FacingInv
<1>8. CASE setResolution \/ Resized \/ setFps
  <2>1. \A k \in 1 .. Len(options) : k \in 1 .. Len(options') /\ options'[k].facing = options[k].facing
    BY <1>8, FacingsKept
  <2>2. server' = server /\ crossed' = crossed
    BY <1>8 DEF setResolution, Resized, setFps
  <2>3. Otherwise
    BY <1>8, ReaderOtherwise
  <2>4. \A k : Replaced(k) => Replaced(k)'
    BY <2>3, StartsPosted DEF Otherwise, Replaced
  <2>5. Posted({"start"})' => Posted({"start"})
    BY <2>3, StartsPosted DEF Otherwise, Posted
  <2>6. reader.at \notin {"posting", "switched"} /\ reader'.at \notin {"posting", "switched"}
    <3>1. CASE setResolution
      <4>1. reader.at = "idle" /\ \E h : reader' = [at |-> "resizing", height |-> h]
        BY <3>1 DEF setResolution, Receives
      <4> QED
        BY <4>1
    <3>2. CASE Resized
      BY <3>2 DEF Resized, Continues, Goes
    <3>3. CASE setFps
      BY <3>3 DEF setFps, Receives
    <3> QED
      BY <1>8, <3>1, <3>2, <3>3
  <2> QED
    BY <2>1, <2>2, <2>3, <2>4, <2>5, <2>6, FacingKept DEF Otherwise
<1>9. CASE setH265Codec \/ applyEffectFilter \/ flip \/ applyCorrectionFilter \/ Disconnect
  <2>1. options' = options /\ crossed' = crossed /\ reader' = reader
    BY <1>9 DEF setH265Codec, applyEffectFilter, flip, applyCorrectionFilter, Disconnect
  <2>2. server'.preview = server.preview /\ server'.facing = server.facing
    BY <1>1, <1>9 DEF setH265Codec, applyEffectFilter, flip, applyCorrectionFilter, Disconnect,
                      Servers
  <2>3. Otherwise
    BY <1>9, ReaderOtherwise
  <2>4. \A k : Replaced(k) => Replaced(k)'
    BY <2>3, StartsPosted DEF Otherwise, Replaced
  <2>5. Posted({"start"})' => Posted({"start"})
    BY <2>3, StartsPosted DEF Otherwise, Posted
  <2> QED
    BY <2>1, <2>2, <2>3, <2>4, <2>5, FacingKept DEF Otherwise
<1> QED
  BY <1>4, <1>5, <1>6, <1>7, <1>8, <1>9 DEF Reader

\* A preview that starts uses the camera of the options.
LEMMA FacingStarted ==
  ASSUME RefsInv, NEW s \in Servers, NEW b, startPreview(s, b), ~s.preview,
         options' = options, current' = current, reader' = reader
  PROVE  FacingInv'
<1>1. PICK g \in Facings : g = this.facing
  BY Current
<1>2. /\ server' = [s EXCEPT !.preview = TRUE, !.facing = g]
      /\ crossed' = IF reader.at = "switched" THEN crossed \cup {"camera"}
                                              ELSE crossed \ {"camera"}
  BY <1>1 DEF startPreview
<1>3. CASE reader.at = "switched"
  BY <1>2, <1>3 DEF FacingInv
<1>4. CASE reader.at # "switched"
  <2>1. server'.facing = options[current].facing
    BY <1>1, <1>2 DEF Servers, this
  <2>2. Awaited(current)'
    BY DEF Awaited
  <2>3. current \in 1 .. Len(options)
    BY DEF RefsInv
  <2> QED
    BY <1>4, <2>1, <2>2, <2>3 DEF FacingInv
<1> QED
  BY <1>3, <1>4

\* A start that finds the camera it needs leaves it on.
LEMMA FacingOfStart ==
  ASSUME RefsInv, StateInv, LinkInv, FacingInv, NEW i \in 1 .. Len(looper), StartTask(i)
  PROVE  FacingInv'
<1>1. PICK n \in Nat, l \in Nat : n = Len(options) /\ l = Len(looper)
  BY Current
<1>2. Begins(i, "start") /\ options' = options
  BY DEF StartTask
<1>3. i = 1 /\ looper[1].kind = "start" /\ reader' = reader /\ current' = current
  BY <1>2, BeginsRefs, StartsInOrder
<1>4. looper[1].old \in 1 .. n /\ looper[1].new \in 1 .. n
  <2>1. looper[1] \in Tasks(Len(options), Len(filters))
    BY <1>2, <1>3, BeginsRefs
  <2> QED
    BY <1>1, <1>3, <2>1, TaskFields, Current
<1> DEFINE old == options[looper[1].old]
           new == options[looper[1].new]
           d == \/ old.width # new.width \/ old.height # new.height
                \/ old.facing # new.facing
<1>5. PICK s \in Servers : startPreview(s, d) /\ (~d => s = server)
  <2>1. server \in Servers
    BY DEF StateInv
  <2>2. StopPreview(server) \subseteq Servers
    BY <2>1, ServerStopped
  <2>3. \E s \in IF d /\ server.preview THEN StopPreview(server) ELSE {server} : startPreview(s, d)
    BY <1>3 DEF StartTask
  <2> QED
    BY <2>1, <2>2, <2>3
<1>6. CASE ~s.preview
  BY <1>2, <1>3, <1>5, <1>6, FacingStarted
<1>7. CASE s.preview /\ d
  <2>1. "camera" \in crossed'
    BY <1>5, <1>7 DEF startPreview
  <2> QED
    BY <2>1 DEF FacingInv
<1>8. CASE s.preview /\ ~d
  <2>1. server' = server /\ crossed' = crossed /\ server.preview
    BY <1>5, <1>8 DEF startPreview
  <2>2. options[looper[1].old].facing = options[looper[1].new].facing
    BY <1>8
  <2> HIDE DEF d
  <2>3. Starting
    BY <1>1, <1>3 DEF Starting
  <2>4. SUFFICES ASSUME "camera" \notin crossed
                 PROVE  /\ reader.at # "switched"
                        /\ \E k \in 1 .. n : Awaited(k)' /\ server.facing = options[k].facing
    BY <1>1, <1>2, <1>3, <2>1 DEF FacingInv
  <2>5. reader.at # "switched"
    BY <2>1, <2>3, <2>4 DEF FacingInv
  <2>6. PICK k \in 1 .. n : Awaited(k) /\ server.facing = options[k].facing
    BY <1>1, <2>1, <2>4, <2>5 DEF FacingInv
  <2>7. ASSUME NEW q, NEW j \in 2 .. l, looper[j].kind = "start", q = looper[j].old
        PROVE  Replaced(q)'
    <3>1. j \in 1 .. l /\ i < j
      BY <1>3
    <3>2. j - 1 \in 1 .. l - 1 /\ looper'[j - 1] = looper[j] /\ Len(looper') = l - 1
      BY <1>1, <1>2, <3>1, TaskTaken
    <3> QED
      BY <2>7, <3>2 DEF Replaced
  <2>8. CASE k # looper[1].old
    <3>1. ASSUME NEW j \in 1 .. l, looper[j].kind = "start", k = looper[j].old
          PROVE  Replaced(k)'
      <4>1. j \in 2 .. l
        BY <2>8, <3>1
      <4> QED
        BY <2>7, <3>1, <4>1
    <3>2. Replaced(k) => Replaced(k)'
      BY <1>1, <3>1 DEF Replaced
    <3>3. Awaited(k)'
      BY <1>3, <2>6, <3>2 DEF Awaited
    <3> QED
      BY <2>5, <2>6, <3>3
  <2>9. CASE k = looper[1].old
    <3>1. PICK p \in 1 .. n : p = looper[1].new
      BY <1>4
    <3>2. server.facing = options[p].facing
      BY <2>2, <2>6, <2>9, <3>1
    <3>3. \/ p = current
          \/ reader.at = "posting" /\ reader.old = p
          \/ \E j \in 1 + 1 .. l : looper[j].kind = "start" /\ looper[j].old = p
      BY <1>1, <1>3, <3>1 DEF LinkInv
    <3>4. Awaited(p)'
      <4>1. ASSUME NEW j \in 1 + 1 .. l, looper[j].kind = "start", looper[j].old = p
            PROVE  Replaced(p)'
        <5>1. j \in 2 .. l
          OBVIOUS
        <5> QED
          BY <2>7, <4>1, <5>1
      <4> QED
        BY <1>3, <3>3, <4>1 DEF Awaited
    <3> QED
      BY <2>5, <3>2, <3>4
  <2> QED
    BY <2>8, <2>9
<1> QED
  BY <1>6, <1>7, <1>8

\* The main thread turns the camera to that of the options, or leaves it.
LEMMA FacingOfMain ==
  ASSUME RefsInv, StateInv, LinkInv, FacingInv, Main
  PROVE  FacingInv'
<1>1. PICK s \in Servers : s = server
  BY DEF StateInv
<1>2. ASSUME options' = options, current' = current, reader' = reader,
             \A k : Replaced(k) => Replaced(k)', Posted({"start"})' => Posted({"start"}),
             server'.preview => server.preview, server'.facing = server.facing,
             "camera" \in crossed => "camera" \in crossed'
      PROVE  FacingInv'
  BY <1>2, FacingKept
<1>3. \A t \in StopPreview(s) :
        /\ t.preview => s.preview
        /\ \A u \in {[StopStream(t) EXCEPT !.password = "random"]} :
             (u.preview => s.preview) /\ u.facing = s.facing
  <2>1. \A t \in StopPreview(s) : t \in Servers /\ (t.preview => s.preview) /\ t.facing = s.facing
    BY ServerStopped DEF StopPreview, Servers
  <2>2. \A t \in Servers : /\ [StopStream(t) EXCEPT !.password = "random"].preview = t.preview
                           /\ [StopStream(t) EXCEPT !.password = "random"].facing = t.facing
    BY DEF StopStream, Servers
  <2> QED
    BY <2>1, <2>2
<1>4. stop => (server'.preview => server.preview) /\ server'.facing = server.facing
  BY <1>1, <1>3 DEF stop
<1>5. ASSUME NEW i \in 1 .. Len(looper), Task(i)
      PROVE  FacingInv'
  <2>1. CASE StartTask(i)
    BY <2>1, FacingOfStart
  <2>2. CASE RestartTask(i)
    <3>1. Begins(i, "restart") /\ options' = options
      BY <2>2 DEF RestartTask
    <3>2. PICK t \in StopPreview(StopStream(s)) : startPreview(t, TRUE)
      BY <1>1, <2>2 DEF RestartTask
    <3>3. t \in Servers
      BY <3>2, ServerStopped
    <3>4. CASE t.preview
      <4>1. "camera" \in crossed'
        BY <3>2, <3>4 DEF startPreview
      <4> QED
        BY <4>1 DEF FacingInv
    <3>5. CASE ~t.preview
      BY <3>1, <3>2, <3>3, <3>5, BeginsRefs, FacingStarted
    <3> QED
      BY <3>4, <3>5
  <2>3. CASE EffectTask(i) \/ CorrectionTask(i) \/ FlipTask(i) \/ DisconnectedTask(i)
    <3>1. PICK kind : Begins(i, kind) /\ kind # "start"
      BY <2>3 DEF EffectTask, CorrectionTask, FlipTask, DisconnectedTask
    <3>2. /\ \A k : Replaced(k) => Replaced(k)'
          /\ Posted({"start"})' => Posted({"start"})
          /\ current' = current /\ reader' = reader
      BY <3>1, StartsStay, BeginsRefs
    <3>3. (server'.preview => server.preview) /\ server'.facing = server.facing
      BY <1>4, <2>3 DEF EffectTask, CorrectionTask, FlipTask, DisconnectedTask
    <3>4. "camera" \in crossed => "camera" \in crossed'
      BY <2>3 DEF EffectTask, CorrectionTask, FlipTask, DisconnectedTask, Crosses
    <3>5. CASE CorrectionTask(i)
      <4>1. \A k \in 1 .. Len(options) : k \in 1 .. Len(options')
                                         /\ options'[k].facing = options[k].facing
        BY <3>5, FacingsKept
      <4> QED
        BY <3>2, <3>3, <3>4, <4>1, FacingKept
    <3>6. CASE EffectTask(i) \/ FlipTask(i) \/ DisconnectedTask(i)
      <4>1. options' = options
        BY <3>6 DEF EffectTask, FlipTask, DisconnectedTask
      <4> QED
        BY <1>2, <3>2, <3>3, <3>4, <4>1
    <3> QED
      BY <2>3, <3>5, <3>6
  <2> QED
    BY <1>5, <2>1, <2>2, <2>3 DEF Task
<1>6. CASE \/ applyOptionsToStream \/ startStreamInternal \/ StartServer \/ RecordEffect
           \/ toggleFilter \/ SurfaceCreated \/ SurfaceDestroyed
  <2>1. /\ current' = current /\ reader' = reader /\ looper' = looper
        /\ \A k : Replaced(k) => Replaced(k)'
        /\ Posted({"start"})' => Posted({"start"})
    BY <1>6, MainOtherwise DEF Replaced, Posted
  <2>2. CASE applyOptionsToStream \/ startStreamInternal \/ StartServer
    <3>1. options' = options /\ crossed' = crossed
      BY <2>2 DEF applyOptionsToStream, startStreamInternal, StartServer
    <3>2. server'.preview = server.preview /\ server'.facing = server.facing
      BY <1>1, <2>2 DEF applyOptionsToStream, startStreamInternal, StartServer, Servers
    <3> QED
      BY <1>2, <2>1, <3>1, <3>2
  <2>3. CASE RecordEffect \/ toggleFilter
    <3>1. \A k \in 1 .. Len(options) : k \in 1 .. Len(options')
                                       /\ options'[k].facing = options[k].facing
      BY <2>3, FacingsKept
    <3>2. server' = server /\ crossed' = crossed
      BY <2>3 DEF RecordEffect, toggleFilter
    <3> QED
      BY <2>1, <3>1, <3>2, FacingKept
  <2>4. CASE SurfaceCreated
    <3>1. startPreview(s, FALSE) /\ options' = options
      BY <1>1, <2>4 DEF SurfaceCreated, SurfaceEvent
    <3>2. CASE s.preview
      <4>1. server' = server /\ crossed' = crossed
        BY <1>1, <3>1, <3>2 DEF startPreview
      <4> QED
        BY <1>2, <2>1, <3>1, <4>1
    <3>3. CASE ~s.preview
      BY <2>1, <3>1, <3>3, FacingStarted
    <3> QED
      BY <3>2, <3>3
  <2>5. CASE SurfaceDestroyed
    <3>1. options' = options /\ crossed' = crossed /\ stop
      BY <2>5 DEF SurfaceDestroyed, SurfaceEvent
    <3> QED
      BY <1>2, <1>4, <2>1, <3>1
  <2> QED
    BY <1>6, <2>2, <2>3, <2>4, <2>5
<1> QED
  BY <1>5, <1>6 DEF Main

\* No step turns the camera away from what is expected of it.
LEMMA FacingStep ==
  ASSUME RefsInv, StateInv, LinkInv, FacingInv, [Next]_vars
  PROVE  FacingInv'
<1>1. CASE UNCHANGED vars
  BY <1>1, FacingKept DEF vars, Replaced, Posted
<1> QED
  BY <1>1, FacingOfReader, FacingOfMain DEF Next

-----------------------------------------------------------------------------
(* The theorems                                                            *)

\* The default options, with the stream off.
LEMMA Starts == Init => IInv
<1> SUFFICES ASSUME Init
             PROVE  IInv
  OBVIOUS
<1>1. options = <<DefaultOptions>> /\ current = 1 /\ filters = <<>> /\ looper = <<>>
  BY DEF Init
<1>2. RefsInv
  <2>1. DefaultOptions \in OptionsUpTo(0)
    BY Defaults
  <2>2. options \in Seq(OptionsUpTo(0)) /\ Len(options) = 1 /\ Len(filters) = 0
    BY <1>1, <2>1
  <2>3. filters \in Seq(Filters) /\ looper \in Seq(Tasks(1, 0))
    BY <1>1
  <2>4. main \in Steps(1, 0) /\ reader \in Readers(1)
    BY DEF Init, Idle, Step, Steps, Readers
  <2> QED
    BY <1>1, <2>2, <2>3, <2>4 DEF RefsInv
<1>3. StateInv
  <2>1. server \in Servers
    BY Defaults DEF Init, Servers, Facings, Codecs
  <2>2. repertoire.messages \in Nat /\ MaxSurfaces \in Nat
    BY BoundsAssumption DEF Init
  <2>3. 0 \in 0 .. repertoire.messages /\ 0 \in 0 .. MaxSurfaces
    BY <2>2
  <2> QED
    BY <2>1, <2>3 DEF Init, StateInv
<1>4. PasswordInv /\ ModeInv /\ LinkInv /\ FacingInv
  BY <1>1 DEF Init, PasswordInv, ModeInv, LinkInv, FacingInv, Idle, Step
<1> QED
  BY <1>2, <1>3, <1>4 DEF IInv

\* Every step preserves the inductive invariant.
LEMMA Steady == IInv /\ [Next]_vars => IInv'
  BY RefsStep, PasswordStep, ModeStep, LinkStep, FacingStep DEF IInv

\* The inductive invariant: what is posted refers to options and filters that
\* exist, the password is replaced at the end, a change of the mode leaves a
\* restart, and the camera is one that activations still to come expect.
THEOREM Invariance == Spec => []IInv
  BY Starts, Steady, PTL DEF Spec

\* Options, filters, the server and the counters keep their types.
LEMMA Typed == IInv => TypeOK
<1> SUFFICES ASSUME IInv
             PROVE  TypeOK
  OBVIOUS
<1>1. RefsInv /\ StateInv
  BY DEF IInv
<1>2. \A k \in 1 .. Len(options) :
        /\ options[k].width \in Sizes /\ options[k].height \in Sizes
        /\ options[k].fps \in Rates /\ options[k].facing \in Facings
        /\ options[k].effect \in 0 .. Len(filters)
        /\ options[k].corrections \subseteq 1 .. Len(filters)
        /\ options[k].flips \in [Axes -> 0 .. Len(filters)]
  <2>1. \A k \in 1 .. Len(options) : options[k] \in OptionsUpTo(Len(filters))
    BY <1>1 DEF RefsInv
  <2> QED
    BY <2>1 DEF OptionsUpTo
<1>3. \A i \in 1 .. Len(filters) : /\ filters[i].name \in Effects \cup Corrections \cup Axes
                                   /\ filters[i].applied \in Nat
  <2>1. \A i \in 1 .. Len(filters) : filters[i] \in Filters
    BY <1>1 DEF RefsInv
  <2> QED
    BY <2>1 DEF Filters, FilterNames
<1>4. /\ server.facing \in Facings /\ server.codec \in Codecs
      /\ server.preview \in BOOLEAN /\ server.streaming \in BOOLEAN
  BY <1>1 DEF StateInv, Servers
<1>5. /\ messages \in 0 .. repertoire.messages /\ surfaces \in 0 .. MaxSurfaces
      /\ current \in 1 .. Len(options)
  BY <1>1 DEF StateInv, RefsInv
<1> QED
  BY <1>2, <1>3, <1>4, <1>5 DEF TypeOK

\* The types hold, whatever order messages, tasks and callbacks come in.
THEOREM StreamerTypeOK == Spec => []TypeOK
  BY Invariance, Typed, PTL

\* A start that runs after the end cannot bring back the session's stream.
THEOREM StaleUrlsFail == Spec => []StaleUrlFails
<1>1. IInv => StaleUrlFails
  BY DEF IInv, PasswordInv, StaleUrlFails
<1> QED
  BY <1>1, Invariance, PTL

\* When nothing is left to do, a stream that runs has the size and the rate of
\* the options.
THEOREM ModeFollows == Spec => []ModeFollowsOptions
<1>1. IInv => ModeFollowsOptions
  <2>1. Quiet => ~Unsettled
    BY DEF Quiet, Unsettled, Posted, Idle, Step
  <2> QED
    BY <2>1 DEF IInv, ModeInv, ModeFollowsOptions
<1> QED
  BY <1>1, Invariance, PTL

\* When nothing is left to do, the camera in use is the one of the options.
THEOREM FacingFollows == Spec => []FacingFollowsOptions
<1>1. IInv => FacingFollowsOptions
  <2>1. Quiet => \A k : Awaited(k) => k = current
    BY DEF Quiet, Awaited, Replaced
  <2>2. Quiet => reader.at # "switched"
    BY DEF Quiet
  <2> QED
    BY <2>1, <2>2 DEF IInv, FacingInv, FacingFollowsOptions, this
<1> QED
  BY <1>1, Invariance, PTL
=============================================================================
