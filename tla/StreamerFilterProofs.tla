------------------------- MODULE StreamerFilterProofs -------------------------
(***************************************************************************)
(* The filters of Streamer, for any peer, any number of messages, filters  *)
(* and surfaces: what is applied to the picture is recorded, and each      *)
(* correction has the one filter that was asked for.                       *)
(***************************************************************************)
EXTENDS StreamerProofs, FiniteSetTheorems

\* The posted tasks of that kind.
Of(kind) == {looper[i] : i \in {j \in 1 .. Len(looper) : looper[j].kind = kind}}

\* Options are started once, and a filter is added once.
SameSubject(s, t) ==
  \/ s.kind = "start" /\ t.kind = "start" /\ s.new = t.new
  \/ s.kind = "correction" /\ t.kind = "correction" /\ s.filter = t.filter
OnceInv == \A i, j \in 1 .. Len(looper) : SameSubject(looper[i], looper[j]) => i = j

\* Options k are on their way from the reader to the encoder, at one place.
Posting(k) == reader.at = "posting" /\ reader.new = k
Started(k) == \E t \in Of("start") : t.new = k
Applying(k) == main.kind = "apply" /\ main.arg = k
Due(k) == Posting(k) \/ Started(k) \/ Applying(k)
DueInv ==
  \A k \in 1 .. Len(options) : /\ ~(Posting(k) /\ Started(k))
                               /\ ~(Posting(k) /\ Applying(k))
                               /\ ~(Started(k) /\ Applying(k))

\* A filter is recorded, or about to be, in the place for its category.
NamesInv ==
  /\ \A k \in 1 .. Len(options) :
       /\ options[k].effect # 0 => filters[options[k].effect].name \in Effects
       /\ \A i \in options[k].corrections : filters[i].name \in Corrections
       /\ \A x \in Axes : options[k].flips[x] # 0 => filters[options[k].flips[x]].name = x
  /\ \A t \in Of("correction") : filters[t.filter].name \in Corrections
  /\ main.kind = "effect" /\ main.arg # 0 => filters[main.arg].name \in Effects

\* A change that has not crossed with an activation is made to the options
\* in use, which are not waiting to be started.
CrossInv ==
  main.kind \in {"effect", "flip"} /\ main.changes \notin crossed =>
    ~Starting /\ (main.kind = "flip" => main.arg = current)

\* Options k record filter i.
Holds(k, i) ==
  \/ filters[i].name \in Effects /\ options[k].effect = i
  \/ filters[i].name \in Corrections /\ i \in options[k].corrections
  \/ filters[i].name \in Axes /\ options[k].flips[filters[i].name] = i

\* The effect that has been removed, the one that has replaced it, and a
\* correction that is about to be added.
Exchanged(k, i) == main.kind = "effect" /\ k = current /\ options[k].effect = i
Added(i) == main.kind = "effect" /\ main.arg = i
Adds(i) == \E t \in Of("correction") : t.filter = i

\* Filter i is applied once if it is recorded in options that are not
\* waiting to be started, or about to be recorded, and otherwise not at all.
FilterInv(i) ==
  /\ \A k, l \in 1 .. Len(options) : Holds(k, i) /\ Holds(l, i) => k = l
  /\ \A k \in 1 .. Len(options) : Holds(k, i) =>
       /\ filters[i].applied = IF Due(k) \/ Exchanged(k, i) THEN 0 ELSE 1
       /\ Due(k) => filters[i].name \notin Axes
       /\ ~Added(i) /\ ~Adds(i)
  /\ (\A k \in 1 .. Len(options) : ~Holds(k, i)) =>
       filters[i].applied = IF Added(i) THEN 1 ELSE 0
FiltersInv == \A i \in 1 .. Len(filters) : Change(filters[i]) \notin crossed => FilterInv(i)

\* A correction was not asked for, or has its filter, or one is on its way.
Corrects(n) == {t \in Of("correction") : filters[t.filter].name = n}
Settled(n) ==
  \/ asked[n] = 0 /\ Find(this, n) = {} /\ Corrects(n) = {}
  \/ /\ asked[n] # 0 /\ Corrects(n) = {}
     /\ \E i \in Find(this, n) : Find(this, n) = {i} /\ filters[i].value = asked[n]
  \/ /\ asked[n] # 0 /\ Find(this, n) = {}
     /\ \E t \in Corrects(n) : Corrects(n) = {t} /\ t.value = asked[n]
AskedInv ==
  /\ asked \in [Corrections -> Values \cup {0}]
  /\ \A n \in Corrections \ crowded : Settled(n)

FInv ==
  /\ OnceInv
  /\ DueInv
  /\ NamesInv
  /\ CrossInv
  /\ FiltersInv
  /\ AskedInv

-----------------------------------------------------------------------------
(* Posting and taking tasks                                                *)

\* The tasks of a kind after one has been posted.
LEMMA OfPosted ==
  ASSUME RefsInv, NEW t, looper' = Append(looper, t), NEW K
  PROVE  Of(K)' = Of(K) \cup (IF t.kind = K THEN {t} ELSE {})
<1>1. PICK l \in Nat : l = Len(looper)
  BY Current
<1>2. PICK T : looper \in Seq(T)
  BY DEF RefsInv
<1>3. Len(looper') = l + 1 /\ looper'[l + 1] = t /\ \A i \in 1 .. l : looper'[i] = looper[i]
  BY <1>1, <1>2
<1>4. \A i \in 1 .. l + 1 : i \in 1 .. l \/ i = l + 1
  OBVIOUS
<1>5. 1 .. l \subseteq 1 .. l + 1 /\ l + 1 \in 1 .. l + 1
  OBVIOUS
<1>6. \A s : s \in Of(K)' <=> \E i \in 1 .. l + 1 : looper'[i].kind = K /\ s = looper'[i]
  BY <1>3 DEF Of
<1>7. \A s : s \in Of(K) <=> \E i \in 1 .. l : looper[i].kind = K /\ s = looper[i]
  BY <1>1 DEF Of
<1>8. \A s : s \in Of(K)' <=> s \in Of(K) \/ (t.kind = K /\ s = t)
  BY <1>3, <1>4, <1>5, <1>6, <1>7
<1> QED
  BY <1>8

\* The tasks of a kind after one has been taken.
LEMMA OfTaken ==
  ASSUME RefsInv, OnceInv, NEW i \in 1 .. Len(looper), NEW kind, Begins(i, kind), NEW K
  PROVE  /\ kind # K => Of(K)' = Of(K)
         /\ kind = K /\ K \in {"start", "correction"} =>
              Of(K)' = Of(K) \ {looper[i]} /\ looper[i] \in Of(K)
<1>1. PICK l \in Nat : l = Len(looper)
  BY Current
<1>2. i \in 1 .. l /\ looper[i].kind = kind
  BY <1>1 DEF Begins
<1>3. \A s : s \in Of(K)' <=> \E j \in 1 .. l - 1 : looper'[j].kind = K /\ s = looper'[j]
  BY <1>1, TaskTaken DEF Of
<1>4. \A s : s \in Of(K) <=> \E j \in 1 .. l : looper[j].kind = K /\ s = looper[j]
  BY <1>1 DEF Of
<1>5. \A j \in 1 .. l : j # i => \E h \in 1 .. l - 1 : looper'[h] = looper[j]
  <2>1. SUFFICES ASSUME NEW j \in 1 .. l, j # i
                 PROVE  \E h \in 1 .. l - 1 : looper'[h] = looper[j]
    OBVIOUS
  <2>2. j < i \/ i < j
    BY <1>2, <2>1
  <2> QED
    BY <1>1, <2>2, TaskTaken
<1>6. \A h \in 1 .. l - 1 : \E j \in 1 .. l : j # i /\ looper'[h] = looper[j]
  <2>1. SUFFICES ASSUME NEW h \in 1 .. l - 1
                 PROVE  \E j \in 1 .. l : j # i /\ looper'[h] = looper[j]
    OBVIOUS
  <2>2. h < i \/ (i <= h /\ h + 1 # i)
    BY <1>2
  <2>3. h # i \/ i <= h
    OBVIOUS
  <2>4. CASE h < i
    <3>1. h \in 1 .. l /\ looper'[h] = looper[h]
      BY <1>1, <2>4, TaskTaken
    <3> QED
      BY <1>2, <2>4, <3>1
  <2>5. CASE i <= h /\ h + 1 # i
    <3>1. h + 1 \in 1 .. l /\ looper'[h] = looper[h + 1]
      BY <1>1, <2>5, TaskTaken
    <3> QED
      BY <2>5, <3>1
  <2> QED
    BY <2>2, <2>4, <2>5
<1>7. kind # K => Of(K)' = Of(K)
  <2>1. SUFFICES ASSUME kind # K, NEW s PROVE s \in Of(K)' <=> s \in Of(K)
    OBVIOUS
  <2>2. ASSUME s \in Of(K)' PROVE s \in Of(K)
    <3>1. PICK h \in 1 .. l - 1 : looper'[h].kind = K /\ s = looper'[h]
      BY <1>3, <2>2
    <3>2. \E j \in 1 .. l : looper'[h] = looper[j]
      BY <1>6
    <3> QED
      BY <1>4, <3>1, <3>2
  <2>3. ASSUME s \in Of(K) PROVE s \in Of(K)'
    <3>1. PICK j \in 1 .. l : looper[j].kind = K /\ s = looper[j]
      BY <1>4, <2>3
    <3>2. \E h \in 1 .. l - 1 : looper'[h] = looper[j]
      BY <1>2, <1>5, <2>1, <3>1
    <3> QED
      BY <1>3, <3>1, <3>2
  <2> QED
    BY <2>2, <2>3
<1>8. ASSUME kind = K, K \in {"start", "correction"}
      PROVE  Of(K)' = Of(K) \ {looper[i]} /\ looper[i] \in Of(K)
  <2>1. \A j \in 1 .. l : j # i => looper[j] # looper[i]
    BY <1>1, <1>2, <1>8 DEF OnceInv, SameSubject
  <2>2. ASSUME NEW s, s \in Of(K)' PROVE s \in Of(K) /\ s # looper[i]
    <3>1. PICK h \in 1 .. l - 1 : looper'[h].kind = K /\ s = looper'[h]
      BY <1>3, <2>2
    <3>2. PICK j \in 1 .. l : j # i /\ looper'[h] = looper[j]
      BY <1>6
    <3> QED
      BY <1>4, <2>1, <3>1, <3>2
  <2>3. ASSUME NEW s, s \in Of(K), s # looper[i] PROVE s \in Of(K)'
    <3>1. PICK j \in 1 .. l : looper[j].kind = K /\ s = looper[j]
      BY <1>4, <2>3
    <3>2. \E h \in 1 .. l - 1 : looper'[h] = looper[j]
      BY <1>5, <2>3, <3>1
    <3> QED
      BY <1>3, <3>1, <3>2
  <2> QED
    BY <1>2, <1>4, <1>8, <2>2, <2>3
<1> QED
  BY <1>7, <1>8

\* Tasks keep their subjects to themselves when one more is posted.
LEMMA OncePosted ==
  ASSUME RefsInv, OnceInv, NEW t, looper' = Append(looper, t),
         \A s \in Of(t.kind) : ~SameSubject(s, t)
  PROVE  OnceInv'
<1>1. PICK l \in Nat : l = Len(looper)
  BY Current
<1>2. PICK T : looper \in Seq(T)
  BY DEF RefsInv
<1>3. Len(looper') = l + 1 /\ looper'[l + 1] = t /\ \A i \in 1 .. l : looper'[i] = looper[i]
  BY <1>1, <1>2
<1>4. \A i \in 1 .. l + 1 : i \in 1 .. l \/ i = l + 1
  OBVIOUS
<1>5. ASSUME NEW i \in 1 .. l
      PROVE  ~SameSubject(looper[i], t) /\ ~SameSubject(t, looper[i])
  <2>1. SameSubject(looper[i], t) \/ SameSubject(t, looper[i]) =>
          looper[i] \in Of(t.kind) /\ SameSubject(looper[i], t)
    BY <1>1 DEF SameSubject, Of
  <2> QED
    BY <2>1
<1>6. \A i, j \in 1 .. l : SameSubject(looper[i], looper[j]) => i = j
  BY <1>1 DEF OnceInv
<1>7. SUFFICES ASSUME NEW i \in 1 .. l + 1, NEW j \in 1 .. l + 1,
                      SameSubject(looper'[i], looper'[j])
               PROVE  i = j
  BY <1>3 DEF OnceInv, SameSubject
<1> QED
  BY <1>3, <1>4, <1>5, <1>6, <1>7

\* And when one is taken.
LEMMA OnceTaken ==
  ASSUME RefsInv, OnceInv, NEW i \in 1 .. Len(looper), NEW kind, Begins(i, kind)
  PROVE  OnceInv'
<1>1. PICK l \in Nat : l = Len(looper)
  BY Current
<1>2. i \in 1 .. l
  BY <1>1
<1>3. \A h \in 1 .. l - 1 : /\ (IF h < i THEN h ELSE h + 1) \in 1 .. l
                            /\ looper'[h] = looper[IF h < i THEN h ELSE h + 1]
  <2>1. SUFFICES ASSUME NEW h \in 1 .. l - 1
                 PROVE  /\ (IF h < i THEN h ELSE h + 1) \in 1 .. l
                        /\ looper'[h] = looper[IF h < i THEN h ELSE h + 1]
    OBVIOUS
  <2>2. CASE h < i
    BY <1>1, <2>2, TaskTaken
  <2>3. CASE ~(h < i)
    <3>1. i <= h
      BY <1>2, <2>3
    <3> QED
      BY <1>1, <2>3, <3>1, TaskTaken
  <2> QED
    BY <2>2, <2>3
<1>4. Len(looper') = l - 1
  BY <1>1, TaskTaken
<1>5. \A g, h \in 1 .. l - 1 :
        (IF g < i THEN g ELSE g + 1) = (IF h < i THEN h ELSE h + 1) => g = h
  BY <1>2
<1>6. SUFFICES ASSUME NEW g \in 1 .. l - 1, NEW h \in 1 .. l - 1,
                      SameSubject(looper'[g], looper'[h])
               PROVE  g = h
  BY <1>4 DEF OnceInv, SameSubject
<1>7. PICK p \in 1 .. l, q \in 1 .. l :
        /\ p = IF g < i THEN g ELSE g + 1
        /\ q = IF h < i THEN h ELSE h + 1
        /\ looper'[g] = looper[p] /\ looper'[h] = looper[q]
  BY <1>3
<1>8. p = q
  BY <1>1, <1>6, <1>7 DEF OnceInv
<1> QED
  BY <1>5, <1>7, <1>8

-----------------------------------------------------------------------------
(* Steps that leave the filters alone                                      *)

\* What refers to options and filters.
LEMMA Referred ==
  ASSUME RefsInv, NEW n \in Nat, NEW m \in Nat, n = Len(options), m = Len(filters)
  PROVE  /\ \A k \in 1 .. n : /\ options[k].effect \in 0 .. m
                              /\ options[k].corrections \subseteq 1 .. m
                              /\ options[k].flips \in [Axes -> 0 .. m]
         /\ \A i \in 1 .. m : filters[i].name \in FilterNames /\ filters[i].applied \in Nat
         /\ \A t \in Of("start") : t.kind = "start" /\ t.new \in 1 .. n
         /\ \A t \in Of("correction") :
              t.kind = "correction" /\ t.filter \in 1 .. m /\ t.value \in Values
         /\ current \in 1 .. n
         /\ reader.at = "posting" => reader.new \in 1 .. n
         /\ main.kind = "apply" => main.arg \in 1 .. n
         /\ main.kind = "effect" => main.arg \in 0 .. m /\ main.changes = "effect"
         /\ main.kind = "flip" => main.arg \in 1 .. n /\ main.changes \in Axes
<1>1. PICK O : O = OptionsUpTo(m)
  OBVIOUS
<1>2. options \in Seq(O) /\ filters \in Seq(Filters)
  BY <1>1 DEF RefsInv
<1>3. \A k \in 1 .. n : options[k] \in O
  BY <1>2
<1>4. \A k \in 1 .. n : /\ options[k].effect \in 0 .. m
                        /\ options[k].corrections \subseteq 1 .. m
                        /\ options[k].flips \in [Axes -> 0 .. m]
  BY <1>1, <1>3 DEF OptionsUpTo
<1>5. \A i \in 1 .. m : filters[i] \in Filters
  BY <1>2
<1>6. \A i \in 1 .. m : filters[i].name \in FilterNames /\ filters[i].applied \in Nat
  BY <1>5 DEF Filters
<1>7. PICK T : T = Tasks(n, m)
  OBVIOUS
<1>8. looper \in Seq(T)
  BY <1>7 DEF RefsInv
<1>9. \A i \in 1 .. Len(looper) : looper[i] \in T
  BY <1>8
<1>10. \A K : \A t \in Of(K) : t \in T /\ t.kind = K
  BY <1>9 DEF Of
<1>11. \A t \in T : /\ t.kind = "start" => t.new \in 1 .. n
                    /\ t.kind = "correction" => t.filter \in 1 .. m /\ t.value \in Values
  BY <1>7, TaskFields
<1>12. main \in Steps(n, m) /\ reader \in Readers(n) /\ current \in 1 .. n
  BY DEF RefsInv
<1>13. main.kind = "effect" => main.changes = "effect"
  BY <1>12 DEF Steps
<1>14. /\ main.kind = "apply" => main.arg \in 1 .. n
       /\ main.kind = "effect" => main.arg \in 0 .. m
       /\ main.kind = "flip" => main.arg \in 1 .. n /\ main.changes \in Axes
  BY <1>12, StepFields
<1>15. reader.at = "posting" => reader.new \in 1 .. n
  BY <1>12, ReaderFields
<1> QED
  BY <1>4, <1>6, <1>10, <1>11, <1>12, <1>13, <1>14, <1>15

\* Every options object keeps the filters it records.
RecordsKept ==
  /\ Len(options') = Len(options)
  /\ \A k \in 1 .. Len(options) : /\ options'[k].effect = options[k].effect
                                  /\ options'[k].corrections = options[k].corrections
                                  /\ options'[k].flips = options[k].flips

\* The reader is no nearer to posting a start than before.
NotPosting == reader' = reader \/ (reader.at # "posting" /\ reader'.at # "posting")

\* Nothing is done that has to do with filters or with the start of options.
Changing == {"effect", "flip", "apply"}
Aside ==
  /\ current' = current /\ filters' = filters /\ asked' = asked /\ crowded' = crowded
  /\ RecordsKept
  /\ crossed \ {"camera"} \subseteq crossed'
  /\ NotPosting
  /\ Of("start")' = Of("start") /\ Of("correction")' = Of("correction")
  /\ main' = main \/ (main.kind \notin Changing /\ main'.kind \notin Changing)

\* Other fields of the options are changed.
LEMMA RecordsStay ==
  ASSUME RefsInv, Switched \/ setResolution \/ Resized \/ setFps
  PROVE  RecordsKept
<1>1. PICK n \in Nat, m \in Nat : n = Len(options) /\ options \in Seq(OptionsUpTo(m))
  BY Current DEF RefsInv
<1>2. PICK c \in 1 .. n : c = current
  BY <1>1 DEF RefsInv
<1>3. PICK o \in OptionsUpTo(m) : o = options[c]
  BY <1>1
<1>4. SUFFICES ASSUME NEW p, options' = [options EXCEPT ![c] = p],
                      p.effect = o.effect, p.corrections = o.corrections, p.flips = o.flips
               PROVE  RecordsKept
  <2>1. CASE Switched
    <3>1. PICK g : options' = [options EXCEPT ![c] = [o EXCEPT !.facing = g]]
      BY <1>2, <1>3, <2>1 DEF Switched
    <3> QED
      BY <1>3, <1>4, <3>1 DEF OptionsUpTo
  <2>2. CASE setResolution
    <3>1. PICK s : options' = [options EXCEPT ![c] = [o EXCEPT !.width = s]]
      BY <1>2, <1>3, <2>2 DEF setResolution
    <3> QED
      BY <1>3, <1>4, <3>1 DEF OptionsUpTo
  <2>3. CASE Resized
    <3>1. PICK s : options' = [options EXCEPT ![c] = [o EXCEPT !.height = s]]
      BY <1>2, <1>3, <2>3 DEF Resized
    <3> QED
      BY <1>3, <1>4, <3>1 DEF OptionsUpTo
  <2>4. CASE setFps
    <3>1. PICK r : options' = [options EXCEPT ![c] = [o EXCEPT !.fps = r]]
      BY <1>2, <1>3, <2>4 DEF setFps
    <3> QED
      BY <1>3, <1>4, <3>1 DEF OptionsUpTo
  <2> QED
    BY <2>1, <2>2, <2>3, <2>4
<1>5. Len(options') = n /\ \A k \in 1 .. n : options'[k] = IF k = c THEN p ELSE options[k]
  BY <1>1, <1>4
<1> QED
  BY <1>1, <1>3, <1>4, <1>5 DEF RecordsKept

\* Messages that neither bring options nor ask for a correction.
LEMMA ReaderAside ==
  ASSUME RefsInv, OnceInv,
         \/ switchCamera \/ Switched \/ setResolution \/ Resized \/ setFps \/ setH265Codec
         \/ applyEffectFilter \/ flip \/ Disconnect
  PROVE  Aside /\ OnceInv'
<1>1. /\ current' = current /\ filters' = filters /\ main' = main
      /\ asked' = asked /\ crowded' = crowded
  BY DEF switchCamera, Switched, setResolution, Resized, setFps, setH265Codec,
         applyEffectFilter, flip, Disconnect, Receives, Continues, wishes
<1>2. RecordsKept
  <2>1. CASE Switched \/ setResolution \/ Resized \/ setFps
    BY <2>1, RecordsStay
  <2>2. CASE switchCamera \/ setH265Codec \/ applyEffectFilter \/ flip \/ Disconnect
    <3>1. options' = options
      BY <2>2 DEF switchCamera, setH265Codec, applyEffectFilter, flip, Disconnect
    <3> QED
      BY <3>1 DEF RecordsKept
  <2> QED
    BY <2>1, <2>2
<1>3. crossed \subseteq crossed'
  BY DEF switchCamera, Switched, setResolution, Resized, setFps, setH265Codec,
         applyEffectFilter, flip, Disconnect
<1>4. NotPosting
  BY ReaderOtherwise DEF Otherwise, NotPosting
<1>5. looper' = looper \/ \E t : looper' = Append(looper, t) /\ t.kind \notin {"start", "correction"}
  <2>1. CASE switchCamera \/ Switched \/ setResolution
    BY <2>1 DEF switchCamera, Switched, setResolution
  <2>2. CASE Resized \/ setFps \/ setH265Codec
    BY <2>2 DEF Resized, setFps, setH265Codec, restartStream, Posts
  <2>3. CASE applyEffectFilter
    BY <2>3 DEF applyEffectFilter, Posts
  <2>4. CASE flip
    BY <2>4 DEF flip, Posts
  <2>5. CASE Disconnect
    BY <2>5 DEF Disconnect, Posts
  <2> QED
    BY <2>1, <2>2, <2>3, <2>4, <2>5
<1>6. CASE looper' = looper
  <2>1. OnceInv' /\ Of("start")' = Of("start") /\ Of("correction")' = Of("correction")
    BY <1>6 DEF OnceInv, Of
  <2> QED
    BY <1>1, <1>2, <1>3, <1>4, <2>1 DEF Aside
<1>7. ASSUME NEW t, looper' = Append(looper, t), t.kind \notin {"start", "correction"}
      PROVE  Aside /\ OnceInv'
  <2>1. Of("start")' = Of("start") /\ Of("correction")' = Of("correction")
    BY <1>7, OfPosted
  <2>2. \A s : ~SameSubject(s, t)
    BY <1>7 DEF SameSubject
  <2>3. OnceInv'
    BY <1>7, <2>2, OncePosted
  <2> QED
    BY <1>1, <1>2, <1>3, <1>4, <2>1, <2>3 DEF Aside
<1> QED
  BY <1>5, <1>6, <1>7

\* The camera and the encoder.
LEMMA MainAside ==
  ASSUME RefsInv, OnceInv,
         \/ startStreamInternal \/ StartServer \/ SurfaceCreated \/ SurfaceDestroyed
         \/ UNCHANGED vars
  PROVE  Aside /\ OnceInv'
<1>1. /\ current' = current /\ filters' = filters /\ options' = options
      /\ asked' = asked /\ crowded' = crowded /\ reader' = reader /\ looper' = looper
  BY DEF startStreamInternal, StartServer, SurfaceCreated, SurfaceDestroyed, GoesOn,
         SurfaceEvent, wishes, vars
<1>2. crossed \ {"camera"} \subseteq crossed'
  <2>1. CASE startStreamInternal \/ StartServer \/ SurfaceDestroyed \/ UNCHANGED vars
    BY <2>1 DEF startStreamInternal, StartServer, SurfaceDestroyed, vars
  <2>2. CASE SurfaceCreated
    BY <2>2 DEF SurfaceCreated, startPreview
  <2> QED
    BY <2>1, <2>2
<1>3. main' = main \/ (main.kind \notin Changing /\ main'.kind \notin Changing)
  <2>1. CASE startStreamInternal \/ StartServer
    BY <2>1 DEF startStreamInternal, StartServer, GoesOn, Step, Idle, Changing
  <2>2. CASE SurfaceCreated \/ SurfaceDestroyed \/ UNCHANGED vars
    BY <2>2 DEF SurfaceCreated, SurfaceDestroyed, SurfaceEvent, vars
  <2> QED
    BY <2>1, <2>2
<1>4. OnceInv' /\ Of("start")' = Of("start") /\ Of("correction")' = Of("correction")
  BY <1>1 DEF OnceInv, Of
<1> QED
  BY <1>1, <1>2, <1>3, <1>4 DEF Aside, RecordsKept, NotPosting

\* Tasks that restart the stream or end it.
LEMMA TaskAside ==
  ASSUME RefsInv, OnceInv, NEW i \in 1 .. Len(looper), RestartTask(i) \/ DisconnectedTask(i)
  PROVE  Aside /\ OnceInv'
<1>1. PICK kind : Begins(i, kind) /\ kind \notin {"start", "correction"}
  <2>1. Begins(i, "restart") \/ Begins(i, "disconnected")
    BY DEF RestartTask, DisconnectedTask
  <2> QED
    BY <2>1
<1>2. Of("start")' = Of("start") /\ Of("correction")' = Of("correction") /\ OnceInv'
  BY <1>1, OfTaken, OnceTaken
<1>3. /\ current' = current /\ filters' = filters /\ options' = options
      /\ asked' = asked /\ crowded' = crowded /\ reader' = reader
  BY <1>1 DEF RestartTask, DisconnectedTask, Begins, wishes
<1>4. crossed \ {"camera"} \subseteq crossed'
  <2>1. CASE RestartTask(i)
    <3>1. PICK s : startPreview(s, TRUE)
      BY <2>1 DEF RestartTask
    <3> QED
      BY <3>1 DEF startPreview
  <2>2. CASE DisconnectedTask(i)
    BY <2>2 DEF DisconnectedTask
  <2> QED
    BY <2>1, <2>2
<1>5. main' = main \/ (main.kind \notin Changing /\ main'.kind \notin Changing)
  <2>1. main = Idle
    BY <1>1 DEF Begins
  <2>2. main' \in {Idle, Step("prepare", None, 0), main}
    BY DEF RestartTask, DisconnectedTask
  <2>3. Idle.kind = "idle" /\ Step("prepare", None, 0).kind = "prepare"
    BY DEF Idle, Step
  <2> QED
    BY <2>1, <2>2, <2>3 DEF Changing
<1> QED
  BY <1>2, <1>3, <1>4, <1>5 DEF Aside, RecordsKept, NotPosting

\* The options of an activation are taken but not yet applied.
LEMMA StartingTasks ==
  /\ Starting <=> reader.at = "posting" \/ Of("start") # {}
  /\ Starting' <=> reader'.at = "posting" \/ Of("start")' # {}
BY DEF Starting, Of

\* No options are taken, started or applied.
LEMMA DueStays ==
  ASSUME NotPosting, Of("start")' = Of("start"),
         main' = main \/ (main.kind # "apply" /\ main'.kind # "apply")
  PROVE  /\ \A k : /\ Posting(k)' <=> Posting(k)
                   /\ Started(k)' <=> Started(k)
                   /\ Applying(k)' <=> Applying(k)
                   /\ Due(k)' <=> Due(k)
         /\ Starting' <=> Starting
<1>1. \A k : /\ Posting(k)' <=> Posting(k)
             /\ Started(k)' <=> Started(k)
             /\ Applying(k)' <=> Applying(k)
  BY DEF NotPosting, Posting, Started, Applying
<1>2. Starting' <=> Starting
  BY StartingTasks DEF NotPosting
<1> QED
  BY <1>1, <1>2 DEF Due

\* A class of filters is not the camera.
LEMMA Classes ==
  ASSUME RefsInv, NEW i \in 1 .. Len(filters)
  PROVE  Change(filters[i]) # "camera"
<1>1. filters[i].name \in FilterNames
  BY Current, Referred
<1> QED
  BY <1>1, CategoriesAssumption DEF Change, FilterNames

\* A change that is under way goes on, or there is none.
LEMMA CrossStays ==
  ASSUME RefsInv, CrossInv, Starting' => Starting, current' = current,
         crossed \ {"camera"} \subseteq crossed',
         main' = main \/ main'.kind \notin {"effect", "flip"}
  PROVE  CrossInv'
<1>1. SUFFICES ASSUME main'.kind \in {"effect", "flip"}, main'.changes \notin crossed'
               PROVE  ~Starting' /\ (main'.kind = "flip" => main'.arg = current')
  BY DEF CrossInv
<1>2. main' = main
  BY <1>1
<1>3. main.changes # "camera"
  BY <1>1, <1>2, Current, Referred, CategoriesAssumption
<1>4. main.changes \notin crossed
  BY <1>1, <1>2, <1>3
<1> QED
  BY <1>1, <1>2, <1>4 DEF CrossInv

\* What is recorded stays, and so do the names of the filters.
LEMMA NamesStay ==
  ASSUME RefsInv, NamesInv, RecordsKept,
         \A i \in 1 .. Len(filters) : filters'[i].name = filters[i].name,
         Of("correction")' \subseteq Of("correction"),
         \/ main' = main
         \/ main'.kind = "effect" /\ main'.arg # 0 => filters'[main'.arg].name \in Effects
  PROVE  NamesInv'
<1>1. PICK n \in Nat, m \in Nat : n = Len(options) /\ m = Len(filters)
  BY Current
<1>2. \A k \in 1 .. n : /\ options[k].effect \in 0 .. m
                        /\ options[k].corrections \subseteq 1 .. m
                        /\ options[k].flips \in [Axes -> 0 .. m]
  BY <1>1, Referred
<1>3. ASSUME NEW k \in 1 .. n
      PROVE  /\ options'[k].effect # 0 => filters'[options'[k].effect].name \in Effects
             /\ \A i \in options'[k].corrections : filters'[i].name \in Corrections
             /\ \A x \in Axes : options'[k].flips[x] # 0 =>
                                  filters'[options'[k].flips[x]].name = x
  <2>1. /\ options'[k].effect = options[k].effect
        /\ options'[k].corrections = options[k].corrections
        /\ options'[k].flips = options[k].flips
    BY <1>1 DEF RecordsKept
  <2>2. /\ options[k].effect # 0 => options[k].effect \in 1 .. m
        /\ \A x \in Axes : options[k].flips[x] # 0 => options[k].flips[x] \in 1 .. m
    BY <1>2
  <2>3. /\ options[k].effect # 0 => filters[options[k].effect].name \in Effects
        /\ \A i \in options[k].corrections : filters[i].name \in Corrections
        /\ \A x \in Axes : options[k].flips[x] # 0 => filters[options[k].flips[x]].name = x
    BY <1>1 DEF NamesInv
  <2>4. options[k].effect # 0 =>
          filters'[options[k].effect].name = filters[options[k].effect].name
    BY <1>1, <2>2
  <2>5. \A i \in options[k].corrections : filters'[i].name = filters[i].name
    BY <1>1, <1>2
  <2>6. \A x \in Axes : options[k].flips[x] # 0 =>
          filters'[options[k].flips[x]].name = filters[options[k].flips[x]].name
    BY <1>1, <2>2
  <2> QED
    BY <2>1, <2>3, <2>4, <2>5, <2>6
<1>4. \A t \in Of("correction")' : filters'[t.filter].name \in Corrections
  BY <1>1, Referred DEF NamesInv
<1>5. main'.kind = "effect" /\ main'.arg # 0 => filters'[main'.arg].name \in Effects
  BY <1>1, Referred DEF NamesInv
<1> QED
  BY <1>1, <1>3, <1>4, <1>5 DEF NamesInv, RecordsKept

\* A filter is recorded where it was, under its name.
LEMMA HoldsStays ==
  ASSUME RecordsKept, NEW i, filters'[i].name = filters[i].name
  PROVE  \A k \in 1 .. Len(options) : Holds(k, i)' <=> Holds(k, i)
BY DEF RecordsKept, Holds

\* Nothing happens to filter i.
LEMMA FilterStays ==
  ASSUME NEW i, FilterInv(i), 1 .. Len(options) \subseteq 1 .. Len(options'),
         \A k \in 1 .. Len(options') : k \in 1 .. Len(options) \/ ~Holds(k, i)',
         filters'[i].applied = filters[i].applied, filters'[i].name = filters[i].name,
         \A k \in 1 .. Len(options) : /\ Holds(k, i)' <=> Holds(k, i)
                                      /\ Holds(k, i) => (Due(k)' <=> Due(k))
                                      /\ Holds(k, i) => (Exchanged(k, i)' <=> Exchanged(k, i)),
         Added(i)' <=> Added(i), Adds(i)' <=> Adds(i)
  PROVE  FilterInv(i)'
BY DEF FilterInv

\* Nothing happens to any filter.
LEMMA FiltersStay ==
  ASSUME RefsInv, FiltersInv, RecordsKept, Len(filters') = Len(filters),
         \A i \in 1 .. Len(filters) : /\ filters'[i].name = filters[i].name
                                      /\ filters'[i].applied = filters[i].applied,
         crossed \ {"camera"} \subseteq crossed',
         current' = current, \A k : Due(k)' <=> Due(k), Of("correction")' = Of("correction"),
         main' = main \/ (main.kind # "effect" /\ main'.kind # "effect")
  PROVE  FiltersInv'
<1>1. SUFFICES ASSUME NEW i \in 1 .. Len(filters), Change(filters[i]) \notin crossed'
               PROVE  FilterInv(i)'
  BY DEF FiltersInv, Change
<1>2. FilterInv(i)
  BY <1>1, Classes DEF FiltersInv
<1>3. \A k \in 1 .. Len(options) : Holds(k, i)' <=> Holds(k, i)
  BY HoldsStays
<1>4. \A k \in 1 .. Len(options) : Exchanged(k, i)' <=> Exchanged(k, i)
  BY DEF Exchanged, RecordsKept
<1>5. (Added(i)' <=> Added(i)) /\ (Adds(i)' <=> Adds(i))
  BY DEF Added, Adds
<1> QED
  BY <1>2, <1>3, <1>4, <1>5, FilterStays DEF RecordsKept

\* Nothing happens to the corrections of the options in use.
LEMMA AskedStays ==
  ASSUME RefsInv, AskedInv, asked' = asked, crowded \subseteq crowded',
         this'.corrections = this.corrections,
         \A i \in 1 .. Len(filters) : /\ filters'[i].name = filters[i].name
                                      /\ filters[i].name \in Corrections =>
                                           filters'[i].value = filters[i].value,
         Of("correction")' = Of("correction")
  PROVE  AskedInv'
<1>1. PICK n \in Nat, m \in Nat : n = Len(options) /\ m = Len(filters)
  BY Current
<1>2. this.corrections \subseteq 1 .. m
  BY <1>1, Referred DEF this
<1>3. \A c : Find(this, c)' = Find(this, c)
  BY <1>1, <1>2 DEF Find
<1>4. \A c : Corrects(c)' = Corrects(c)
  BY <1>1, Referred DEF Corrects
<1>5. SUFFICES ASSUME NEW c \in Corrections \ crowded
               PROVE  Settled(c)'
  BY DEF AskedInv
<1>6. Settled(c)
  BY <1>5 DEF AskedInv
<1>7. \A i \in Find(this, c) : filters'[i].value = filters[i].value
  BY <1>1, <1>2, <1>5 DEF Find
<1> QED
  BY <1>3, <1>4, <1>6, <1>7 DEF Settled

\* Other steps keep all of this.
LEMMA AsideKeeps ==
  ASSUME RefsInv, FInv, Aside, OnceInv'
  PROVE  FInv'
<1>1. /\ \A k : /\ Posting(k)' <=> Posting(k)
                /\ Started(k)' <=> Started(k)
                /\ Applying(k)' <=> Applying(k)
                /\ Due(k)' <=> Due(k)
      /\ Starting' <=> Starting
  BY DueStays DEF Aside, Changing
<1>2. DueInv'
  BY <1>1 DEF FInv, DueInv, Aside, RecordsKept
<1>3. CrossInv'
  BY <1>1, CrossStays DEF FInv, Aside, Changing
<1>4. NamesInv'
  BY NamesStay DEF FInv, Aside, Changing
<1>5. FiltersInv'
  BY <1>1, FiltersStay DEF FInv, Aside, Changing
<1>6. this'.corrections = this.corrections
  BY DEF this, Aside, RecordsKept, RefsInv
<1>7. AskedInv'
  BY <1>6, AskedStays DEF FInv, Aside
<1> QED
  BY <1>2, <1>3, <1>4, <1>5, <1>7 DEF FInv

-----------------------------------------------------------------------------
(* Options on their way                                                    *)

\* No two tasks start the same options or add the same filter.
LEMMA Subjects ==
  ASSUME OnceInv
  PROVE  /\ \A s, t \in Of("start") : s.new = t.new => s = t
         /\ \A s, t \in Of("correction") : s.filter = t.filter => s = t
BY DEF OnceInv, SameSubject, Of

\* The reader posts the start of the options it took.
LEMMA PostStartKeeps ==
  ASSUME RefsInv, FInv, PostStart
  PROVE  FInv'
<1>1. PICK t : looper' = Append(looper, t) /\ t.kind = "start" /\ t.new = reader.new
  BY DEF PostStart, Posts
<1>2. /\ reader.at = "posting" /\ reader'.at = "idle" /\ options' = options
      /\ filters' = filters /\ current' = current /\ main' = main
      /\ asked' = asked /\ crowded' = crowded /\ crossed' = crossed
  BY DEF PostStart, Continues, Goes, wishes
<1>3. Of("start")' = Of("start") \cup {t} /\ Of("correction")' = Of("correction")
  <2>1. \A K : Of(K)' = Of(K) \cup (IF t.kind = K THEN {t} ELSE {})
    BY <1>1, OfPosted
  <2> QED
    BY <1>1, <2>1
<1>4. RecordsKept
  BY <1>2 DEF RecordsKept
<1>5. reader.new \in 1 .. Len(options)
  BY <1>2, Current, Referred
<1>6. \A s \in Of("start") : s.new # reader.new
  BY <1>2, <1>5 DEF FInv, DueInv, Posting, Started
<1>7. OnceInv'
  <2>1. \A s \in Of(t.kind) : ~SameSubject(s, t)
    BY <1>1, <1>6 DEF SameSubject
  <2> QED
    BY <1>1, <2>1, OncePosted DEF FInv
<1>8. \A k : /\ Posting(k) <=> k = reader.new
             /\ ~Posting(k)'
             /\ Started(k)' <=> Started(k) \/ k = reader.new
             /\ Applying(k)' <=> Applying(k)
  BY <1>1, <1>2, <1>3 DEF Posting, Started, Applying
<1>9. \A k : Due(k)' <=> Due(k)
  BY <1>8 DEF Due
<1>10. DueInv'
  BY <1>2, <1>8 DEF FInv, DueInv
<1>11. Starting
  BY <1>2, StartingTasks
<1>12. CrossInv'
  BY <1>2, <1>11, CrossStays DEF FInv
<1>13. NamesInv' /\ FiltersInv'
  BY <1>2, <1>3, <1>4, <1>9, NamesStay, FiltersStay DEF FInv
<1>14. AskedInv'
  <2>1. this'.corrections = this.corrections
    BY <1>2 DEF this
  <2> QED
    BY <1>2, <1>3, <2>1, AskedStays DEF FInv
<1> QED
  BY <1>7, <1>10, <1>12, <1>13, <1>14 DEF FInv

\* The main thread takes the start, and will apply the options.
LEMMA StartTaskKeeps ==
  ASSUME RefsInv, FInv, NEW i \in 1 .. Len(looper), StartTask(i)
  PROVE  FInv'
<1>1. Begins(i, "start") /\ options' = options /\ filters' = filters
  BY DEF StartTask
<1>2. PICK t : t = looper[i]
  OBVIOUS
<1>3. /\ main.kind = "idle" /\ main'.kind = "apply" /\ main'.arg = t.new
      /\ current' = current /\ reader' = reader /\ asked' = asked /\ crowded' = crowded
  BY <1>1, <1>2 DEF StartTask, Begins, Step, Idle, wishes
<1>4. Of("start")' = Of("start") \ {t} /\ t \in Of("start") /\ Of("correction")' = Of("correction")
  BY <1>1, <1>2, OfTaken DEF FInv
<1>5. OnceInv'
  BY <1>1, OnceTaken DEF FInv
<1>6. crossed \ {"camera"} \subseteq crossed'
  BY DEF StartTask, startPreview
<1>7. RecordsKept
  BY <1>1 DEF RecordsKept
<1>8. \A s \in Of("start") : s.new = t.new => s = t
  BY <1>4, Subjects DEF FInv
<1>9. \A k : /\ Posting(k)' <=> Posting(k)
             /\ Started(k)' <=> Started(k) /\ k # t.new
             /\ k = t.new => Started(k)
             /\ ~Applying(k)
             /\ Applying(k)' <=> k = t.new
  BY <1>3, <1>4, <1>8 DEF Posting, Started, Applying
<1>10. \A k : Due(k)' <=> Due(k)
  BY <1>9 DEF Due
<1>11. DueInv'
  BY <1>1, <1>9 DEF FInv, DueInv
<1>12. Starting
  BY <1>4, StartingTasks
<1>13. CrossInv'
  BY <1>3, <1>6, <1>12, CrossStays DEF FInv
<1>14. NamesInv' /\ FiltersInv'
  BY <1>1, <1>3, <1>4, <1>6, <1>7, <1>10, NamesStay, FiltersStay DEF FInv
<1>15. AskedInv'
  <2>1. this'.corrections = this.corrections
    BY <1>1, <1>3 DEF this
  <2> QED
    BY <1>1, <1>3, <1>4, <2>1, AskedStays DEF FInv
<1> QED
  BY <1>5, <1>11, <1>13, <1>14, <1>15 DEF FInv

\* A flip looks up the options it will change.
LEMMA FlipTaskKeeps ==
  ASSUME RefsInv, FInv, NEW i \in 1 .. Len(looper), FlipTask(i)
  PROVE  FInv'
<1>1. Begins(i, "flip") /\ options' = options /\ filters' = filters
  BY DEF FlipTask
<1>2. PICK x : x = looper[i].axis
  OBVIOUS
<1>3. /\ main.kind = "idle" /\ main'.kind = "flip" /\ main'.arg = current /\ main'.changes = x
      /\ current' = current /\ reader' = reader /\ asked' = asked /\ crowded' = crowded
  BY <1>1, <1>2 DEF FlipTask, Begins, Step, Idle, wishes
<1>4. crossed' = IF Starting THEN crossed \cup {x} ELSE crossed
  BY <1>2 DEF FlipTask, Crosses
<1>5. Of("start")' = Of("start") /\ Of("correction")' = Of("correction")
  BY <1>1, OfTaken DEF FInv
<1>6. OnceInv'
  BY <1>1, OnceTaken DEF FInv
<1>7. RecordsKept /\ NotPosting
  BY <1>1, <1>3 DEF RecordsKept, NotPosting
<1>8. /\ \A k : /\ Posting(k)' <=> Posting(k)
                /\ Started(k)' <=> Started(k)
                /\ Applying(k)' <=> Applying(k)
                /\ Due(k)' <=> Due(k)
      /\ Starting' <=> Starting
  BY <1>3, <1>5, <1>7, DueStays
<1>9. DueInv'
  BY <1>1, <1>8 DEF FInv, DueInv
<1>10. CrossInv'
  BY <1>3, <1>4, <1>8 DEF CrossInv
<1>11. NamesInv' /\ FiltersInv'
  BY <1>1, <1>3, <1>4, <1>5, <1>7, <1>8, NamesStay, FiltersStay DEF FInv
<1>12. AskedInv'
  <2>1. this'.corrections = this.corrections
    BY <1>1, <1>3 DEF this
  <2> QED
    BY <1>1, <1>3, <1>5, <2>1, AskedStays DEF FInv
<1> QED
  BY <1>6, <1>9, <1>10, <1>11, <1>12 DEF FInv

\* The filters F are those of f and, behind them, the ones options o record.
Brings(f, a, F, o) ==
  /\ Len(f) <= Len(F) /\ \A i \in 1 .. Len(f) : F[i] = f[i]
  /\ \A i \in 1 .. Len(F) : i \in 1 .. Len(f)
       \/ /\ F[i].applied = 0
          /\ \/ F[i].name \in Effects /\ o.effect = i
             \/ F[i].name \in Corrections /\ i \in o.corrections
  /\ o.effect = 0 \/ (o.effect \in Len(f) + 1 .. Len(F) /\ F[o.effect].name \in Effects)
  /\ \/ a.correction = None /\ o.corrections = {}
     \/ a.correction \in Corrections
          /\ \E j \in Len(f) + 1 .. Len(F) :
               o.corrections = {j} /\ F[j].name = a.correction /\ F[j].value = a.value
  /\ o.flips = [x \in Axes |-> 0]

\* The filters an activation creates are those its options record.
LEMMA Brought ==
  ASSUME NEW f \in Seq(Filters), NEW a \in Activations
  PROVE  Brings(f, a, Created(f, a), Taken(f, a))
<1> DEFINE e == EffectOf(a)
           c == CorrectionOf(a)
<1>1. PICK m \in Nat : m = Len(f)
  OBVIOUS
<1>2. PICK F, o : F = Created(f, a) /\ o = Taken(f, a)
  OBVIOUS
<1>3. e \in Seq(Filters) /\ c \in Seq(Filters)
  <2>1. a.effect # None => NewFilter(a.effect, 0, 0) \in Filters
    BY DEF Activations, NewFilter, Filters, FilterNames
  <2>2. a.correction # None => NewFilter(a.correction, a.value, 0) \in Filters
    BY DEF Activations, NewFilter, Filters, FilterNames
  <2>3. e \in Seq(Filters)
    BY <2>1 DEF EffectOf
  <2>4. c \in Seq(Filters)
    BY <2>2 DEF CorrectionOf
  <2> QED
    BY <2>3, <2>4
<1>4. /\ a.effect = None => e = <<>>
      /\ a.effect # None => Len(e) = 1 /\ e[1] = NewFilter(a.effect, 0, 0) /\ a.effect \in Effects
      /\ a.correction = None => c = <<>>
      /\ a.correction # None => Len(c) = 1 /\ c[1] = NewFilter(a.correction, a.value, 0)
                                /\ a.correction \in Corrections
  BY DEF EffectOf, CorrectionOf, Activations
<1>5. /\ o.effect = (IF a.effect = None THEN 0 ELSE m + 1)
      /\ o.corrections = (IF a.correction = None THEN {} ELSE {m + 1 + Len(e)})
      /\ o.flips = [x \in Axes |-> 0]
  BY <1>1, <1>2 DEF Taken, StreamOptions, e
<1>6. F = (f \o e) \o c
  BY <1>2 DEF Created
<1> HIDE DEF e, c
<1>7. PICK x \in Nat, y \in Nat : x = Len(e) /\ y = Len(c)
  BY <1>3
<1>8. PICK g \in Seq(Filters) : g = f \o e
  BY <1>3, ConcatProperties
<1>9. Len(g) = m + x /\ \A i \in 1 .. m + x : g[i] = IF i <= m THEN f[i] ELSE e[i - m]
  BY <1>1, <1>3, <1>7, <1>8, ConcatProperties
<1>10. Len(F) = m + x + y /\ \A i \in 1 .. m + x + y : F[i] = IF i <= m + x THEN g[i] ELSE c[i - (m + x)]
  <2>1. F = g \o c
    BY <1>6, <1>8
  <2>2. /\ Len(g \o c) = Len(g) + Len(c)
        /\ \A i \in 1 .. Len(g) + Len(c) :
             (g \o c)[i] = IF i <= Len(g) THEN g[i] ELSE c[i - Len(g)]
    BY <1>3, ConcatProperties
  <2> QED
    BY <1>7, <1>9, <2>1, <2>2
<1>11. \A i \in 1 .. m + x + y : F[i] = IF i <= m THEN f[i]
                                       ELSE IF i <= m + x THEN e[i - m] ELSE c[i - (m + x)]
  BY <1>9, <1>10
<1>12. x = (IF a.effect = None THEN 0 ELSE 1) /\ y = (IF a.correction = None THEN 0 ELSE 1)
  BY <1>4, <1>7
<1>13. ASSUME a.effect # None
       PROVE  /\ o.effect = m + 1 /\ m + 1 \in m + 1 .. m + x + y
              /\ F[m + 1].name = a.effect /\ F[m + 1].applied = 0 /\ a.effect \in Effects
  <2>1. m + 1 \in 1 .. m + x + y /\ ~(m + 1 <= m) /\ m + 1 <= m + x /\ (m + 1) - m = 1
    BY <1>12, <1>13
  <2>2. F[m + 1] = NewFilter(a.effect, 0, 0)
    BY <1>4, <1>11, <1>13, <2>1
  <2> QED
    BY <1>4, <1>5, <1>13, <2>1, <2>2 DEF NewFilter
<1>14. ASSUME a.correction # None
       PROVE  /\ m + 1 + x \in m + 1 .. m + x + y
              /\ o.corrections = {m + 1 + x}
              /\ F[m + 1 + x].name = a.correction /\ F[m + 1 + x].applied = 0
              /\ F[m + 1 + x].value = a.value /\ a.correction \in Corrections
  <2>1. /\ m + 1 + x \in 1 .. m + x + y /\ ~(m + 1 + x <= m) /\ ~(m + 1 + x <= m + x)
        /\ (m + 1 + x) - (m + x) = 1
    BY <1>12, <1>14
  <2>2. F[m + 1 + x] = NewFilter(a.correction, a.value, 0)
    BY <1>4, <1>11, <1>14, <2>1
  <2> QED
    BY <1>4, <1>5, <1>7, <1>14, <2>1, <2>2 DEF NewFilter
<1>15. \A i \in 1 .. m + x + y : \/ i \in 1 .. m
                                 \/ a.effect # None /\ i = m + 1
                                 \/ a.correction # None /\ i = m + 1 + x
  <2>1. CASE a.effect = None
    BY <1>12, <2>1
  <2>2. CASE a.effect # None
    BY <1>12, <2>2
  <2> QED
    BY <2>1, <2>2
<1>16. m <= Len(F) /\ \A i \in 1 .. m : F[i] = f[i]
  BY <1>10, <1>11
<1>17. \A i \in 1 .. Len(F) : i \in 1 .. m
         \/ /\ F[i].applied = 0
            /\ \/ F[i].name \in Effects /\ o.effect = i
               \/ F[i].name \in Corrections /\ i \in o.corrections
  BY <1>10, <1>13, <1>14, <1>15
<1>18. o.effect = 0 \/ (o.effect \in m + 1 .. Len(F) /\ F[o.effect].name \in Effects)
  BY <1>5, <1>10, <1>13
<1>19. \/ a.correction = None /\ o.corrections = {}
       \/ a.correction \in Corrections
            /\ \E j \in m + 1 .. Len(F) :
                 o.corrections = {j} /\ F[j].name = a.correction /\ F[j].value = a.value
  BY <1>5, <1>10, <1>14
<1> QED
  BY <1>1, <1>2, <1>5, <1>16, <1>17, <1>18, <1>19 DEF Brings

\* A correction is on its way exactly if a task carries it.
LEMMA PendingTasks == \A c : Pending(c) <=> Corrects(c) # {}
BY DEF Pending, Corrects, Of

\* New options are taken, with filters nobody else records.
LEMMA startStreamKeeps ==
  ASSUME RefsInv, RefsInv', StateInv, FInv, startStream
  PROVE  FInv'
<1>1. PICK n \in Nat, m \in Nat : n = Len(options) /\ m = Len(filters)
  BY Current
<1>2. PICK a \in Activations :
        /\ filters' = Created(filters, a) /\ options' = Append(options, Taken(filters, a))
        /\ asked' = [c \in Corrections |-> IF c = a.correction THEN a.value ELSE 0]
  <2>1. repertoire.activations \subseteq Activations
    BY ActivationsAssumption DEF StateInv, Activations
  <2> QED
    BY <2>1 DEF startStream, Created, Taken, EffectOf, CorrectionOf
<1>3. PICK o : o = Taken(filters, a)
  OBVIOUS
<1>4. PICK M \in Nat : M = Len(filters')
  BY DEF RefsInv
<1>5. /\ Len(options') = n + 1 /\ options'[n + 1] = o
      /\ \A k \in 1 .. n : options'[k] = options[k]
  <2>1. PICK S : options \in Seq(S)
    BY DEF RefsInv
  <2>2. options' = Append(options, o)
    BY <1>2, <1>3
  <2> QED
    BY <1>1, <2>1, <2>2
<1>6. /\ m <= M /\ \A i \in 1 .. m : filters'[i] = filters[i]
      /\ \A i \in 1 .. M : i \in 1 .. m
           \/ /\ filters'[i].applied = 0
              /\ \/ filters'[i].name \in Effects /\ o.effect = i
                 \/ filters'[i].name \in Corrections /\ i \in o.corrections
      /\ o.effect = 0 \/ (o.effect \in m + 1 .. M /\ filters'[o.effect].name \in Effects)
      /\ \/ a.correction = None /\ o.corrections = {}
         \/ a.correction \in Corrections
              /\ \E j \in m + 1 .. M : o.corrections = {j} /\ filters'[j].name = a.correction
                                       /\ filters'[j].value = a.value
      /\ o.flips = [x \in Axes |-> 0]
  <2>1. filters \in Seq(Filters)
    BY DEF RefsInv
  <2>2. Brings(filters, a, Created(filters, a), Taken(filters, a))
    BY <2>1, Brought
  <2>3. Brings(filters, a, filters', o)
    BY <1>2, <1>3, <2>2
  <2> QED
    BY <1>1, <1>4, <2>3 DEF Brings
<1>7. /\ reader.at = "idle" /\ reader'.at = "posting" /\ reader'.new = n + 1 /\ current' = n + 1
      /\ looper' = looper /\ main' = main
      /\ crowded' = crowded \cup {c \in Corrections : Pending(c)}
      /\ crossed' = crossed \cup ({main.changes} \ {None})
  BY <1>5 DEF startStream, Receives
<1>8. Of("start")' = Of("start") /\ Of("correction")' = Of("correction") /\ OnceInv'
  BY <1>7 DEF Of, OnceInv, FInv
<1>9. /\ \A k \in 1 .. n : /\ options[k].effect \in 0 .. m
                           /\ options[k].corrections \subseteq 1 .. m
                           /\ options[k].flips \in [Axes -> 0 .. m]
      /\ \A i \in 1 .. m : filters[i].name \in FilterNames
      /\ \A t \in Of("start") : t.new \in 1 .. n
      /\ \A t \in Of("correction") : t.filter \in 1 .. m
      /\ main.kind = "apply" => main.arg \in 1 .. n
      /\ main.kind = "effect" => main.arg \in 0 .. m /\ main.changes = "effect"
      /\ main.kind = "flip" => main.changes \in Axes
  BY <1>1, Referred
<1>10. \A k : /\ ~Posting(k)
              /\ Posting(k)' <=> k = n + 1
              /\ Started(k)' <=> Started(k)
              /\ Applying(k)' <=> Applying(k)
  BY <1>7, <1>8 DEF Posting, Started, Applying
<1>11. ~Started(n + 1) /\ ~Applying(n + 1)
  BY <1>9 DEF Started, Applying
<1>12. \A k \in 1 .. n : Due(k)' <=> Due(k)
  BY <1>10 DEF Due
<1>13. \A k \in 1 .. n + 1 : k \in 1 .. n \/ k = n + 1
  OBVIOUS
<1>14. DueInv'
  BY <1>1, <1>5, <1>10, <1>11, <1>13 DEF FInv, DueInv
<1>15. CrossInv'
  <2>1. main.kind \in {"effect", "flip"} => main.changes # None
    BY <1>9, CategoriesAssumption DEF None
  <2> QED
    BY <1>7, <2>1 DEF CrossInv
<1>16. NamesInv'
  <2>1. ASSUME NEW k \in 1 .. n
        PROVE  /\ options'[k].effect # 0 => filters'[options'[k].effect].name \in Effects
               /\ \A i \in options'[k].corrections : filters'[i].name \in Corrections
               /\ \A x \in Axes : options'[k].flips[x] # 0 =>
                                    filters'[options'[k].flips[x]].name = x
    <3>1. /\ options[k].effect # 0 => filters[options[k].effect].name \in Effects
          /\ \A i \in options[k].corrections : filters[i].name \in Corrections
          /\ \A x \in Axes : options[k].flips[x] # 0 => filters[options[k].flips[x]].name = x
      BY <1>1 DEF FInv, NamesInv
    <3>2. options'[k] = options[k]
      BY <1>5
    <3>3. options[k].effect # 0 =>
            filters'[options[k].effect].name = filters[options[k].effect].name
      BY <1>6, <1>9
    <3>4. \A i \in options[k].corrections : filters'[i].name = filters[i].name
      BY <1>6, <1>9
    <3>5. \A x \in Axes : options[k].flips[x] # 0 =>
            filters'[options[k].flips[x]].name = filters[options[k].flips[x]].name
      <4>1. \A x \in Axes : options[k].flips[x] # 0 => options[k].flips[x] \in 1 .. m
        BY <1>9
      <4> QED
        BY <1>6, <4>1
    <3> QED
      BY <3>1, <3>2, <3>3, <3>4, <3>5
  <2>2. /\ o.effect # 0 => filters'[o.effect].name \in Effects
        /\ \A i \in o.corrections : filters'[i].name \in Corrections
        /\ \A x \in Axes : o.flips[x] = 0
    BY <1>6
  <2>3. \A t \in Of("correction")' : filters'[t.filter].name \in Corrections
    BY <1>6, <1>8, <1>9 DEF FInv, NamesInv
  <2>4. main'.kind = "effect" /\ main'.arg # 0 => filters'[main'.arg].name \in Effects
    BY <1>6, <1>7, <1>9 DEF FInv, NamesInv
  <2> QED
    BY <1>5, <1>13, <2>1, <2>2, <2>3, <2>4 DEF NamesInv
<1>17. FiltersInv'
  <2>1. SUFFICES ASSUME NEW i \in 1 .. M, Change(filters'[i]) \notin crossed'
                 PROVE  FilterInv(i)'
    BY <1>4 DEF FiltersInv, Change
  <2>2. CASE i \in 1 .. m
    <3>1. filters'[i] = filters[i] /\ FilterInv(i)
      BY <1>1, <1>6, <1>7, <2>1, <2>2 DEF FInv, FiltersInv, Change
    <3>2. \A k \in 1 .. n : Holds(k, i)' <=> Holds(k, i)
      BY <1>5, <3>1 DEF Holds
    <3>3. ~Holds(n + 1, i)'
      <4>1. o.effect # i /\ i \notin o.corrections /\ \A x \in Axes : o.flips[x] # i
        BY <1>6, <2>2
      <4> QED
        BY <1>5, <4>1 DEF Holds
    <3>4. \A k \in 1 .. n : ~(main.kind = "effect" /\ options[k].effect = i)
      <4>1. ASSUME NEW k \in 1 .. n, main.kind = "effect", options[k].effect = i
            PROVE  FALSE
        <5>1. filters[i].name \in Effects
          BY <1>1, <2>2, <4>1 DEF FInv, NamesInv
        <5>2. "effect" \in crossed'
          BY <1>7, <1>9, <4>1 DEF None
        <5> QED
          BY <2>1, <3>1, <5>1, <5>2 DEF Change
      <4> QED
        BY <4>1
    <3>5. \A k \in 1 .. n : ~Exchanged(k, i) /\ ~Exchanged(k, i)'
      BY <1>5, <1>7, <3>4 DEF Exchanged
    <3>6. (Added(i)' <=> Added(i)) /\ (Adds(i)' <=> Adds(i))
      BY <1>7, <1>8 DEF Added, Adds
    <3>7. 1 .. n \subseteq 1 .. n + 1
      OBVIOUS
    <3> QED
      BY <1>1, <1>5, <1>12, <1>13, <3>1, <3>2, <3>3, <3>5, <3>6, <3>7, FilterStays
  <2>3. CASE i \notin 1 .. m
    <3>1. /\ filters'[i].applied = 0
          /\ \/ filters'[i].name \in Effects /\ o.effect = i
             \/ filters'[i].name \in Corrections /\ i \in o.corrections
      BY <1>6, <2>3
    <3>2. i # 0 /\ ~(i <= m)
      BY <2>1, <2>3
    <3>3. ASSUME NEW k \in 1 .. n
          PROVE  ~Holds(k, i)'
      <4>1. options[k].effect # i /\ i \notin options[k].corrections
            /\ \A x \in Axes : options[k].flips[x] # i
        BY <1>9, <3>2
      <4> QED
        BY <1>5, <4>1 DEF Holds
    <3>4. Holds(n + 1, i)' /\ Due(n + 1)'
      BY <1>5, <1>10, <3>1 DEF Holds, Due
    <3>5. filters'[i].name \notin Axes
      BY <3>1, CategoriesAssumption
    <3>6. ~Added(i)' /\ ~Adds(i)'
      BY <1>7, <1>8, <1>9, <3>2 DEF Added, Adds
    <3>7. n + 1 \in 1 .. n + 1
      OBVIOUS
    <3> QED
      BY <1>5, <1>13, <3>1, <3>3, <3>4, <3>5, <3>6, <3>7 DEF FilterInv
  <2> QED
    BY <2>2, <2>3
<1>18. AskedInv'
  <2>1. SUFFICES ASSUME NEW c \in Corrections \ crowded'
                 PROVE  Settled(c)'
    BY <1>2 DEF AskedInv, Activations
  <2>2. Corrects(c) = {}
    BY <1>7, <2>1, PendingTasks
  <2>3. Corrects(c)' = {}
    BY <1>6, <1>8, <1>9, <2>2 DEF Corrects
  <2>4. this' = o
    BY <1>5, <1>7 DEF this
  <2>5. asked'[c] = IF c = a.correction THEN a.value ELSE 0
    BY <1>2
  <2>6. a.value \in Values /\ a.value # 0
    BY NamesAssumption DEF Activations
  <2>7. CASE c # a.correction
    <3>1. Find(this, c)' = {}
      BY <1>6, <2>4, <2>7 DEF Find
    <3> QED
      BY <2>3, <2>5, <2>7, <3>1 DEF Settled
  <2>8. CASE c = a.correction
    <3>1. a.correction # None
      BY <2>8, NamesAssumption
    <3>2. PICK j \in m + 1 .. M : o.corrections = {j} /\ filters'[j].name = c
                                  /\ filters'[j].value = a.value
      BY <1>6, <2>8, <3>1
    <3>3. Find(this, c)' = {j}
      BY <2>4, <3>2 DEF Find
    <3> QED
      BY <2>3, <2>5, <2>6, <2>8, <3>2, <3>3 DEF Settled
  <2> QED
    BY <2>7, <2>8
<1> QED
  BY <1>8, <1>14, <1>15, <1>16, <1>17, <1>18 DEF FInv

-----------------------------------------------------------------------------
(* Corrections                                                             *)

\* The steps below take and post no start.
LEMMA StartsKeep ==
  ASSUME DueInv, CrossInv, RefsInv, Len(options') = Len(options), NotPosting,
         Of("start")' = Of("start"), current' = current,
         main' = main \/ (main.kind \notin Changing /\ main'.kind \notin Changing),
         crossed \ {"camera"} \subseteq crossed'
  PROVE  DueInv' /\ CrossInv' /\ \A k : Due(k)' <=> Due(k)
<1>1. /\ \A k : /\ Posting(k)' <=> Posting(k)
                /\ Started(k)' <=> Started(k)
                /\ Applying(k)' <=> Applying(k)
                /\ Due(k)' <=> Due(k)
      /\ Starting' <=> Starting
  BY DueStays DEF Changing
<1>2. DueInv'
  BY <1>1 DEF DueInv
<1>3. CrossInv'
  BY <1>1, CrossStays DEF Changing
<1> QED
  BY <1>1, <1>2, <1>3

\* A filter that is there is adjusted.
LEMMA AdjustKeeps ==
  ASSUME RefsInv, FInv, NEW c \in Corrections, NEW v \in Values, NEW j \in Find(this, c),
         filters' = [filters EXCEPT ![j].value = v], UNCHANGED looper,
         Receives("correction"), Asks(c, v),
         UNCHANGED <<options, current, server, reader, crossed>>
  PROVE  FInv'
<1>1. PICK n \in Nat, m \in Nat : n = Len(options) /\ m = Len(filters)
  BY Current
<1>2. j \in 1 .. m /\ filters[j].name = c /\ filters \in Seq(Filters)
  BY <1>1, Referred DEF Find, this, RefsInv
<1>3. /\ Len(filters') = m
      /\ \A i \in 1 .. m : filters'[i] = IF i = j THEN [filters[j] EXCEPT !.value = v] ELSE filters[i]
  BY <1>1, <1>2
<1>4. PICK g \in Filters : g = filters[j]
  BY <1>1, <1>2
<1>5. \A i \in 1 .. m : /\ filters'[i].name = filters[i].name
                        /\ filters'[i].applied = filters[i].applied
                        /\ filters'[i].value = IF i = j THEN v ELSE filters[i].value
  BY <1>3, <1>4 DEF Filters
<1>6. main' = main /\ RecordsKept /\ NotPosting
  BY DEF Receives, RecordsKept, NotPosting
<1>7. Of("start")' = Of("start") /\ Of("correction")' = Of("correction") /\ OnceInv'
  BY DEF Of, OnceInv, FInv
<1>8. DueInv' /\ CrossInv' /\ \A k : Due(k)' <=> Due(k)
  BY <1>6, <1>7, StartsKeep DEF FInv, RecordsKept
<1>9. NamesInv' /\ FiltersInv'
  BY <1>1, <1>3, <1>5, <1>6, <1>7, <1>8, NamesStay, FiltersStay DEF FInv
<1>10. /\ asked \in [Corrections -> Values \cup {0}] /\ asked' = [asked EXCEPT ![c] = v]
       /\ crowded \subseteq crowded'
       /\ c \notin crowded' => ~Pending(c)
  BY DEF FInv, AskedInv, Asks
<1>11. \A d : Find(this, d)' = Find(this, d)
  BY <1>1, <1>5, Referred DEF Find, this
<1>12. \A d : Corrects(d)' = Corrects(d)
  BY <1>1, <1>5, <1>7, Referred DEF Corrects
<1>13. ASSUME NEW d \in Corrections \ crowded'
       PROVE  Settled(d)'
  <2>1. Settled(d)
    BY <1>10, <1>13 DEF FInv, AskedInv
  <2>2. CASE d # c
    <3>1. asked'[d] = asked[d]
      BY <1>10, <1>13, <2>2
    <3>2. \A i \in Find(this, d) : filters'[i].value = filters[i].value
      <4>1. \A i \in Find(this, d) : i \in 1 .. m /\ filters[i].name = d
        BY <1>1, Referred DEF Find, this
      <4> QED
        BY <1>2, <1>5, <2>2, <4>1
    <3> QED
      BY <1>11, <1>12, <2>1, <3>1, <3>2 DEF Settled
  <2>3. CASE d = c
    <3>1. Corrects(c) = {}
      BY <1>10, <1>13, <2>3, PendingTasks
    <3>2. Find(this, c) = {j}
      BY <2>1, <2>3 DEF Settled
    <3>3. asked'[c] = v /\ v # 0
      BY <1>10, NamesAssumption
    <3> QED
      BY <1>2, <1>5, <1>11, <1>12, <2>3, <3>1, <3>2, <3>3 DEF Settled
  <2> QED
    BY <2>2, <2>3
<1>14. AskedInv'
  BY <1>10, <1>13 DEF AskedInv
<1> QED
  BY <1>7, <1>8, <1>9, <1>14 DEF FInv

\* A filter is created, and on its way.
LEMMA CreateKeeps ==
  ASSUME RefsInv, FInv, NEW c \in Corrections, NEW v \in Values, Find(this, c) = {},
         Create(c, v), Receives("correction"), Asks(c, v),
         UNCHANGED <<options, current, server, reader, crossed>>
  PROVE  FInv'
<1>1. PICK n \in Nat, m \in Nat : n = Len(options) /\ m = Len(filters)
  BY Current
<1>2. filters \in Seq(Filters)
  BY DEF RefsInv
<1>3. PICK g : g = NewFilter(c, 0, 0)
  OBVIOUS
<1>4. /\ Len(filters') = m + 1 /\ filters'[m + 1] = g
      /\ \A i \in 1 .. m : filters'[i] = filters[i]
  BY <1>1, <1>2, <1>3 DEF Create
<1>5. g.name = c /\ g.applied = 0
  BY <1>3 DEF NewFilter
<1>6. PICK t : looper' = Append(looper, t) /\ t.kind = "correction" /\ t.filter = m + 1 /\ t.value = v
  <2>1. PICK u : u = [kind |-> "correction", filter |-> m + 1, value |-> v]
    OBVIOUS
  <2>2. looper' = Append(looper, u)
    BY <1>4, <2>1 DEF Create, Posts
  <2> QED
    BY <2>1, <2>2
<1>7. \A K : Of(K)' = Of(K) \cup (IF t.kind = K THEN {t} ELSE {})
  BY <1>6, OfPosted
<1>8. Of("start")' = Of("start") /\ Of("correction")' = Of("correction") \cup {t}
  BY <1>6, <1>7
<1>9. /\ \A k \in 1 .. n : /\ options[k].effect \in 0 .. m
                           /\ options[k].corrections \subseteq 1 .. m
                           /\ options[k].flips \in [Axes -> 0 .. m]
      /\ \A s \in Of("correction") : s.kind = "correction" /\ s.filter \in 1 .. m
      /\ main.kind = "effect" => main.arg \in 0 .. m
      /\ current \in 1 .. n
  BY <1>1, Referred
<1>10. m + 1 \notin 0 .. m
  OBVIOUS
<1>11. OnceInv'
  <2>1. \A s \in Of(t.kind) : ~SameSubject(s, t)
    BY <1>6, <1>9, <1>10 DEF SameSubject
  <2> QED
    BY <1>6, <2>1, OncePosted DEF FInv
<1>12. main' = main /\ RecordsKept /\ NotPosting
  BY DEF Receives, RecordsKept, NotPosting
<1>13. DueInv' /\ CrossInv' /\ \A k : Due(k)' <=> Due(k)
  BY <1>8, <1>12, StartsKeep DEF FInv, RecordsKept
<1>14. NamesInv'
  <2>1. ASSUME NEW k \in 1 .. n
        PROVE  /\ options[k].effect # 0 => filters'[options[k].effect].name \in Effects
               /\ \A i \in options[k].corrections : filters'[i].name \in Corrections
               /\ \A x \in Axes : options[k].flips[x] # 0 =>
                                    filters'[options[k].flips[x]].name = x
    <3>1. /\ options[k].effect # 0 => options[k].effect \in 1 .. m
          /\ \A x \in Axes : options[k].flips[x] # 0 => options[k].flips[x] \in 1 .. m
      BY <1>9
    <3>2. /\ options[k].effect # 0 => filters[options[k].effect].name \in Effects
          /\ \A i \in options[k].corrections : filters[i].name \in Corrections
          /\ \A x \in Axes : options[k].flips[x] # 0 => filters[options[k].flips[x]].name = x
      BY <1>1 DEF FInv, NamesInv
    <3> QED
      BY <1>4, <1>9, <3>1, <3>2
  <2>2. \A s \in Of("correction")' : filters'[s.filter].name \in Corrections
    BY <1>4, <1>5, <1>6, <1>8, <1>9 DEF FInv, NamesInv
  <2>3. main'.kind = "effect" /\ main'.arg # 0 => filters'[main'.arg].name \in Effects
    BY <1>4, <1>9, <1>12 DEF FInv, NamesInv
  <2> QED
    BY <1>1, <2>1, <2>2, <2>3 DEF NamesInv
<1>15. FiltersInv'
  <2>1. SUFFICES ASSUME NEW i \in 1 .. m + 1, Change(filters'[i]) \notin crossed'
                 PROVE  FilterInv(i)'
    BY <1>4 DEF FiltersInv, Change
  <2>2. CASE i \in 1 .. m
    <3>1. filters'[i] = filters[i] /\ FilterInv(i)
      BY <1>1, <1>4, <2>1, <2>2 DEF FInv, FiltersInv, Change
    <3>2. \A k \in 1 .. n : Holds(k, i)' <=> Holds(k, i)
      BY <3>1 DEF Holds
    <3>3. \A k \in 1 .. n : Exchanged(k, i)' <=> Exchanged(k, i)
      BY <1>12 DEF Exchanged
    <3>4. (Added(i)' <=> Added(i)) /\ (Adds(i)' <=> Adds(i))
      BY <1>6, <1>8, <1>10, <1>12, <2>2 DEF Added, Adds
    <3> QED
      BY <1>1, <1>13, <3>1, <3>2, <3>3, <3>4, FilterStays
  <2>3. CASE i = m + 1
    <3>1. \A k \in 1 .. n : ~Holds(k, i)'
      BY <1>9, <1>10, <2>3 DEF Holds
    <3>2. ~Added(i)'
      BY <1>9, <1>10, <1>12, <2>3 DEF Added
    <3> QED
      BY <1>1, <1>4, <1>5, <2>3, <3>1, <3>2 DEF FilterInv
  <2> QED
    BY <2>1, <2>2, <2>3
<1>16. /\ asked \in [Corrections -> Values \cup {0}] /\ asked' = [asked EXCEPT ![c] = v]
       /\ crowded \subseteq crowded'
       /\ c \notin crowded' => ~Pending(c)
  BY DEF FInv, AskedInv, Asks
<1>17. \A d : Find(this, d)' = Find(this, d)
  BY <1>1, <1>4, <1>9 DEF Find, this
<1>18. \A d : Corrects(d)' = IF d = c THEN Corrects(c) \cup {t} ELSE Corrects(d)
  <2>1. filters'[t.filter].name = c
    BY <1>4, <1>5, <1>6
  <2>2. \A s \in Of("correction") : filters'[s.filter] = filters[s.filter]
    BY <1>4, <1>9
  <2> QED
    BY <1>8, <2>1, <2>2 DEF Corrects
<1>19. ASSUME NEW d \in Corrections \ crowded'
       PROVE  Settled(d)'
  <2>1. Settled(d)
    BY <1>16, <1>19 DEF FInv, AskedInv
  <2>2. CASE d # c
    <3>1. asked'[d] = asked[d]
      BY <1>16, <1>19, <2>2
    <3>2. \A i \in Find(this, d) : filters'[i].value = filters[i].value
      BY <1>4, <1>9 DEF Find, this
    <3> QED
      BY <1>17, <1>18, <2>1, <2>2, <3>1, <3>2 DEF Settled
  <2>3. CASE d = c
    <3>1. Corrects(c)' = {t}
      BY <1>16, <1>18, <1>19, <2>3, PendingTasks
    <3>2. asked'[c] = v /\ v # 0
      BY <1>16, NamesAssumption
    <3> QED
      BY <1>6, <1>17, <2>3, <3>1, <3>2 DEF Settled
  <2> QED
    BY <2>2, <2>3
<1>20. AskedInv'
  BY <1>16, <1>19 DEF AskedInv
<1> QED
  BY <1>11, <1>13, <1>14, <1>15, <1>20 DEF FInv

\* Either way.
LEMMA applyCorrectionFilterKeeps ==
  ASSUME RefsInv, FInv, applyCorrectionFilter
  PROVE  FInv'
<1>1. PICK c \in Corrections, v \in Values :
        /\ IF Find(this, c) = {} THEN Create(c, v)
           ELSE /\ \E i \in Find(this, c) : filters' = [filters EXCEPT ![i].value = v]
                /\ UNCHANGED looper
        /\ Asks(c, v)
  BY DEF applyCorrectionFilter
<1>2. Receives("correction") /\ UNCHANGED <<options, current, server, reader, crossed>>
  BY DEF applyCorrectionFilter
<1>3. CASE Find(this, c) = {}
  BY <1>1, <1>2, <1>3, CreateKeeps
<1>4. CASE Find(this, c) # {}
  BY <1>1, <1>2, <1>4, AdjustKeeps
<1> QED
  BY <1>3, <1>4

\* A correction arrives in the options in use.
LEMMA CorrectionTaskKeeps ==
  ASSUME RefsInv, FInv, NEW i \in 1 .. Len(looper), CorrectionTask(i)
  PROVE  FInv'
<1>1. PICK n \in Nat, m \in Nat : n = Len(options) /\ m = Len(filters)
  BY Current
<1>2. PICK t : t = looper[i]
  OBVIOUS
<1>3. /\ Begins(i, "correction") /\ main' = main /\ main.kind = "idle"
      /\ current' = current /\ reader' = reader /\ asked' = asked /\ crowded' = crowded
  BY DEF CorrectionTask, Begins, Idle, Step, wishes
<1>4. /\ Of("start")' = Of("start") /\ OnceInv'
      /\ Of("correction")' = Of("correction") \ {t} /\ t \in Of("correction")
  BY <1>2, <1>3, OfTaken, OnceTaken DEF FInv
<1>5. /\ \A s \in Of("correction") : s.filter \in 1 .. m /\ s.value \in Values
      /\ \A s \in Of("correction") : filters[s.filter].name \in Corrections
      /\ current \in 1 .. n
  BY <1>1, Referred DEF FInv, NamesInv
<1>6. PICK f \in 1 .. m, v \in Values : f = t.filter /\ v = t.value /\ filters[f].name \in Corrections
  BY <1>4, <1>5
<1>7. \A s \in Of("correction") : s.filter = f => s = t
  BY <1>4, <1>6, Subjects DEF FInv
<1>8. PICK g \in Filters : g = filters[f] /\ filters \in Seq(Filters)
  BY <1>1 DEF RefsInv
<1>9. filters' = [filters EXCEPT ![f] = [g EXCEPT !.value = v, !.applied = g.applied + 1]]
  <2>1. filters' = [filters EXCEPT ![f].value = v, ![f].applied = @ + 1]
    BY <1>2, <1>6 DEF CorrectionTask
  <2> QED
    BY <1>1, <1>8, <2>1
<1>10. /\ Len(filters') = m
       /\ \A j \in 1 .. m : j # f => filters'[j] = filters[j]
       /\ filters'[f].name = filters[f].name /\ filters'[f].value = v
       /\ filters'[f].applied = filters[f].applied + 1
  BY <1>1, <1>8, <1>9 DEF Filters
<1>11. PICK O : O = OptionsUpTo(m) /\ options \in Seq(O)
  BY <1>1 DEF RefsInv
<1>12. PICK o \in O : o = options[current]
  BY <1>1, <1>5, <1>11
<1>13. options' = [options EXCEPT ![current] = [o EXCEPT !.corrections = @ \cup {f}]]
  BY <1>2, <1>6, <1>12 DEF CorrectionTask
<1>14. /\ Len(options') = n
       /\ \A k \in 1 .. n : k # current => options'[k] = options[k]
       /\ options'[current].effect = options[current].effect
       /\ options'[current].flips = options[current].flips
       /\ options'[current].corrections = options[current].corrections \cup {f}
  BY <1>1, <1>5, <1>11, <1>12, <1>13 DEF OptionsUpTo
<1>15. crossed' = IF Starting THEN crossed \cup {filters[f].name} ELSE crossed
  BY <1>2, <1>6 DEF CorrectionTask, Crosses
<1>16. DueInv' /\ CrossInv' /\ \A k : Due(k)' <=> Due(k)
  BY <1>1, <1>3, <1>4, <1>14, <1>15, StartsKeep DEF FInv, NotPosting
<1>17. \A j \in 1 .. m : filters'[j].name = filters[j].name
  BY <1>10
<1>18. \A k \in 1 .. n : /\ options[k].effect \in 0 .. m
                         /\ options[k].corrections \subseteq 1 .. m
                         /\ options[k].flips \in [Axes -> 0 .. m]
  BY <1>1, Referred
<1>19. NamesInv'
  <2>1. ASSUME NEW k \in 1 .. n
        PROVE  /\ options'[k].effect # 0 => filters'[options'[k].effect].name \in Effects
               /\ \A j \in options'[k].corrections : filters'[j].name \in Corrections
               /\ \A x \in Axes : options'[k].flips[x] # 0 =>
                                    filters'[options'[k].flips[x]].name = x
    <3>1. /\ options[k].effect # 0 => options[k].effect \in 1 .. m
          /\ \A x \in Axes : options[k].flips[x] # 0 => options[k].flips[x] \in 1 .. m
      BY <1>18
    <3>2. /\ options[k].effect # 0 => filters[options[k].effect].name \in Effects
          /\ \A j \in options[k].corrections : filters[j].name \in Corrections
          /\ \A x \in Axes : options[k].flips[x] # 0 => filters[options[k].flips[x]].name = x
      BY <1>1 DEF FInv, NamesInv
    <3>3. /\ options'[k].effect = options[k].effect /\ options'[k].flips = options[k].flips
          /\ options'[k].corrections \subseteq options[k].corrections \cup {f}
      BY <1>14
    <3> QED
      BY <1>6, <1>17, <1>18, <3>1, <3>2, <3>3
  <2>2. \A s \in Of("correction")' : filters'[s.filter].name \in Corrections
    BY <1>4, <1>5, <1>17
  <2> QED
    BY <1>3, <1>14, <2>1, <2>2 DEF NamesInv
<1>20. FiltersInv'
  <2>1. SUFFICES ASSUME NEW j \in 1 .. m, Change(filters'[j]) \notin crossed'
                 PROVE  FilterInv(j)'
    BY <1>10 DEF FiltersInv, Change
  <2>2. FilterInv(j)
    BY <1>1, <1>15, <1>17, <2>1 DEF FInv, FiltersInv, Change
  <2>3. \A k : ~Exchanged(k, j)' /\ ~Exchanged(k, j) /\ ~Added(j) /\ ~Added(j)'
    BY <1>3 DEF Exchanged, Added
  <2>4. CASE j # f
    <3>1. \A k \in 1 .. n : Holds(k, j)' <=> Holds(k, j)
      BY <1>14, <1>17, <2>4 DEF Holds
    <3>2. Adds(j)' <=> Adds(j)
      BY <1>4, <1>6, <2>4 DEF Adds
    <3> QED
      BY <1>1, <1>10, <1>14, <1>16, <2>2, <2>3, <2>4, <3>1, <3>2, FilterStays
  <2>5. CASE j = f
    <3>1. filters[f].name \notin Effects /\ filters[f].name \notin Axes
      BY <1>6, CategoriesAssumption
    <3>2. ~Starting
      BY <1>15, <1>17, <2>1, <2>5, <3>1 DEF Change
    <3>3. \A k : ~Due(k)
      BY <1>3, <3>2, StartingTasks DEF Due, Posting, Started, Applying
    <3>4. Adds(f) /\ ~Adds(f)'
      BY <1>4, <1>6, <1>7 DEF Adds
    <3>5. \A k \in 1 .. n : ~Holds(k, f)
      BY <1>1, <2>2, <2>5, <3>4 DEF FilterInv
    <3>6. filters'[f].applied = 1
      BY <1>1, <1>10, <2>2, <2>3, <2>5, <3>5 DEF FilterInv
    <3>7. \A k \in 1 .. n : Holds(k, f)' <=> k = current
      BY <1>5, <1>6, <1>14, <1>17, <3>1, <3>5 DEF Holds
    <3> QED
      BY <1>5, <1>14, <1>16, <2>3, <2>5, <3>3, <3>4, <3>6, <3>7 DEF FilterInv
  <2> QED
    BY <2>4, <2>5
<1>21. ASSUME NEW d \in Corrections \ crowded'
       PROVE  Settled(d)'
  <2>1. Settled(d)
    BY <1>3, <1>21 DEF FInv, AskedInv
  <2>2. Corrects(d)' = Corrects(d) \ {t}
    BY <1>4, <1>5, <1>17 DEF Corrects
  <2>3. this'.corrections = this.corrections \cup {f} /\ this.corrections \subseteq 1 .. m
    BY <1>3, <1>5, <1>14, <1>18 DEF this
  <2>4. CASE d # filters[f].name
    <3>1. Find(this, d)' = Find(this, d) /\ f \notin Find(this, d)
      BY <1>17, <2>3, <2>4 DEF Find
    <3>2. t \notin Corrects(d)
      BY <1>6, <2>4 DEF Corrects
    <3>3. \A j \in Find(this, d) : filters'[j].value = filters[j].value
      BY <1>10, <2>3, <3>1 DEF Find
    <3> QED
      BY <1>3, <2>1, <2>2, <3>1, <3>2, <3>3 DEF Settled
  <2>5. CASE d = filters[f].name
    <3>1. t \in Corrects(d)
      BY <1>4, <1>6, <2>5 DEF Corrects
    <3>2. asked[d] # 0 /\ Find(this, d) = {} /\ Corrects(d) = {t} /\ t.value = asked[d]
      BY <2>1, <3>1 DEF Settled
    <3>3. Find(this, d)' = {f}
      <4>1. Find(this, d)' = Find(this, d) \cup {f}
        BY <1>17, <2>3, <2>5 DEF Find
      <4> QED
        BY <3>2, <4>1
    <3> QED
      BY <1>3, <1>6, <1>10, <2>2, <3>2, <3>3 DEF Settled
  <2> QED
    BY <2>4, <2>5
<1>22. AskedInv'
  BY <1>3, <1>21 DEF FInv, AskedInv
<1> QED
  BY <1>4, <1>16, <1>19, <1>20, <1>22 DEF FInv

-----------------------------------------------------------------------------
(* Activations, effects and flips                                          *)

\* The filters that came with the options are applied, once.
LEMMA applyOptionsToStreamKeeps ==
  ASSUME RefsInv, FInv, applyOptionsToStream
  PROVE  FInv'
<1>1. PICK n \in Nat, m \in Nat : n = Len(options) /\ m = Len(filters)
  BY Current
<1>2. /\ main.kind = "apply" /\ main'.kind = "prepare" /\ main.arg \in 1 .. n
      /\ current' = current /\ reader' = reader /\ asked' = asked /\ crowded' = crowded
      /\ options' = options /\ looper' = looper /\ crossed' = crossed
  BY <1>1, Referred DEF applyOptionsToStream, GoesOn, Step, wishes
<1>3. PICK a \in 1 .. n : a = main.arg
  BY <1>2
<1>4. PICK o : o = options[a]
  OBVIOUS
<1>5. PICK h \in Seq(Filters) : h = filters
  BY DEF RefsInv
<1>6. filters' = [i \in 1 .. m |-> IF i = o.effect \/ i \in o.corrections
                                   THEN [h[i] EXCEPT !.applied = @ + 1] ELSE h[i]]
  BY <1>1, <1>3, <1>4, <1>5 DEF applyOptionsToStream
<1>7. /\ Len(filters') = m
      /\ \A i \in 1 .. m : /\ filters'[i].name = filters[i].name
                           /\ filters'[i].value = filters[i].value
                           /\ filters'[i].applied =
                                IF i = o.effect \/ i \in o.corrections
                                THEN filters[i].applied + 1 ELSE filters[i].applied
  <2>1. \A i \in 1 .. m : h[i] \in Filters
    BY <1>1, <1>5
  <2>2. \A g \in Filters : /\ [g EXCEPT !.applied = @ + 1].name = g.name
                           /\ [g EXCEPT !.applied = @ + 1].value = g.value
                           /\ [g EXCEPT !.applied = @ + 1].applied = g.applied + 1
    BY DEF Filters
  <2>3. Len(filters') = m
    BY <1>6
  <2> QED
    BY <1>5, <1>6, <2>1, <2>2, <2>3
<1>8. Of("start")' = Of("start") /\ Of("correction")' = Of("correction") /\ OnceInv'
  BY <1>2 DEF Of, OnceInv, FInv
<1>9. \A k : /\ Posting(k)' <=> Posting(k)
             /\ Started(k)' <=> Started(k)
             /\ Applying(k) <=> k = a
             /\ ~Applying(k)'
  BY <1>2, <1>3, <1>8 DEF Posting, Started, Applying
<1>10. ~Posting(a) /\ ~Started(a)
  BY <1>1, <1>9 DEF FInv, DueInv
<1>11. Due(a) /\ ~Due(a)' /\ \A k : k # a => (Due(k)' <=> Due(k))
  BY <1>9, <1>10 DEF Due
<1>12. DueInv'
  BY <1>2, <1>9 DEF FInv, DueInv
<1>13. CrossInv'
  <2>1. Starting' => Starting
    BY <1>2, <1>8, StartingTasks
  <2> QED
    BY <1>2, <2>1, CrossStays DEF FInv
<1>14. RecordsKept
  BY <1>2 DEF RecordsKept
<1>15. NamesInv'
  BY <1>1, <1>2, <1>7, <1>8, <1>14, NamesStay DEF FInv
<1>16. FiltersInv'
  <2>1. SUFFICES ASSUME NEW i \in 1 .. m, Change(filters'[i]) \notin crossed'
                 PROVE  FilterInv(i)'
    BY <1>7 DEF FiltersInv, Change
  <2>2. FilterInv(i)
    BY <1>1, <1>2, <1>7, <2>1 DEF FInv, FiltersInv, Change
  <2>3. \A k : /\ ~Exchanged(k, i)' /\ ~Exchanged(k, i)
               /\ ~Added(i) /\ ~Added(i)' /\ (Adds(i)' <=> Adds(i))
    BY <1>2, <1>8 DEF Exchanged, Added, Adds
  <2>4. \A k \in 1 .. n : Holds(k, i)' <=> Holds(k, i)
    BY <1>1, <1>7, <1>14, HoldsStays
  <2>5. CASE Holds(a, i)
    <3>1. filters[i].applied = 0 /\ filters[i].name \notin Axes
      BY <1>1, <1>11, <2>2, <2>5 DEF FilterInv
    <3>2. i = o.effect \/ i \in o.corrections
      BY <1>3, <1>4, <2>5, <3>1 DEF Holds
    <3>3. filters'[i].applied = 1
      BY <1>7, <3>1, <3>2
    <3>4. \A k \in 1 .. n : Holds(k, i) => k = a
      BY <1>1, <2>2, <2>5 DEF FilterInv
    <3>5. ~Adds(i)
      BY <1>1, <2>2, <2>5 DEF FilterInv
    <3> QED
      BY <1>1, <1>2, <1>11, <2>3, <2>4, <2>5, <3>3, <3>4, <3>5 DEF FilterInv
  <2>6. CASE ~Holds(a, i)
    <3>1. i # o.effect
      BY <1>1, <1>3, <1>4, <2>1, <2>6 DEF FInv, NamesInv, Holds
    <3>2. i \notin o.corrections
      BY <1>1, <1>3, <1>4, <2>6 DEF FInv, NamesInv, Holds
    <3>3. filters'[i].applied = filters[i].applied
      BY <1>7, <3>1, <3>2
    <3> QED
      BY <1>1, <1>2, <1>7, <1>11, <2>2, <2>3, <2>4, <2>6, <3>3, FilterStays
  <2> QED
    BY <2>5, <2>6
<1>17. AskedInv'
  <2>1. this'.corrections = this.corrections
    BY <1>2 DEF this
  <2> QED
    BY <1>1, <1>2, <1>7, <1>8, <2>1, AskedStays DEF FInv
<1> QED
  BY <1>8, <1>12, <1>13, <1>15, <1>16, <1>17 DEF FInv

\* The filters there were: filter j is applied once less.
Less(j) ==
  \A i \in 1 .. Len(filters) : /\ filters'[i].name = filters[i].name
                               /\ filters'[i].value = filters[i].value
                               /\ i # j => filters'[i].applied = filters[i].applied
                               /\ i = j /\ filters[i].applied = 1 => filters'[i].applied = 0

\* A filter is applied once less, and another one may take its place.
LEMMA Swapped ==
  ASSUME RefsInv, NEW m \in Nat, m = Len(filters), NEW j \in 0 .. m, NEW name,
         \/ filters' = RemoveFilter(j)
         \/ filters' = Append(RemoveFilter(j), NewFilter(name, 0, 1))
  PROVE  /\ Less(j)
         /\ filters' = RemoveFilter(j) => Len(filters') = m
         /\ filters' = Append(RemoveFilter(j), NewFilter(name, 0, 1)) =>
              /\ Len(filters') = m + 1
              /\ filters'[m + 1].name = name /\ filters'[m + 1].applied = 1
<1>1. filters \in Seq(Filters)
  BY DEF RefsInv
<1>2. PICK r \in Seq(Filters) : r = RemoveFilter(j) /\ Len(r) = m
  <2>1. RemoveFilter(j) \in Seq(Filters) /\ Len(RemoveFilter(j)) = Len(filters)
    BY <1>1, FilterRemoved
  <2> QED
    BY <2>1
<1>3. \A i \in 1 .. m : i # j => r[i] = filters[i]
  BY <1>1, <1>2 DEF RemoveFilter
<1>4. ASSUME j # 0
      PROVE  /\ r[j].name = filters[j].name /\ r[j].value = filters[j].value
             /\ filters[j].applied = 1 => r[j].applied = 0
  <2>1. PICK g \in Filters : g = filters[j] /\ j \in 1 .. m
    BY <1>1, <1>4
  <2>2. CASE g.applied > 0
    <3>1. r = [filters EXCEPT ![j] = [g EXCEPT !.applied = g.applied - 1]]
      BY <1>2, <1>4, <2>1, <2>2 DEF RemoveFilter
    <3>2. r[j] = [g EXCEPT !.applied = g.applied - 1]
      BY <1>1, <2>1, <3>1
    <3> QED
      BY <2>1, <3>2 DEF Filters
  <2>3. CASE ~(g.applied > 0)
    <3>1. r = filters /\ g.applied # 1
      BY <1>2, <2>1, <2>3 DEF RemoveFilter
    <3> QED
      BY <2>1, <3>1
  <2> QED
    BY <2>2, <2>3
<1>5. \A i \in 1 .. m : /\ r[i].name = filters[i].name /\ r[i].value = filters[i].value
                        /\ i # j => r[i].applied = filters[i].applied
                        /\ i = j /\ filters[i].applied = 1 => r[i].applied = 0
  <2>1. \A i \in 1 .. m : i # 0
    OBVIOUS
  <2> QED
    BY <1>3, <1>4, <2>1
<1>6. CASE filters' = r
  <2>1. filters' # Append(r, NewFilter(name, 0, 1))
    <3>1. Len(Append(r, NewFilter(name, 0, 1))) = m + 1
      BY <1>2
    <3> QED
      BY <1>2, <1>6, <3>1
  <2> QED
    BY <1>2, <1>5, <1>6, <2>1 DEF Less
<1>7. CASE filters' = Append(r, NewFilter(name, 0, 1))
  <2>1. PICK g : g = NewFilter(name, 0, 1) /\ g.name = name /\ g.applied = 1
    BY DEF NewFilter
  <2>2. /\ Len(filters') = m + 1 /\ filters'[m + 1] = g
        /\ \A i \in 1 .. m : filters'[i] = r[i]
    BY <1>2, <1>7, <2>1
  <2>3. filters' # r
    BY <1>2, <2>2
  <2> QED
    BY <1>2, <1>5, <2>1, <2>2, <2>3 DEF Less
<1> QED
  BY <1>2, <1>6, <1>7

\* The recorded effect is removed, and the new one is applied.
LEMMA EffectTaskKeeps ==
  ASSUME RefsInv, FInv, NEW i \in 1 .. Len(looper), EffectTask(i)
  PROVE  FInv'
<1>1. PICK n \in Nat, m \in Nat : n = Len(options) /\ m = Len(filters)
  BY Current
<1>2. Begins(i, "effect") /\ options' = options
  BY DEF EffectTask
<1>3. /\ \A k \in 1 .. n : /\ options[k].effect \in 0 .. m
                           /\ options[k].corrections \subseteq 1 .. m
                           /\ options[k].flips \in [Axes -> 0 .. m]
      /\ \A t \in Of("correction") : t.filter \in 1 .. m
      /\ current \in 1 .. n
  BY <1>1, Referred
<1>4. PICK e \in 0 .. m : e = options[current].effect
  BY <1>3
<1>5. PICK name : name = looper[i].name /\ (name # None => name \in Effects)
  <2>1. looper[i].name \in Effects \cup {None}
    BY <1>2, BeginsRefs, TaskFields, Current
  <2> QED
    BY <2>1
<1>6. PICK M \in {m, m + 1} :
        /\ Len(filters') = M
        /\ \A j \in 1 .. m : /\ filters'[j].name = filters[j].name
                             /\ filters'[j].value = filters[j].value
                             /\ j # e => filters'[j].applied = filters[j].applied
                             /\ j = e /\ filters[j].applied = 1 => filters'[j].applied = 0
        /\ M = m + 1 => filters'[M].name \in Effects /\ filters'[M].applied = 1
        /\ main'.arg = IF M = m + 1 THEN M ELSE 0
  <2>1. filters' = IF name = None THEN RemoveFilter(e)
                   ELSE Append(RemoveFilter(e), NewFilter(name, 0, 1))
    BY <1>4, <1>5 DEF EffectTask, this
  <2>2. main'.arg = IF name = None THEN 0 ELSE Len(filters')
    BY <1>5 DEF EffectTask, Step
  <2>3. \/ filters' = RemoveFilter(e)
        \/ filters' = Append(RemoveFilter(e), NewFilter(name, 0, 1))
    BY <2>1
  <2>4. Less(e)
    BY <1>1, <2>3, Swapped
  <2>5. name = None => Len(filters') = m
    BY <1>1, <2>1, <2>3, Swapped
  <2>6. name # None => /\ Len(filters') = m + 1
                       /\ filters'[m + 1].name = name /\ filters'[m + 1].applied = 1
    BY <1>1, <2>1, <2>3, Swapped
  <2>7. CASE name = None
    BY <1>1, <2>2, <2>4, <2>5, <2>7 DEF Less
  <2>8. CASE name # None
    BY <1>1, <1>5, <2>2, <2>4, <2>6, <2>8 DEF Less
  <2> QED
    BY <2>7, <2>8
<1>7. /\ main.kind = "idle" /\ main'.kind = "effect" /\ main'.changes = "effect"
      /\ current' = current /\ reader' = reader /\ asked' = asked /\ crowded' = crowded
  BY <1>2 DEF EffectTask, Begins, Step, Idle, wishes
<1>8. Of("start")' = Of("start") /\ Of("correction")' = Of("correction") /\ OnceInv'
  BY <1>2, OfTaken, OnceTaken DEF FInv
<1>9. crossed' = IF Starting THEN crossed \cup {"effect"} ELSE crossed
  BY DEF EffectTask, Crosses
<1>10. RecordsKept /\ NotPosting
  BY <1>2, <1>7 DEF RecordsKept, NotPosting
<1>11. /\ \A k : /\ Posting(k)' <=> Posting(k)
                 /\ Started(k)' <=> Started(k)
                 /\ Applying(k)' <=> Applying(k)
                 /\ Due(k)' <=> Due(k)
       /\ Starting' <=> Starting
  BY <1>7, <1>8, <1>10, DueStays
<1>12. DueInv'
  BY <1>2, <1>11 DEF FInv, DueInv
<1>13. CrossInv'
  BY <1>7, <1>9, <1>11 DEF CrossInv
<1>14. NamesInv'
  BY <1>1, <1>6, <1>8, <1>10, NamesStay DEF FInv
<1>15. FiltersInv'
  <2>1. SUFFICES ASSUME NEW j \in 1 .. M, Change(filters'[j]) \notin crossed'
                 PROVE  FilterInv(j)'
    BY <1>6 DEF FiltersInv, Change
  <2>2. CASE j \in 1 .. m
    <3>1. FilterInv(j)
      BY <1>1, <1>6, <1>9, <2>1, <2>2 DEF FInv, FiltersInv, Change
    <3>2. \A k \in 1 .. n : Holds(k, j)' <=> Holds(k, j)
      BY <1>1, <1>6, <1>10, <2>2, HoldsStays
    <3>3. ~Added(j) /\ ~Added(j)' /\ (Adds(j)' <=> Adds(j))
      BY <1>6, <1>7, <1>8, <2>2 DEF Added, Adds
    <3>4. \A k : ~Exchanged(k, j) /\ (Exchanged(k, j)' <=> k = current /\ j = e)
      BY <1>2, <1>4, <1>7 DEF Exchanged
    <3>5. CASE j # e
      BY <1>1, <1>2, <1>6, <1>11, <2>2, <3>1, <3>2, <3>3, <3>4, <3>5, FilterStays
    <3>6. CASE j = e
      <4>1. filters[j].name \in Effects
        BY <1>1, <1>3, <1>4, <2>2, <3>6 DEF FInv, NamesInv
      <4>2. ~Starting
        BY <1>6, <1>9, <2>1, <2>2, <4>1 DEF Change
      <4>3. \A k : ~Due(k)
        BY <1>7, <4>2, StartingTasks DEF Due, Posting, Started, Applying
      <4>4. Holds(current, j)
        BY <1>4, <3>6, <4>1 DEF Holds
      <4>5. filters[j].applied = 1 /\ ~Adds(j)
        BY <1>1, <1>3, <3>1, <3>4, <4>3, <4>4 DEF FilterInv
      <4>6. filters'[j].applied = 0
        BY <1>6, <2>2, <3>6, <4>5
      <4>7. \A k \in 1 .. n : Holds(k, j) => k = current
        BY <1>1, <1>3, <3>1, <4>4 DEF FilterInv
      <4> QED
        BY <1>1, <1>2, <1>3, <1>11, <3>2, <3>3, <3>4, <3>6, <4>3, <4>4, <4>5, <4>6, <4>7
        DEF FilterInv
    <3> QED
      BY <3>5, <3>6
  <2>3. CASE j \notin 1 .. m
    <3>1. M = m + 1 /\ j = M /\ j \notin 0 .. m /\ filters'[j].applied = 1
      BY <1>6, <2>1, <2>3
    <3>2. \A k \in 1 .. n : ~Holds(k, j)'
      BY <1>2, <1>3, <3>1 DEF Holds
    <3>3. Added(j)'
      BY <1>6, <1>7, <3>1 DEF Added
    <3> QED
      BY <1>1, <1>2, <3>1, <3>2, <3>3 DEF FilterInv
  <2> QED
    BY <2>2, <2>3
<1>16. AskedInv'
  <2>1. this'.corrections = this.corrections
    BY <1>2, <1>7 DEF this
  <2> QED
    BY <1>1, <1>6, <1>7, <1>8, <2>1, AskedStays DEF FInv
<1> QED
  BY <1>8, <1>12, <1>13, <1>14, <1>15, <1>16 DEF FInv

\* The effect is recorded in place of the one that was removed.
LEMMA RecordEffectKeeps ==
  ASSUME RefsInv, FInv, RecordEffect
  PROVE  FInv'
<1>1. PICK n \in Nat, m \in Nat : n = Len(options) /\ m = Len(filters)
  BY Current
<1>2. /\ \A k \in 1 .. n : /\ options[k].effect \in 0 .. m
                           /\ options[k].corrections \subseteq 1 .. m
                           /\ options[k].flips \in [Axes -> 0 .. m]
      /\ current \in 1 .. n
  BY <1>1, Referred
<1>3. /\ main.kind = "effect" /\ main'.kind = "idle"
      /\ current' = current /\ reader' = reader /\ asked' = asked /\ crowded' = crowded
      /\ looper' = looper /\ filters' = filters /\ crossed' = crossed
  BY DEF RecordEffect, GoesOn, Idle, Step, wishes
<1>4. PICK c \in 1 .. n : c = current /\ c = current'
  BY <1>2, <1>3
<1>5. PICK a \in 0 .. m : a = main.arg /\ main.changes = "effect"
  BY <1>1, <1>3, Referred
<1>6. PICK e \in 0 .. m : e = options[current].effect
  BY <1>2
<1>7. PICK O : O = OptionsUpTo(m) /\ options \in Seq(O)
  BY <1>1 DEF RefsInv
<1>8. PICK o \in O : o = options[current]
  BY <1>1, <1>2, <1>7
<1>9. options' = [options EXCEPT ![current] = [o EXCEPT !.effect = a]]
  BY <1>5, <1>8 DEF RecordEffect
<1>10. /\ Len(options') = n
       /\ \A k \in 1 .. n : k # current => options'[k] = options[k]
       /\ options'[current].effect = a
       /\ options'[current].flips = options[current].flips
       /\ options'[current].corrections = options[current].corrections
  BY <1>1, <1>2, <1>7, <1>8, <1>9 DEF OptionsUpTo
<1>11. Of("start")' = Of("start") /\ Of("correction")' = Of("correction") /\ OnceInv'
  BY <1>3 DEF Of, OnceInv, FInv
<1>12. /\ \A k : /\ Posting(k)' <=> Posting(k)
                 /\ Started(k)' <=> Started(k)
                 /\ Applying(k)' <=> Applying(k)
                 /\ Due(k)' <=> Due(k)
       /\ Starting' <=> Starting
  BY <1>3, <1>11, DueStays DEF NotPosting
<1>13. DueInv'
  BY <1>1, <1>10, <1>12 DEF FInv, DueInv
<1>14. CrossInv'
  BY <1>3 DEF CrossInv
<1>15. NamesInv'
  <2>1. ASSUME NEW k \in 1 .. n
        PROVE  /\ options'[k].effect # 0 => filters[options'[k].effect].name \in Effects
               /\ \A i \in options'[k].corrections : filters[i].name \in Corrections
               /\ \A x \in Axes : options'[k].flips[x] # 0 =>
                                    filters[options'[k].flips[x]].name = x
    <3>1. /\ options[k].effect # 0 => filters[options[k].effect].name \in Effects
          /\ \A i \in options[k].corrections : filters[i].name \in Corrections
          /\ \A x \in Axes : options[k].flips[x] # 0 => filters[options[k].flips[x]].name = x
      BY <1>1 DEF FInv, NamesInv
    <3>2. a # 0 => filters[a].name \in Effects
      BY <1>3, <1>5 DEF FInv, NamesInv
    <3> QED
      BY <1>10, <3>1, <3>2
  <2>2. \A t \in Of("correction") : filters[t.filter].name \in Corrections
    BY DEF FInv, NamesInv
  <2> QED
    BY <1>3, <1>10, <1>11, <2>1, <2>2 DEF NamesInv
<1>16. FiltersInv'
  <2>1. SUFFICES ASSUME NEW j \in 1 .. m, Change(filters[j]) \notin crossed
                 PROVE  FilterInv(j)'
    BY <1>1, <1>3 DEF FiltersInv, Change
  <2>2. FilterInv(j)
    BY <1>1, <2>1 DEF FInv, FiltersInv
  <2>3. /\ \A k : ~Exchanged(k, j)' /\ (Exchanged(k, j) <=> k = c /\ j = e)
        /\ ~Added(j)' /\ (Added(j) <=> j = a)
        /\ Adds(j)' <=> Adds(j)
    BY <1>3, <1>4, <1>5, <1>6, <1>11 DEF Exchanged, Added, Adds
  <2>4. \A k \in 1 .. n : k # c => (Holds(k, j)' <=> Holds(k, j))
    BY <1>3, <1>4, <1>10 DEF Holds
  <2>5. j = e \/ j = a => filters[j].name \in Effects
    <3>1. j # 0
      OBVIOUS
    <3> QED
      BY <1>1, <1>2, <1>3, <1>5, <1>6, <3>1 DEF FInv, NamesInv
  <2>6. filters[j].name \in Effects =>
          /\ Holds(c, j) <=> j = e
          /\ Holds(c, j)' <=> j = a
    BY <1>3, <1>4, <1>6, <1>10, CategoriesAssumption DEF Holds
  <2>7. filters[j].name \notin Effects => (Holds(c, j)' <=> Holds(c, j))
    BY <1>3, <1>4, <1>10 DEF Holds
  <2>8. filters[j].name \in Effects => \A k : ~Due(k)
    <3>1. filters[j].name \in Effects => ~Starting
      BY <1>3, <1>5, <2>1 DEF FInv, CrossInv, Change
    <3> QED
      BY <1>3, <3>1, StartingTasks DEF Due, Posting, Started, Applying
  <2>9. CASE j = a
    <3>1. \A k \in 1 .. n : ~Holds(k, j)
      BY <1>1, <2>2, <2>3, <2>9 DEF FilterInv
    <3>2. filters[j].applied = 1
      BY <1>1, <2>2, <2>3, <2>9, <3>1 DEF FilterInv
    <3>3. \A k \in 1 .. n : Holds(k, j)' <=> k = c
      BY <1>2, <2>4, <2>5, <2>6, <2>9, <3>1
    <3>4. ~Adds(j)
      <4>1. \A t \in Of("correction") : filters[t.filter].name \in Corrections
        BY DEF FInv, NamesInv
      <4> QED
        BY <2>5, <2>9, <4>1, CategoriesAssumption DEF Adds
    <3> QED
      BY <1>3, <1>10, <1>12, <2>3, <2>5, <2>8, <2>9, <3>2, <3>3, <3>4 DEF FilterInv
  <2>10. CASE j # a /\ j = e
    <3>1. Holds(c, j) /\ filters[j].applied = 0
      BY <1>1, <1>2, <2>2, <2>3, <2>5, <2>6, <2>10 DEF FilterInv
    <3>2. \A k \in 1 .. n : ~Holds(k, j)'
      BY <1>1, <1>2, <2>2, <2>4, <2>5, <2>6, <2>10, <3>1 DEF FilterInv
    <3> QED
      BY <1>3, <1>10, <2>3, <3>1, <3>2 DEF FilterInv
  <2>11. CASE j # a /\ j # e
    <3>1. \A k \in 1 .. n : Holds(k, j)' <=> Holds(k, j)
      BY <2>4, <2>6, <2>7, <2>11
    <3> QED
      BY <1>1, <1>3, <1>10, <1>12, <2>2, <2>3, <2>11, <3>1, FilterStays
  <2> QED
    BY <2>9, <2>10, <2>11
<1>17. AskedInv'
  <2>1. this'.corrections = this.corrections
    BY <1>3, <1>10 DEF this
  <2> QED
    BY <1>3, <1>11, <2>1, AskedStays DEF FInv
<1> QED
  BY <1>11, <1>13, <1>14, <1>15, <1>16, <1>17 DEF FInv

\* A flip is undone, or made and recorded where it was looked up.
LEMMA toggleFilterKeeps ==
  ASSUME RefsInv, FInv, toggleFilter
  PROVE  FInv'
<1>1. PICK n \in Nat, m \in Nat : n = Len(options) /\ m = Len(filters)
  BY Current
<1>2. /\ \A k \in 1 .. n : /\ options[k].effect \in 0 .. m
                           /\ options[k].corrections \subseteq 1 .. m
                           /\ options[k].flips \in [Axes -> 0 .. m]
      /\ \A t \in Of("correction") : t.filter \in 1 .. m
      /\ current \in 1 .. n
  BY <1>1, Referred
<1>3. /\ main.kind = "flip" /\ main'.kind = "idle"
      /\ current' = current /\ reader' = reader /\ asked' = asked /\ crowded' = crowded
      /\ looper' = looper /\ crossed' = crossed
  BY DEF toggleFilter, GoesOn, Idle, Step, wishes
<1>4. PICK a \in 1 .. n, x \in Axes : a = main.arg /\ x = main.changes
  BY <1>1, <1>3, Referred
<1>5. PICK f \in 0 .. m : f = this.flips[x] /\ f = options[current].flips[x]
  BY <1>2 DEF this
<1>6. f # 0 => f \in 1 .. m /\ filters[f].name = x
  BY <1>1, <1>2, <1>5 DEF FInv, NamesInv
<1>7. PICK M \in Nat, z \in {0, m + 1} :
        /\ Len(filters') = M /\ z = (IF f # 0 THEN 0 ELSE m + 1)
        /\ M = (IF f # 0 THEN m ELSE m + 1)
        /\ \A j \in 1 .. m : /\ filters'[j].name = filters[j].name
                             /\ filters'[j].value = filters[j].value
                             /\ j # f => filters'[j].applied = filters[j].applied
                             /\ j = f /\ filters[j].applied = 1 => filters'[j].applied = 0
        /\ f = 0 => filters'[m + 1].name = x /\ filters'[m + 1].applied = 1
  <2>1. filters' = IF f # 0 THEN RemoveFilter(f) ELSE Append(filters, NewFilter(x, 0, 1))
    BY <1>4, <1>5 DEF toggleFilter
  <2>2. f = 0 => filters' = Append(RemoveFilter(f), NewFilter(x, 0, 1))
    BY <2>1 DEF RemoveFilter
  <2>3. f # 0 => filters' = RemoveFilter(f)
    BY <2>1
  <2>4. \/ filters' = RemoveFilter(f)
        \/ filters' = Append(RemoveFilter(f), NewFilter(x, 0, 1))
    BY <2>2, <2>3
  <2>5. Less(f)
    BY <1>1, <2>4, Swapped
  <2>6. f # 0 => Len(filters') = m
    BY <1>1, <2>3, <2>4, Swapped
  <2>7. f = 0 => Len(filters') = m + 1
    BY <1>1, <2>2, <2>4, Swapped
  <2>8. f = 0 => filters'[m + 1].name = x /\ filters'[m + 1].applied = 1
    BY <1>1, <2>2, <2>4, Swapped
  <2> QED
    BY <1>1, <2>5, <2>6, <2>7, <2>8 DEF Less
<1>8. PICK O : O = OptionsUpTo(m) /\ options \in Seq(O)
  BY <1>1 DEF RefsInv
<1>9. PICK o \in O : o = options[a]
  BY <1>1, <1>8
<1>10. options' = [options EXCEPT ![a] = [o EXCEPT !.flips[x] = z]]
  <2>1. options' = [options EXCEPT ![a].flips[x] = z]
    BY <1>4, <1>5, <1>7 DEF toggleFilter
  <2> QED
    BY <1>1, <1>8, <1>9, <2>1
<1>11. /\ Len(options') = n
       /\ \A k \in 1 .. n : /\ options'[k].effect = options[k].effect
                            /\ options'[k].corrections = options[k].corrections
                            /\ \A y \in Axes : options'[k].flips[y] =
                                 IF k = a /\ y = x THEN z ELSE options[k].flips[y]
  <2>1. /\ Len(options') = n
        /\ \A k \in 1 .. n : options'[k] = IF k = a THEN [o EXCEPT !.flips[x] = z] ELSE options[k]
    BY <1>1, <1>8, <1>10
  <2>2. o.flips \in [Axes -> 0 .. m]
    BY <1>2, <1>9
  <2>3. /\ [o EXCEPT !.flips[x] = z].effect = o.effect
        /\ [o EXCEPT !.flips[x] = z].corrections = o.corrections
        /\ [o EXCEPT !.flips[x] = z].flips = [o.flips EXCEPT ![x] = z]
    BY <1>8, <1>9 DEF OptionsUpTo
  <2>4. \A y \in Axes : [o.flips EXCEPT ![x] = z][y] = IF y = x THEN z ELSE o.flips[y]
    BY <2>2
  <2>5. ASSUME NEW k \in 1 .. n
        PROVE  /\ options'[k].effect = options[k].effect
               /\ options'[k].corrections = options[k].corrections
               /\ \A y \in Axes : options'[k].flips[y] =
                                    IF k = a /\ y = x THEN z ELSE options[k].flips[y]
    <3>1. CASE k = a
      <4>1. options'[k] = [o EXCEPT !.flips[x] = z] /\ options[k] = o
        BY <1>9, <2>1, <3>1
      <4> QED
        BY <2>3, <2>4, <3>1, <4>1
    <3>2. CASE k # a
      BY <2>1, <3>2
    <3> QED
      BY <3>1, <3>2
  <2> QED
    BY <2>1, <2>5
<1>12. Of("start")' = Of("start") /\ Of("correction")' = Of("correction") /\ OnceInv'
  BY <1>3 DEF Of, OnceInv, FInv
<1>13. /\ \A k : /\ Posting(k)' <=> Posting(k)
                 /\ Started(k)' <=> Started(k)
                 /\ Applying(k)' <=> Applying(k)
                 /\ Due(k)' <=> Due(k)
       /\ Starting' <=> Starting
  BY <1>3, <1>12, DueStays DEF NotPosting
<1>14. DueInv'
  BY <1>1, <1>11, <1>13 DEF FInv, DueInv
<1>15. CrossInv'
  BY <1>3 DEF CrossInv
<1>16. NamesInv'
  <2>1. ASSUME NEW k \in 1 .. n
        PROVE  /\ options'[k].effect # 0 => filters'[options'[k].effect].name \in Effects
               /\ \A j \in options'[k].corrections : filters'[j].name \in Corrections
               /\ \A y \in Axes : options'[k].flips[y] # 0 =>
                                    filters'[options'[k].flips[y]].name = y
    <3>1. /\ options[k].effect # 0 => filters[options[k].effect].name \in Effects
          /\ \A j \in options[k].corrections : filters[j].name \in Corrections
          /\ \A y \in Axes : options[k].flips[y] # 0 => filters[options[k].flips[y]].name = y
      BY <1>1 DEF FInv, NamesInv
    <3>2. /\ options[k].effect # 0 => options[k].effect \in 1 .. m
          /\ \A y \in Axes : options[k].flips[y] # 0 => options[k].flips[y] \in 1 .. m
      BY <1>2
    <3>3. options'[k].effect # 0 => filters'[options'[k].effect].name \in Effects
      BY <1>7, <1>11, <3>1, <3>2
    <3>4. \A j \in options'[k].corrections : filters'[j].name \in Corrections
      BY <1>2, <1>7, <1>11, <3>1
    <3>5. ASSUME NEW y \in Axes, options'[k].flips[y] # 0
          PROVE  filters'[options'[k].flips[y]].name = y
      <4>1. CASE k = a /\ y = x
        BY <1>7, <1>11, <3>5, <4>1
      <4>2. CASE ~(k = a /\ y = x)
        <5>1. options'[k].flips[y] = options[k].flips[y]
          BY <1>11, <4>2
        <5> QED
          BY <1>7, <3>1, <3>2, <3>5, <5>1
      <4> QED
        BY <4>1, <4>2
    <3> QED
      BY <3>3, <3>4, <3>5
  <2>2. \A t \in Of("correction")' : filters'[t.filter].name \in Corrections
    BY <1>2, <1>7, <1>12 DEF FInv, NamesInv
  <2> QED
    BY <1>3, <1>11, <2>1, <2>2 DEF NamesInv
<1>17. FiltersInv'
  <2>1. SUFFICES ASSUME NEW j \in 1 .. M, Change(filters'[j]) \notin crossed
                 PROVE  FilterInv(j)'
    BY <1>3, <1>7 DEF FiltersInv, Change
  <2>2. \A k : ~Exchanged(k, j)' /\ ~Exchanged(k, j) /\ ~Added(j)' /\ ~Added(j)
    BY <1>3 DEF Exchanged, Added
  <2>3. Adds(j)' <=> Adds(j)
    BY <1>12 DEF Adds
  <2>4. filters'[j].name = x => a = current /\ \A k : ~Due(k)
    <3>1. filters'[j].name = x => ~Starting /\ a = current
      BY <1>3, <1>4, <2>1, CategoriesAssumption DEF FInv, CrossInv, Change
    <3> QED
      BY <1>3, <3>1, StartingTasks DEF Due, Posting, Started, Applying
  <2>5. filters'[j].name = x => \A k \in 1 .. n : Holds(k, j)' <=> options'[k].flips[x] = j
    BY CategoriesAssumption DEF Holds
  <2>6. CASE j \in 1 .. m
    <3>1. filters'[j].name = filters[j].name /\ FilterInv(j)
      BY <1>1, <1>7, <2>1, <2>6 DEF FInv, FiltersInv, Change
    <3>2. CASE filters[j].name # x
      <4>1. \A k \in 1 .. n : Holds(k, j)' <=> Holds(k, j)
        BY <1>11, <3>1, <3>2 DEF Holds
      <4>2. filters'[j].applied = filters[j].applied
        BY <1>6, <1>7, <2>6, <3>2
      <4> QED
        BY <1>1, <1>11, <1>13, <2>2, <2>3, <3>1, <4>1, <4>2, FilterStays
    <3>3. CASE filters[j].name = x
      <4>1. \A k \in 1 .. n : Holds(k, j) <=> options[k].flips[x] = j
        BY <3>3, CategoriesAssumption DEF Holds
      <4>2. j # 0 /\ j # z
        BY <1>7, <2>6
      <4>3. \A k \in 1 .. n : Holds(k, j)' <=> k # a /\ Holds(k, j)
        BY <1>4, <1>11, <2>5, <3>1, <3>3, <4>1, <4>2
      <4>4. CASE j = f
        <5>1. Holds(a, j)
          BY <1>4, <1>5, <2>4, <3>1, <3>3, <4>1, <4>4
        <5>2. filters[j].applied = 1
          BY <1>1, <1>4, <2>2, <2>4, <3>1, <3>3, <5>1 DEF FilterInv
        <5>3. \A k \in 1 .. n : Holds(k, j) => k = a
          BY <1>1, <1>4, <3>1, <5>1 DEF FilterInv
        <5>4. filters'[j].applied = 0
          BY <1>7, <2>6, <4>4, <5>2
        <5> QED
          BY <1>11, <2>2, <4>3, <5>3, <5>4 DEF FilterInv
      <4>5. CASE j # f
        <5>1. ~Holds(a, j)
          BY <1>4, <1>5, <2>4, <3>1, <3>3, <4>1, <4>5
        <5>2. \A k \in 1 .. n : Holds(k, j)' <=> Holds(k, j)
          BY <4>3, <5>1
        <5>3. filters'[j].applied = filters[j].applied
          BY <1>7, <2>6, <4>5
        <5> QED
          BY <1>1, <1>11, <1>13, <2>2, <2>3, <3>1, <5>2, <5>3, FilterStays
      <4> QED
        BY <4>4, <4>5
    <3> QED
      BY <3>2, <3>3
  <2>7. CASE j \notin 1 .. m
    <3>1. f = 0 /\ j = m + 1 /\ z = j /\ j \notin 0 .. m
      BY <1>7, <2>1, <2>7
    <3>2. filters'[j].name = x /\ filters'[j].applied = 1
      BY <1>7, <3>1
    <3>3. \A k \in 1 .. n : options[k].flips[x] # j
      BY <1>2, <3>1
    <3>4. \A k \in 1 .. n : Holds(k, j)' <=> k = a
      BY <1>4, <1>11, <2>5, <3>1, <3>2, <3>3
    <3>5. ~Adds(j)
      BY <1>2, <3>1 DEF Adds
    <3> QED
      BY <1>4, <1>11, <1>13, <2>2, <2>3, <2>4, <3>2, <3>4, <3>5 DEF FilterInv
  <2> QED
    BY <2>6, <2>7
<1>18. AskedInv'
  <2>1. this'.corrections = this.corrections
    BY <1>2, <1>3, <1>11 DEF this
  <2> QED
    BY <1>1, <1>3, <1>7, <1>12, <2>1, AskedStays DEF FInv
<1> QED
  BY <1>12, <1>14, <1>15, <1>16, <1>17, <1>18 DEF FInv

-----------------------------------------------------------------------------
(* The theorems                                                            *)

\* The default options record no filter.
LEMMA NoFilters == Init => FInv
<1> SUFFICES ASSUME Init
             PROVE  FInv
  OBVIOUS
<1>1. /\ options = <<DefaultOptions>> /\ filters = <<>> /\ looper = <<>>
      /\ main.kind = "idle" /\ current = 1
      /\ asked = [n \in Corrections |-> 0]
  BY DEF Init, Idle, Step
<1>2. /\ DefaultOptions.effect = 0 /\ DefaultOptions.corrections = {}
      /\ DefaultOptions.flips = [x \in Axes |-> 0]
  BY DEF DefaultOptions, StreamOptions
<1>3. \A K : Of(K) = {}
  BY <1>1 DEF Of
<1>4. OnceInv /\ CrossInv /\ FiltersInv
  BY <1>1 DEF OnceInv, CrossInv, FiltersInv
<1>5. DueInv
  BY <1>1, <1>3 DEF DueInv, Started, Applying, Posting, Init
<1>6. NamesInv
  <2>1. \A k \in 1 .. Len(options) : options[k] = DefaultOptions
    BY <1>1
  <2> QED
    BY <1>1, <1>2, <1>3, <2>1 DEF NamesInv
<1>7. AskedInv
  <2>1. this.corrections = {}
    BY <1>1, <1>2 DEF this
  <2>2. \A n : Find(this, n) = {} /\ Corrects(n) = {}
    BY <1>3, <2>1 DEF Find, Corrects
  <2> QED
    BY <1>1, <2>2 DEF AskedInv, Settled
<1> QED
  BY <1>4, <1>5, <1>6, <1>7 DEF FInv

\* Every step keeps the filters recorded.
LEMMA FilterStep ==
  ASSUME IInv, IInv', FInv, [Next]_vars
  PROVE  FInv'
<1>1. RefsInv /\ RefsInv' /\ StateInv /\ OnceInv
  BY DEF IInv, FInv
<1>2. CASE Reader \/ Disconnect
  <2>1. CASE startStream
    BY <1>1, <2>1, startStreamKeeps
  <2>2. CASE PostStart
    BY <1>1, <2>2, PostStartKeeps
  <2>3. CASE applyCorrectionFilter
    BY <1>1, <2>3, applyCorrectionFilterKeeps
  <2>4. CASE \/ switchCamera \/ Switched \/ setResolution \/ Resized \/ setFps
             \/ setH265Codec \/ applyEffectFilter \/ flip \/ Disconnect
    BY <1>1, <2>4, ReaderAside, AsideKeeps
  <2> QED
    BY <1>2, <2>1, <2>2, <2>3, <2>4 DEF Reader
<1>3. ASSUME NEW i \in 1 .. Len(looper), Task(i)
      PROVE  FInv'
  <2>1. CASE StartTask(i)
    BY <1>1, <2>1, StartTaskKeeps
  <2>2. CASE RestartTask(i) \/ DisconnectedTask(i)
    BY <1>1, <2>2, TaskAside, AsideKeeps
  <2>3. CASE EffectTask(i)
    BY <1>1, <2>3, EffectTaskKeeps
  <2>4. CASE CorrectionTask(i)
    BY <1>1, <2>4, CorrectionTaskKeeps
  <2>5. CASE FlipTask(i)
    BY <1>1, <2>5, FlipTaskKeeps
  <2> QED
    BY <1>3, <2>1, <2>2, <2>3, <2>4, <2>5 DEF Task
<1>4. CASE Main
  <2>1. CASE applyOptionsToStream
    BY <1>1, <2>1, applyOptionsToStreamKeeps
  <2>2. CASE RecordEffect
    BY <1>1, <2>2, RecordEffectKeeps
  <2>3. CASE toggleFilter
    BY <1>1, <2>3, toggleFilterKeeps
  <2>4. CASE startStreamInternal \/ StartServer \/ SurfaceCreated \/ SurfaceDestroyed
    BY <1>1, <2>4, MainAside, AsideKeeps
  <2> QED
    BY <1>3, <1>4, <2>1, <2>2, <2>3, <2>4 DEF Main
<1>5. CASE UNCHANGED vars
  BY <1>1, <1>5, MainAside, AsideKeeps
<1> QED
  BY <1>2, <1>4, <1>5 DEF Next

\* The invariant about filters: each is recorded, or about to be, in one place
\* of its category, and applied once or, while its options wait to be started,
\* not at all; each correction was not asked for, has its one filter, or has it
\* on its way.
THEOREM FilterInvariance == Spec => []FInv
<1>1. IInv /\ FInv /\ [Next]_vars /\ IInv' => FInv'
  BY FilterStep
<1> QED
  BY <1>1, NoFilters, Invariance, PTL DEF Spec

\* When nothing is left to do, no options are waiting and no change is half done.
LEMMA QuietNothingDue ==
  ASSUME Quiet
  PROVE  /\ \A K : Of(K) = {}
         /\ \A k : ~Due(k)
         /\ \A i : ~Added(i) /\ \A k : ~Exchanged(k, i)
<1>1. looper = <<>> /\ main.kind = "idle" /\ reader.at = "idle"
  BY DEF Quiet, Idle, Step
<1>2. \A K : Of(K) = {}
  BY <1>1 DEF Of
<1> QED
  BY <1>1, <1>2 DEF Due, Posting, Started, Applying, Added, Exchanged

\* A filter that is applied is recorded by some options, and one that the
\* options in use record is applied once.
LEMMA RecordedWhenQuiet ==
  ASSUME RefsInv, NamesInv, FiltersInv
  PROVE  FiltersAreRecorded
<1>1. PICK n \in Nat, m \in Nat : n = Len(options) /\ m = Len(filters)
  BY Current
<1>2. SUFFICES ASSUME Quiet, NEW i \in 1 .. m, Change(filters[i]) \notin crossed
               PROVE  /\ filters[i].applied > 0 =>
                           \E k \in 1 .. n : i \in Recorded(options[k])
                      /\ i \in Recorded(this) => filters[i].applied = 1
  BY <1>1 DEF FiltersAreRecorded
<1>3. i # 0 /\ current \in 1 .. n
  BY <1>1, Referred
<1>4. /\ FilterInv(i) /\ ~Added(i)
      /\ \A k : ~Due(k) /\ ~Exchanged(k, i)
  BY <1>1, <1>2, QuietNothingDue DEF FiltersInv
<1>5. \A k \in 1 .. n : Holds(k, i) => i \in Recorded(options[k])
  BY DEF Holds, Recorded
<1>6. \A k \in 1 .. n : i \in Recorded(options[k]) => Holds(k, i)
  BY <1>1, <1>3 DEF NamesInv, Holds, Recorded
<1>7. \A k \in 1 .. n : Holds(k, i) => filters[i].applied = 1
  BY <1>1, <1>4 DEF FilterInv
<1>8. (\A k \in 1 .. n : ~Holds(k, i)) => filters[i].applied = 0
  BY <1>1, <1>4 DEF FilterInv
<1> QED
  BY <1>3, <1>5, <1>6, <1>7, <1>8 DEF this

\* Every filter applied to the picture is recorded, and what the options record
\* is applied once, unless an activation crossed with the change.
THEOREM FiltersRecorded == Spec => []FiltersAreRecorded
<1>1. IInv /\ FInv => FiltersAreRecorded
  BY RecordedWhenQuiet DEF IInv, FInv
<1> QED
  BY <1>1, Invariance, FilterInvariance, PTL

\* One filter for each correction that was asked for.
LEMMA OneWhenQuiet == AskedInv => OneFilterPerCorrection
<1>1. SUFFICES ASSUME AskedInv, Quiet, NEW n \in Corrections \ crowded
               PROVE  /\ Cardinality(Find(this, n)) = IF asked[n] = 0 THEN 0 ELSE 1
                      /\ \A i \in Find(this, n) : filters[i].value = asked[n]
  BY DEF OneFilterPerCorrection
<1>2. Corrects(n) = {}
  BY <1>1, QuietNothingDue DEF Corrects
<1>3. CASE asked[n] = 0 /\ Find(this, n) = {}
  BY <1>3, FS_EmptySet
<1>4. ASSUME asked[n] # 0, NEW i, Find(this, n) = {i}, filters[i].value = asked[n]
      PROVE  /\ Cardinality(Find(this, n)) = IF asked[n] = 0 THEN 0 ELSE 1
             /\ \A j \in Find(this, n) : filters[j].value = asked[n]
  BY <1>4, FS_Singleton
<1> QED
  BY <1>1, <1>2, <1>3, <1>4 DEF AskedInv, Settled

\* Each correction asked for has one filter with the value asked for last,
\* unless a command or an activation came for it before the filter of the
\* command before was added.
THEOREM OneFilter == Spec => []OneFilterPerCorrection
<1>1. FInv => OneFilterPerCorrection
  BY OneWhenQuiet DEF FInv
<1> QED
  BY <1>1, FilterInvariance, PTL
=============================================================================
