------------------------ MODULE DevicePresetsProofs ------------------------
(***************************************************************************)
(* DevicePresets for any phones, sliders, users and number of sessions:    *)
(* what was saved comes back, no sequence of edits makes options that      *)
(* cannot be sent, but for a crash between two lines of Save, and the      *)
(* options an activated phone has recorded are those of the registry.      *)
(*                                                                         *)
(* The argument follows a device's options on their way: from the dialogs  *)
(* into the registry, from there into the file, line by line, back into a  *)
(* later registry, and in an activation or a command to the phone.         *)
(***************************************************************************)
EXTENDS DevicePresets, TLAPS

Sizes == Int \X Int
Rates == {b \in Int : MIN_BITRATE <= b /\ b <= MAX_BITRATE}
EffectNames == Effects \cup OtherFilters \cup {NoFilter, ""}

\* Options as the dialogs leave them, with bounds that may be out of order.
Options ==
  [back : BOOLEAN, resolution : Sizes, adaptive : BOOLEAN,
   bitrate : Rates, minBitrate : Rates,
   maxBitrate : Rates, flash : BOOLEAN,
   slider : {Unset} \cup 0 .. 100, effect : EffectNames]

\* The bounds of the options of d are in order, or the upper one is the default
\* that Load took for a line a crash of Save has cut off.
InOrder(d, s) ==
  s.minBitrate <= s.maxBitrate \/ (d \in cut /\ s.maxBitrate = StreamOptions.maxBitrate)

\* Sections of the file, complete or cut short.
Lines == {Section(s) : s \in Options} \cup {Cut(Section(s), n) : s \in Options, n \in 0 .. 9}

\* Functions from some of the names to S.
Maps(S) == UNION {[D -> S] : D \in SUBSET Names}

\* The options of a phone, with bit rates in bit/s.
PhoneOptions ==
  [back : BOOLEAN, resolution : Sizes, adaptive : BOOLEAN, bitrate : Int, minBitrate : Int,
   maxBitrate : Int, flash : BOOLEAN, slider : {Unset} \cup 0 .. 100, effect : EffectNames]

\* The registry, the loaded states, and what Load would make of the file have
\* their bounds in order or cut.
OrderInv ==
  /\ \A d \in DOMAIN registry : InOrder(d, registry[d])
  /\ \A d \in DOMAIN loaded : InOrder(d, loaded[d])
  /\ app # "saving" => \A d \in DOMAIN file.presets : InOrder(d, ParseDeviceLine(file.presets[d]))

\* The registry and the loaded states hold options, the file holds sections of
\* options, and none if it says that the feature is off: Load then has none to
\* preserve.
StoreInv ==
  /\ registry \in Maps(Options)
  /\ loaded \in Maps(Options)
  /\ DOMAIN preserved = {}
  /\ file \in [flag : {Unset, 0, 1}, presets : Maps(Lines)]
  /\ file.flag # 1 => DOMAIN file.presets = {}
  /\ cut \subseteq Names
  /\ OrderInv

\* Dialogs and phones exist while the application runs; a dialog that
\* outlives its phone keeps the next one from being activated.
WindowInv ==
  /\ app \in {"off", "running", "saving"}
  /\ flag \in {Unset, 0, 1} /\ checked \in BOOLEAN /\ streaming \in BOOLEAN
  /\ missed \in BOOLEAN
  /\ connected \in Names \cup {None}
  /\ \/ dialog = Closed
     \/ /\ dialog \in [kind : {"stream", "adjust"}, name : DOMAIN registry]
        /\ phone # None => dialog.name = connected
  /\ app # "running" => dialog = Closed /\ phone = None
  /\ user \in Users /\ starts \in 0 .. user.starts

\* A phone with options w, which missed or did not miss a switch, agrees with
\* options s of the registry.  Its bounds were in order when it was activated.
SameRates(w, s) ==
  s.adaptive => w.minBitrate = Bits(s.minBitrate) /\ w.maxBitrate = Bits(s.maxBitrate)
Follows(w, m, s) ==
  /\ w.adaptive = s.adaptive /\ w.slider = s.slider
  /\ w.resolution = s.resolution \/ ~InRange(s.resolution)
  /\ w.effect = IF s.effect = NoFilter THEN "" ELSE s.effect
  /\ SameRates(w, s)
  /\ m <=> w.back # s.back
  /\ s.minBitrate <= s.maxBitrate

\* The phone agrees with the registry, where its correction has a value.
PhoneInv ==
  phone # None => /\ phone \in PhoneOptions
                  /\ connected \in DOMAIN registry
                  /\ streaming
                  /\ registry[connected].slider # Unset
                  /\ Follows(phone, missed, registry[connected])

\* A running session that began with the feature on knows every device of
\* the file.
KnownInv == app = "running" /\ file.flag = 1 => DOMAIN file.presets \subseteq DOMAIN registry

\* What Save has written is part of what it is to write, a number of lines of
\* each section, and what it is to write is what the session knew.
SavingInv ==
  app = "saving" =>
    /\ memory \in [before : Maps(Lines), wasOn : BOOLEAN, after : Maps(Options)]
    /\ memory.wasOn => DOMAIN memory.before \subseteq DOMAIN memory.after
    /\ flag = 1 => loaded = memory.after
    /\ file.flag \in {Unset, flag}
    /\ DOMAIN file.presets \subseteq DOMAIN ToWrite
    /\ \A d \in DOMAIN file.presets : \E n \in 0 .. 9 : file.presets[d] = Cut(ToWrite[d], n)

\* A file that was written to the end with the feature on holds what the
\* session knew.
SavedInv ==
  app = "off" /\ memory # None =>
    /\ memory \in [before : Maps(Lines), wasOn : BOOLEAN, after : Maps(Options)]
    /\ memory.wasOn => DOMAIN memory.before \subseteq DOMAIN memory.after
    /\ file.flag = 1 => /\ DOMAIN file.presets = DOMAIN memory.after
                        /\ \A d \in DOMAIN memory.after :
                             file.presets[d] = Section(memory.after[d])

IInv == /\ StoreInv
        /\ WindowInv
        /\ PhoneInv
        /\ KnownInv
        /\ SavingInv
        /\ SavedInv
        /\ RefusedOnlyForKnownReasons

-----------------------------------------------------------------------------
(* The operators                                                           *)

\* A map is a function whose names are names and whose values are of S.
LEMMA MapsDef ==
  ASSUME NEW S, NEW f
  PROVE  f \in Maps(S) <=> /\ f = [d \in DOMAIN f |-> f[d]]
                           /\ DOMAIN f \subseteq Names
                           /\ \A d \in DOMAIN f : f[d] \in S
<1>1. ASSUME f \in Maps(S)
      PROVE  /\ f = [d \in DOMAIN f |-> f[d]]
             /\ DOMAIN f \subseteq Names
             /\ \A d \in DOMAIN f : f[d] \in S
  <2>1. PICK D \in SUBSET Names : f \in [D -> S]
    BY <1>1 DEF Maps
  <2> QED
    BY <2>1
<1>2. ASSUME /\ f = [d \in DOMAIN f |-> f[d]]
             /\ DOMAIN f \subseteq Names
             /\ \A d \in DOMAIN f : f[d] \in S
      PROVE  f \in Maps(S)
  <2>1. f \in [DOMAIN f -> S]
    BY <1>2
  <2> QED
    BY <1>2, <2>1 DEF Maps
<1> QED
  BY <1>1, <1>2

\* Adding or changing one entry of a map gives a map.
LEMMA WithMap ==
  ASSUME NEW S, NEW f \in Maps(S), NEW d \in Names, NEW s \in S
  PROVE  With(f, d, s) \in Maps(S)
<1>1. DOMAIN f \subseteq Names /\ \A n \in DOMAIN f : f[n] \in S
  BY MapsDef
<1>2. With(f, d, s) \in [DOMAIN f \cup {d} -> S]
  BY <1>1 DEF With
<1> QED
  BY <1>1, <1>2 DEF Maps

\* The empty map is one.
LEMMA NothingMap == ASSUME NEW S PROVE Nothing \in Maps(S) /\ DOMAIN Nothing = {}
<1>1. Nothing \in [{} -> S]
  BY DEF Nothing
<1> QED
  BY <1>1 DEF Maps, Nothing

Fields == {"back", "resolution", "adaptive", "bitrate", "minBitrate", "maxBitrate", "flash",
           "slider", "effect"}

\* The default options are options, with the bounds in order.
LEMMA DefaultOptions ==
  /\ StreamOptions \in Options
  /\ StreamOptions.minBitrate <= StreamOptions.maxBitrate
BY DEF StreamOptions, Options, Sizes, EffectNames, Rates, MIN_BITRATE, MAX_BITRATE, Unset

\* Options are functions of the fields.
LEMMA OptionFields ==
  ASSUME NEW s \in Options
  PROVE  DOMAIN s = Fields /\ s = [f \in Fields |-> s[f]]
BY DEF Options, Fields

\* The lines of a section are those of the fields, but for a correction without
\* a value.
LEMMA SectionLines ==
  ASSUME NEW s \in Options
  PROVE  /\ DOMAIN Section(s) = Fields \ (IF s.slider = Unset THEN {"slider"} ELSE {})
         /\ \A f \in DOMAIN Section(s) : Section(s)[f] = s[f]
<1>1. DOMAIN s = Fields
  BY OptionFields
<1> QED
  BY <1>1 DEF Section

\* What Load makes of the lines Save wrote for options are those options: a
\* correction without a line is one without a value.
LEMMA RoundTrip ==
  ASSUME NEW s \in Options
  PROVE  ParseDeviceLine(Section(s)) = s
<1>1. DOMAIN s = Fields /\ s = [f \in Fields |-> s[f]] /\ DOMAIN StreamOptions = Fields
  BY DefaultOptions, OptionFields
<1>2. /\ DOMAIN Section(s) = Fields \ (IF s.slider = Unset THEN {"slider"} ELSE {})
      /\ \A f \in DOMAIN Section(s) : Section(s)[f] = s[f]
  BY SectionLines
<1>3. StreamOptions["slider"] = Unset
  BY DEF StreamOptions
<1>4. \A f \in Fields : (IF f \in DOMAIN Section(s) THEN Section(s)[f]
                          ELSE StreamOptions[f]) = s[f]
  BY <1>2, <1>3
<1>5. ParseDeviceLine(Section(s)) = [f \in Fields |-> s[f]]
  BY <1>1, <1>4 DEF ParseDeviceLine
<1> QED
  BY <1>1, <1>5

\* The first n lines of a section.
LEMMA CutLines ==
  ASSUME NEW s \in Options, NEW n \in 0 .. 9
  PROVE  LET x == Cut(Section(s), n) IN
         /\ DOMAIN x = {f \in DOMAIN Section(s) : Place[f] <= n}
         /\ \A f \in DOMAIN x : f \in Fields /\ x[f] = s[f]
<1>1. DOMAIN Section(s) \subseteq Fields /\ \A f \in DOMAIN Section(s) : Section(s)[f] = s[f]
  BY SectionLines
<1> QED
  BY <1>1 DEF Cut

\* Options of which some are replaced by the defaults are options.
LEMMA Replaced ==
  ASSUME NEW s \in Options, NEW x, \A f \in DOMAIN x : f \in Fields /\ x[f] = s[f]
  PROVE  /\ ParseDeviceLine(x) \in Options
         /\ ParseDeviceLine(x).minBitrate
              = IF "minBitrate" \in DOMAIN x THEN s.minBitrate ELSE StreamOptions.minBitrate
         /\ ParseDeviceLine(x).maxBitrate
              = IF "maxBitrate" \in DOMAIN x THEN s.maxBitrate ELSE StreamOptions.maxBitrate
<1> DEFINE t == ParseDeviceLine(x)
<1>1. DOMAIN s = Fields /\ DOMAIN StreamOptions = Fields /\ StreamOptions \in Options
  BY DefaultOptions, OptionFields
<1>2. t = [f \in Fields |-> IF f \in DOMAIN x THEN x[f] ELSE StreamOptions[f]]
  BY <1>1 DEF ParseDeviceLine
<1>3. DOMAIN t = Fields /\ \A f \in Fields : t[f] = s[f] \/ t[f] = StreamOptions[f]
  BY <1>2
<1>4. t = [f \in Fields |-> t[f]]
  BY <1>2
<1>5. /\ t["minBitrate"] = IF "minBitrate" \in DOMAIN x THEN s.minBitrate ELSE StreamOptions.minBitrate
      /\ t["maxBitrate"] = IF "maxBitrate" \in DOMAIN x THEN s.maxBitrate ELSE StreamOptions.maxBitrate
  BY <1>2 DEF Fields
<1> HIDE DEF t
<1>6. /\ t["back"] \in BOOLEAN /\ t["resolution"] \in Sizes /\ t["adaptive"] \in BOOLEAN
      /\ t["bitrate"] \in Rates /\ t["minBitrate"] \in Rates /\ t["maxBitrate"] \in Rates
      /\ t["flash"] \in BOOLEAN /\ t["slider"] \in {Unset} \cup 0 .. 100
      /\ t["effect"] \in EffectNames
  BY <1>1, <1>3 DEF Fields, Options
<1>7. t \in Options
  BY <1>4, <1>6 DEF Fields, Options
<1> QED
  BY <1>5, <1>7 DEF t

\* What Load makes of a section of the file are options.
LEMMA ParsedOptions ==
  ASSUME NEW x \in Lines
  PROVE  ParseDeviceLine(x) \in Options
<1>1. CASE \E s \in Options : x = Section(s)
  BY <1>1, RoundTrip
<1>2. CASE \E s \in Options, n \in 0 .. 9 : x = Cut(Section(s), n)
  BY <1>2, CutLines, Replaced
<1> QED
  BY <1>1, <1>2 DEF Lines

\* A section has lines of the fields only.
LEMMA LinesOfFields == \A x \in Lines : DOMAIN x \subseteq Fields
<1> SUFFICES ASSUME NEW x \in Lines PROVE DOMAIN x \subseteq Fields
  OBVIOUS
<1>1. CASE \E s \in Options : x = Section(s)
  BY <1>1, SectionLines
<1>2. CASE \E s \in Options, n \in 0 .. 9 : x = Cut(Section(s), n)
  BY <1>2, CutLines
<1> QED
  BY <1>1, <1>2 DEF Lines

\* Of a section cut short, either both bounds are the saved ones, or both the
\* defaults, or the section has lost its upper bound.
LEMMA CutInOrder ==
  ASSUME NEW d, NEW s \in Options, InOrder(d, s), NEW n \in 0 .. 9
  PROVE  LET x == Cut(Section(s), n) IN
         \/ InOrder(d, ParseDeviceLine(x))
         \/ LostMax(x) /\ ParseDeviceLine(x).maxBitrate = StreamOptions.maxBitrate
<1> DEFINE x == Cut(Section(s), n)
           t == ParseDeviceLine(x)
<1>1. /\ DOMAIN x = {f \in DOMAIN Section(s) : Place[f] <= n}
      /\ \A f \in DOMAIN x : f \in Fields /\ x[f] = s[f]
  BY CutLines
<1>2. "minBitrate" \in DOMAIN Section(s) /\ "maxBitrate" \in DOMAIN Section(s)
  BY SectionLines DEF Fields
<1>3. Place["minBitrate"] = 5 /\ Place["maxBitrate"] = 6
  BY DEF Place
<1>4. ("minBitrate" \in DOMAIN x <=> 5 <= n) /\ ("maxBitrate" \in DOMAIN x <=> 6 <= n)
  BY <1>1, <1>2, <1>3
<1> HIDE DEF x
<1>5. /\ t.minBitrate = IF "minBitrate" \in DOMAIN x THEN s.minBitrate ELSE StreamOptions.minBitrate
      /\ t.maxBitrate = IF "maxBitrate" \in DOMAIN x THEN s.maxBitrate ELSE StreamOptions.maxBitrate
  BY <1>1, Replaced
<1> HIDE DEF t
<1>6. n < 5 => InOrder(d, t)
  BY <1>4, <1>5, DefaultOptions DEF InOrder
<1>7. n = 5 => LostMax(x) /\ t.maxBitrate = StreamOptions.maxBitrate
  BY <1>4, <1>5 DEF LostMax
<1>8. n > 5 => InOrder(d, t)
  BY <1>4, <1>5 DEF InOrder
<1>9. InOrder(d, t) \/ (LostMax(x) /\ t.maxBitrate = StreamOptions.maxBitrate)
  BY <1>6, <1>7, <1>8
<1> QED
  BY <1>9 DEF x, t

-----------------------------------------------------------------------------
(* Steps that change one device's options                                  *)

SameBounds(t, s) == t.minBitrate = s.minBitrate /\ t.maxBitrate = s.maxBitrate

\* A step that changes the options of one device keeps the invariant, if their
\* bounds are in order or cut and a phone that is activated after it agrees.
LEMMA RegistryKeeps ==
  ASSUME IInv, app = "running",
         NEW d \in Names, NEW s \in Options, InOrder(d, s),
         registry' = With(registry, d, s),
         UNCHANGED <<app, file, cut, store, flag, checked, user, starts, memory>>,
         streaming' \in BOOLEAN, missed' \in BOOLEAN,
         connected' \in {connected, None},
         phone' # None => /\ connected' = d /\ streaming'
                          /\ phone' \in PhoneOptions
                          /\ Follows(phone', missed', s)
                          /\ s.slider # Unset,
         \/ dialog' = Closed
         \/ /\ dialog' \in [kind : {"stream", "adjust"}, name : DOMAIN registry \cup {d}]
            /\ phone' # None => dialog'.name = connected',
         RefusedOnlyForKnownReasons'
  PROVE  IInv'
<1> USE DEF IInv
<1>1. /\ registry' \in Maps(Options)
      /\ DOMAIN registry' = DOMAIN registry \cup {d}
      /\ registry'[d] = s
      /\ \A n \in DOMAIN registry' : n # d => n \in DOMAIN registry /\ registry'[n] = registry[n]
  <2>1. PICK r \in Maps(Options) : r = registry
    BY DEF StoreInv
  <2>2. With(r, d, s) \in Maps(Options)
    BY WithMap
  <2>3. /\ DOMAIN With(r, d, s) = DOMAIN r \cup {d} /\ With(r, d, s)[d] = s
        /\ \A n \in DOMAIN r : n # d => With(r, d, s)[n] = r[n]
    BY DEF With
  <2>4. registry' = With(r, d, s)
    BY <2>1
  <2> QED
    BY <2>1, <2>2, <2>3, <2>4
<1>2. StoreInv'
  <2>1. OrderInv'
    <3>1. \A n \in DOMAIN registry' : InOrder(n, registry'[n])
      <4> SUFFICES ASSUME NEW n \in DOMAIN registry' PROVE InOrder(n, registry'[n])
        OBVIOUS
      <4>1. CASE n = d
        BY <1>1, <4>1
      <4>2. CASE n # d
        BY <1>1, <4>2 DEF StoreInv, OrderInv
      <4> QED
        BY <4>1, <4>2
    <3>2. cut' = cut /\ loaded' = loaded /\ file' = file /\ app' = app
      BY DEF store
    <3> QED
      BY <3>1, <3>2 DEF StoreInv, OrderInv, InOrder
  <2> QED
    BY <1>1, <2>1 DEF StoreInv, store
<1>3. WindowInv'
  BY <1>1 DEF WindowInv
<1>4. PhoneInv'
  <2> SUFFICES ASSUME phone' # None
               PROVE  /\ phone' \in PhoneOptions
                      /\ connected' \in DOMAIN registry'
                      /\ streaming'
                      /\ registry'[connected'].slider # Unset
                      /\ Follows(phone', missed', registry'[connected'])
    BY DEF PhoneInv, Follows, SameRates
  <2> QED
    BY <1>1
<1>5. KnownInv'
  BY <1>1 DEF KnownInv
<1>6. SavingInv' /\ SavedInv'
  BY DEF SavingInv, SavedInv
<1> QED
  BY <1>2, <1>3, <1>4, <1>5, <1>6

\* Why a phone ends the connection for options t.
Reason(t) ==
  \/ ~InRange(t.resolution)
  \/ t.adaptive /\ t.minBitrate > t.maxBitrate /\ cut # {}

\* A change of the options of a device in a dialog or by a button, after which
\* an activated phone agrees with them, or which it refuses for a reason.
LEMMA EditKeeps ==
  ASSUME IInv, app = "running",
         NEW d \in Names, NEW s \in Options, InOrder(d, s),
         registry' = With(registry, d, s),
         UNCHANGED <<app, file, cut, store, window, streaming, user, starts, memory>>,
         phone # None => d = connected,
         \/ /\ UNCHANGED <<connected, refused>>
            /\ missed' \in BOOLEAN
            /\ phone' # None => /\ phone # None /\ phone' \in PhoneOptions
                                /\ Follows(phone', missed', s)
                                /\ s.slider # Unset
         \/ Refuse(s) /\ Reason(s)
  PROVE  IInv'
<1> USE DEF IInv
<1>1. phone' # None => phone # None
  BY DEF Refuse
<1>2. connected' \in {connected, None} /\ (phone' # None => connected' = d)
  BY <1>1 DEF Refuse
<1>3. phone' # None => /\ phone' \in PhoneOptions
                       /\ Follows(phone', missed', s)
                       /\ s.slider # Unset
  BY <1>1 DEF Refuse
<1>4. /\ streaming' \in BOOLEAN /\ (phone' # None => streaming')
      /\ missed' \in BOOLEAN
  BY <1>1 DEF WindowInv, PhoneInv, Refuse
<1>5. \/ dialog' = Closed
      \/ /\ dialog' \in [kind : {"stream", "adjust"}, name : DOMAIN registry \cup {d}]
         /\ phone' # None => dialog'.name = connected'
  BY <1>1, <1>2 DEF WindowInv, window
<1>6. RefusedOnlyForKnownReasons'
  <2>1. refused' = refused \/ (refused' = s /\ Reason(s))
    BY DEF Refuse
  <2>2. cut' = cut
    OBVIOUS
  <2> QED
    BY <2>1, <2>2 DEF RefusedOnlyForKnownReasons, Reason
<1>7. UNCHANGED <<app, file, cut, store, flag, checked, user, starts, memory>>
  BY DEF window
<1> QED
  BY <1>2, <1>3, <1>4, <1>5, <1>6, <1>7, RegistryKeeps

\* EditKeeps for a command the phone accepts.
LEMMA ToldKeeps ==
  ASSUME IInv, app = "running",
         NEW d \in Names, NEW t \in Options, InOrder(d, t), NEW w,
         registry' = With(registry, d, t), Told(w),
         UNCHANGED <<app, file, cut, store, window, streaming, user, starts, memory>>,
         phone # None =>
           d = connected /\ w \in PhoneOptions /\ Follows(w, missed, t) /\ t.slider # Unset
  PROVE  IInv'
<1>1. UNCHANGED <<connected, refused>> /\ missed' = missed
  BY DEF Told
<1>2. missed' \in BOOLEAN
  BY <1>1 DEF IInv, WindowInv
<1>3. phone' # None => phone # None /\ phone' = w
  BY DEF Told
<1>4. phone' # None => /\ phone # None /\ phone' \in PhoneOptions
                       /\ Follows(phone', missed', t)
                       /\ t.slider # Unset
  BY <1>1, <1>3
<1>5. phone # None => d = connected
  OBVIOUS
<1> QED
  BY <1>1, <1>2, <1>4, <1>5, EditKeeps

\* The options of a device are in order or cut, and an activated phone agrees
\* with them.
LEMMA DeviceOptions ==
  ASSUME IInv, NEW d \in Names, phone # None => d = connected
  PROVE  /\ OptionsOf(d) \in Options /\ InOrder(d, OptionsOf(d))
         /\ phone # None => /\ phone \in PhoneOptions
                            /\ Follows(phone, missed, OptionsOf(d))
                            /\ OptionsOf(d).slider # Unset
<1>1. d \in DOMAIN registry => registry[d] \in Options /\ InOrder(d, registry[d])
  <2>1. PICK r \in Maps(Options) : r = registry
    BY DEF IInv, StoreInv
  <2> QED
    BY <2>1, MapsDef DEF IInv, StoreInv, OrderInv
<1>2. StreamOptions \in Options /\ InOrder(d, StreamOptions)
  BY DefaultOptions DEF InOrder
<1>3. OptionsOf(d) \in Options /\ InOrder(d, OptionsOf(d))
  BY <1>1, <1>2 DEF OptionsOf
<1>4. ASSUME phone # None
      PROVE  /\ phone \in PhoneOptions
             /\ Follows(phone, missed, OptionsOf(d)) /\ OptionsOf(d).slider # Unset
  BY <1>4 DEF IInv, PhoneInv, OptionsOf
<1> QED
  BY <1>3, <1>4

\* An open dialog is for a device of the registry, which is the phone if that
\* is activated.
LEMMA DialogDevice ==
  ASSUME IInv, NEW kind \in {"stream", "adjust"}, dialog.kind = kind
  PROVE  dialog.name \in Names /\ (phone # None => dialog.name = connected)
<1>1. dialog # Closed
  BY NamesAssumption DEF Closed
<1>2. /\ dialog \in [kind : {"stream", "adjust"}, name : DOMAIN registry]
      /\ phone # None => dialog.name = connected
  BY <1>1 DEF IInv, WindowInv
<1>3. DOMAIN registry \subseteq Names
  <2>1. PICK r \in Maps(Options) : r = registry
    BY DEF IInv, StoreInv
  <2> QED
    BY <2>1, MapsDef
<1> QED
  BY <1>2, <1>3

\* Options with the same bounds are in order or cut alike.
LEMMA SameOrder ==
  ASSUME NEW d, NEW s, NEW t, SameBounds(t, s), InOrder(d, s)
  PROVE  InOrder(d, t)
BY DEF SameBounds, InOrder

\* The light, of which the phone records nothing.
LEMMA FlashKept ==
  ASSUME NEW s \in Options, NEW b \in BOOLEAN
  PROVE  LET t == [s EXCEPT !.flash = b] IN
         /\ t \in Options /\ SameBounds(t, s)
         /\ t.slider = s.slider
         /\ \A p \in PhoneOptions, m \in BOOLEAN : Follows(p, m, s) => Follows(p, m, t)
<1> DEFINE t == [s EXCEPT !.flash = b]
<1>1. /\ t.adaptive = s.adaptive /\ t.bitrate = s.bitrate /\ t.minBitrate = s.minBitrate
      /\ t.maxBitrate = s.maxBitrate /\ t.back = s.back /\ t.resolution = s.resolution
      /\ t.flash = b /\ t.slider = s.slider /\ t.effect = s.effect
  BY DEF Options
<1>2. t \in Options /\ SameBounds(t, s)
  BY <1>1 DEF Options, EffectNames, SameBounds
<1>3. ASSUME NEW p \in PhoneOptions, NEW m \in BOOLEAN, Follows(p, m, s)
      PROVE  Follows(p, m, t)
  <2> HIDE DEF t
  <2> QED
    BY <1>1, <1>3, Zenon DEF Follows, SameRates
<1>4. t.slider = s.slider
  BY <1>1 DEF Unset
<1> QED
  BY <1>2, <1>3, <1>4

\* A correction, of which both sides are told.
LEMMA SliderFollows ==
  ASSUME NEW s \in Options, NEW v \in 0 .. 100
  PROVE  LET t == [s EXCEPT !.slider = v] IN
         /\ t \in Options /\ SameBounds(t, s)
         /\ t.slider # Unset
         /\ \A p \in PhoneOptions, m \in BOOLEAN : Follows(p, m, s) =>
              LET w == [p EXCEPT !.slider = v] IN
              w \in PhoneOptions /\ Follows(w, m, t)
<1> DEFINE t == [s EXCEPT !.slider = v]
           w(p) == [p EXCEPT !.slider = v]
<1>1. /\ t.adaptive = s.adaptive /\ t.bitrate = s.bitrate /\ t.minBitrate = s.minBitrate
      /\ t.maxBitrate = s.maxBitrate /\ t.back = s.back /\ t.resolution = s.resolution
      /\ t.flash = s.flash /\ t.slider = v /\ t.effect = s.effect
  BY DEF Options
<1>2. t \in Options /\ SameBounds(t, s)
  BY <1>1 DEF Options, EffectNames, SameBounds
<1>3. ASSUME NEW p \in PhoneOptions, NEW m \in BOOLEAN, Follows(p, m, s)
      PROVE  w(p) \in PhoneOptions /\ Follows(w(p), m, t)
  <2>1. w(p) \in PhoneOptions
    BY DEF PhoneOptions, EffectNames
  <2>2. /\ w(p).adaptive = p.adaptive /\ w(p).bitrate = p.bitrate /\ w(p).minBitrate = p.minBitrate
        /\ w(p).maxBitrate = p.maxBitrate /\ w(p).back = p.back /\ w(p).resolution = p.resolution
        /\ w(p).flash = p.flash /\ w(p).slider = v /\ w(p).effect = p.effect
    BY DEF PhoneOptions
  <2> HIDE DEF w, t
  <2>3. Follows(w(p), m, t)
    BY <1>1, <1>3, <2>2, Zenon DEF Follows, SameRates
  <2> QED
    BY <2>1, <2>3
<1>4. t.slider # Unset
  BY <1>1 DEF Unset
<1> QED
  BY <1>2, <1>3, <1>4

\* The phone's effect x for the name e.
Shown(x, e) == x = IF e = NoFilter THEN "" ELSE e

\* An effect: the phone has none where the registry has the name "None".
LEMMA EffectFollows ==
  ASSUME NEW s \in Options, NEW e \in EffectNames,
         NEW x, Shown(x, e)
  PROVE  LET t == [s EXCEPT !.effect = e] IN
         /\ t \in Options /\ SameBounds(t, s)
         /\ t.slider = s.slider
         /\ \A p \in PhoneOptions, m \in BOOLEAN : Follows(p, m, s) =>
              LET w == [p EXCEPT !.effect = x] IN
              w \in PhoneOptions /\ Follows(w, m, t)
<1> DEFINE t == [s EXCEPT !.effect = e]
           w(p) == [p EXCEPT !.effect = x]
<1>1. /\ t.adaptive = s.adaptive /\ t.bitrate = s.bitrate /\ t.minBitrate = s.minBitrate
      /\ t.maxBitrate = s.maxBitrate /\ t.back = s.back /\ t.resolution = s.resolution
      /\ t.flash = s.flash /\ t.slider = s.slider /\ t.effect = e
  BY DEF Options
<1>2. t \in Options /\ SameBounds(t, s)
  BY <1>1 DEF Options, EffectNames, SameBounds
<1>3. ASSUME NEW p \in PhoneOptions, NEW m \in BOOLEAN, Follows(p, m, s)
      PROVE  w(p) \in PhoneOptions /\ Follows(w(p), m, t)
  <2>1. w(p) \in PhoneOptions
    <3>1. x \in EffectNames
      BY DEF EffectNames, Shown
    <3> QED
      BY <3>1 DEF PhoneOptions
  <2>2. /\ w(p).adaptive = p.adaptive /\ w(p).bitrate = p.bitrate /\ w(p).minBitrate = p.minBitrate
        /\ w(p).maxBitrate = p.maxBitrate /\ w(p).back = p.back /\ w(p).resolution = p.resolution
        /\ w(p).flash = p.flash /\ w(p).slider = p.slider
        /\ w(p).effect = x
    BY DEF PhoneOptions
  <2> HIDE DEF w, t
  <2>3. Follows(w(p), m, t)
    BY <1>1, <1>3, <2>2, Zenon DEF Follows, SameRates, Shown
  <2> QED
    BY <2>1, <2>3
<1>4. t.slider = s.slider
  BY <1>1 DEF Unset
<1> QED
  BY <1>2, <1>3, <1>4

\* All corrections and effects reset.
LEMMA ResetFollows ==
  ASSUME NEW s \in Options, NEW v \in 0 .. 100
  PROVE  LET t == [s EXCEPT !.slider = v, !.effect = NoFilter] IN
         /\ t \in Options /\ SameBounds(t, s)
         /\ t.slider # Unset
         /\ \A p \in PhoneOptions, m \in BOOLEAN : Follows(p, m, s) =>
              LET w == [p EXCEPT !.slider = v, !.effect = ""] IN
              w \in PhoneOptions /\ Follows(w, m, t)
<1> DEFINE t == [s EXCEPT !.slider = v, !.effect = NoFilter]
           w(p) == [p EXCEPT !.slider = v, !.effect = ""]
<1>1. /\ t.adaptive = s.adaptive /\ t.bitrate = s.bitrate /\ t.minBitrate = s.minBitrate
      /\ t.maxBitrate = s.maxBitrate /\ t.back = s.back /\ t.resolution = s.resolution
      /\ t.flash = s.flash /\ t.slider = v /\ t.effect = NoFilter
  BY DEF Options
<1>2. t \in Options /\ SameBounds(t, s)
  BY <1>1 DEF Options, EffectNames, SameBounds
<1>3. ASSUME NEW p \in PhoneOptions, NEW m \in BOOLEAN, Follows(p, m, s)
      PROVE  w(p) \in PhoneOptions /\ Follows(w(p), m, t)
  <2>1. w(p) \in PhoneOptions
    BY DEF PhoneOptions, EffectNames
  <2>2. /\ w(p).adaptive = p.adaptive /\ w(p).bitrate = p.bitrate /\ w(p).minBitrate = p.minBitrate
        /\ w(p).maxBitrate = p.maxBitrate /\ w(p).back = p.back /\ w(p).resolution = p.resolution
        /\ w(p).flash = p.flash /\ w(p).slider = v /\ w(p).effect = ""
    BY DEF PhoneOptions
  <2> HIDE DEF w, t
  <2>3. Follows(w(p), m, t)
    BY <1>1, <1>3, <2>2, Zenon DEF Follows, SameRates
  <2> QED
    BY <2>1, <2>3
<1>4. t.slider # Unset
  BY <1>1 DEF Unset
<1> QED
  BY <1>2, <1>3, <1>4

\* The phone's rate for a size, of sizes, and another size for its options.
ResizedPhone(p, r) ==
  IF p.resolution = r
  THEN p
  ELSE [p EXCEPT !.resolution = r, !.bitrate = calculateOptimalBitrate(r)]

LEMMA OptimalBitrate == \A r \in Sizes : calculateOptimalBitrate(r) \in Int
<1> SUFFICES ASSUME NEW r \in Sizes PROVE calculateOptimalBitrate(r) \in Int
  OBVIOUS
<1>1. r[1] * r[2] * 80 \in Int
  BY DEF Sizes
<1>2. (r[1] * r[2] * 80) \div 27 \in Int
  BY <1>1
<1> QED
  BY <1>2 DEF calculateOptimalBitrate, Bits

\* The size, of which both sides are told: the phone also replaces its bit rate.
LEMMA ResolutionFollows ==
  ASSUME NEW s \in Options, NEW r \in Sizes
  PROVE  LET t == [s EXCEPT !.resolution = r] IN
         /\ t \in Options /\ SameBounds(t, s)
         /\ t.slider = s.slider /\ t.resolution = r
         /\ \A p \in PhoneOptions, m \in BOOLEAN : Follows(p, m, s) =>
              ResizedPhone(p, r) \in PhoneOptions /\ Follows(ResizedPhone(p, r), m, t)
<1> DEFINE t == [s EXCEPT !.resolution = r]
<1>1. /\ t.adaptive = s.adaptive /\ t.bitrate = s.bitrate /\ t.minBitrate = s.minBitrate
      /\ t.maxBitrate = s.maxBitrate /\ t.back = s.back /\ t.resolution = r
      /\ t.flash = s.flash /\ t.slider = s.slider /\ t.effect = s.effect
  BY DEF Options
<1>2. t \in Options /\ SameBounds(t, s)
  BY <1>1 DEF Options, SameBounds
<1>3. ASSUME NEW p \in PhoneOptions, NEW m \in BOOLEAN, Follows(p, m, s)
      PROVE  ResizedPhone(p, r) \in PhoneOptions /\ Follows(ResizedPhone(p, r), m, t)
  <2>1. PICK b \in Int : b = calculateOptimalBitrate(r)
    BY OptimalBitrate
  <2>2. PICK w : w = ResizedPhone(p, r)
    OBVIOUS
  <2>3. (w = p /\ p.resolution = r) \/ w = [p EXCEPT !.resolution = r, !.bitrate = b]
    BY <2>1, <2>2, Zenon DEF ResizedPhone
  <2>4. w \in PhoneOptions
    BY <2>3 DEF PhoneOptions
  <2>5. /\ w.adaptive = p.adaptive /\ w.minBitrate = p.minBitrate /\ w.maxBitrate = p.maxBitrate
        /\ w.back = p.back /\ w.resolution = r /\ w.slider = p.slider /\ w.effect = p.effect
    BY <2>3 DEF PhoneOptions
  <2> HIDE DEF t
  <2>6. Follows(w, m, t)
    BY <1>1, <1>3, <2>5, Zenon DEF Follows, SameRates
  <2> QED
    BY <2>2, <2>4, <2>6
<1> QED
  BY <1>1, <1>2, <1>3

\* The camera, switched at both sides, or in the registry only.
LEMMA BackFollows ==
  ASSUME NEW s \in Options
  PROVE  LET t == [s EXCEPT !.back = ~s.back] IN
         /\ t \in Options /\ SameBounds(t, s)
         /\ t.slider = s.slider
         /\ \A p \in PhoneOptions, m \in BOOLEAN : Follows(p, m, s) =>
              LET w == [p EXCEPT !.back = ~p.back] IN
              w \in PhoneOptions /\ Follows(w, m, t) /\ Follows(p, ~m, t)
<1> DEFINE t == [s EXCEPT !.back = ~s.back]
           w(p) == [p EXCEPT !.back = ~p.back]
<1>1. s.back \in BOOLEAN /\ (~s.back) \in BOOLEAN
  BY DEF Options
<1>2. /\ t.adaptive = s.adaptive /\ t.bitrate = s.bitrate /\ t.minBitrate = s.minBitrate
      /\ t.maxBitrate = s.maxBitrate /\ t.back = ~s.back /\ t.resolution = s.resolution
      /\ t.flash = s.flash /\ t.slider = s.slider /\ t.effect = s.effect
  BY DEF Options
<1>3. t \in Options /\ SameBounds(t, s)
  BY <1>1, <1>2 DEF Options, SameBounds
<1>4. ASSUME NEW p \in PhoneOptions, NEW m \in BOOLEAN, Follows(p, m, s)
      PROVE  w(p) \in PhoneOptions /\ Follows(w(p), m, t) /\ Follows(p, ~m, t)
  <2>1. p.back \in BOOLEAN /\ (~p.back) \in BOOLEAN
    BY DEF PhoneOptions
  <2>2. w(p) \in PhoneOptions
    BY <2>1 DEF PhoneOptions
  <2>3. /\ w(p).adaptive = p.adaptive /\ w(p).bitrate = p.bitrate /\ w(p).minBitrate = p.minBitrate
        /\ w(p).maxBitrate = p.maxBitrate /\ w(p).back = ~p.back /\ w(p).resolution = p.resolution
        /\ w(p).flash = p.flash /\ w(p).slider = p.slider /\ w(p).effect = p.effect
    BY DEF PhoneOptions
  <2>4. m <=> p.back # s.back
    BY <1>4 DEF Follows
  <2> HIDE DEF w, t
  <2>5. m <=> w(p).back # t.back
    BY <1>1, <1>2, <2>1, <2>3, <2>4
  <2>6. (~m) <=> p.back # t.back
    BY <1>1, <1>2, <2>1, <2>4
  <2>7. Follows(w(p), m, t)
    BY <1>2, <1>4, <2>3, <2>5, Zenon DEF Follows, SameRates
  <2>8. Follows(p, ~m, t)
    BY <1>2, <1>4, <2>6, Zenon DEF Follows, SameRates
  <2> QED
    BY <2>2, <2>7, <2>8
<1>5. t.slider = s.slider
  BY <1>2
<1> QED
  BY <1>3, <1>4, <1>5

\* Of two rates the greater and the smaller.
LEMMA Pushed ==
  ASSUME NEW a \in Rates, NEW b \in Rates
  PROVE  /\ (IF a > b THEN a ELSE b) \in Rates
         /\ a <= (IF a > b THEN a ELSE b)
         /\ (IF a < b THEN a ELSE b) \in Rates
         /\ (IF a < b THEN a ELSE b) <= a
<1>1. a \in Int /\ b \in Int
  BY DEF Rates, MIN_BITRATE, MAX_BITRATE
<1>2. CASE a > b
  BY <1>1, <1>2
<1>3. CASE ~(a > b)
  BY <1>1, <1>3
<1> QED
  BY <1>2, <1>3

\* The sliders of the bit rates change nothing else, and one that moves a bound
\* leaves the bounds in order.
LEMMA MovedBounds ==
  ASSUME NEW s \in Options, NEW slider \in {"static", "min", "max"}, NEW v \in Bitrates
  PROVE  LET t == Moved(s, slider, v) IN
         /\ t \in Options
         /\ SameBounds(t, s) \/ t.minBitrate <= t.maxBitrate
         /\ t.back = s.back /\ t.resolution = s.resolution
         /\ t.slider = s.slider /\ t.effect = s.effect
<1>1. v \in Rates
  BY SlidersAssumption DEF Rates
<1>2. s.minBitrate \in Rates /\ s.maxBitrate \in Rates
  BY DEF Options
<1>3. CASE slider = "static"
  <2> DEFINE t == [s EXCEPT !.bitrate = v]
  <2>1. Moved(s, slider, v) = t
    BY <1>3 DEF Moved
  <2>2. /\ t.minBitrate = s.minBitrate /\ t.maxBitrate = s.maxBitrate
        /\ t.back = s.back /\ t.resolution = s.resolution
        /\ t.slider = s.slider /\ t.effect = s.effect
    BY DEF Options
  <2>3. t \in Options
    BY <1>1 DEF Options
  <2> HIDE DEF t
  <2> QED
    BY <2>1, <2>2, <2>3 DEF SameBounds
<1>4. CASE slider = "min"
  <2> DEFINE m == IF v > s.maxBitrate THEN v ELSE s.maxBitrate
             t == [s EXCEPT !.minBitrate = v, !.maxBitrate = m]
  <2>1. Moved(s, slider, v) = t
    BY <1>4 DEF Moved, Options
  <2>2. m \in Rates /\ v <= m
    BY <1>1, <1>2, Pushed
  <2> HIDE DEF m
  <2>3. /\ t.minBitrate = v /\ t.maxBitrate = m
        /\ t.back = s.back /\ t.resolution = s.resolution
        /\ t.slider = s.slider /\ t.effect = s.effect
    BY DEF Options
  <2>4. t \in Options
    BY <1>1, <2>2 DEF Options
  <2> HIDE DEF t
  <2> QED
    BY <2>1, <2>2, <2>3, <2>4
<1>5. CASE slider = "max"
  <2> DEFINE m == IF v < s.minBitrate THEN v ELSE s.minBitrate
             t == [s EXCEPT !.maxBitrate = v, !.minBitrate = m]
  <2>1. Moved(s, slider, v) = t
    BY <1>5 DEF Moved, Options
  <2>2. m \in Rates /\ m <= v
    BY <1>1, <1>2, Pushed
  <2> HIDE DEF m
  <2>3. /\ t.maxBitrate = v /\ t.minBitrate = m
        /\ t.back = s.back /\ t.resolution = s.resolution
        /\ t.slider = s.slider /\ t.effect = s.effect
    BY DEF Options
  <2>4. t \in Options
    BY <1>1, <2>2 DEF Options
  <2> HIDE DEF t
  <2> QED
    BY <2>1, <2>2, <2>3, <2>4
<1> QED
  BY <1>3, <1>4, <1>5

\* A phone that agreed with s and is sent the static bit rate, or the bounds, of
\* t agrees with t, if s and t differ in rates and their mode only.
LEMMA RatesFollow ==
  ASSUME NEW s \in Options, NEW t \in Options, NEW p \in PhoneOptions,
         NEW m \in BOOLEAN, Follows(p, m, s),
         t.back = s.back, t.resolution = s.resolution,
         t.slider = s.slider, t.effect = s.effect,
         t.minBitrate <= t.maxBitrate
  PROVE  /\ ~t.adaptive => LET w == [p EXCEPT !.adaptive = FALSE] IN
                           w \in PhoneOptions /\ Follows(w, m, t)
         /\ t.adaptive => LET w == [p EXCEPT !.adaptive = TRUE,
                                             !.minBitrate = Bits(t.minBitrate),
                                             !.maxBitrate = Bits(t.maxBitrate)] IN
                          w \in PhoneOptions /\ Follows(w, m, t)
<1>1. t.adaptive \in BOOLEAN
  BY DEF Options
<1>2. Bits(t.minBitrate) \in Int /\ Bits(t.maxBitrate) \in Int
  BY DEF Bits, Rates, Options
<1>3. ASSUME t.adaptive
      PROVE  LET w == [p EXCEPT !.adaptive = TRUE, !.minBitrate = Bits(t.minBitrate),
                                !.maxBitrate = Bits(t.maxBitrate)] IN
             w \in PhoneOptions /\ Follows(w, m, t)
  <2> DEFINE w == [p EXCEPT !.adaptive = TRUE, !.minBitrate = Bits(t.minBitrate),
                            !.maxBitrate = Bits(t.maxBitrate)]
  <2>1. w \in PhoneOptions
    BY <1>2 DEF PhoneOptions
  <2>2. /\ w.minBitrate = Bits(t.minBitrate) /\ w.maxBitrate = Bits(t.maxBitrate)
        /\ w.back = p.back /\ w.resolution = p.resolution
        /\ w.slider = p.slider /\ w.effect = p.effect
    BY DEF PhoneOptions
  <2>3. t.adaptive = TRUE /\ w.adaptive = TRUE
    BY <1>1, <1>3 DEF PhoneOptions
  <2> HIDE DEF w
  <2>4. Follows(w, m, t)
    BY <2>2, <2>3, Zenon DEF Follows, SameRates
  <2> QED
    BY <2>1, <2>4 DEF w
<1>4. ASSUME ~t.adaptive
      PROVE  LET w == [p EXCEPT !.adaptive = FALSE] IN
             w \in PhoneOptions /\ Follows(w, m, t)
  <2> DEFINE w == [p EXCEPT !.adaptive = FALSE]
  <2>1. w \in PhoneOptions
    BY DEF PhoneOptions
  <2>2. /\ w.back = p.back /\ w.resolution = p.resolution
        /\ w.slider = p.slider /\ w.effect = p.effect
    BY DEF PhoneOptions
  <2>3. t.adaptive = FALSE /\ w.adaptive = FALSE
    BY <1>1, <1>4 DEF PhoneOptions
  <2> HIDE DEF w
  <2>4. Follows(w, m, t)
    BY <2>2, <2>3, Zenon DEF Follows, SameRates
  <2> QED
    BY <2>1, <2>4 DEF w
<1> QED
  BY <1>3, <1>4

-----------------------------------------------------------------------------
(* The buttons and the dialogs                                             *)

\* The light's button.
LEMMA TorchButtonKeeps == IInv /\ TorchButton => IInv'
<1> SUFFICES ASSUME IInv, TorchButton PROVE IInv'
  OBVIOUS
<1>1. PICK d \in Names : d = connected
  BY DEF TorchButton, Pressed, IInv, WindowInv
<1>2. PICK s \in Options : s = OptionsOf(d)
  BY <1>1, DeviceOptions
<1>3. /\ InOrder(d, s)
      /\ phone # None => phone \in PhoneOptions /\ Follows(phone, missed, s) /\ s.slider # Unset
  BY <1>1, <1>2, DeviceOptions
<1> DEFINE t == [s EXCEPT !.flash = ~s.flash]
<1>4. (~s.flash) \in BOOLEAN /\ missed \in BOOLEAN
  BY DEF IInv, WindowInv
<1>5. t \in Options /\ SameBounds(t, s) /\ t.slider = s.slider
  BY <1>4, FlashKept
<1>6. phone # None => Follows(phone, missed, t)
  BY <1>3, <1>4, FlashKept
<1>7. app = "running" /\ registry' = With(registry, d, t) /\ Told(phone)
  BY <1>1, <1>2 DEF TorchButton, Pressed
<1>8. UNCHANGED <<app, file, cut, store, window, streaming, user, starts, memory>>
  BY DEF TorchButton
<1> HIDE DEF t
<1>9. InOrder(d, t)
  BY <1>3, <1>5, SameOrder
<1> QED
  BY <1>1, <1>3, <1>5, <1>6, <1>7, <1>8, <1>9, ToldKeeps

\* The camera's button: the phone switches what it has, or fails to.
LEMMA SwapButtonKeeps == IInv /\ SwapButton => IInv'
<1> SUFFICES ASSUME IInv, SwapButton PROVE IInv'
  OBVIOUS
<1>1. PICK d \in Names : d = connected
  BY DEF SwapButton, Pressed, IInv, WindowInv
<1>2. PICK s \in Options : s = OptionsOf(d)
  BY <1>1, DeviceOptions
<1>3. /\ InOrder(d, s)
      /\ phone # None => phone \in PhoneOptions /\ Follows(phone, missed, s) /\ s.slider # Unset
  BY <1>1, <1>2, DeviceOptions
<1>4. PICK p : p = phone
  OBVIOUS
<1> DEFINE t == [s EXCEPT !.back = ~s.back]
           w == [p EXCEPT !.back = ~p.back]
<1>5. missed \in BOOLEAN
  BY DEF IInv, WindowInv
<1>6. t \in Options /\ SameBounds(t, s) /\ t.slider = s.slider
  BY BackFollows
<1>7. phone # None => w \in PhoneOptions /\ Follows(w, missed, t) /\ Follows(phone, ~missed, t)
  BY <1>3, <1>4, <1>5, BackFollows
<1>8. /\ app = "running" /\ registry' = With(registry, d, t)
      /\ \/ Told(w)
         \/ phone # None /\ missed' = ~missed /\ UNCHANGED <<connected, phone, refused>>
  BY <1>1, <1>2, <1>4 DEF SwapButton, Pressed, switchCamera
<1>9. UNCHANGED <<app, file, cut, store, window, streaming, user, starts, memory>>
  BY DEF SwapButton
<1> HIDE DEF t, w
<1>10. InOrder(d, t)
  BY <1>3, <1>6, SameOrder
<1>11. CASE Told(w)
  BY <1>1, <1>3, <1>6, <1>7, <1>8, <1>9, <1>10, <1>11, ToldKeeps
<1>12. CASE phone # None /\ missed' = ~missed /\ UNCHANGED <<connected, phone, refused>>
  <2>1. /\ missed' \in BOOLEAN
        /\ phone' # None => /\ phone # None /\ phone' \in PhoneOptions
                            /\ Follows(phone', missed', t)
                            /\ t.slider # Unset
    BY <1>3, <1>5, <1>6, <1>7, <1>12
  <2> QED
    BY <1>1, <1>6, <1>8, <1>9, <1>10, <1>12, <2>1, EditKeeps
<1> QED
  BY <1>8, <1>11, <1>12

\* The light's check box.
LEMMA OnSimpleSettingChangedKeeps == IInv /\ OnSimpleSettingChanged => IInv'
<1> SUFFICES ASSUME IInv, OnSimpleSettingChanged PROVE IInv'
  OBVIOUS
<1>1. PICK d \in Names : d = dialog.name /\ (phone # None => d = connected)
  BY DialogDevice DEF OnSimpleSettingChanged, Touched
<1>2. PICK s \in Options : s = OptionsOf(d)
  BY <1>1, DeviceOptions
<1>3. /\ InOrder(d, s) /\ missed \in BOOLEAN
      /\ phone # None => phone \in PhoneOptions /\ Follows(phone, missed, s) /\ s.slider # Unset
  BY <1>1, <1>2, DeviceOptions DEF IInv, WindowInv
<1>4. PICK p : p = phone
  OBVIOUS
<1> DEFINE t == [s EXCEPT !.flash = ~s.flash]
           w == p
<1>5. (~s.flash) \in BOOLEAN
  OBVIOUS
<1>6. t \in Options /\ SameBounds(t, s) /\ t.slider = s.slider
  BY <1>5, FlashKept
<1>7. phone # None => w \in PhoneOptions /\ Follows(w, missed, t)
  BY <1>3, <1>4, <1>5, FlashKept
<1>8. app = "running" /\ registry' = With(registry, d, t) /\ Told(w)
  BY <1>1, <1>2, <1>4 DEF OnSimpleSettingChanged, Touched, Edit
<1>9. UNCHANGED <<app, file, cut, store, window, streaming, user, starts, memory>>
  BY DEF OnSimpleSettingChanged
<1> HIDE DEF t, w
<1>10. InOrder(d, t)
  BY <1>3, <1>6, SameOrder
<1> QED
  BY <1>1, <1>3, <1>6, <1>7, <1>8, <1>9, <1>10, ToldKeeps

\* The slider of a correction.
LEMMA CorrectionSliderKeeps == IInv /\ CorrectionSlider => IInv'
<1> SUFFICES ASSUME IInv, CorrectionSlider PROVE IInv'
  OBVIOUS
<1>1. PICK d \in Names : d = dialog.name /\ (phone # None => d = connected)
  BY DialogDevice DEF CorrectionSlider, Touched
<1>2. PICK s \in Options : s = OptionsOf(d)
  BY <1>1, DeviceOptions
<1>3. /\ InOrder(d, s) /\ missed \in BOOLEAN
      /\ phone # None => phone \in PhoneOptions /\ Follows(phone, missed, s) /\ s.slider # Unset
  BY <1>1, <1>2, DeviceOptions DEF IInv, WindowInv
<1>4. PICK p : p = phone
  OBVIOUS
<1>5. PICK v \in Values :
        registry' = With(registry, d, [s EXCEPT !.slider = v]) /\ Told([p EXCEPT !.slider = v])
  BY <1>1, <1>2, <1>4 DEF CorrectionSlider, Touched, Edit
<1> DEFINE t == [s EXCEPT !.slider = v]
           w == [p EXCEPT !.slider = v]
<1>6. v \in 0 .. 100
  BY SlidersAssumption
<1>7. t \in Options /\ SameBounds(t, s) /\ t.slider # Unset
  BY <1>6, SliderFollows
<1>8. phone # None => w \in PhoneOptions /\ Follows(w, missed, t)
  BY <1>3, <1>4, <1>6, SliderFollows
<1>9. app = "running" /\ registry' = With(registry, d, t) /\ Told(w)
  BY <1>1, <1>2, <1>4, <1>5 DEF CorrectionSlider, Touched, Edit
<1>10. UNCHANGED <<app, file, cut, store, window, streaming, user, starts, memory>>
  BY DEF CorrectionSlider
<1> HIDE DEF t, w
<1>11. InOrder(d, t)
  BY <1>3, <1>7, SameOrder
<1> QED
  BY <1>1, <1>3, <1>7, <1>8, <1>9, <1>10, <1>11, ToldKeeps

\* The list of effects.
LEMMA EffectChoiceKeeps == IInv /\ EffectChoice => IInv'
<1> SUFFICES ASSUME IInv, EffectChoice PROVE IInv'
  OBVIOUS
<1>1. PICK d \in Names : d = dialog.name /\ (phone # None => d = connected)
  BY DialogDevice DEF EffectChoice, Touched
<1>2. PICK s \in Options : s = OptionsOf(d)
  BY <1>1, DeviceOptions
<1>3. /\ InOrder(d, s) /\ missed \in BOOLEAN
      /\ phone # None => phone \in PhoneOptions /\ Follows(phone, missed, s) /\ s.slider # Unset
  BY <1>1, <1>2, DeviceOptions DEF IInv, WindowInv
<1>4. PICK p : p = phone
  OBVIOUS
<1>5. PICK e \in Effects \cup OtherFilters \cup {NoFilter} :
        /\ registry' = With(registry, d, [s EXCEPT !.effect = e])
        /\ Told([p EXCEPT !.effect = IF e = NoFilter THEN "" ELSE e])
  BY <1>1, <1>2, <1>4 DEF EffectChoice, Touched, Edit
<1>6. e \in EffectNames
  BY DEF EffectNames
<1>7. PICK x : Shown(x, e)
  BY DEF Shown
<1> DEFINE t == [s EXCEPT !.effect = e]
           w == [p EXCEPT !.effect = x]
<1>8. t \in Options /\ SameBounds(t, s) /\ t.slider = s.slider
  BY <1>6, <1>7, EffectFollows
<1>9. phone # None => w \in PhoneOptions /\ Follows(w, missed, t)
  BY <1>3, <1>4, <1>6, <1>7, EffectFollows
<1>10. app = "running" /\ registry' = With(registry, d, t) /\ Told(w)
  BY <1>1, <1>2, <1>4, <1>5, <1>7 DEF EffectChoice, Touched, Edit, Shown
<1>11. UNCHANGED <<app, file, cut, store, window, streaming, user, starts, memory>>
  BY DEF EffectChoice
<1> HIDE DEF t, w
<1>12. InOrder(d, t)
  BY <1>3, <1>8, SameOrder
<1> QED
  BY <1>1, <1>3, <1>8, <1>9, <1>10, <1>11, <1>12, ToldKeeps

\* The button that resets all.
LEMMA OnResetKeeps == IInv /\ OnReset => IInv'
<1> SUFFICES ASSUME IInv, OnReset PROVE IInv'
  OBVIOUS
<1>1. PICK d \in Names : d = dialog.name /\ (phone # None => d = connected)
  BY DialogDevice DEF OnReset, Touched
<1>2. PICK s \in Options : s = OptionsOf(d)
  BY <1>1, DeviceOptions
<1>3. /\ InOrder(d, s) /\ missed \in BOOLEAN
      /\ phone # None => phone \in PhoneOptions /\ Follows(phone, missed, s) /\ s.slider # Unset
  BY <1>1, <1>2, DeviceOptions DEF IInv, WindowInv
<1>4. PICK p : p = phone
  OBVIOUS
<1> DEFINE t == [s EXCEPT !.slider = 50, !.effect = NoFilter]
           w == [p EXCEPT !.slider = 50, !.effect = ""]
<1>5. 50 \in 0 .. 100
  OBVIOUS
<1>6. t \in Options /\ SameBounds(t, s) /\ t.slider # Unset
  BY <1>5, ResetFollows
<1>7. phone # None => w \in PhoneOptions /\ Follows(w, missed, t)
  BY <1>3, <1>4, <1>5, ResetFollows
<1>8. app = "running" /\ registry' = With(registry, d, t) /\ Told(w)
  BY <1>1, <1>2, <1>4 DEF OnReset, Touched, Edit
<1>9. UNCHANGED <<app, file, cut, store, window, streaming, user, starts, memory>>
  BY DEF OnReset
<1> HIDE DEF t, w
<1>10. InOrder(d, t)
  BY <1>3, <1>6, SameOrder
<1> QED
  BY <1>1, <1>3, <1>6, <1>7, <1>8, <1>9, <1>10, ToldKeeps

\* A change of the rates of the device of the dialog: an activated phone agrees,
\* one that is not may be sent bounds that a crash has put out of order.
LEMMA RatesKeep ==
  ASSUME IInv, app = "running", dialog.kind = "stream",
         NEW d \in Names, d = dialog.name, NEW s \in Options, s = OptionsOf(d),
         NEW t \in Options, SameBounds(t, s) \/ t.minBitrate <= t.maxBitrate,
         t.back = s.back, t.resolution = s.resolution,
         t.slider = s.slider, t.effect = s.effect,
         BitrateChanged(t),
         UNCHANGED <<app, file, cut, store, window, streaming, user, starts, memory>>
  PROVE  IInv'
<1>1. phone # None => d = connected
  BY DialogDevice
<1>2. /\ InOrder(d, s) /\ missed \in BOOLEAN
      /\ phone # None => phone \in PhoneOptions /\ Follows(phone, missed, s) /\ s.slider # Unset
  BY <1>1, DeviceOptions DEF IInv, WindowInv
<1>3. PICK p : p = phone
  OBVIOUS
<1>4. InOrder(d, t)
  BY <1>2, SameOrder DEF InOrder
<1>5. phone # None => t.minBitrate <= t.maxBitrate
  BY <1>2 DEF Follows, SameBounds
<1>6. t.minBitrate \in Int /\ t.maxBitrate \in Int
  BY DEF Options, Rates
<1>7. registry' = With(registry, d, t)
  BY DEF BitrateChanged, Edit
<1>8. CASE ~t.adaptive
  <2> DEFINE w == [p EXCEPT !.adaptive = FALSE]
  <2>1. Told(w)
    BY <1>3, <1>8 DEF BitrateChanged, setBitrate
  <2>2. phone # None => w \in PhoneOptions /\ Follows(w, missed, t)
    BY <1>2, <1>3, <1>5, <1>8, RatesFollow
  <2> HIDE DEF w
  <2> QED
    BY <1>1, <1>2, <1>4, <1>7, <2>1, <2>2, ToldKeeps
<1>9. CASE t.adaptive /\ (connected = None \/ t.minBitrate <= t.maxBitrate)
  <2> DEFINE w == [p EXCEPT !.adaptive = TRUE, !.minBitrate = Bits(t.minBitrate),
                            !.maxBitrate = Bits(t.maxBitrate)]
  <2>1. Told(w)
    BY <1>3, <1>6, <1>9 DEF BitrateChanged, setAdaptiveBitrate
  <2>2. phone # None => w \in PhoneOptions /\ Follows(w, missed, t)
    BY <1>2, <1>3, <1>5, <1>9, RatesFollow
  <2> HIDE DEF w
  <2> QED
    BY <1>1, <1>2, <1>4, <1>7, <2>1, <2>2, ToldKeeps
<1>10. CASE t.adaptive /\ connected # None /\ ~(t.minBitrate <= t.maxBitrate)
  <2>1. Refuse(t)
    BY <1>6, <1>10 DEF BitrateChanged
  <2>2. d \in cut
    BY <1>4, <1>10 DEF InOrder
  <2>3. Reason(t)
    BY <1>6, <1>10, <2>2 DEF Reason
  <2> QED
    BY <1>1, <1>4, <1>7, <2>1, <2>3, EditKeeps
<1> QED
  BY <1>8, <1>9, <1>10

\* The sliders of the bit rates.
LEMMA BitrateSliderKeeps == IInv /\ BitrateSlider => IInv'
<1> SUFFICES ASSUME IInv, BitrateSlider PROVE IInv'
  OBVIOUS
<1>1. PICK d \in Names : d = dialog.name /\ (phone # None => d = connected)
  BY DialogDevice DEF BitrateSlider, Touched
<1>2. PICK s \in Options : s = OptionsOf(d)
  BY <1>1, DeviceOptions
<1>3. PICK slider \in {"static", "min", "max"}, v \in Bitrates :
        BitrateChanged(Moved(s, slider, v))
  BY <1>1, <1>2 DEF BitrateSlider, Visible
<1>4. PICK t : t = Moved(s, slider, v)
  OBVIOUS
<1>5. /\ t \in Options
      /\ SameBounds(t, s) \/ t.minBitrate <= t.maxBitrate
      /\ t.back = s.back /\ t.resolution = s.resolution
      /\ t.slider = s.slider /\ t.effect = s.effect
  BY <1>4, MovedBounds
<1>6. BitrateChanged(t)
  BY <1>3, <1>4
<1>7. app = "running" /\ dialog.kind = "stream"
  BY DEF BitrateSlider, Touched
<1>8. UNCHANGED <<app, file, cut, store, window, streaming, user, starts, memory>>
  BY DEF BitrateSlider
<1> QED
  BY <1>1, <1>2, <1>5, <1>6, <1>7, <1>8, RatesKeep

\* The mode of the bit rate.
LEMMA OnBitrateModeChangedKeeps == IInv /\ OnBitrateModeChanged => IInv'
<1> SUFFICES ASSUME IInv, OnBitrateModeChanged PROVE IInv'
  OBVIOUS
<1>1. PICK d \in Names : d = dialog.name /\ (phone # None => d = connected)
  BY DialogDevice DEF OnBitrateModeChanged, Touched
<1>2. PICK s \in Options : s = OptionsOf(d)
  BY <1>1, DeviceOptions
<1>3. PICK t : t = [s EXCEPT !.adaptive = ~@]
  OBVIOUS
<1>4. (~s.adaptive) \in BOOLEAN
  OBVIOUS
<1>5. /\ t.back = s.back /\ t.resolution = s.resolution
      /\ t.slider = s.slider /\ t.effect = s.effect
      /\ SameBounds(t, s)
  BY <1>3 DEF Options, SameBounds
<1>6. t \in Options
  BY <1>3, <1>4 DEF Options
<1>7. BitrateChanged(t)
  BY <1>1, <1>2, <1>3 DEF OnBitrateModeChanged
<1>8. app = "running" /\ dialog.kind = "stream"
  BY DEF OnBitrateModeChanged, Touched
<1>9. UNCHANGED <<app, file, cut, store, window, streaming, user, starts, memory>>
  BY DEF OnBitrateModeChanged
<1> QED
  BY <1>1, <1>2, <1>5, <1>6, <1>7, <1>8, <1>9, RatesKeep

\* The sizes a device offers are sizes.
LEMMA OfferedSizes ==
  ASSUME NEW d \in Names, NEW s
  PROVE  Resolutions(d, s) \in Seq(Sizes)
BY OffersAssumption DEF Resolutions, Sizes

\* The list of sizes, of which the phone may refuse one it offered itself.
LEMMA OnResolutionChangedKeeps == IInv /\ OnResolutionChanged => IInv'
<1> SUFFICES ASSUME IInv, OnResolutionChanged PROVE IInv'
  OBVIOUS
<1>1. PICK d \in Names : d = dialog.name /\ (phone # None => d = connected)
  BY DialogDevice DEF OnResolutionChanged, Touched
<1>2. PICK s \in Options : s = OptionsOf(d)
  BY <1>1, DeviceOptions
<1>3. /\ InOrder(d, s) /\ missed \in BOOLEAN
      /\ phone # None => phone \in PhoneOptions /\ Follows(phone, missed, s) /\ s.slider # Unset
  BY <1>1, <1>2, DeviceOptions DEF IInv, WindowInv
<1>4. PICK list \in Seq(Sizes) : list = Resolutions(d, s)
  BY OfferedSizes
<1>5. PICK i \in DOMAIN list :
        /\ Edit([s EXCEPT !.resolution = list[i]])
        /\ IF connected = None \/ InRange(list[i])
           THEN Told(setResolution(list[i]))
           ELSE Refuse([s EXCEPT !.resolution = list[i]])
  BY <1>1, <1>2, <1>4 DEF OnResolutionChanged
<1>6. PICK r \in Sizes : r = list[i]
  BY <1>4
<1>7. PICK w : w = ResizedPhone(phone, r)
  OBVIOUS
<1> DEFINE t == [s EXCEPT !.resolution = r]
<1>8. t \in Options /\ SameBounds(t, s) /\ t.slider = s.slider /\ t.resolution = r
  BY <1>6, ResolutionFollows
<1>9. phone # None => w \in PhoneOptions /\ Follows(w, missed, t)
  BY <1>3, <1>6, <1>7, ResolutionFollows
<1>10. app = "running" /\ registry' = With(registry, d, t)
  BY <1>1, <1>5, <1>6 DEF OnResolutionChanged, Touched, Edit
<1>11. IF connected = None \/ InRange(r) THEN Told(w) ELSE Refuse(t)
  BY <1>5, <1>6, <1>7 DEF setResolution, ResizedPhone
<1>12. UNCHANGED <<app, file, cut, store, window, streaming, user, starts, memory>>
  BY DEF OnResolutionChanged
<1> HIDE DEF t
<1>13. InOrder(d, t)
  BY <1>3, <1>8, SameOrder
<1>14. CASE Told(w)
  BY <1>1, <1>3, <1>8, <1>9, <1>10, <1>12, <1>13, <1>14, ToldKeeps
<1>15. CASE Refuse(t) /\ ~InRange(t.resolution)
  <2>1. Reason(t)
    BY <1>15 DEF Reason
  <2> QED
    BY <1>1, <1>8, <1>10, <1>12, <1>13, <1>15, <2>1, EditKeeps
<1>16. Told(w) \/ (Refuse(t) /\ ~InRange(t.resolution))
  <2>1. InRange(t.resolution) <=> InRange(r)
    BY <1>8
  <2>2. CASE connected = None \/ InRange(r)
    BY <1>11, <2>2
  <2>3. CASE ~(connected = None \/ InRange(r))
    BY <1>11, <2>1, <2>3
  <2> QED
    BY <2>2, <2>3
<1> QED
  BY <1>14, <1>15, <1>16

\* A default for a correction without a value: the phone has one with a value,
\* if it is activated.
LEMMA InitializedOptions ==
  ASSUME IInv, NEW d \in Names, phone # None => d = connected
  PROVE  /\ EnsureStateInitialized(d) \in Options
         /\ InOrder(d, EnsureStateInitialized(d))
         /\ EnsureStateInitialized(d).slider # Unset
         /\ phone # None => /\ phone \in PhoneOptions
                            /\ Follows(phone, missed, EnsureStateInitialized(d))
<1>1. PICK s \in Options : s = OptionsOf(d)
  BY DeviceOptions
<1>2. /\ InOrder(d, s)
      /\ phone # None => phone \in PhoneOptions /\ Follows(phone, missed, s) /\ s.slider # Unset
  BY <1>1, DeviceOptions
<1>3. s.slider \in {Unset} \cup 0 .. 100
  BY DEF Options
<1>4. CASE s.slider = Unset
  <2>1. PICK t : t = [s EXCEPT !.slider = 50]
    OBVIOUS
  <2>2. EnsureStateInitialized(d) = t
    BY <1>1, <1>4, <2>1 DEF EnsureStateInitialized
  <2>3. 50 \in 0 .. 100
    OBVIOUS
  <2>4. t \in Options /\ SameBounds(t, s) /\ t.slider # Unset
    BY <2>1, <2>3, SliderFollows
  <2>5. InOrder(d, t)
    BY <1>2, <2>4, SameOrder
  <2> QED
    BY <1>2, <1>4, <2>2, <2>4, <2>5
<1>5. CASE s.slider # Unset
  <2>1. [s EXCEPT !.slider = s.slider] = s
    BY DEF Options
  <2>2. EnsureStateInitialized(d) = s
    BY <1>1, <1>5, <2>1 DEF EnsureStateInitialized
  <2> QED
    BY <1>2, <1>5, <2>2
<1> QED
  BY <1>4, <1>5

\* A dialog is opened for the device that streams.
LEMMA ShowDialogKeeps ==
  ASSUME NEW kind \in {"stream", "adjust"}
  PROVE  IInv /\ ShowDialog(kind) => IInv'
<1> SUFFICES ASSUME IInv, ShowDialog(kind) PROVE IInv'
  OBVIOUS
<1>1. PICK d \in Names : d = connected
  BY DEF ShowDialog, IInv, WindowInv
<1>2. PICK s \in Options : s = EnsureStateInitialized(d)
  BY <1>1, InitializedOptions
<1>3. /\ InOrder(d, s) /\ s.slider # Unset
      /\ phone # None => phone \in PhoneOptions /\ Follows(phone, missed, s)
  BY <1>1, <1>2, InitializedOptions
<1>4. app = "running" /\ registry' = With(registry, d, s)
  BY <1>1, <1>2 DEF ShowDialog
<1>5. /\ UNCHANGED <<app, file, cut, store, flag, checked, user, starts, memory>>
      /\ UNCHANGED <<streaming, connected, phone, missed, refused>>
  BY DEF ShowDialog, link
<1>6. streaming' \in BOOLEAN /\ missed' \in BOOLEAN /\ connected' \in {connected, None}
  BY <1>5 DEF IInv, WindowInv
<1>7. phone' # None => /\ connected' = d /\ streaming'
                       /\ phone' \in PhoneOptions
                       /\ Follows(phone', missed', s)
                       /\ s.slider # Unset
  BY <1>1, <1>3, <1>5 DEF IInv, PhoneInv
<1>8. /\ dialog' \in [kind : {"stream", "adjust"}, name : DOMAIN registry \cup {d}]
      /\ phone' # None => dialog'.name = connected'
  BY <1>1, <1>5 DEF ShowDialog
<1>9. RefusedOnlyForKnownReasons'
  BY <1>5 DEF IInv, RefusedOnlyForKnownReasons
<1> QED
  BY <1>3, <1>4, <1>5, <1>6, <1>7, <1>8, <1>9, RegistryKeeps

\* A step that leaves the devices' options, the file and the memory alone.
LEMMA StoreKept ==
  ASSUME IInv, UNCHANGED <<app, file, cut, store, registry, user, starts, memory>>,
         app # "saving"
  PROVE  StoreInv' /\ KnownInv' /\ SavingInv' /\ SavedInv'
<1> USE DEF IInv, store
<1>1. StoreInv'
  BY DEF StoreInv, OrderInv, InOrder
<1>2. KnownInv' /\ SavingInv' /\ SavedInv'
  BY DEF KnownInv, SavingInv, SavedInv
<1> QED
  BY <1>1, <1>2

\* A dialog is closed.
LEMMA CloseDialogKeeps == IInv /\ CloseDialog => IInv'
<1> SUFFICES ASSUME IInv, CloseDialog PROVE IInv'
  OBVIOUS
<1> USE DEF IInv, CloseDialog, link
<1>1. StoreInv' /\ KnownInv' /\ SavingInv' /\ SavedInv'
  BY StoreKept
<1>2. WindowInv' /\ RefusedOnlyForKnownReasons'
  BY DEF WindowInv, RefusedOnlyForKnownReasons
<1>3. PhoneInv'
  BY DEF PhoneInv, Follows, SameRates
<1> QED
  BY <1>1, <1>2, <1>3

\* A phone connects: it is not activated.
LEMMA ConnectKeeps == IInv /\ Connect => IInv'
<1> SUFFICES ASSUME IInv, Connect PROVE IInv'
  OBVIOUS
<1> USE DEF IInv, Connect
<1>1. StoreInv' /\ KnownInv' /\ SavingInv' /\ SavedInv'
  BY StoreKept
<1>2. phone = None
  <2>1. PICK r \in Maps(Options) : r = registry
    BY DEF StoreInv
  <2>2. None \notin DOMAIN registry
    BY <2>1, NamesAssumption, MapsDef
  <2> QED
    BY <2>2 DEF PhoneInv
<1>3. WindowInv'
  BY <1>2, UsersAssumption DEF WindowInv, window
<1>4. PhoneInv' /\ RefusedOnlyForKnownReasons'
  BY <1>2 DEF PhoneInv, RefusedOnlyForKnownReasons
<1> QED
  BY <1>1, <1>3, <1>4

\* A phone leaves; a dialog that was open stays.
LEMMA LeavesKeeps == IInv /\ Leaves => IInv'
<1> SUFFICES ASSUME IInv, Leaves PROVE IInv'
  OBVIOUS
<1> USE DEF IInv, Leaves
<1>1. StoreInv' /\ KnownInv' /\ SavingInv' /\ SavedInv'
  BY StoreKept
<1>2. WindowInv'
  <2>1. missed' \in BOOLEAN
    OBVIOUS
  <2> QED
    BY <2>1 DEF WindowInv, window
<1>3. PhoneInv' /\ RefusedOnlyForKnownReasons'
  BY DEF PhoneInv, RefusedOnlyForKnownReasons
<1> QED
  BY <1>1, <1>2, <1>3

\* The menu item changes the flag only.
LEMMA OnMenuEventKeeps == IInv /\ OnMenuEvent => IInv'
<1> SUFFICES ASSUME IInv, OnMenuEvent PROVE IInv'
  OBVIOUS
<1> USE DEF IInv, OnMenuEvent, link
<1>1. StoreInv' /\ KnownInv' /\ SavingInv' /\ SavedInv'
  BY StoreKept
<1>2. WindowInv'
  <2>1. checked' \in BOOLEAN
    BY Zenon
  <2> QED
    BY <2>1 DEF WindowInv
<1>3. PhoneInv'
  BY DEF PhoneInv, Follows, SameRates
<1>4. RefusedOnlyForKnownReasons'
  BY DEF RefusedOnlyForKnownReasons
<1> QED
  BY <1>1, <1>2, <1>3, <1>4

\* A size that is not offered is replaced, and nothing else.
LEMMA ValidatedOptions ==
  ASSUME NEW d \in Names, NEW s \in Options
  PROVE  \E r \in Sizes : Validated(d, s) = [s EXCEPT !.resolution = r]
<1>1. PICK list \in Seq(Sizes) : list = Resolutions(d, s)
  BY OfferedSizes
<1>2. s.resolution \in Sizes /\ s = [s EXCEPT !.resolution = s.resolution]
  BY DEF Options
<1>3. CASE list = <<>> \/ \E i \in DOMAIN list : list[i] = s.resolution
  BY <1>1, <1>2, <1>3 DEF Validated
<1>4. CASE ~(list = <<>> \/ \E i \in DOMAIN list : list[i] = s.resolution)
  <2>1. list[1] \in Sizes
    BY <1>4
  <2> QED
    BY <1>1, <1>4, <2>1 DEF Validated
<1> QED
  BY <1>3, <1>4

\* Options can be serialized but for their size and for bounds out of order.
LEMMA WhenSerializable ==
  ASSUME NEW s \in Options
  PROVE  Serializable(s) <=> InRange(s.resolution) /\ s.minBitrate <= s.maxBitrate
<1>1. /\ s.bitrate \in Rates /\ s.minBitrate \in Rates /\ s.maxBitrate \in Rates
      /\ s.slider = Unset \/ s.slider \in 0 .. 100
  BY DEF Options
<1>2. \A b \in Rates : 64 <= b /\ b <= 25000
  BY DEF Rates, MIN_BITRATE, MAX_BITRATE
<1>3. \A b \in {s.bitrate, s.minBitrate, s.maxBitrate} : 64 <= b /\ b <= 25000
  BY <1>1, <1>2
<1>4. s.slider = Unset \/ s.slider \in -100 .. 100
  BY <1>1
<1> QED
  BY <1>3, <1>4, SMT DEF Serializable

\* What the phone checks, with the range of the rates under a name.
Accepted(b) == 64000 <= b /\ b <= 50000000

\* What the phone's deserializer has looked at, field by field.
LEMMA DeserializableParts ==
  ASSUME NEW w
  PROVE  Deserializable(w)
           <=> /\ InRange(w.resolution)
               /\ \A b \in {w.bitrate, w.minBitrate, w.maxBitrate} : Accepted(b)
               /\ w.minBitrate <= w.maxBitrate
               /\ w.effect = "" \/ w.effect \in Effects
BY SMT DEF Deserializable, Accepted

\* What is sent for options with their bounds in order: they are as the phone
\* wants them, but for the size and the effect.
LEMMA SentOptions ==
  ASSUME NEW s \in Options, s.minBitrate <= s.maxBitrate
  PROVE  LET w == SerializeStreamOptions(s) IN
         /\ w \in PhoneOptions
         /\ w.back = s.back /\ w.resolution = s.resolution /\ w.adaptive = s.adaptive
         /\ w.slider = s.slider /\ w.effect = s.effect
         /\ w.minBitrate = Bits(s.minBitrate) /\ w.maxBitrate = Bits(s.maxBitrate)
         /\ InRange(s.resolution) /\ (s.effect = "" \/ s.effect \in Effects)
              => Deserializable(w)
<1> DEFINE w == SerializeStreamOptions(s)
<1>1. w = [s EXCEPT !.bitrate = Bits(s.bitrate), !.minBitrate = Bits(s.minBitrate),
                    !.maxBitrate = Bits(s.maxBitrate)]
  BY SMT DEF SerializeStreamOptions, Options
<1>2. \A b \in Rates : Bits(b) \in Int /\ 64000 <= Bits(b) /\ Bits(b) <= 50000000
  BY SMT DEF Bits, Rates, MIN_BITRATE, MAX_BITRATE
<1>3. \A a, b \in Rates : a <= b => Bits(a) <= Bits(b)
  BY SMT DEF Bits, Rates, MIN_BITRATE, MAX_BITRATE
<1>4. s.bitrate \in Rates /\ s.minBitrate \in Rates /\ s.maxBitrate \in Rates
  BY DEF Options
<1> HIDE DEF w
<1>5. w \in PhoneOptions
  <2>1. Bits(s.bitrate) \in Int /\ Bits(s.minBitrate) \in Int /\ Bits(s.maxBitrate) \in Int
    BY <1>2, <1>4
  <2> QED
    BY <1>1, <2>1 DEF Options, PhoneOptions
<1>6. /\ w.back = s.back /\ w.resolution = s.resolution /\ w.adaptive = s.adaptive
      /\ w.slider = s.slider /\ w.effect = s.effect
      /\ w.bitrate = Bits(s.bitrate) /\ w.minBitrate = Bits(s.minBitrate)
      /\ w.maxBitrate = Bits(s.maxBitrate)
  BY <1>1 DEF Options
<1>7. ASSUME InRange(s.resolution), s.effect = "" \/ s.effect \in Effects
      PROVE  Deserializable(w)
  <2>1. InRange(w.resolution) /\ (w.effect = "" \/ w.effect \in Effects)
    BY <1>6, <1>7, Zenon
  <2>2. \A b \in {w.bitrate, w.minBitrate, w.maxBitrate} : Accepted(b)
    BY <1>2, <1>4, <1>6, SMT DEF Accepted
  <2>3. w.minBitrate <= w.maxBitrate
    BY <1>3, <1>4, <1>6, SMT
  <2> QED
    BY <2>1, <2>2, <2>3, DeserializableParts, Zenon
<1> QED
  BY <1>5, <1>6, <1>7, Zenon DEF w

\* An activation follows the options it was made of, of which the phone has
\* missed no switch: one with the name "None" for an effect is not accepted.
LEMMA ActivationFollows ==
  ASSUME NEW s \in Options, s.minBitrate <= s.maxBitrate,
         Deserializable(SerializeStreamOptions(s))
  PROVE  Follows(SerializeStreamOptions(s), FALSE, s)
<1> DEFINE w == SerializeStreamOptions(s)
<1>1. /\ w.back = s.back /\ w.resolution = s.resolution /\ w.adaptive = s.adaptive
      /\ w.slider = s.slider /\ w.effect = s.effect
      /\ w.minBitrate = Bits(s.minBitrate) /\ w.maxBitrate = Bits(s.maxBitrate)
  BY SentOptions, Zenon
<1>2. Deserializable(w)
  OBVIOUS
<1> HIDE DEF w
<1>3. w.effect = "" \/ w.effect \in Effects
  BY <1>2, DeserializableParts, Zenon
<1>4. s.effect # NoFilter
  BY <1>1, <1>3, FiltersAssumption DEF NoFilter
<1>5. Follows(w, FALSE, s)
  BY <1>1, <1>4, Zenon DEF Follows, SameRates
<1> QED
  BY <1>5 DEF w

\* A refused activation has an effect the phone does not know as one.
LEMMA ActivationRefused ==
  ASSUME NEW s \in Options, Serializable(s), ~Deserializable(SerializeStreamOptions(s))
  PROVE  s.effect \in OtherFilters \cup {NoFilter}
<1>1. InRange(s.resolution) /\ s.minBitrate <= s.maxBitrate
  BY WhenSerializable
<1>2. ~(s.effect = "" \/ s.effect \in Effects)
  BY <1>1, SentOptions, Zenon
<1>3. s.effect \in EffectNames
  BY DEF Options
<1> QED
  BY <1>2, <1>3 DEF EffectNames

\* A phone is chosen: its size is checked, and it is activated, or refuses, or
\* nothing is sent.
LEMMA OnSourceChangedKeeps == IInv /\ OnSourceChanged => IInv'
<1> SUFFICES ASSUME IInv, OnSourceChanged PROVE IInv'
  OBVIOUS
<1>1. PICK d \in Names : d = connected
  BY DEF OnSourceChanged, IInv, WindowInv
<1>2. PICK e \in Options : e = EnsureStateInitialized(d)
  BY <1>1, InitializedOptions
<1>3. /\ InOrder(d, e) /\ e.slider # Unset /\ missed \in BOOLEAN
      /\ phone # None => phone \in PhoneOptions /\ Follows(phone, missed, e)
  BY <1>1, <1>2, InitializedOptions DEF IInv, WindowInv
<1>4. PICK r \in Sizes : Validated(d, e) = [e EXCEPT !.resolution = r]
  BY ValidatedOptions
<1>5. PICK s : s = [e EXCEPT !.resolution = r]
  OBVIOUS
<1>6. s \in Options /\ SameBounds(s, e) /\ s.slider = e.slider
  BY <1>5, ResolutionFollows
<1>7. InOrder(d, s)
  BY <1>3, <1>6, SameOrder
<1>8. /\ app = "running" /\ registry' = With(registry, d, s)
      /\ Connect2Stream(s)
      /\ dialog = Closed
      /\ UNCHANGED <<app, file, cut, store, window, user, starts, memory>>
  BY <1>1, <1>2, <1>4, <1>5 DEF OnSourceChanged
<1>9. streaming' = TRUE /\ streaming' \in BOOLEAN
  BY <1>8 DEF Connect2Stream
<1> DEFINE w == SerializeStreamOptions(s)
<1>10. \/ ~Serializable(s) /\ UNCHANGED <<connected, phone, missed, refused>>
       \/ Serializable(s) /\ Deserializable(w)
          /\ phone' = w /\ missed' = FALSE /\ UNCHANGED <<connected, refused>>
       \/ Serializable(s) /\ ~Deserializable(w) /\ Refuse(s)
  BY <1>8 DEF Connect2Stream
<1>11. CASE ~Serializable(s) /\ UNCHANGED <<connected, phone, missed, refused>>
  <2>1. phone # None => s.minBitrate <= s.maxBitrate
    BY <1>3, <1>6 DEF Follows, SameBounds
  <2>2. phone # None => ~InRange(s.resolution)
    BY <1>6, <1>11, <2>1, WhenSerializable
  <2>3. /\ s.adaptive = e.adaptive /\ s.minBitrate = e.minBitrate
        /\ s.maxBitrate = e.maxBitrate /\ s.back = e.back
        /\ s.slider = e.slider /\ s.effect = e.effect
    BY <1>5 DEF Options
  <2>4. phone # None => Follows(phone, missed, s)
    BY <1>3, <2>2, <2>3, Zenon DEF Follows, SameRates
  <2>5. connected' \in {connected, None} /\ missed' \in BOOLEAN
    BY <1>3, <1>11
  <2>6. phone' # None => /\ connected' = d
                         /\ phone' \in PhoneOptions
                         /\ Follows(phone', missed', s)
                         /\ s.slider # Unset
    BY <1>1, <1>3, <1>6, <1>11, <2>4
  <2>7. RefusedOnlyForKnownReasons'
    BY <1>8, <1>11 DEF IInv, RefusedOnlyForKnownReasons
  <2> QED
    BY <1>6, <1>7, <1>8, <1>9, <2>5, <2>6, <2>7, RegistryKeeps DEF window
<1>12. CASE Serializable(s) /\ Deserializable(w)
            /\ phone' = w /\ missed' = FALSE /\ UNCHANGED <<connected, refused>>
  <2>1. s.minBitrate <= s.maxBitrate
    BY <1>6, <1>12, WhenSerializable
  <2>2. w \in PhoneOptions /\ Follows(w, FALSE, s)
    BY <1>6, <1>12, <2>1, SentOptions, ActivationFollows
  <2> HIDE DEF w
  <2>3. connected' \in {connected, None} /\ missed' \in BOOLEAN
    BY <1>12
  <2>4. phone' # None => /\ connected' = d
                         /\ phone' \in PhoneOptions
                         /\ Follows(phone', missed', s)
                         /\ s.slider # Unset
    BY <1>1, <1>3, <1>6, <1>12, <2>2
  <2>5. RefusedOnlyForKnownReasons'
    BY <1>8, <1>12 DEF IInv, RefusedOnlyForKnownReasons
  <2> QED
    BY <1>6, <1>7, <1>8, <1>9, <2>3, <2>4, <2>5, RegistryKeeps DEF window
<1>13. CASE Serializable(s) /\ ~Deserializable(w) /\ Refuse(s)
  <2>1. s.effect \in OtherFilters \cup {NoFilter}
    BY <1>6, <1>13, ActivationRefused
  <2>2. connected' = None /\ phone' = None /\ missed' = FALSE /\ refused' = s
    BY <1>13 DEF Refuse
  <2>3. RefusedOnlyForKnownReasons'
    BY <2>1, <2>2 DEF RefusedOnlyForKnownReasons
  <2>4. missed' \in BOOLEAN /\ connected' \in {connected, None}
    BY <2>2
  <2> QED
    BY <1>6, <1>7, <1>8, <1>9, <2>2, <2>3, <2>4, RegistryKeeps DEF window
<1> QED
  BY <1>10, <1>11, <1>12, <1>13

-----------------------------------------------------------------------------
(* The file                                                                *)

\* What Load makes of the sections of the file are options.
LEMMA LoadedMap ==
  ASSUME NEW p \in Maps(Lines)
  PROVE  [d \in DOMAIN p |-> ParseDeviceLine(p[d])] \in Maps(Options)
<1>1. DOMAIN p \subseteq Names /\ \A d \in DOMAIN p : p[d] \in Lines
  BY MapsDef
<1>2. \A d \in DOMAIN p : ParseDeviceLine(p[d]) \in Options
  BY <1>1, ParsedOptions
<1>3. [d \in DOMAIN p |-> ParseDeviceLine(p[d])] \in [DOMAIN p -> Options]
  BY <1>2
<1> QED
  BY <1>1, <1>3 DEF Maps

\* The application starts and reads the file.
LEMMA StartKeeps == IInv /\ Start => IInv'
<1> SUFFICES ASSUME IInv, Start PROVE IInv'
  OBVIOUS
<1>1. PICK p \in Maps(Lines) : p = file.presets
  BY DEF IInv, StoreInv
<1>2. /\ file.flag \in {Unset, 0, 1} /\ (file.flag # 1 => DOMAIN p = {})
      /\ \A d \in DOMAIN p : InOrder(d, ParseDeviceLine(p[d]))
  BY <1>1 DEF IInv, StoreInv, OrderInv, Start
<1>3. PICK l \in Maps(Options) : l = [d \in DOMAIN p |-> ParseDeviceLine(p[d])]
  BY LoadedMap
<1>4. /\ loaded' = l /\ DOMAIN l = DOMAIN p
      /\ \A d \in DOMAIN l : InOrder(d, l[d])
  BY <1>1, <1>2, <1>3 DEF Start, Load
<1>5. DOMAIN preserved' = {}
  BY <1>1, <1>2, NothingMap DEF Start, Load
<1>6. registry' = IF flag' = 1 THEN l ELSE Nothing
  BY <1>4 DEF Start, GetDeviceStates
<1>7. flag' = file.flag /\ file' = file /\ cut' = cut
  BY DEF Start, Load
<1>8. registry' \in Maps(Options) /\ \A d \in DOMAIN registry' : InOrder(d, registry'[d])
  BY <1>4, <1>6, NothingMap
<1>9. OrderInv'
  BY <1>1, <1>2, <1>4, <1>7, <1>8 DEF OrderInv, InOrder
<1>10. StoreInv'
  BY <1>4, <1>5, <1>7, <1>8, <1>9 DEF IInv, StoreInv
<1>11. dialog' = Closed /\ phone' = None
  BY DEF Start, IInv, WindowInv, link
<1>12. WindowInv'
  <2>1. starts' \in 0 .. user.starts
    BY UsersAssumption DEF Start, IInv, WindowInv
  <2>2. checked' \in BOOLEAN
    BY DEF Start
  <2> QED
    BY <1>2, <1>7, <1>11, <2>1, <2>2 DEF Start, IInv, WindowInv, link
<1>13. PhoneInv'
  BY <1>11 DEF PhoneInv
<1>14. KnownInv'
  BY <1>1, <1>4, <1>6, <1>7 DEF KnownInv
<1>15. SavingInv' /\ SavedInv' /\ RefusedOnlyForKnownReasons'
  BY DEF Start, SavingInv, SavedInv, IInv, RefusedOnlyForKnownReasons, link
<1> QED
  BY <1>10, <1>12, <1>13, <1>14, <1>15 DEF IInv

\* The window is closed: Save empties the file.
LEMMA OnWindowCloseEventKeeps == IInv /\ OnWindowCloseEvent => IInv'
<1> SUFFICES ASSUME IInv, OnWindowCloseEvent PROVE IInv'
  OBVIOUS
<1> USE DEF IInv, OnWindowCloseEvent
<1>1. loaded' = IF flag = 1 THEN registry ELSE loaded
  BY DEF UpdateDeviceStates
<1>2. /\ file' \in [flag : {Unset, 0, 1}, presets : Maps(Lines)]
      /\ file'.flag = Unset /\ DOMAIN file'.presets = {}
  BY NothingMap
<1>3. OrderInv'
  BY <1>1 DEF StoreInv, OrderInv, InOrder
<1>4. StoreInv'
  BY <1>1, <1>2, <1>3 DEF StoreInv
<1>5. WindowInv'
  <2>1. streaming' \in BOOLEAN /\ missed' \in BOOLEAN
    OBVIOUS
  <2> QED
    BY <2>1 DEF WindowInv, window
<1>6. PhoneInv' /\ KnownInv' /\ SavedInv' /\ RefusedOnlyForKnownReasons'
  BY DEF PhoneInv, KnownInv, SavedInv, RefusedOnlyForKnownReasons
<1>7. SavingInv'
  <2>1. PICK p \in Maps(Lines), r \in Maps(Options), on \in BOOLEAN :
          p = file.presets /\ r = registry /\ on = (file.flag = 1)
    BY DEF StoreInv
  <2>2. memory' = [before |-> p, wasOn |-> on, after |-> r]
    BY <2>1
  <2>3. on => DOMAIN p \subseteq DOMAIN r
    BY <2>1 DEF KnownInv
  <2>4. flag' = 1 => loaded' = r
    BY <1>1, <2>1 DEF window
  <2>5. /\ memory' \in [before : Maps(Lines), wasOn : BOOLEAN, after : Maps(Options)]
        /\ memory'.before = p /\ memory'.wasOn = on /\ memory'.after = r
    BY <2>2
  <2> QED
    BY <1>2, <2>3, <2>4, <2>5 DEF SavingInv
<1> QED
  BY <1>4, <1>5, <1>6, <1>7

\* What Save is to write are the sections of the loaded states, which have their
\* bounds in order or cut, and nothing if the feature is off.
LEMMA ToWriteSections ==
  ASSUME IInv
  PROVE  /\ DOMAIN ToWrite \subseteq Names
         /\ \A d \in DOMAIN ToWrite : /\ flag = 1 /\ d \in DOMAIN loaded
                                      /\ loaded[d] \in Options /\ InOrder(d, loaded[d])
                                      /\ ToWrite[d] = Section(loaded[d])
<1>1. PICK l \in Maps(Options) : l = loaded
  BY DEF IInv, StoreInv
<1>2. DOMAIN l \subseteq Names /\ \A d \in DOMAIN l : l[d] \in Options
  BY MapsDef
<1>3. DOMAIN preserved = {} /\ \A d \in DOMAIN loaded : InOrder(d, loaded[d])
  BY DEF IInv, StoreInv, OrderInv
<1>4. CASE flag = 1
  BY <1>1, <1>2, <1>3, <1>4 DEF ToWrite
<1>5. CASE flag # 1
  BY <1>3, <1>5 DEF ToWrite
<1> QED
  BY <1>4, <1>5

\* The settings are written.
LEMMA SaveSettingsKeeps == IInv /\ SaveSettings => IInv'
<1> SUFFICES ASSUME IInv, SaveSettings PROVE IInv'
  OBVIOUS
<1> USE DEF IInv, SaveSettings, store, window, link
<1>1. /\ file' \in [flag : {Unset, 0, 1}, presets : Maps(Lines)]
      /\ file'.flag = flag /\ file'.presets = file.presets
  BY DEF StoreInv, WindowInv
<1>2. DOMAIN file.presets = {}
  BY DEF StoreInv, Unset
<1>3. OrderInv'
  BY DEF StoreInv, OrderInv, InOrder
<1>4. StoreInv'
  BY <1>1, <1>2, <1>3 DEF StoreInv
<1>5. WindowInv' /\ RefusedOnlyForKnownReasons'
  BY DEF WindowInv, RefusedOnlyForKnownReasons
<1>6. PhoneInv'
  BY DEF PhoneInv, WindowInv
<1>7. KnownInv' /\ SavedInv'
  BY DEF KnownInv, SavedInv
<1>8. ToWrite' = ToWrite
  BY DEF ToWrite
<1>9. SavingInv'
  BY <1>1, <1>2, <1>8 DEF SavingInv
<1> QED
  BY <1>4, <1>5, <1>6, <1>7, <1>9

\* A line is written, after which d has n lines of its section.
LEMMA LineKeeps ==
  ASSUME IInv, app = "saving", NEW d \in DOMAIN ToWrite, NEW n \in 0 .. 9,
         file.flag = flag,
         file' = [file EXCEPT !.presets = With(file.presets, d, Cut(ToWrite[d], n))],
         UNCHANGED <<app, cut, store, window, registry, link, user, starts, memory>>
  PROVE  IInv'
<1> USE DEF IInv, store, window, link
<1>1. PICK p \in Maps(Lines) : p = file.presets
  BY DEF StoreInv
<1>2. PICK x : x = Cut(ToWrite[d], n)
  OBVIOUS
<1>3. d \in Names /\ x \in Lines /\ flag = 1
  BY <1>2, ToWriteSections DEF Lines
<1>4. With(p, d, x) \in Maps(Lines)
  BY <1>3, WithMap
<1>5. /\ DOMAIN With(p, d, x) = DOMAIN p \cup {d}
      /\ \A k \in DOMAIN p \cup {d} : With(p, d, x)[k] = IF k = d THEN x ELSE p[k]
  BY DEF With
<1>6. /\ file' \in [flag : {Unset, 0, 1}, presets : Maps(Lines)]
      /\ file'.flag = file.flag /\ file'.presets = With(p, d, x)
  BY <1>1, <1>2, <1>4 DEF StoreInv
<1>7. OrderInv'
  BY DEF StoreInv, OrderInv, InOrder
<1>8. StoreInv'
  BY <1>3, <1>6, <1>7 DEF StoreInv
<1>9. WindowInv' /\ RefusedOnlyForKnownReasons'
  BY DEF WindowInv, RefusedOnlyForKnownReasons
<1>10. PhoneInv'
  BY DEF PhoneInv, WindowInv
<1>11. KnownInv' /\ SavedInv'
  BY DEF KnownInv, SavedInv
<1>12. ToWrite' = ToWrite
  BY DEF ToWrite
<1>13. SavingInv'
  <2>1. /\ DOMAIN p \subseteq DOMAIN ToWrite
        /\ \A k \in DOMAIN p : \E m \in 0 .. 9 : p[k] = Cut(ToWrite[k], m)
    BY <1>1 DEF SavingInv
  <2>2. DOMAIN file'.presets \subseteq DOMAIN ToWrite
    BY <1>5, <1>6, <2>1
  <2>3. ASSUME NEW k \in DOMAIN file'.presets
        PROVE  \E m \in 0 .. 9 : file'.presets[k] = Cut(ToWrite[k], m)
    <3>1. CASE k = d
      BY <1>2, <1>5, <1>6, <3>1
    <3>2. CASE k # d
      BY <1>5, <1>6, <2>1, <3>2
    <3> QED
      BY <3>1, <3>2
  <2> QED
    BY <1>6, <1>12, <2>2, <2>3 DEF SavingInv
<1> QED
  BY <1>8, <1>9, <1>10, <1>11, <1>13

\* The section of a device is begun.
LEMMA SaveDeviceKeeps == IInv /\ SaveDevice => IInv'
<1> SUFFICES ASSUME IInv, SaveDevice PROVE IInv'
  OBVIOUS
<1>1. PICK d \in DOMAIN ToWrite :
        file' = [file EXCEPT !.presets = With(file.presets, d, Cut(ToWrite[d], 0))]
  BY DEF SaveDevice, IInv, StoreInv
<1>2. /\ app = "saving" /\ file.flag = flag
      /\ UNCHANGED <<app, cut, store, window, registry, link, user, starts, memory>>
  BY DEF SaveDevice
<1>3. 0 \in 0 .. 9
  OBVIOUS
<1> QED
  BY <1>1, <1>2, <1>3, LineKeeps

\* Its next line: a section that was begun is to be written, and the feature on.
LEMMA SaveLineKeeps == IInv /\ SaveLine => IInv'
<1> SUFFICES ASSUME IInv, SaveLine PROVE IInv'
  OBVIOUS
<1>1. PICK d \in DOMAIN file.presets, n \in 1 .. 9 :
        file' = [file EXCEPT !.presets = With(file.presets, d, Cut(ToWrite[d], n))]
  BY DEF SaveLine, IInv, StoreInv
<1>2. /\ app = "saving"
      /\ UNCHANGED <<app, cut, store, window, registry, link, user, starts, memory>>
  BY DEF SaveLine
<1>3. d \in DOMAIN ToWrite /\ n \in 0 .. 9
  BY <1>1, <1>2 DEF IInv, SavingInv
<1>4. file.flag = flag
  BY <1>2 DEF IInv, StoreInv, SavingInv, Unset
<1> QED
  BY <1>1, <1>2, <1>3, <1>4, LineKeeps

\* A process that ends leaves the file, of which the next one may load bounds
\* in order or cut.
LEMMA ProcessEndsKeeps ==
  ASSUME IInv, ProcessEnds, cut' \subseteq Names,
         \A d \in DOMAIN file.presets : InOrder(d, ParseDeviceLine(file.presets[d]))'
  PROVE  /\ StoreInv' /\ WindowInv' /\ PhoneInv' /\ KnownInv' /\ SavingInv'
         /\ RefusedOnlyForKnownReasons'
<1> USE DEF IInv, ProcessEnds
<1>1. /\ registry' \in Maps(Options) /\ loaded' \in Maps(Options)
      /\ DOMAIN registry' = {} /\ DOMAIN loaded' = {} /\ DOMAIN preserved' = {}
  BY NothingMap
<1>2. OrderInv'
  BY <1>1 DEF OrderInv
<1>3. StoreInv'
  BY <1>1, <1>2 DEF StoreInv
<1>4. WindowInv'
  <2>1. checked' \in BOOLEAN /\ streaming' \in BOOLEAN /\ missed' \in BOOLEAN
    OBVIOUS
  <2> QED
    BY <2>1 DEF WindowInv
<1>5. PhoneInv' /\ KnownInv' /\ SavingInv' /\ RefusedOnlyForKnownReasons'
  BY DEF PhoneInv, KnownInv, SavingInv, RefusedOnlyForKnownReasons
<1> QED
  BY <1>3, <1>4, <1>5

\* Save has written everything: the next process loads what this one knew.
LEMMA SaveEndsKeeps == IInv /\ SaveEnds => IInv'
<1> SUFFICES ASSUME IInv, SaveEnds PROVE IInv'
  OBVIOUS
<1>1. /\ app = "saving" /\ file.flag = flag /\ DOMAIN ToWrite = DOMAIN file.presets
      /\ memory' = memory /\ file' = file /\ cut' = cut /\ ProcessEnds
      /\ \A d \in DOMAIN ToWrite : file.presets[d] = ToWrite[d]
  BY DEF SaveEnds, ProcessEnds, Written
<1>2. /\ memory \in [before : Maps(Lines), wasOn : BOOLEAN, after : Maps(Options)]
      /\ memory.wasOn => DOMAIN memory.before \subseteq DOMAIN memory.after
      /\ flag = 1 => loaded = memory.after
  BY <1>1 DEF IInv, SavingInv
<1>3. file.flag = 1 => /\ DOMAIN file.presets = DOMAIN memory.after
                       /\ \A d \in DOMAIN memory.after :
                            file.presets[d] = Section(memory.after[d])
  BY <1>1, <1>2 DEF ToWrite
<1>4. SavedInv'
  BY <1>1, <1>2, <1>3 DEF SavedInv
<1>5. ASSUME NEW d \in DOMAIN file.presets
      PROVE  InOrder(d, ParseDeviceLine(file.presets[d]))'
  <2>1. PICK s \in Options : file.presets[d] = Section(s) /\ InOrder(d, s)
    BY <1>1, ToWriteSections
  <2>2. ParseDeviceLine(file.presets[d]) = s
    BY <2>1, RoundTrip
  <2> QED
    BY <1>1, <2>1, <2>2 DEF InOrder
<1>6. cut' \subseteq Names
  BY <1>1 DEF IInv, StoreInv
<1> QED
  BY <1>1, <1>4, <1>5, <1>6, ProcessEndsKeeps DEF IInv

\* The process ends otherwise: the sections of the file are cut short, and one
\* that has lost its upper bound is recorded.
LEMMA CrashKeeps == IInv /\ Crash => IInv'
<1> SUFFICES ASSUME IInv, Crash PROVE IInv'
  OBVIOUS
<1>1. /\ app # "off" /\ ProcessEnds /\ memory' = None /\ file' = file
      /\ cut' = cut \cup {d \in DOMAIN file.presets : LostMax(file.presets[d])}
  BY DEF Crash, ProcessEnds
<1>2. SavedInv'
  BY <1>1 DEF SavedInv
<1>3. ASSUME NEW d \in DOMAIN file.presets
      PROVE  InOrder(d, ParseDeviceLine(file.presets[d]))'
  <2>1. \/ InOrder(d, ParseDeviceLine(file.presets[d]))
        \/ /\ LostMax(file.presets[d])
           /\ ParseDeviceLine(file.presets[d]).maxBitrate = StreamOptions.maxBitrate
    <3>1. CASE app # "saving"
      BY <3>1 DEF IInv, StoreInv, OrderInv
    <3>2. CASE app = "saving"
      <4>1. PICK n \in 0 .. 9 : file.presets[d] = Cut(ToWrite[d], n) /\ d \in DOMAIN ToWrite
        BY <3>2 DEF IInv, SavingInv
      <4>2. PICK s \in Options : ToWrite[d] = Section(s) /\ InOrder(d, s)
        BY <4>1, ToWriteSections
      <4> QED
        BY <4>1, <4>2, CutInOrder
    <3> QED
      BY <3>1, <3>2
  <2>2. PICK t : t = ParseDeviceLine(file.presets[d])
    OBVIOUS
  <2>3. t.minBitrate <= t.maxBitrate \/ (d \in cut' /\ t.maxBitrate = StreamOptions.maxBitrate)
    BY <1>1, <2>1, <2>2 DEF InOrder
  <2>4. t = ParseDeviceLine(file.presets[d])'
    BY <1>1, <2>2 DEF ParseDeviceLine
  <2> QED
    BY <1>1, <2>2, <2>3, <2>4 DEF InOrder
<1>4. cut' \subseteq Names
  <2>1. PICK p \in Maps(Lines) : p = file.presets
    BY DEF IInv, StoreInv
  <2>2. DOMAIN file.presets \subseteq Names
    BY <2>1, MapsDef
  <2> QED
    BY <1>1, <2>2 DEF IInv, StoreInv
<1> QED
  BY <1>1, <1>2, <1>3, <1>4, ProcessEndsKeeps DEF IInv

-----------------------------------------------------------------------------
(* The theorems                                                            *)

\* The invariant holds at first.
LEMMA InitInv == Init => IInv
<1> SUFFICES ASSUME Init PROVE IInv
  OBVIOUS
<1> USE DEF Init
<1>1. OrderInv
  BY NothingMap DEF OrderInv
<1>2. StoreInv
  BY <1>1, NothingMap DEF StoreInv
<1>3. WindowInv
  <2>1. checked \in BOOLEAN /\ streaming \in BOOLEAN /\ missed \in BOOLEAN
    OBVIOUS
  <2>2. starts \in 0 .. user.starts
    BY UsersAssumption
  <2> QED
    BY <2>1, <2>2 DEF WindowInv
<1>4. PhoneInv /\ KnownInv /\ SavingInv /\ SavedInv /\ RefusedOnlyForKnownReasons
  BY DEF PhoneInv, KnownInv, SavingInv, SavedInv, RefusedOnlyForKnownReasons
<1> QED
  BY <1>2, <1>3, <1>4 DEF IInv

\* A step in which nothing changes keeps it.
LEMMA StutterKeeps == IInv /\ UNCHANGED vars => IInv'
<1> SUFFICES ASSUME IInv, UNCHANGED vars PROVE IInv'
  OBVIOUS
<1> USE DEF IInv, vars, store, window, link
<1>1. StoreInv'
  BY DEF StoreInv, OrderInv, InOrder
<1>2. WindowInv' /\ KnownInv' /\ RefusedOnlyForKnownReasons'
  BY DEF WindowInv, KnownInv, RefusedOnlyForKnownReasons
<1>3. PhoneInv'
  BY DEF PhoneInv, Follows, SameRates
<1>4. ToWrite' = ToWrite
  BY DEF ToWrite
<1>5. SavingInv' /\ SavedInv'
  BY <1>4 DEF SavingInv, SavedInv
<1> QED
  BY <1>1, <1>2, <1>3, <1>5

\* IInv is an invariant.
THEOREM Invariance == Spec => []IInv
<1>1. IInv /\ [Next]_vars => IInv'
  <2> SUFFICES ASSUME IInv, [Next]_vars PROVE IInv'
    OBVIOUS
  <2>1. CASE Start \/ OnMenuEvent \/ OnWindowCloseEvent
    BY <2>1, StartKeeps, OnMenuEventKeeps, OnWindowCloseEventKeeps
  <2>2. CASE SaveSettings \/ SaveDevice \/ SaveLine \/ SaveEnds \/ Crash
    BY <2>2, SaveSettingsKeeps, SaveDeviceKeeps, SaveLineKeeps, SaveEndsKeeps, CrashKeeps
  <2>3. CASE Connect \/ Leaves \/ OnSourceChanged
    BY <2>3, ConnectKeeps, LeavesKeeps, OnSourceChangedKeeps
  <2>4. CASE TorchButton \/ SwapButton
    BY <2>4, TorchButtonKeeps, SwapButtonKeeps
  <2>5. CASE ShowDialog("stream") \/ ShowDialog("adjust") \/ CloseDialog
    BY <2>5, ShowDialogKeeps, CloseDialogKeeps
  <2>6. CASE BitrateSlider \/ OnBitrateModeChanged \/ OnResolutionChanged
    BY <2>6, BitrateSliderKeeps, OnBitrateModeChangedKeeps, OnResolutionChangedKeeps
  <2>7. CASE OnSimpleSettingChanged \/ CorrectionSlider \/ EffectChoice \/ OnReset
    BY <2>7, OnSimpleSettingChangedKeeps, CorrectionSliderKeeps, EffectChoiceKeeps, OnResetKeeps
  <2>8. CASE UNCHANGED vars
    BY <2>8, StutterKeeps
  <2> QED
    BY <2>1, <2>2, <2>3, <2>4, <2>5, <2>6, <2>7, <2>8 DEF Next
<1> QED
  BY <1>1, InitInv, PTL DEF Spec

\* Wherever Save was cut off, the states that are loaded are those of whole
\* devices; a section of the file has lines of known options only.
THEOREM PresetsTypeOK == Spec => []TypeOK
<1>1. IInv => TypeOK
  <2> SUFFICES ASSUME IInv PROVE TypeOK
    OBVIOUS
  <2>1. PICK r \in Maps(Options), l \in Maps(Options), p \in Maps(Lines) :
          r = registry /\ l = loaded /\ p = file.presets
    BY DEF IInv, StoreInv
  <2>2. \A f \in {r, l} : DOMAIN f \subseteq Names /\ \A d \in DOMAIN f : f[d] \in Options
    BY MapsDef
  <2>3. DOMAIN p \subseteq Names /\ \A d \in DOMAIN p : p[d] \in Lines
    BY MapsDef
  <2>4. DOMAIN preserved = {}
    BY DEF IInv, StoreInv
  <2>5. DOMAIN StreamOptions = Fields /\ \A s \in Options : DOMAIN s = Fields
    BY DefaultOptions, OptionFields
  <2>6. \A f \in States : \A d \in DOMAIN f : DOMAIN f[d] = DOMAIN StreamOptions
    BY <2>1, <2>2, <2>5 DEF States
  <2>7. \A f \in Sections : \A d \in DOMAIN f : DOMAIN f[d] \subseteq DOMAIN StreamOptions
    BY <2>1, <2>3, <2>4, <2>5, LinesOfFields DEF Sections
  <2>8. \A f \in Sections \cup States : DOMAIN f \subseteq Names
    BY <2>1, <2>2, <2>3, <2>4 DEF Sections, States
  <2>9. /\ app \in {"off", "running", "saving"}
        /\ {file.flag, flag} \subseteq {Unset, 0, 1}
        /\ cut \subseteq Names /\ connected \in Names \cup {None}
        /\ user \in Users /\ starts \in 0 .. user.starts
    BY DEF IInv, StoreInv, WindowInv
  <2>10. {checked, streaming, missed} \subseteq BOOLEAN
    BY Zenon DEF IInv, WindowInv
  <2>11. \/ dialog = Closed
         \/ dialog.kind \in {"stream", "adjust"} /\ dialog.name \in DOMAIN registry
    BY DEF IInv, WindowInv
  <2>12. phone # None => connected # None /\ streaming
    <3>1. None \notin DOMAIN r
      BY <2>2, NamesAssumption
    <3> QED
      BY <2>1, <3>1 DEF IInv, PhoneInv
  <2> QED
    BY <2>6, <2>7, <2>8, <2>9, <2>10, <2>11, <2>12 DEF TypeOK
<1> QED
  BY <1>1, Invariance, PTL

\* No sequence of slider moves, saves, crashes and loads makes
\* SerializeStreamOptions throw for a bit rate or a correction, but the loss of
\* an upper bound in a crash of Save, and only while that bound is the default.
THEOREM BitratesSafe == Spec => []BitratesStaySerializable
<1>1. IInv => BitratesStaySerializable
  <2> SUFFICES ASSUME IInv, NEW d \in DOMAIN registry,
                      NEW s, s = [registry[d] EXCEPT !.resolution = StreamOptions.resolution]
               PROVE  \/ Serializable(s)
                      \/ /\ d \in cut /\ s.maxBitrate = StreamOptions.maxBitrate
                         /\ Serializable([s EXCEPT !.minBitrate = s.maxBitrate])
    BY DEF BitratesStaySerializable
  <2>1. PICK r \in Maps(Options) : r = registry
    BY DEF IInv, StoreInv
  <2>2. PICK o \in Options : o = registry[d] /\ InOrder(d, o)
    BY <2>1, MapsDef DEF IInv, StoreInv, OrderInv
  <2>3. PICK z \in Sizes : z = StreamOptions.resolution /\ InRange(z)
    <3>1. StreamOptions.resolution = <<640, 480>>
      BY SMT DEF StreamOptions
    <3>2. InRange(<<640, 480>>)
      BY SMT DEF InRange
    <3>3. <<640, 480>> \in Sizes
      BY SMT DEF Sizes
    <3> QED
      BY <3>1, <3>2, <3>3, SMT
  <2>4. s = [o EXCEPT !.resolution = z]
    BY <2>2, <2>3
  <2>5. s \in Options /\ SameBounds(s, o) /\ s.resolution = z
    <3>1. PICK t : t = [o EXCEPT !.resolution = z]
      OBVIOUS
    <3>2. t \in Options /\ SameBounds(t, o) /\ t.resolution = z
      BY <3>1, ResolutionFollows
    <3> QED
      BY <2>4, <3>1, <3>2
  <2>6. InOrder(d, s)
    BY <2>2, <2>5, SameOrder
  <2>7. CASE s.minBitrate <= s.maxBitrate
    BY <2>3, <2>5, <2>7, WhenSerializable
  <2>8. CASE d \in cut /\ s.maxBitrate = StreamOptions.maxBitrate
    <3>1. PICK t : t = [s EXCEPT !.minBitrate = s.maxBitrate]
      OBVIOUS
    <3>2. s.maxBitrate \in Rates
      BY <2>5 DEF Options
    <3>3. /\ t \in Options /\ t.resolution = s.resolution
          /\ t.minBitrate = s.maxBitrate /\ t.maxBitrate = s.maxBitrate
      BY <2>5, <3>1, <3>2 DEF Options
    <3>4. t.minBitrate <= t.maxBitrate
      BY <3>2, <3>3 DEF Rates
    <3>5. Serializable(t)
      BY <2>3, <2>5, <3>3, <3>4, WhenSerializable
    <3> QED
      BY <2>8, <3>1, <3>5
  <2> QED
    BY <2>6, <2>7, <2>8 DEF InOrder
<1> QED
  BY <1>1, Invariance, PTL

\* Presets of devices that were away are kept by a session with the feature on.
THEOREM PresetsKept == Spec => []SteadySessionKeepsPresets
<1>1. IInv => SteadySessionKeepsPresets
  BY DEF IInv, SavedInv, SteadySessionKeepsPresets
<1> QED
  BY <1>1, Invariance, PTL

\* The options an activated phone has recorded are those of the registry, with
\* the camera the other one if it has missed a switch.
THEOREM PhoneFollows == Spec => []PhoneFollowsRegistry
<1>1. IInv => PhoneFollowsRegistry
  <2> SUFFICES ASSUME IInv, phone # None PROVE PhoneFollowsRegistry
    BY DEF PhoneFollowsRegistry
  <2>1. PICK p, m, s : p = phone /\ m = missed /\ s = registry[connected] /\ Follows(p, m, s)
    BY DEF IInv, PhoneInv
  <2> QED
    BY <2>1, Zenon DEF Follows, SameRates, PhoneFollowsRegistry
<1> QED
  BY <1>1, Invariance, PTL

\* A phone refuses what Windows offers as an effect and is none, sizes, and
\* adaptive bounds only after a crash has cut a section of some device.
THEOREM RefusedFor == Spec => []RefusedOnlyForKnownReasons
<1>1. IInv => RefusedOnlyForKnownReasons
  BY DEF IInv
<1> QED
  BY <1>1, Invariance, PTL

\* What a session knew at an orderly close with the feature on, with every
\* correction that has a value and every one that has none, is what the next
\* session starts with.
THEOREM SavedPresetsComeBack == Spec => PresetsComeBack
<1>1. IInv /\ [Next]_vars => [Start /\ memory # None /\ file.flag = 1
                                => registry' = memory.after]_vars
  <2> SUFFICES ASSUME IInv, Start, memory # None, file.flag = 1
               PROVE  registry' = memory.after
    OBVIOUS
  <2>1. registry' = [d \in DOMAIN file.presets |-> ParseDeviceLine(file.presets[d])]
    BY DEF Start, Load, GetDeviceStates
  <2>2. PICK m \in Maps(Options) :
          /\ m = memory.after
          /\ DOMAIN file.presets = DOMAIN m
          /\ \A d \in DOMAIN m : file.presets[d] = Section(m[d])
    BY DEF IInv, SavedInv, Start
  <2>3. m = [d \in DOMAIN m |-> m[d]] /\ \A d \in DOMAIN m : m[d] \in Options
    BY MapsDef
  <2>4. \A d \in DOMAIN m : ParseDeviceLine(file.presets[d]) = m[d]
    BY <2>2, <2>3, RoundTrip
  <2> QED
    BY <2>1, <2>2, <2>3, <2>4
<1> QED
  BY <1>1, Invariance, PTL DEF Spec, PresetsComeBack
=============================================================================
