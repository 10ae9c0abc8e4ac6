--------------------------- MODULE DevicePresets ---------------------------
(***************************************************************************)
(* The Windows application's presets: what it remembers of every device,   *)
(* in stateRegistry while it runs and in settings.cfg between two runs,    *)
(* the dialogs and buttons that change it, and the activations and         *)
(* commands that tell the phone.                                           *)
(*                                                                         *)
(* One phone is connected at a time (WindowsApp has several and what their *)
(* renumbering does), so the index streamingDevice is either -1 or 0: it   *)
(* is never set back to -1 in a session.  Of the options the ones that are *)
(* checked, restored or sent in different ways are kept; flash stands for  *)
(* stabilization, codec and focus too, and resolution for the frame rate.  *)
(* Zoom is left out: it is neither saved nor part of an activation.        *)
(*                                                                         *)
(* Of the phone the options are kept that its Streamer has recorded, and   *)
(* starts and restarts with.  What its camera and its encoder do at a      *)
(* given time is another matter: commands reach them later, a stream that  *)
(* runs keeps its size when it is activated again, and flash,              *)
(* stabilization, codec, focus and a static bit rate go to them without    *)
(* being recorded.  A command is over, with what it has left to the main   *)
(* thread, before the next one comes: Streamer has what happens otherwise. *)
(***************************************************************************)
EXTENDS Integers, Sequences, FiniteSets

CONSTANTS
  None,          \* no name, no options, no dialog
  Names,         \* names of devices
  Offers,        \* Offers[d]: the resolutions of d's cameras, as its descriptor lists them
  Effects,       \* names of filters of category EFFECT
  OtherFilters,  \* names of filters of category ARTISTIC or DISTORTION
  Bitrates,      \* where the sliders of the stream dialog are put, in kbit/s
  Values,        \* where the slider of a correction is put
  Users          \* each user: the controls and the phones used, and
                 \* bound: how often the application is started

Unset == -1
NoFilter == "None"        \* the first entry of every effect list
MIN_BITRATE == 500
MAX_BITRATE == 25000
Controls == {"bitrate", "resolution", "flash", "swap", "correction", "effect"}

ASSUME NamesAssumption ==
  None \notin Names \cup {"stream", "adjust"} /\ IsFiniteSet(Names)
ASSUME OffersAssumption ==
  Offers \in [Names -> [back : Seq(Int \X Int), front : Seq(Int \X Int)]]
ASSUME FiltersAssumption == NoFilter \notin Effects    \* its category is NONE
ASSUME SlidersAssumption ==
  Bitrates \subseteq MIN_BITRATE .. MAX_BITRATE /\ Values \subseteq 0 .. 100
ASSUME UsersAssumption ==
  \A u \in Users :
    u.controls \subseteq Controls /\ u.phones \subseteq Names /\ u.starts \in Nat

VARIABLES
  app,         \* "off", "running", or "saving": between the first and the last line of Save
  file,        \* settings.cfg: the flag SAVE_DEVICE_STATES and the device sections
  cut,         \* devices whose section has lost its max_br line, but not min_br, in a crash
  flag,        \* Settings::settings["SAVE_DEVICE_STATES"], Unset if it is not there
  checked,     \* the check mark of the menu item "Save device presets"
  loaded,      \* Settings::loadedDeviceStates
  preserved,   \* Settings::preservedDeviceLines
  registry,    \* Application::stateRegistry
  streaming,   \* streamingDevice is 0
  connected,   \* name of the connected phone, or None
  dialog,      \* the open dialog and the device it was opened for
  phone,       \* the options an activated phone has recorded, or None
  missed,      \* since its activation it has failed to switch its camera an odd number of times
  user,        \* the controls this user touches
  starts,      \* number of starts of the application
  memory,      \* of the last orderly close: the presets of the file before, the registry
  refused      \* the options for which the last phone ended the connection, or None

store == <<loaded, preserved>>
window == <<flag, checked, dialog>>
link == <<streaming, connected, phone, missed, refused>>
vars == <<app, file, cut, store, window, registry, link, user, starts, memory>>

StreamOptions ==
  [back |-> TRUE, resolution |-> <<640, 480>>, adaptive |-> FALSE, bitrate |-> 4000,
   minBitrate |-> 2000, maxBitrate |-> 12000, flash |-> FALSE, slider |-> Unset,
   effect |-> ""]

(* A function of names to which d is added, with value s, or changed.      *)
With(f, d, s) == [n \in DOMAIN f \cup {d} |-> IF n = d THEN s ELSE f[n]]
Nothing == [d \in {} |-> StreamOptions]
Closed == [kind |-> None, name |-> None]

Init ==
  /\ app = "off"
  /\ file = [flag |-> Unset, presets |-> Nothing] /\ cut = {}
  /\ flag = Unset /\ checked = FALSE /\ dialog = Closed
  /\ loaded = Nothing /\ preserved = Nothing /\ registry = Nothing
  /\ streaming = FALSE /\ connected = None /\ phone = None /\ missed = FALSE
  /\ user \in Users
  /\ starts = 0 /\ memory = None /\ refused = None

-----------------------------------------------------------------------------
(* Settings                                                                *)

(* The lines Save writes for one device: every option, and the corrections *)
(* that have a value.                                                      *)
Section(s) ==
  [f \in DOMAIN s \ (IF s.slider = Unset THEN {"slider"} ELSE {}) |-> s[f]]

(* The order of those lines.                                               *)
Place ==
  [resolution |-> 1, back |-> 2, adaptive |-> 3, bitrate |-> 4, minBitrate |-> 5,
   maxBitrate |-> 6, flash |-> 7, slider |-> 8, effect |-> 9]

(* A section after its first n lines.                                      *)
Cut(section, n) == [f \in {g \in DOMAIN section : Place[g] <= n} |-> section[f]]

(* A mutant: only the lines that are there are kept.                       *)
ParseDeviceLineBare(section) == section

(* The state of a device with the lines of its section applied to it.      *)
ParseDeviceLine(section) ==
  [f \in DOMAIN StreamOptions |->
     IF f \in DOMAIN section THEN section[f] ELSE StreamOptions[f]]

(* A fresh process reads the file.  The raw device lines are kept for Save *)
(* only when the feature is off.                                           *)
Load ==
  /\ flag' = file.flag
  /\ loaded' = [d \in DOMAIN file.presets |-> ParseDeviceLine(file.presets[d])]
  /\ preserved' = IF file.flag # 1 THEN file.presets ELSE Nothing

GetDeviceStates == IF flag' = 1 THEN loaded' ELSE Nothing

(* The constructor of the application, and the window's menu.  The menu    *)
(* reads a key that is never set, SAVE_DEVICE_STATE, so that the check     *)
(* mark starts off whatever the file says.                                 *)
Start ==
  /\ app = "off" /\ starts < user.starts
  /\ app' = "running" /\ starts' = starts + 1
  /\ Load
  /\ registry' = GetDeviceStates
  /\ checked' = FALSE
  /\ memory' = None
  /\ UNCHANGED <<file, cut, dialog, link, user>>

(* A mutant: switching the feature off forgets the devices that are away.  *)
OnMenuEventForgets ==
  /\ app = "running" /\ dialog = Closed
  /\ checked' = ~checked
  /\ flag' = IF checked' THEN 1 ELSE 0
  /\ registry' = [d \in {n \in DOMAIN registry : checked' \/ n = connected} |-> registry[d]]
  /\ UNCHANGED <<app, file, cut, store, dialog, link, user, starts, memory>>

(* The menu item "Save device presets".                                    *)
OnMenuEvent ==
  /\ app = "running" /\ dialog = Closed
  /\ checked' = ~checked
  /\ flag' = IF checked' THEN 1 ELSE 0
  /\ UNCHANGED <<app, file, cut, store, registry, dialog, link, user, starts, memory>>

(* A mutant: the states loaded at the start are saved.                     *)
UpdateDeviceStatesNever == loaded' = loaded

UpdateDeviceStates == loaded' = IF flag = 1 THEN registry ELSE loaded

(* OnWindowCloseEvent: the manager and the server go, then Save opens the  *)
(* file, which empties it.                                                 *)
OnWindowCloseEvent ==
  /\ app = "running" /\ dialog = Closed
  /\ UpdateDeviceStates
  /\ app' = "saving"
  /\ file' = [flag |-> Unset, presets |-> Nothing]
  /\ memory' = [before |-> file.presets, wasOn |-> file.flag = 1, after |-> registry]
  /\ streaming' = FALSE /\ connected' = None /\ phone' = None /\ missed' = FALSE
  /\ refused' = None
  /\ UNCHANGED <<cut, preserved, window, registry, user, starts>>

ToWrite == IF flag = 1 THEN [d \in DOMAIN loaded |-> Section(loaded[d])] ELSE preserved

(* Save writes the global settings, then one device after the other, in    *)
(* which order is left open; every line is flushed before the next one.    *)
SaveSettings ==
  /\ app = "saving" /\ file.flag = Unset /\ flag # Unset
  /\ file' = [file EXCEPT !.flag = flag]
  /\ UNCHANGED <<app, cut, store, window, registry, link, user, starts, memory>>

Written(d) == d \in DOMAIN file.presets /\ file.presets[d] = ToWrite[d]

(* The line that begins a device's section.                                *)
SaveDevice ==
  /\ app = "saving" /\ file.flag = flag
  /\ \A d \in DOMAIN file.presets : Written(d)
  /\ \E d \in DOMAIN ToWrite \ DOMAIN file.presets :
       file' = [file EXCEPT !.presets = With(@, d, Cut(ToWrite[d], 0))]
  /\ UNCHANGED <<app, cut, store, window, registry, link, user, starts, memory>>

(* The next line of the section that was begun.                            *)
SaveLine ==
  /\ app = "saving"
  /\ \E d \in DOMAIN file.presets, n \in 1 .. 9 :
       /\ ~Written(d) /\ file.presets[d] = Cut(ToWrite[d], n - 1)
       /\ file' = [file EXCEPT !.presets = With(@, d, Cut(ToWrite[d], n))]
  /\ UNCHANGED <<app, cut, store, window, registry, link, user, starts, memory>>

(* What a process leaves behind: nothing but the file.                     *)
ProcessEnds ==
  /\ app' = "off"
  /\ flag' = Unset /\ checked' = FALSE /\ dialog' = Closed
  /\ loaded' = Nothing /\ preserved' = Nothing /\ registry' = Nothing
  /\ streaming' = FALSE /\ connected' = None /\ phone' = None /\ missed' = FALSE
  /\ refused' = None
  /\ UNCHANGED <<file, user, starts>>

SaveEnds ==
  /\ app = "saving" /\ file.flag = flag
  /\ DOMAIN ToWrite = DOMAIN file.presets /\ \A d \in DOMAIN ToWrite : Written(d)
  /\ ProcessEnds
  /\ UNCHANGED <<cut, memory>>

LostMax(section) == "minBitrate" \in DOMAIN section /\ "maxBitrate" \notin DOMAIN section

(* The process ends without an orderly close, between any two lines of     *)
(* Save too; an exception no handler catches may also end here.            *)
Crash ==
  /\ app # "off"
  /\ ProcessEnds
  /\ cut' = cut \cup {d \in DOMAIN file.presets : LostMax(file.presets[d])}
  /\ memory' = None

-----------------------------------------------------------------------------
(* The phone, and what it accepts                                          *)

Connect ==
  /\ app = "running" /\ connected = None
  /\ \E d \in user.phones : connected' = d
  /\ refused' = None
  /\ UNCHANGED <<app, file, cut, store, window, registry, streaming, phone, missed, user, starts, memory>>

Leaves ==
  /\ app = "running" /\ connected # None
  /\ connected' = None /\ phone' = None /\ missed' = FALSE
  /\ UNCHANGED <<app, file, cut, store, window, registry, streaming, refused, user, starts, memory>>

InRange(r) ==
  160 <= r[1] /\ r[1] <= 8192 /\ 160 <= r[2] /\ r[2] <= 8192 /\ r[1] * r[2] <= 16777216

(* SerializeStreamOptions throws unless this holds.                        *)
Serializable(s) ==
  /\ InRange(s.resolution)
  /\ \A b \in {s.bitrate, s.minBitrate, s.maxBitrate} : 64 <= b /\ b <= 25000
  /\ s.minBitrate <= s.maxBitrate
  /\ s.slider = Unset \/ s.slider \in -100 .. 100

(* A bit rate of the settings, in bit/s.                                   *)
Bits(b) == b * 1024

(* A mutant: the bit rates are not converted.                              *)
SerializeInKilobits(s) == s

(* The activation, whose bit rates are in bit/s.                           *)
SerializeStreamOptions(s) ==
  [s EXCEPT !.bitrate = Bits(@), !.minBitrate = Bits(@), !.maxBitrate = Bits(@)]

(* What StreamOptions.deserialize requires on the phone.                   *)
Deserializable(w) ==
  /\ InRange(w.resolution)
  /\ \A b \in {w.bitrate, w.minBitrate, w.maxBitrate} : 64000 <= b /\ b <= 50000000
  /\ w.minBitrate <= w.maxBitrate
  /\ w.effect = "" \/ w.effect \in Effects

(* The phone ends the connection, for the options s.                       *)
Refuse(s) ==
  /\ connected' = None /\ phone' = None /\ missed' = FALSE /\ refused' = s

(* A command after which an activated phone has recorded options w.  One   *)
(* that was not activated takes the command too, and has it replaced by    *)
(* the options of the next activation.                                     *)
Told(w) ==
  /\ phone' = IF phone = None THEN None ELSE w
  /\ UNCHANGED <<connected, missed, refused>>

(* The bit rate the phone takes for size r, of 30 frames in a second.      *)
calculateOptimalBitrate(r) ==
  LET b == (r[1] * r[2] * 80) \div 27
  IN  CASE b < Bits(500) -> Bits(500)
        [] b > Bits(12000) -> Bits(12000)
        [] OTHER -> b

(* A new size: the phone replaces the bit rate of its options.             *)
setResolution(r) ==
  IF phone.resolution = r
  THEN phone
  ELSE [phone EXCEPT !.resolution = r, !.bitrate = calculateOptimalBitrate(r)]

(* A static bit rate goes to the encoder and leaves the options' bit rate; *)
(* the bounds of an adaptive one are recorded.                             *)
setBitrate == [phone EXCEPT !.adaptive = FALSE]
setAdaptiveBitrate(min, max) ==
  [phone EXCEPT !.adaptive = TRUE, !.minBitrate = Bits(min), !.maxBitrate = Bits(max)]

(* The other camera, if it can be opened with the size in use.             *)
switchCamera ==
  \/ Told([phone EXCEPT !.back = ~phone.back])
  \/ /\ phone # None /\ missed' = ~missed
     /\ UNCHANGED <<connected, phone, refused>>

-----------------------------------------------------------------------------
(* The main window                                                         *)

OptionsOf(d) == IF d \in DOMAIN registry THEN registry[d] ELSE StreamOptions

(* The options of d, a default in place of a missing correction.           *)
EnsureStateInitialized(d) ==
  [OptionsOf(d) EXCEPT !.slider = IF @ = Unset THEN 50 ELSE @]

Resolutions(d, s) == IF s.back THEN Offers[d].back ELSE Offers[d].front

(* A resolution the camera does not have is replaced by its first one.     *)
Validated(d, s) ==
  LET list == Resolutions(d, s)
  IN  IF list = <<>> \/ \E i \in DOMAIN list : list[i] = s.resolution
      THEN s
      ELSE [s EXCEPT !.resolution = list[1]]

Connect2Stream(s) ==
  /\ streaming' = TRUE
  /\ LET w == SerializeStreamOptions(s)
     IN  \/ ~Serializable(s) /\ UNCHANGED <<connected, phone, missed, refused>>
         \/ Serializable(s) /\ Deserializable(w)
            /\ phone' = w /\ missed' = FALSE /\ UNCHANGED <<connected, refused>>
         \/ Serializable(s) /\ ~Deserializable(w) /\ Refuse(s)

OnSourceChanged ==
  /\ app = "running" /\ dialog = Closed /\ connected # None
  /\ LET s == Validated(connected, EnsureStateInitialized(connected))
     IN  /\ registry' = With(registry, connected, s)
         /\ Connect2Stream(s)
  /\ UNCHANGED <<app, file, cut, store, window, user, starts, memory>>

(* The buttons of the main window, for the phone at index 0.  Without one  *)
(* GetCurrentDeviceStreamOptions throws and nothing changes.               *)
Pressed(control) ==
  /\ app = "running" /\ dialog = Closed /\ control \in user.controls
  /\ streaming /\ connected # None

TorchButton ==
  /\ Pressed("flash")
  /\ LET s == OptionsOf(connected) IN
       registry' = With(registry, connected, [s EXCEPT !.flash = ~s.flash])
  /\ Told(phone)
  /\ UNCHANGED <<app, file, cut, store, window, streaming, user, starts, memory>>

(* A mutant: the swap is not recorded.                                     *)
SwapButtonUnrecorded ==
  /\ Pressed("swap")
  /\ registry' = With(registry, connected, OptionsOf(connected))
  /\ switchCamera
  /\ UNCHANGED <<app, file, cut, store, window, streaming, user, starts, memory>>

(* The phone is told to swap, not which camera to take.                    *)
SwapButton ==
  /\ Pressed("swap")
  /\ LET s == OptionsOf(connected) IN
       registry' = With(registry, connected, [s EXCEPT !.back = ~s.back])
  /\ switchCamera
  /\ UNCHANGED <<app, file, cut, store, window, streaming, user, starts, memory>>

-----------------------------------------------------------------------------
(* The dialogs.  They are modal; what they change is the state of the      *)
(* device they were opened for, what they send goes to index 0.            *)

ShowDialog(kind) ==
  /\ app = "running" /\ dialog = Closed /\ streaming /\ connected # None
  /\ dialog' = [kind |-> kind, name |-> connected]
  /\ registry' = With(registry, connected, EnsureStateInitialized(connected))
  /\ UNCHANGED <<app, file, cut, store, flag, checked, link, user, starts, memory>>

CloseDialog ==
  /\ app = "running" /\ dialog # Closed
  /\ dialog' = Closed
  /\ UNCHANGED <<app, file, cut, store, flag, checked, registry, link, user, starts, memory>>

Touched(kind, control) == app = "running" /\ dialog.kind = kind /\ control \in user.controls
Edit(s) == registry' = With(registry, dialog.name, s)

(* A mutant: the upper slider does not push the lower one.                 *)
MovedApart(s, slider, v) ==
  CASE slider = "static" -> [s EXCEPT !.bitrate = v]
    [] slider = "min" ->
         [s EXCEPT !.minBitrate = v, !.maxBitrate = IF v > @ THEN v ELSE @]
    [] slider = "max" -> [s EXCEPT !.maxBitrate = v]

(* OnBitrateSliderChanged: min and max push each other.                    *)
Moved(s, slider, v) ==
  CASE slider = "static" -> [s EXCEPT !.bitrate = v]
    [] slider = "min" ->
         [s EXCEPT !.minBitrate = v, !.maxBitrate = IF v > @ THEN v ELSE @]
    [] slider = "max" ->
         [s EXCEPT !.maxBitrate = v, !.minBitrate = IF v < @ THEN v ELSE @]

(* EVT_STREAM_BITRATE_CHANGED, for options s as the dialog shows them: the *)
(* phone is sent the bit rates of the mode that is on, and refuses bounds  *)
(* that are not in order.                                                  *)
BitrateChanged(s) ==
  /\ Edit(s)
  /\ \/ ~s.adaptive /\ Told(setBitrate)
     \/ /\ s.adaptive /\ (connected = None \/ s.minBitrate <= s.maxBitrate)
        /\ Told(setAdaptiveBitrate(s.minBitrate, s.maxBitrate))
     \/ /\ s.adaptive /\ connected # None /\ s.minBitrate > s.maxBitrate
        /\ Refuse(s)

Visible(s) == IF s.adaptive THEN {"min", "max"} ELSE {"static"}

BitrateSlider ==
  /\ Touched("stream", "bitrate")
  /\ LET s == OptionsOf(dialog.name)
     IN  \E slider \in Visible(s), v \in Bitrates : BitrateChanged(Moved(s, slider, v))
  /\ UNCHANGED <<app, file, cut, store, window, streaming, user, starts, memory>>

OnBitrateModeChanged ==
  /\ Touched("stream", "bitrate")
  /\ LET s == OptionsOf(dialog.name) IN BitrateChanged([s EXCEPT !.adaptive = ~@])
  /\ UNCHANGED <<app, file, cut, store, window, streaming, user, starts, memory>>

(* The list was made when the dialog was opened; a phone refuses sizes it  *)
(* would refuse in an activation.                                          *)
OnResolutionChanged ==
  /\ Touched("stream", "resolution")
  /\ LET s == OptionsOf(dialog.name)
         list == Resolutions(dialog.name, s)
     IN  \E i \in DOMAIN list :
           LET t == [s EXCEPT !.resolution = list[i]] IN
           /\ Edit(t)
           /\ IF connected = None \/ InRange(list[i])
              THEN Told(setResolution(list[i]))
              ELSE Refuse(t)
  /\ UNCHANGED <<app, file, cut, store, window, streaming, user, starts, memory>>

(* EVT_STREAM_CONFIG_CHANGED *)
OnSimpleSettingChanged ==
  /\ Touched("stream", "flash")
  /\ LET s == OptionsOf(dialog.name) IN
       Edit([s EXCEPT !.flash = ~s.flash])
  /\ Told(phone)
  /\ UNCHANGED <<app, file, cut, store, window, streaming, user, starts, memory>>

(* EVT_FILTER_PARAM_CHANGED and EVT_FILTER_SWITCH_CHANGED *)
CorrectionSlider ==
  /\ Touched("adjust", "correction")
  /\ \E v \in Values :
       /\ Edit([OptionsOf(dialog.name) EXCEPT !.slider = v])
       /\ Told([phone EXCEPT !.slider = v])
  /\ UNCHANGED <<app, file, cut, store, window, streaming, user, starts, memory>>

EffectChoice ==
  /\ Touched("adjust", "effect")
  /\ \E e \in Effects \cup OtherFilters \cup {NoFilter} :
       /\ Edit([OptionsOf(dialog.name) EXCEPT !.effect = e])
       /\ Told([phone EXCEPT !.effect = IF e = NoFilter THEN "" ELSE e])
  /\ UNCHANGED <<app, file, cut, store, window, streaming, user, starts, memory>>

(* "Reset All" sends every correction and every list its default.          *)
OnReset ==
  /\ Touched("adjust", "effect")
  /\ Edit([OptionsOf(dialog.name) EXCEPT !.slider = 50, !.effect = NoFilter])
  /\ Told([phone EXCEPT !.slider = 50, !.effect = ""])
  /\ UNCHANGED <<app, file, cut, store, window, streaming, user, starts, memory>>

-----------------------------------------------------------------------------
Next ==
  \/ Start \/ OnMenuEvent
  \/ OnWindowCloseEvent \/ SaveSettings \/ SaveDevice \/ SaveLine \/ SaveEnds \/ Crash
  \/ Connect \/ Leaves
  \/ OnSourceChanged \/ TorchButton \/ SwapButton
  \/ ShowDialog("stream") \/ ShowDialog("adjust") \/ CloseDialog
  \/ BitrateSlider \/ OnBitrateModeChanged \/ OnResolutionChanged \/ OnSimpleSettingChanged
  \/ CorrectionSlider \/ EffectChoice \/ OnReset

Spec == Init /\ [][Next]_vars

-----------------------------------------------------------------------------
Sections == {file.presets, preserved}
States == {registry, loaded}

(* Every variable has a value of its type.  A section of the file may be   *)
(* cut short; the states that are loaded from it are whole.                *)
TypeOK ==
  /\ app \in {"off", "running", "saving"}
  /\ {file.flag, flag} \subseteq {Unset, 0, 1}
  /\ {checked, streaming, missed} \subseteq BOOLEAN
  /\ \A f \in Sections \cup States : DOMAIN f \subseteq Names
  /\ \A f \in States : \A d \in DOMAIN f : DOMAIN f[d] = DOMAIN StreamOptions
  /\ \A f \in Sections : \A d \in DOMAIN f : DOMAIN f[d] \subseteq DOMAIN StreamOptions
  /\ cut \subseteq Names /\ connected \in Names \cup {None}
  /\ \/ dialog = Closed
     \/ dialog.kind \in {"stream", "adjust"} /\ dialog.name \in DOMAIN registry
  /\ phone # None => connected # None /\ streaming
  /\ user \in Users /\ starts \in 0 .. user.starts

(* However the sliders are moved, in however many sessions, and whatever   *)
(* was saved and read back, SerializeStreamOptions throws for the bit      *)
(* rates or a correction of a device only after a crash of Save between    *)
(* its lines min_br and max_br, and only as long as the upper bound is     *)
(* still the default Load put in its place: an exception there leaves      *)
(* OnSourceChanged with the stream stopped and nothing sent.               *)
BitratesStaySerializable ==
  \A d \in DOMAIN registry :
    LET s == [registry[d] EXCEPT !.resolution = StreamOptions.resolution] IN
    \/ Serializable(s)
    \/ /\ d \in cut /\ s.maxBitrate = StreamOptions.maxBitrate
       /\ Serializable([s EXCEPT !.minBitrate = s.maxBitrate])

(* A session with the feature on at its start and at its end, whatever     *)
(* happened to the flag in between and whichever phones it saw, loses no   *)
(* device's preset: the file is written anew from the registry, which has  *)
(* to know the devices that were not there this time.                      *)
SteadySessionKeepsPresets ==
  app = "off" /\ memory # None /\ memory.wasOn /\ file.flag = 1 =>
    DOMAIN memory.before \subseteq DOMAIN file.presets

(* What a session knew when it was closed with the feature on is what the  *)
(* next one starts with.                                                   *)
PresetsComeBack ==
  [][Start /\ memory # None /\ file.flag = 1 => registry' = memory.after]_vars

(* The options an activated phone has recorded are those of the registry,  *)
(* though each reaches it by a message of its own or by an activation: the *)
(* mode of the bit rate and the bounds of an adaptive one, the size, the   *)
(* correction and the effect.  A size that cannot be serialized is not the *)
(* phone's: OnSourceChanged records the first one of the list before       *)
(* Connect2Stream throws for it.  The camera is the registry's as long as  *)
(* no switch has failed; the registry counts those that did, and after one *)
(* both sides are wrong about each other until the next one fails or the   *)
(* phone is activated again.  A static bit rate is not among them.         *)
PhoneFollowsRegistry ==
  phone # None =>
    LET s == registry[connected] IN
    /\ phone.adaptive = s.adaptive /\ phone.slider = s.slider
    /\ phone.resolution = s.resolution \/ ~InRange(s.resolution)
    /\ phone.effect = IF s.effect = NoFilter THEN "" ELSE s.effect
    /\ s.adaptive => /\ phone.minBitrate = Bits(s.minBitrate)
                     /\ phone.maxBitrate = Bits(s.maxBitrate)
    /\ missed <=> phone.back # s.back

(* Windows and the phone check what is sent by rules of their own, in      *)
(* different units.  They differ in the filters offered as an effect, of   *)
(* which the phone accepts only those of category EFFECT in an activation, *)
(* "None" excluded, in sizes below 160, which the phone offered itself,    *)
(* and in the order of the adaptive bounds, which Windows does not check   *)
(* in a command and which a crash of Save can have turned round.           *)
RefusedOnlyForKnownReasons ==
  refused # None =>
    \/ refused.effect \in OtherFilters \cup {NoFilter}
    \/ ~InRange(refused.resolution)
    \/ refused.adaptive /\ refused.minBitrate > refused.maxBitrate /\ cut # {}

(* What Save says of the feature switched off: "Write back the preserved   *)
(* lines exactly as they were".  Lines are kept by Load only if the file   *)
(* says off, and no file with that flag has any: the session that switched *)
(* the feature off had none to write.                                      *)
DisabledKeepsLines ==
  app = "off" /\ memory # None /\ file.flag # 1 => file.presets = memory.before
=============================================================================
