------------------------------ MODULE Streamer ------------------------------
(***************************************************************************)
(* The phone's Streamer and the StreamActivity that feeds it.              *)
(*                                                                         *)
(* Two threads meet in a Streamer without a lock.  The reader thread of    *)
(* the connection runs handlePacket: it changes the options and posts the  *)
(* rest of the work.  The main thread runs what was posted, and the        *)
(* callbacks of the surface and of the connection.  Every activation       *)
(* replaces this.options as a whole, so a posted task may meet other       *)
(* options than the ones it was posted for.                                *)
(*                                                                         *)
(* Tasks posted with a Handler run in the order of posting; coroutines of  *)
(* Dispatchers.Main are asynchronous messages, which may pass Handler      *)
(* posts while a layout is pending.  Zoom, flash, focus, stabilization,    *)
(* rotation and bitrate are values handed on to the camera, and are left   *)
(* out.                                                                    *)
(***************************************************************************)
EXTENDS Naturals, Sequences, FiniteSets

CONSTANTS
  Repertoires,     \* what a peer may send: the commands, the activations, and
                   \* bound: how many messages
  Sizes,           \* widths and heights
  Rates,           \* frame rates
  Effects,         \* names of filters of another category than CORRECTION
  Corrections,     \* names of correction filters
  Values,          \* adjustments of a correction
  Axes,            \* flip axes
  MaxSurfaces      \* bound: creations and destructions of the surface

None == "none"
Commands == {"activation", "camera", "resolution", "effect", "correction", "fps", "flip",
             "codec"}
Facings == {"BACK", "FRONT"}
Codecs == {"H264", "H265"}

ASSUME NamesAssumption == None \notin Effects \cup Corrections /\ 0 \notin Values
ASSUME CategoriesAssumption ==       \* a filter has one category, and flips have none
  /\ Effects \cap Corrections = {} /\ (Effects \cup Corrections) \cap Axes = {}
  /\ None \notin Axes /\ "camera" \notin Corrections \cup Axes
ASSUME BoundsAssumption ==
  /\ MaxSurfaces \in Nat
  /\ \A r \in Repertoires : r.commands \subseteq Commands /\ r.messages \in Nat
ASSUME ActivationsAssumption ==      \* what deserialize lets pass, and that there is a default
  /\ Sizes # {} /\ Rates # {}
  /\ \A r \in Repertoires : r.activations \subseteq
       [size : Sizes, fps : Rates, facing : Facings, codec : Codecs,
        effect : Effects \cup {None}, correction : Corrections \cup {None}, value : Values]

VARIABLES
  options,      \* options[k]: the k-th StreamOptions object, the first one the default
  current,      \* the object this.options refers to
  filters,      \* filters[i]: the i-th filter created, and how often GL applies it
  server,       \* rtspServerCamera2, which is not part of this repository
  looper,       \* tasks posted to the main thread
  main,         \* the task being run and how far it is
  reader,       \* where the reader thread is
  connected,    \* whether the reader can receive messages
  messages,     \* number of messages handled
  surfaces,     \* number of creations and destructions of the surface
  repertoire,   \* what this peer sends
  ended,        \* stop was called
  bypassed,     \* an activation met a running stream, which was not restarted since
  crowded,      \* corrections asked for while one of the same name was not yet added
  crossed,      \* what an activation crossed with: changed between the taking of its
                \* options and its start, or kept by the server when it started
  asked         \* asked[n]: the value last asked for of correction n, 0 if none

peer == <<connected, messages, repertoire>>
wishes == <<crowded, asked>>
vars == <<options, current, filters, server, looper, main, reader, peer, surfaces, ended,
          bypassed, wishes, crossed>>

this == options[current]

\* A task being run: its next step, what it is in the middle of changing,
\* and what it works on.
Step(kind, changes, arg) == [kind |-> kind, changes |-> changes, arg |-> arg]
Idle == Step("idle", None, 0)
Quiet == looper = <<>> /\ main = Idle /\ reader.at = "idle"

\* StreamOptions as the default or an activation gives them.
StreamOptions(size, fps, facing, codec) ==
  [width |-> size, height |-> size, fps |-> fps, facing |-> facing, codec |-> codec,
   effect |-> 0, corrections |-> {}, flips |-> [x \in Axes |-> 0]]

DefaultOptions ==
  StreamOptions(CHOOSE s \in Sizes : TRUE, CHOOSE r \in Rates : TRUE, "BACK", "H264")

\* What prepareVideo is given.
Mode(o) == <<o.width, o.height, o.fps>>

Init ==
  /\ options = <<DefaultOptions>> /\ current = 1
  /\ filters = <<>>
  /\ server = [preview |-> FALSE, facing |-> "BACK", streaming |-> FALSE,
               mode |-> Mode(DefaultOptions), codec |-> "H264", password |-> "session"]
  /\ looper = <<>> /\ main = Idle
  /\ reader = [at |-> "idle"]
  /\ connected = TRUE /\ messages = 0 /\ repertoire \in Repertoires
  /\ surfaces = 0
  /\ ended = FALSE /\ bypassed = FALSE
  /\ crowded = {} /\ crossed = {} /\ asked = [n \in Corrections |-> 0]

-----------------------------------------------------------------------------
(***************************************************************************)
(* rtspServerCamera2, as far as the Streamer relies on it                  *)
(***************************************************************************)

\* stopPreview may be refused while a stream is running.
StopPreview(s) ==
  {[s EXCEPT !.preview = FALSE]} \cup (IF s.streaming THEN {s} ELSE {})

StopStream(s) == [s EXCEPT !.streaming = FALSE]

NewFilter(name, value, applied) == [name |-> name, value |-> value, applied |-> applied]

\* Mutant of RemoveFilter: a filter that is not applied is removed as well.
RemoveFilterUnchecked(i) ==
  IF i # 0 THEN [filters EXCEPT ![i].applied = @ - 1] ELSE filters

RemoveFilter(i) ==
  IF i # 0 /\ filters[i].applied > 0 THEN [filters EXCEPT ![i].applied = @ - 1]
                                     ELSE filters

-----------------------------------------------------------------------------
(***************************************************************************)
(* handlePacket, on the reader thread                                      *)
(***************************************************************************)

Receives(command) ==
  /\ reader.at = "idle"
  /\ connected
  /\ messages < repertoire.messages /\ messages' = messages + 1
  /\ command \in repertoire.commands
  /\ UNCHANGED <<connected, repertoire, main, surfaces, ended, bypassed>>

Continues(at) ==
  reader.at = at /\ UNCHANGED <<peer, main, surfaces, ended, bypassed>>

Goes(at) == reader' = [at |-> at]
Posts(task) == looper' = Append(looper, task)

\* The filter of that name among the recorded ones, if any.
Find(o, n) == {i \in o.corrections : filters[i].name = n}

\* A correction of that name is yet to be added.
Pending(n) == \E i \in 1 .. Len(looper) :
                looper[i].kind = "correction" /\ filters[looper[i].filter].name = n

\* The options of an activation are taken but not yet applied.
Starting == reader.at = "posting" \/ \E i \in 1 .. Len(looper) : looper[i].kind = "start"

\* deserialize creates the filters it names, and startStream takes the new
\* options ...
startStream ==
  /\ Receives("activation")
  /\ \E a \in repertoire.activations :
       LET new == Len(filters) + 1
           effect == IF a.effect = None THEN <<>> ELSE <<NewFilter(a.effect, 0, 0)>>
           correction == IF a.correction = None THEN <<>>
                         ELSE <<NewFilter(a.correction, a.value, 0)>>
       IN /\ filters' = filters \o effect \o correction
          /\ options' = Append(options,
               [StreamOptions(a.size, a.fps, a.facing, a.codec) EXCEPT
                  !.effect = IF a.effect = None THEN 0 ELSE new,
                  !.corrections = IF a.correction = None THEN {} ELSE {new + Len(effect)}])
          /\ asked' = [n \in Corrections |-> IF n = a.correction THEN a.value ELSE 0]
  /\ current' = Len(options')
  /\ reader' = [at |-> "posting", old |-> current, new |-> current']
  /\ crowded' = crowded \cup {n \in Corrections : Pending(n)}
  /\ crossed' = crossed \cup ({main.changes} \ {None})
  /\ UNCHANGED <<server, looper>>

\* ... and posts the start.
PostStart ==
  /\ Continues("posting")
  /\ Posts([kind |-> "start", old |-> reader.old, new |-> reader.new])
  /\ Goes("idle")
  /\ UNCHANGED <<options, current, filters, server, wishes, crossed>>

OtherFacing(f) == IF f = "BACK" THEN "FRONT" ELSE "BACK"

\* The camera is switched first, the options follow; a camera that cannot be
\* opened leaves both.
switchCamera ==
  /\ Receives("camera")
  /\ \/ /\ server' = [server EXCEPT !.facing = OtherFacing(@)]
        /\ crossed' = IF Starting THEN crossed \cup {"camera"} ELSE crossed
        /\ Goes("switched")
     \/ UNCHANGED <<server, crossed, reader>>
  /\ UNCHANGED <<options, current, filters, looper, wishes>>

\* Mutant of Switched: the options keep the old camera.
SwitchedUnrecorded ==
  /\ Continues("switched")
  /\ Goes("idle")
  /\ UNCHANGED <<options, current, filters, server, looper, wishes, crossed>>

Switched ==
  /\ Continues("switched")
  /\ options' = [options EXCEPT ![current].facing = OtherFacing(@)]
  /\ Goes("idle")
  /\ UNCHANGED <<current, filters, server, looper, wishes, crossed>>

\* Mutant of restartStream: as in setH265Codec, only a running stream is
\* restarted.
restartStreamIfStreaming ==
  looper' = IF server.streaming THEN Append(looper, [kind |-> "restart"]) ELSE looper

\* The restart is posted whether or not a stream is running.
restartStream == Posts([kind |-> "restart"])

\* The width ...
setResolution ==
  /\ Receives("resolution")
  /\ \E s \in Sizes :
       /\ ~(s = this.width /\ s = this.height)
       /\ options' = [options EXCEPT ![current].width = s]
       /\ reader' = [at |-> "resizing", height |-> s]
  /\ UNCHANGED <<current, filters, server, looper, wishes, crossed>>

\* ... and then the height.
Resized ==
  /\ Continues("resizing")
  /\ options' = [options EXCEPT ![current].height = reader.height]
  /\ restartStream
  /\ Goes("idle")
  /\ UNCHANGED <<current, filters, server, wishes, crossed>>

setFps ==
  /\ Receives("fps")
  /\ \E r \in Rates \ {this.fps} : options' = [options EXCEPT ![current].fps = r]
  /\ restartStream
  /\ UNCHANGED <<current, filters, server, reader, wishes, crossed>>

\* The codec is set for the next prepareVideo, and a running stream is
\* restarted.
setH265Codec ==
  /\ Receives("codec")
  /\ \E c \in Codecs : server' = [server EXCEPT !.codec = c]
  /\ IF server.streaming THEN restartStream ELSE UNCHANGED looper
  /\ UNCHANGED <<options, current, filters, reader, wishes, crossed>>

\* Their work is all done on the main thread.
applyEffectFilter ==
  /\ Receives("effect")
  /\ \E e \in Effects \cup {None} : Posts([kind |-> "effect", name |-> e])
  /\ UNCHANGED <<options, current, filters, server, reader, wishes, crossed>>

flip ==
  /\ Receives("flip")
  /\ \E x \in Axes : Posts([kind |-> "flip", axis |-> x])
  /\ UNCHANGED <<options, current, filters, server, reader, wishes, crossed>>

\* A filter is created, to be added on the main thread.
Create(n, v) ==
  /\ filters' = Append(filters, NewFilter(n, 0, 0))
  /\ Posts([kind |-> "correction", filter |-> Len(filters'), value |-> v])

Asks(n, v) ==
  /\ asked' = [asked EXCEPT ![n] = v]
  /\ crowded' = IF Pending(n) THEN crowded \cup {n} ELSE crowded

\* Mutant of applyCorrectionFilter: no look at the existing filters.
applyCorrectionFilterAlwaysNew ==
  /\ Receives("correction")
  /\ \E n \in Corrections, v \in Values : Create(n, v) /\ Asks(n, v)
  /\ UNCHANGED <<options, current, server, reader, crossed>>

\* An existing filter is adjusted at once, otherwise there will be one.
applyCorrectionFilter ==
  /\ Receives("correction")
  /\ \E n \in Corrections, v \in Values :
       /\ IF Find(this, n) = {} THEN Create(n, v)
          ELSE /\ \E i \in Find(this, n) : filters' = [filters EXCEPT ![i].value = v]
               /\ UNCHANGED looper
       /\ Asks(n, v)
  /\ UNCHANGED <<options, current, server, reader, crossed>>

\* The end of the connection, a failed send, or a message that is refused:
\* not well formed, out of range, or met by a change of the corrections
\* while they are searched.  The activity is told on the main thread.
Disconnect ==
  /\ connected
  /\ connected' = FALSE
  /\ Posts([kind |-> "disconnected"])
  /\ UNCHANGED <<options, current, filters, server, main, reader, messages, repertoire,
                 surfaces, ended, bypassed, wishes, crossed>>

-----------------------------------------------------------------------------
(***************************************************************************)
(* The main thread                                                         *)
(***************************************************************************)

Coroutines == {"effect", "correction", "flip", "disconnected"}

\* The next task: the one posted first, or the first coroutine.
Runnable(i) ==
  \/ i = 1
  \/ /\ looper[i].kind \in Coroutines
     /\ \A j \in 1 .. i - 1 : looper[j].kind \notin Coroutines

\* Task i begins.
Begins(i, kind) ==
  /\ main = Idle
  /\ Runnable(i) /\ looper[i].kind = kind
  /\ looper' = SubSeq(looper, 1, i - 1) \o SubSeq(looper, i + 1, Len(looper))
  /\ UNCHANGED <<current, reader, peer, surfaces, wishes>>

\* The task being run goes on.
GoesOn(kind) ==
  main.kind = kind /\ UNCHANGED <<current, looper, reader, peer, surfaces, wishes>>

\* startPreview takes the camera of the options, unless the preview is on.
\* A switch may be half done, or a preview that should have stopped is on.
startPreview(s, stopped) ==
  IF s.preview
  THEN /\ server' = s
       /\ crossed' = IF stopped THEN crossed \cup {"camera"} ELSE crossed
  ELSE /\ server' = [s EXCEPT !.preview = TRUE, !.facing = this.facing]
       /\ crossed' = IF reader.at = "switched" THEN crossed \cup {"camera"}
                                               ELSE crossed \ {"camera"}

\* The task of startStream: the preview is restarted if it would look
\* different, and started if it is off.
StartTask(i) ==
  /\ Begins(i, "start")
  /\ LET old == options[looper[i].old]
         new == options[looper[i].new]
         differs == \/ old.width # new.width \/ old.height # new.height
                    \/ old.facing # new.facing
     IN \E s \in IF differs /\ server.preview THEN StopPreview(server) ELSE {server} :
          startPreview(s, differs)
  /\ main' = Step("apply", None, looper[i].new)
  /\ UNCHANGED <<options, filters, ended, bypassed>>

\* The activation's codec and filters.
applyOptionsToStream ==
  /\ GoesOn("apply")
  /\ LET o == options[main.arg] IN
       /\ server' = [server EXCEPT !.codec = o.codec]
       /\ filters' = [i \in 1 .. Len(filters) |->
                        IF i = o.effect \/ i \in o.corrections
                        THEN [filters[i] EXCEPT !.applied = @ + 1] ELSE filters[i]]
  /\ main' = Step("prepare", None, 0)
  /\ UNCHANGED <<options, ended, bypassed, crossed>>

\* The task of restartStream.
RestartTask(i) ==
  /\ Begins(i, "restart")
  /\ \E s \in StopPreview(StopStream(server)) : startPreview(s, TRUE)
  /\ main' = IF server.streaming THEN Step("prepare", None, 0) ELSE Idle
  /\ UNCHANGED <<options, filters, ended, bypassed>>

\* startStreamInternal: a running stream is left as it is, otherwise the
\* encoder is prepared for the options of the moment, which may fail ...
startStreamInternal ==
  /\ GoesOn("prepare")
  /\ \/ /\ server.streaming
        /\ main' = Idle /\ bypassed' = TRUE /\ UNCHANGED server
     \/ /\ ~server.streaming
        /\ server' = [server EXCEPT !.mode = Mode(this)]
        /\ main' = Step("ready", None, 0) /\ bypassed' = FALSE
     \/ /\ ~server.streaming
        /\ main' = Idle /\ UNCHANGED <<server, bypassed>>
  /\ UNCHANGED <<options, filters, ended, crossed>>

\* ... and the stream is started.
StartServer ==
  /\ GoesOn("ready")
  /\ server' = [server EXCEPT !.streaming = TRUE]
  /\ main' = Idle
  /\ UNCHANGED <<options, filters, ended, bypassed, crossed>>

\* A coroutine that makes such a change has begun.
Crosses(change) == crossed' = IF Starting THEN crossed \cup {change} ELSE crossed

\* Mutant of EffectTask: the NONE filter leaves the current one in place.
EffectTaskKeepsOnNone(i) ==
  /\ Begins(i, "effect")
  /\ filters' = IF looper[i].name = None THEN filters
                ELSE Append(RemoveFilter(this.effect), NewFilter(looper[i].name, 0, 1))
  /\ main' = Step("effect", "effect", IF looper[i].name = None THEN 0 ELSE Len(filters'))
  /\ Crosses("effect")
  /\ UNCHANGED <<options, server, ended, bypassed>>

\* The coroutine of applyEffectFilter: the recorded filter is removed and
\* the new one, if it is not the NONE filter, applied ...
EffectTask(i) ==
  /\ Begins(i, "effect")
  /\ filters' = IF looper[i].name = None THEN RemoveFilter(this.effect)
                ELSE Append(RemoveFilter(this.effect), NewFilter(looper[i].name, 0, 1))
  /\ main' = Step("effect", "effect", IF looper[i].name = None THEN 0 ELSE Len(filters'))
  /\ Crosses("effect")
  /\ UNCHANGED <<options, server, ended, bypassed>>

\* ... and recorded, in the options of that moment.
RecordEffect ==
  /\ GoesOn("effect")
  /\ options' = [options EXCEPT ![current].effect = main.arg]
  /\ main' = Idle
  /\ UNCHANGED <<filters, server, ended, bypassed, crossed>>

\* The coroutine of applyCorrectionFilter.
CorrectionTask(i) ==
  /\ Begins(i, "correction")
  /\ LET f == looper[i].filter IN
       /\ filters' = [filters EXCEPT ![f].value = looper[i].value, ![f].applied = @ + 1]
       /\ options' = [options EXCEPT ![current].corrections = @ \cup {f}]
       /\ Crosses(filters[f].name)
  /\ UNCHANGED <<main, server, ended, bypassed>>

\* The coroutine of flip: the options to be changed are looked up first ...
FlipTask(i) ==
  /\ Begins(i, "flip")
  /\ main' = Step("flip", looper[i].axis, current)
  /\ Crosses(looper[i].axis)
  /\ UNCHANGED <<options, filters, server, ended, bypassed>>

\* ... and then the recorded filter is removed, or one is applied.
toggleFilter ==
  /\ GoesOn("flip")
  /\ LET f == this.flips[main.changes] IN
       /\ filters' = IF f # 0 THEN RemoveFilter(f)
                     ELSE Append(filters, NewFilter(main.changes, 0, 1))
       /\ options' = [options EXCEPT ![main.arg].flips[main.changes] =
                        IF f # 0 THEN 0 ELSE Len(filters')]
  /\ main' = Idle
  /\ UNCHANGED <<server, ended, bypassed, crossed>>

\* Mutant of stop: the password is only replaced when a stream was stopped.
stopKeepsPassword ==
  /\ \E s \in StopPreview(server) :
       server' = [StopStream(s) EXCEPT !.password = IF s.streaming THEN "random" ELSE @]
  /\ ended' = TRUE

\* The camera and the stream are stopped, and the password is replaced.
stop ==
  /\ \E s \in StopPreview(server) :
       server' = [StopStream(s) EXCEPT !.password = "random"]
  /\ ended' = TRUE

\* onDisconnected of the activity.
DisconnectedTask(i) ==
  /\ Begins(i, "disconnected")
  /\ stop
  /\ UNCHANGED <<main, options, filters, bypassed, crossed>>

SurfaceEvent ==
  /\ main = Idle
  /\ surfaces < MaxSurfaces /\ surfaces' = surfaces + 1
  /\ UNCHANGED <<options, current, filters, looper, main, reader, peer, wishes, bypassed>>

SurfaceCreated ==
  /\ surfaces % 2 = 0
  /\ SurfaceEvent
  /\ startPreview(server, FALSE)
  /\ UNCHANGED ended

SurfaceDestroyed ==
  /\ surfaces % 2 = 1
  /\ SurfaceEvent
  /\ stop
  /\ UNCHANGED crossed

-----------------------------------------------------------------------------
Reader == \/ startStream \/ PostStart \/ switchCamera \/ Switched \/ setResolution
          \/ Resized \/ setFps \/ setH265Codec \/ applyEffectFilter \/ flip
          \/ applyCorrectionFilter

Task(i) == \/ StartTask(i) \/ RestartTask(i) \/ EffectTask(i) \/ CorrectionTask(i)
           \/ FlipTask(i) \/ DisconnectedTask(i)

Main == \/ \E i \in 1 .. Len(looper) : Task(i)
        \/ applyOptionsToStream \/ startStreamInternal \/ StartServer \/ RecordEffect
        \/ toggleFilter \/ SurfaceCreated \/ SurfaceDestroyed

Next == Reader \/ Disconnect \/ Main

Spec == Init /\ [][Next]_vars

-----------------------------------------------------------------------------
(***************************************************************************)
(* Properties                                                              *)
(***************************************************************************)

TypeOK ==
  /\ current \in 1 .. Len(options)
  /\ \A k \in 1 .. Len(options) :
       /\ options[k].width \in Sizes /\ options[k].height \in Sizes
       /\ options[k].fps \in Rates /\ options[k].facing \in Facings
       /\ options[k].effect \in 0 .. Len(filters)
       /\ options[k].corrections \subseteq 1 .. Len(filters)
       /\ options[k].flips \in [Axes -> 0 .. Len(filters)]
  /\ \A i \in 1 .. Len(filters) : /\ filters[i].name \in Effects \cup Corrections \cup Axes
                                  /\ filters[i].applied \in Nat
  /\ server.facing \in Facings /\ server.codec \in Codecs
  /\ server.preview \in BOOLEAN /\ server.streaming \in BOOLEAN
  /\ messages \in 0 .. repertoire.messages /\ surfaces \in 0 .. MaxSurfaces

\* Whatever the order in which resolutions, frame rates and activations
\* arrive and the restarts they post are run, a stream that is running when
\* nothing is left to do has the size and the rate of the options, unless
\* the last activation found it running.
ModeFollowsOptions ==
  Quiet /\ server.streaming /\ ~bypassed => server.mode = Mode(this)

\* "Rotate credentials after the server is stopped so stale URLs fail": a
\* start that was posted before the end and runs after it does not bring
\* back a stream which the old session can open.
StaleUrlFails == ended /\ server.streaming => server.password # "session"

\* "Make sure local state is synced correctly": the camera in use is the one
\* of the options, so that the next restart does not turn it round, unless
\* it was switched while an activation was about to start or a preview was
\* starting, or the activation could not stop the preview.
FacingFollowsOptions ==
  Quiet /\ server.preview /\ "camera" \notin crossed => server.facing = this.facing

Recorded(o) == {o.effect} \cup o.corrections \cup {o.flips[x] : x \in Axes}

Change(f) == IF f.name \in Effects THEN "effect" ELSE f.name

\* Every filter applied to the picture is recorded, so that a command can
\* adjust or remove it, in the options or in those an activation replaced;
\* and what the options record is applied once.
FiltersAreRecorded ==
  Quiet => \A i \in 1 .. Len(filters) : Change(filters[i]) \notin crossed =>
    /\ filters[i].applied > 0 => \E k \in 1 .. Len(options) : i \in Recorded(options[k])
    /\ i \in Recorded(this) => filters[i].applied = 1

\* "If the filter was already applied it is adjusted with new value": there
\* is one filter for each correction asked for, with the value asked for
\* last, unless a command or an activation came for it before the main
\* thread had added the filter of the command before.
OneFilterPerCorrection ==
  Quiet => \A n \in Corrections \ crowded :
    /\ Cardinality(Find(this, n)) = IF asked[n] = 0 THEN 0 ELSE 1
    /\ \A i \in Find(this, n) : filters[i].value = asked[n]
=============================================================================
