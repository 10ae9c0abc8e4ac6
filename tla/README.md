# OpenCam in TLA+

OpenCam turns an Android phone into a webcam. On Linux a controller
(`linux/`) shows a QR code, pairs with the phone over an authenticated and
encrypted control connection (OCAM v2), asks the phone to start its RTSP
stream, and copies the stream into a V4L2 loopback device. On Windows
(`windows/`) a desktop application receives the phone over an ADB tunnel with
an older, unauthenticated protocol and feeds a DirectShow camera. The phone's
application (`android/`) speaks both.

The modules here model the control logic of these programs. Every definition
is translated from the code; `PROJECT.json` maps each one to its lines. TLC
checks the modules on small instances and TLAPS proves the safety of seven
of them for all values of their constants.

Short names below: *CP* is `linux/src/control_protocol.cpp`, *KT* the phone's
`networking/ControlProtocol.kt`, *main* `linux/src/main.cpp`, *MP*
`linux/src/media_pipeline.cpp`, *CM* the phone's
`networking/ConnectionManager.kt`, *TCP* its `connection/TCPConnection.kt`,
*ST* its `rtsp/Streamer.kt`.

## 1. Inventory

### Control channel (CP, KT)

*State.* Two `AuthenticatedChannel` objects, one per end of a session: a send
key and a receive key, a send and a receive counter, and on the phone a send
lock and a receive lock.
*Operations.* `send` (limit checks, encryption under the counter's value,
write, increment), `receive` (read, limits, sequence check, decryption,
increment), and closing the socket.
*Interaction.* On the phone, the camera callback (device descriptor) and error
reports send from IO coroutines while the reader thread blocks in `receive`;
on Linux one thread does everything.
*Hard.* Encryption and the increment are not one step: a write can be cut
short in between, several threads send, the counters have a fixed width that
differs between the two ends (`UINT64_MAX`, `Long.MAX_VALUE`), and the network
may repeat, drop, reorder, retype or reflect frames.
*Correct when.* No key and nonce are used for two messages; each side obtains
a prefix of what the other wrote; both ends agree on which frames are legal; a
blocked receive never keeps a sender waiting.

### Linux controller and the phone's handshake (main, CP, KT, rtsp_probe.cpp)

*State.* The current pairing secret and its expiry, the code on the screen,
the listen queue, the place in `handleClient`; per phone, the secret it
scanned and the place in `authenticate`.
*Operations.* Draw and show a secret, wait for a connection until the expiry,
accept, SERVER_HELLO / CLIENT_AUTH / SERVER_AUTH, receive the descriptor, send
the activation, probe the stream, run the session, close, renew.
*Interaction.* One phone at a time; other phones wait in the listen queue with
the secret they scanned. Handshake frames are in the clear.
*Hard.* A secret can expire or be replaced while a phone that scanned it
waits, connects or answers; the peer can stop at any point; frames of earlier
handshakes can be repeated.
*Correct when.* A secret opens one session and only within its lifetime; each
session of the controller has its phone and each paired phone its session.

### Linux media pipeline (MP, the session loop of main)

*State.* An atomic state, an atomic stop flag and an error message under a
mutex, shared by two threads; the thread's place and what it has allocated.
*Operations.* `start`, `run` with ten setup steps, each with its own cleanup,
the frame loop, the final verdict; `stop`, which requests, joins and settles.
*Hard.* A stop request can come at any point of setup or streaming; the state
and its reason are published separately; each early return frees a different
set.
*Correct when.* Every exit frees everything; an exit nobody asked for is
reported, with its reason; a failure is never overwritten; a stop request and
a failure both end the session whatever the source does.

### The phone's connection manager (CM, TCP, MainActivity, StreamActivity)

*State.* `tcpConn` and `connectGeneration` under one lock; per connection the
socket, the `running` flag, the reader thread and the field that names it; the
registered activity callback and the stack of activities.
*Operations.* `connect`, `close`, `onDisconnected`, `sendDescriptor`,
`sendErrorReport`, the reader's loop, the activities' callbacks.
*Hard.* A connect coroutine can finish after a later `connect` or `close`;
`connectInternal` joins a reader thread inside the lock which that reader may
need; callbacks run after the lock was released.
*Correct when.* The current connection is the one of the latest call; every
socket is closed by somebody; the lock is always released; a connection that
has ended is dropped.

### The phone's streamer (ST, StreamOptions.kt, StreamActivity.kt)

*State.* The stream options, an object that every activation replaces, shared
without a lock by the reader thread, the main looper and coroutines; the
camera, stream and filter state of the RTSP library; the activity's surface.
*Operations.* `startStream` and `restartStream` (both post to the main
looper), the commands for camera, size, rate, codec, effect, correction and
flip, `stop`, and the callbacks of the surface.
*Hard.* A command changes the options on the reader thread and posts its
effect; by the time that runs, another activation may have replaced the
options, and `stop` may have come in between. Coroutines may overtake tasks.
*Correct when.* Once nothing is left to run, the stream has the size and rate
of the options, the camera is the one they name, every filter on the picture
is recorded somewhere, and each correction has one filter with the value last
asked for; a stream started after the end cannot be opened with the old URL.

### Formats (descriptor, activation, error report, legacy commands)

Writers and readers in C++ (Linux), C++ (Windows) and Kotlin, with limits on
each side. *Correct when* every value one side accepts for writing is one the
other side reads back. The limits of the activation, in the units of each
side, are part of `DevicePresets`; the bytes of the formats, the descriptor
and the error report are not modelled.

### Windows application (server, connections, manager, receiver, window)

*State.* A vector of connections changed by the IO thread and indexed by the
window's thread; a vector of descriptors kept parallel to it; the index of the
streaming device; the receiver's worker thread with its run and stop flags.
*Hard.* The two vectors must stay parallel although one removes by value and
the other by identity; `stopRequested` is cleared by the worker when it opens
the connection; the IO thread runs before the manager exists and after it is
destroyed.
*Correct when.* An index means the same device in both vectors and in the
list; a receiver thread is joined before the next is started; selecting a
device and closing the window end whatever the stream does.
*Hard, too.* The IO thread changes the list of devices, which the window's
thread owns: each such call waits until that thread handles messages, and it
may be waiting for the IO thread. An activation is sent with a blocking write.

### Windows presets, settings file and dialogs (application.cpp, settings.cpp, the two dialogs)

*State.* `stateRegistry`, a map from device names to stream options;
`settings.cfg` with a flag and one section per device; the lines `Settings`
keeps of it; the dialog that is open; the options the phone has recorded.
*Operations.* `Load`, `Save`, the menu item that switches saving on and off,
selecting a device, the torch and swap buttons, the sliders and lists of both
dialogs, "Reset All".
*Hard.* The process may end at any point, between two lines of `Save` too,
which empties the file first and flushes every line, and `Load` takes a
section with any of its lines missing; a dialog may outlive the phone it was opened for; a
value goes through a dialog, the registry, a file, an activation in another
unit and the phone's own checks.
*Correct when.* What was saved comes back; no sequence of edits makes options
that cannot be sent; the options an activated phone has recorded are those of
the registry.

### Everything else

Endpoint validation, diagnostic redaction, loopback device discovery, network
addresses, QR output, camera capabilities, filter tables, the Windows frame
path and snapshots. They are listed in `PROJECT.json`; those with state worth
modelling are in the plan, the others are single system calls or pure
formatting.

## 2. Modules

| Module | Models | Composes |
|---|---|---|
| `FifoChannel` | the abstract promise of the control channel: two queues | |
| `ControlChannel` | both `AuthenticatedChannel`s and the connection | implements `FifoChannel` |
| `MCControlChannel` | threads, sizes and counter widths for TLC | `ControlChannel` |
| `ControlChannelProofs` | theorems about `ControlChannel` | `ControlChannel` |
| `Controller` | main loop, `handleClient`, the phones' `authenticate` | |
| `MCController` | symmetry of the attempts | `Controller` |
| `ControllerProofs` | theorems about `Controller` | `Controller` |
| `MediaPipeline` | the media thread and the session loop | |
| `MediaPipelineProofs` | theorems about `MediaPipeline` | `MediaPipeline` |
| `ConnectionManager` | connect, close, readers, senders, activities | |
| `ConnectionManagerProofs` | theorems about `ConnectionManager` | `ConnectionManager` |
| `Streamer` | the phone's streamer: reader thread, main looper, surface, filters | |
| `MCStreamer` | three kinds of peers for TLC | `Streamer` |
| `StreamerProofs` | theorems about `Streamer` | `Streamer` |
| `StreamerFilterProofs` | theorems about the filters of `Streamer` | `StreamerProofs` |
| `WindowsApp` | Windows server, connections, manager, receiver and device list | |
| `WindowsAppProofs` | theorems about `WindowsApp` | `WindowsApp` |
| `DevicePresets` | presets, settings file, menu, dialogs and the options the phone records | |
| `MCDevicePresets` | phones and users for TLC | `DevicePresets` |
| `DevicePresetsProofs` | theorems about `DevicePresets` | `DevicePresets` |

### ControlChannel

A thread that calls `send` is `waiting` for the lock, then `sealed` (payload
encrypted under the counter's present value), then `written` (all bytes out),
then idle again with the counter advanced. `WriteCutShort` is the write that
fails half way: bytes under the nonce have left, the counter has not moved,
and the socket is in error from then on. `receive` is `ReceiveBegin` followed
by a frame or a failure. A frame opens (`Opens`) exactly under
`receiveFrame`'s size limits, the check that the receive counter is not at its
end (`Exhausted`: KT:611, CP:965), the sequence check, and what AES-GCM
authenticates: key, nonce prefix, sequence and header type. Keys and prefixes
are named after the side that sends with them, as the KDF labels and
`SRVR`/`CLNT` do. AES-GCM and HKDF themselves are assumed sound; they are the
only assumption.

`Interference = FALSE` is an ordinary TCP connection. `Interference = TRUE`
lets the network answer a read with any box that ever left a side, under any
clear type and sequence number, or with nothing.

### Controller

An *attempt* is one scan followed by one connection; nonces are named after
attempts because they are drawn once. An HMAC is the record of its inputs.
`pc` is the place in `main` and `handleClient`; `Tick` is the clock, and
`now >= pairingExpires` the expiry test, which the code makes at four places.
Each early return of `handleClient` is `HandshakeFails`, which is possible
wherever the code waits under a deadline or can fail; what makes a
handshake *succeed* is modelled exactly. Once paired, the two ends agree on
the key or nothing decrypts (`SameKey`), which stands for the channel that
`ControlChannel` models in detail. The media part of a session is one place
here and the whole of `MediaPipeline` there.

### MediaPipeline

The setup of `run` is a sequence of ten named steps. `Acquires`, `Partial` and
`Releases` say what a step allocates, what it may leave behind when it fails,
and what its early return frees; each is read off the calls in the code. The
session loop's read of the state and its later read of the message are
separate steps, and so are the worker's two looks at the stop flag after the
loop. Pixels, scaling and packing are left out.

### ConnectionManager

A connection is named by the generation of its `connect` call. Every
`synchronized` block that does not wait is one step; the one in
`connectInternal` that joins the old reader is several, and `LockFree` is
false meanwhile. The reader thread is started (`StartThread`) before the field
that names it is stored (`StoreThread`), as in the code. `posted` holds the
disconnect coroutines due on the main thread, `opening` the activities about
to be created. Sends fail by themselves and then disconnect whatever
`tcpConn` is by then, as the code does.

### WindowsApp

A device is one connection of a phone: a phone that connects again has a
descriptor with a new random URL, so descriptors are never equal. `io` is the
place of the IO thread inside a handler: `OnDeviceConnected` and
`OnDeviceDisconnected` change `connections`, `descriptors` and the list in
separate steps, and the window's thread may run between them. `gui` is the
place of the window's thread in `OnSourceChanged` (with `Connect2Stream`,
`Stop` and `Start`) or in `OnWindowCloseEvent` (with `~Receiver` and
`Server::Close`). `worker` is the place of the receiver's thread.
`UpdateAvailableDevices` runs on the IO thread and is one step for each call
on the list: on wxMSW such a call is a message to the window's thread, so it
is enabled only while that thread is in its event loop (`InEventLoop`), and
the window's thread may run, and the descriptors change, between two of them.
The write of an activation (`SendActivation`) is a step that nothing makes
happen, since `Connection::Send` blocks for as long as the phone does not
read. An operation on a vector is one step; what a data race inside it may do
is left out. `Without` is erase-remove on a vector that holds no device twice;
`RemoveDescriptor` calls `erase` with one iterator, which is undefined when
`remove` found nothing. After that, or a read beyond the end of a vector, the
process goes on or ends (`alive`); a null manager and an exception of `Send`
in an event handler end it.

### Streamer

`options` holds every `StreamOptions` object made so far and `current` is the
one `this.options` refers to; a posted start carries the old and the new
object, as its closure does. `looper` holds what was posted: `Runnable` lets
the first task run, or the first coroutine, since coroutines of
`Dispatchers.Main` are asynchronous messages. `main` is the task being run and
how far it is, so that the reader thread may run between a task's read of the
options and its write. `server` is the RTSP library as far as the Streamer
relies on it: `stopPreview` may be refused while a stream runs, `startPreview`
returns early when the preview is on, `prepareVideo` may fail. `filters` are
the filters created, with how often each is applied. The variables
`bypassed`, `crowded` and `crossed` only record, and no guard reads them: they
name the situations in which the code does not do what its properties say
(section 4).

### DevicePresets

One phone is connected at a time; what several phones and their indices do is
`WindowsApp`'s subject. `Section` is what `Save` writes for a device,
`ParseDeviceLine` what `Load` makes of it, and `file`, the only variable that
survives `Crash`, is emptied when `Save` opens it and then written line by
line: the flag (`SaveSettings`), the line that begins a device's section
(`SaveDevice`), and its lines in their order (`SaveLine`; `Place` is that
order). `Crash` may come between any two, and `Cut(section, n)` is what it
leaves of a section; a line that is missing is a default to `Load`. The
variable `cut` only records, and no guard reads it: it names the devices whose
section has once lost its line `max_br` and kept `min_br`.

`phone` is what the phone's Streamer has recorded in its options, which is
what it starts and restarts with. `setResolution` replaces the recorded bit
rate by one of its own, `setBitrate` goes to the encoder and records only that
the rate is not adaptive, and `switchCamera` may fail, which leaves the
phone's camera as it was while the registry has turned round; `missed`, a
variable no guard reads, records whether that has happened an odd number of
times since the activation. Flash, stabilization, codec and focus are not
recorded by the phone at all. A command and what it posts are over before the
next one comes; `Streamer` has the interleavings.

`Serializable` and `Deserializable` are the checks of
`SerializeStreamOptions` on Windows, in kbit/s, and of
`StreamOptions.deserialize` on the phone, in bit/s. Options that are saved,
checked and sent alike are represented by one: flash also stands for
stabilization, codec and focus, resolution for the frame rate. The menu's
check mark is initialised from a key that is never written
(`SAVE_DEVICE_STATE`, window.cpp:64; the others say `SAVE_DEVICE_STATES`), so
it starts off in every session whatever the file says, and the model does the
same: the first use of the item leaves a feature on that was on.

## 3. Runs

| Run | Instance | Shows |
|---|---|---|
| `channel_interference` | 3 threads (the phone's two symmetric), 2 types, counters to 2, hostile network | `NonceUsedOnce`, `InOrderExactlyOnce`, `ImplementsFifo` |
| `channel_reliable` | 3 threads, a payload that just fits and one a byte too long, unequal counters, fairness | `TypeOK`, `WholeFrameIsOpened`, `SendsComplete` |
| `controller_pairing` | 2 attempts, lifetime 2, clock to 3, 4 secrets, queue of 2 | `TypeOK`, `SecretOpensOneSession`, `SessionHasItsPhone`, `PairedPhoneHasItsSession`, `SecretLifetime` |
| `controller_code` | 2 attempts | `CodeGoodUntilUsed` is violated |
| `media_worker` | 2 sessions, fairness | five invariants, `FailureIsFinal`, `StopCompletes`, `FailureEndsSession` |
| `connection_lifecycle` | 2 generations, 2 activities, 1 sender, fairness | `TypeOK`, `CurrentIsLatest`, `NoSocketLeaks`, `LockIsReleased`, `LossIsNoticed` |
| `connection_opening` | 2 generations | `StreamerFindsConnection` is violated |
| `windows_devices` | 3 devices, fairness | `TypeOK`, `IndexesAgree`, `ThreadIsJoined`, `GuiResponds` |
| `windows_selection` | 2 devices | `GoneDeviceIsDeselected` is violated |
| `streamer_commands` | three peers (modes, camera, filters) with 3 or 4 messages, 2 surface events | `TypeOK`, `ModeFollowsOptions`, `StaleUrlFails`, `FacingFollowsOptions`, `FiltersAreRecorded`, `OneFilterPerCorrection` |
| `presets_sessions` | eight users, 3 phones (sizes of all kinds, no front camera, a front camera with no size that can be sent), up to 3 starts, crashes between any two lines of `Save` | `TypeOK`, `BitratesStaySerializable`, `SteadySessionKeepsPresets`, `PhoneFollowsRegistry`, `RefusedOnlyForKnownReasons`, `PresetsComeBack` |
| `presets_switched_off` | the same | `DisabledKeepsLines` is violated |

*Why the bounds are enough to be interesting.* Counters to 2 let a side send
two frames, lose one half way, and meet the end of the counter; with two phone
threads and one controller thread each pair of senders competes. Two attempts
are the phone that is served and the one that waits with its secret, or the
phone and the owner of a repeated frame; a lifetime of 2 with a clock to 3
lets a code expire at each of the places that test it and be renewed, and 4
secrets let each attempt meet a renewed code; the theorems cover every number.
Two sessions are enough for the second to find what the first left. Two
generations are an old connection and the call that replaces, overtakes or
closes it; the theorems cover any number. One sender suffices because senders
share nothing but `tcpConn` and each is at an arbitrary point. Three devices
are the streaming one and one on each side of it in the vectors; `WindowsApp`
needs no other bound, since each device connects once; the run has about
480,000 states. In `Streamer` the commands fall into three groups that touch
separate parts of the state (mode, camera, filters), so each peer sends one
group, mixed with activations: three messages are an activation, a command
posted before it and one after it, and four let a size, a rate and two
activations meet. In `DevicePresets` controls that depend on each other belong
to one user (size and camera; the three bit rate sliders and the mode; size
and bit rate; corrections and effects), and three starts are a session that
saves, one that reads and changes, and one that reads the result. The sliders
are put at both ends, so that the lower bound can be saved above the default
of the upper one. The run has about 620,000 states.

*Deadlock.* The bounded counters and clocks end every behaviour of
`Controller`, `MediaPipeline`, `ConnectionManager`, `Streamer` and
`DevicePresets`, a controller that
cannot draw a secret exits, and so does the Windows application whose window
is closed, so deadlock is not checked there; in
`ControlChannel` a thread can always call `send`, and it is checked.

*Fairness.* `ControlChannel`: a thread inside `send` runs on and the lock is
granted eventually (strong fairness of the send step); nothing makes a blocked
receive return. This includes that a write returns, with all bytes out or with
an error. The controller's does, by its deadline (`transfer`); the phone's
`writeFrame` has a parameter `timeoutMs` which it does not use (KT:841), so
there it is an assumption about the peer and the network. What `SendsComplete`
shows is that the locks add no other reason to wait. `Controller`: none; that
a handshake ends is what its deadlines say, so a property that assumed them
would only repeat them. `MediaPipeline`: both threads are scheduled; a network
call is never assumed to return on its own, only through `interruptCallback`
after a stop request (setup calls and reads), while device writes poll with a
timeout and local calls return. `ConnectionManager`: the main thread runs what
is due on it (disconnect coroutines strongly fair, since another main-thread
step may be under way whenever they are due), and a reader whose loop has
ended finishes; nothing is assumed of the network or of the connecting
coroutines. `WindowsApp`: the three threads are scheduled and a handler that
has begun goes on wherever it can, which the IO thread cannot at the list
while the window's thread is outside its event loop; that a phone reads its
activation is not assumed; a blocked FFmpeg call ends on its own or through
`FFmpegInterrupt::Callback`, after a stop request or three seconds without
activity, and only the callback is fair.

Every property has a mutant: a definition changed the way a plausible bug
would change it, under which the same run refutes the property. The mutants
stand next to the definitions they change.

## 4. Findings

1. `controller_code`. The loop condition of `main` draws a new secret on every
   turn, so a failed attempt, an interrupted `poll` or a failed `accept4`
   replaces the code on the screen, and a phone that has already scanned it
   is refused. The text under the code says "one successful use" and
   SECURITY.md says the secret "is rotated after successful pairing". The
   shorter life is safe (`SecretOpensOneSession` holds); the sentence is not
   what happens.
2. `connection_opening`. `onConnectionSuccessful` is called, and the
   `StreamActivity` it starts is created, after the lock was released. If the
   connection is closed or lost in between, the Streamer's initializer meets
   `requireNotNull(tcpConn) { "Not connected" }` in `onCreate`, uncaught.
3. `windows_selection`. `streamingDevice` is an index that is not changed when
   a device leaves, so after the selected device has left
   `UpdateAvailableDevices` selects the one that has moved to its index, and
   commands go to it. The comment there says "If the previously selected
   device is gone, or we stopped, select nothing".
4. `presets_switched_off`. `Load` keeps the raw device lines only when the
   file it reads says that saving is off. The session in which the user
   switches it off has read a file that said on, so it has nothing to write
   back, and the file it leaves holds no presets; no later file with the flag
   off has any. The comments promise that the lines are preserved.

*Exceptions stated in the properties.* The properties of `Streamer` hold
except in situations that the code does allow, and each names its own:

- an activation that finds a stream running does not restart it, so the
  stream keeps the old size (`bypassed`);
- two commands for the same correction that arrive before the main thread has
  run the first both find no filter and add one each, and an activation that
  arrives in between gets the filter of the command as well (`crowded`);
- a camera switch, an effect, a correction or a flip that runs between an
  activation's taking of its options and its start changes the new options as
  if they were applied already (`crossed`); the same holds for a `stopPreview`
  that was refused;
- a filter of options that an activation has replaced stays on the picture,
  although "Only one active at a time" is said of effects in ST:149:
  `FiltersAreRecorded` only says that the replaced options still record it.

`PhoneFollowsRegistry` excepts a size that cannot be serialized. When a camera
lists such a size first, `OnSourceChanged` records it and `Connect2Stream`
then throws before anything is sent, so the registry names a size which the
phone does not use. The first version of the property did not say so; its
proof did not go through, and the phone `old` of `MCDevicePresets` was added
to show the case to TLC.

It excepts the camera after a failed switch in so far as it says when the two
sides differ: after an odd number of failures since the activation. It says
nothing of a static bit rate, which the phone does not record and replaces on
every change of size, nor of what encoder and camera do with the options.

`BitratesStaySerializable` excepts one thing that the code does allow. `Save`
flushes `min_br` and `max_br` as two lines (settings.cpp:157). A process that
ends in between leaves a section which `Load` completes with the default upper
bound of 12000, so that a lower bound the user had moved above it comes back
above the upper one, although the dialog keeps the two in order ("Min should
not exceed Max", streamconfigdlg.cpp:235). `SerializeStreamOptions` then
throws (serializer.cpp:201) and the device cannot be activated until a slider
has been moved. The run reaches such states; the property says that this is
the only way to them, and that they last only while the upper bound is still
the default.

`RefusedOnlyForKnownReasons` says exactly what Windows sends and the phone
refuses: activations with a filter that is not of category EFFECT, or with
"None" after a reset, as the effect; sizes below 160 which the phone itself
had offered; and, after such a crash, adaptive bounds out of order, which
Windows checks in an activation but not in the command of the dialog.

`WholeFrameIsOpened` excepts the end of the numbers. The phone's counters end
at `Long.MAX_VALUE` and the controller's at `UINT64_MAX`, so the controller
can seal a frame which the phone, its receive counter exhausted, refuses
without looking at it.

`GuiResponds` names the two ways in which the window can wait for ever.
`Connection::Send` blocks while a phone does not read its activation. And a
window that is closed joins the IO thread (server.cpp:107), which may be
waiting for the window's thread at the list of devices: then each waits for
the other. The property says that there is no third, in particular none in the
join of the receiver's thread, whose stop request the worker may have cleared.

## 5. Proofs

`ControlChannelProofs` proves, for every set of threads, messages and sizes,
every counter width and both kinds of network, from the assumptions named in
`ControlChannel` (each thread belongs to one side, one controller thread,
sizes and widths are natural numbers):

- `TypeCorrect`: `Spec => []TypeOK`;
- `DeliveryInOrder`: `Spec => []InOrderExactlyOnce`;
- `NoncesUnique`: `Spec => []NonceUsedOnce`;
- `WholeFramesOpen`: `Spec => []WholeFrameIsOpened`;
- `RefinesFifo`: `Spec => ImplementsFifo`, the refinement of `FifoChannel`.

None of these is inductive: uniqueness of nonces depends on the counter, which
is not written together with the box. The invariant `IInv` ties together the
three places where a sequence number lives. `LockInv`: one thread per side is
between encryption and increment. `CounterInv`: the counter is the number of
complete writes, or one less between write and increment, and a frame under
way has a number to use. `WireInv`: a whole box is the message its number
names, and a box cut short carries the number after the last and its side's
socket is no longer open, so nothing follows it. `TransitInv`: an orderly
connection carries boxes that were written. `DeliveredInv`: the receive
counter counts what was returned. Then two boxes of one nonce are both whole
and so the same message, or both cut short and so the same one; and an
accepted box carries number `Len(delivered)`, so it is the next message.

`WholeFramesOpen` is the converse for a connection that keeps its order: no
frame that `send` wrote whole is refused, unless the receiver's counter is at
an end which the peer's has not reached. It needs two more invariants.
`FitInv`: a frame is sealed only when the peer will take its size, where the
limit the sender tests (on the payload) and the one the receiver tests (on the
encrypted frame) have to agree. `OrderInv`: what travels towards a side are
the frames numbered from its receive counter on, each under the peer's key and
prefix, up to the last one the peer has written; only the last can be cut
short, and then the peer's socket is no longer open. So the frame at the head
has exactly the number that is expected.

`MediaPipelineProofs` proves for any number of sessions `TypeCorrect`,
`ReasonPublished`, `AllReleased`, `ExitAnnounced`, `StopSettles` and
`FailureKept`. `HeldInv` says for each place of the thread what it holds (the
prefix of the setup steps, with what a failing step may add), `PublishedInv`
what it has published, and `OwnerInv` ties the stop flag and the existence of
the thread to the place of the session loop. `ReleasesAll` is the case
analysis of the ten cleanups.

`WindowsAppProofs` proves for any set of devices `TypeCorrect` (`TypeOK`),
`VectorsAgree` (`IndexesAgree`) and `JoinedBeforeStart` (`ThreadIsJoined`).
`VectorsInv` says for each place of the IO thread how the two vectors differ
(one device ahead, or one device removed), since `IndexesAgree` speaks only of
the time between handlers and of the moment before `erase`. `ListedInv` ties
the vectors to the links: a phone that is connected is listed, one that has not
come is not, no vector lists a phone twice, and the phone whose leaving is being
handled still has its descriptor; without the last part `erase` might find
nothing. Two lemmas say what appending and removing do to who is listed.
`ThreadInv` says for each place of the window's thread whether there is a
receiver thread, which `isRunning` must tell because `Stop` returns early on it.

`ConnectionManagerProofs` proves for any number of connects, senders and
activities `TypeCorrectness`, `LatestConnectionIsCurrent` (`CurrentIsLatest`)
and `SocketsAreClosed` (`NoSocketLeaks`). The latest call wins because a
coroutine looks at `connectGeneration` again under the lock, which is only
worth something if that number never comes back: `Launched` and `Unmade` say
which generations have been handed out and what connections do not exist yet.
`Held` says what the holder of the lock is in the middle of, `Rejecting` that a
coroutine that has lost owns the socket it is about to close, and
`FlagGoesWithSocket` ties `running` to the socket, without which `close` would
pass over an open one.

`ControllerProofs` proves for any set of attempts, any lifetime, queue and
clock `TypeCorrectness`, `OneSessionPerSecret` (`SecretOpensOneSession`),
`CodeExpires` (`SecretLifetime`), `SessionsAreBacked` (`SessionHasItsPhone`)
and `PairedPhonesAreServed` (`PairedPhoneHasItsSession`). The network may
answer any read with any frame ever sent, so the argument starts from
`FramesInv`, which lists them: hellos, the proof of each phone that has
answered, and the answer of each open session. A proof that `ClientProved`
accepts is then the one of a phone with the current secret and this
connection's nonce (`ClientInv`), a session has that phone's key (`KeysInv`),
and an answer a phone verifies is that of the connection whose nonce it
answered (`PairedInv`). `SecretInv` says that only the connection being served
can have used the current secret, because the loop draws another one before it
accepts again; `OnceInv` that a connection is queued and served once; and
`LifeInv` that the lifetime began no later than the code was shown. An HMAC
that equals another was computed from the same inputs, and a nonce is drawn
once: these two are the assumptions, and both are in the model's data.

`StreamerProofs` proves for any peers, number of messages, filters and surface
events `StreamerTypeOK` (`TypeOK`), `StaleUrlsFail` (`StaleUrlFails`),
`ModeFollows` (`ModeFollowsOptions`) and `FacingFollows`
(`FacingFollowsOptions`), from the assumptions named in `Streamer`: no effect
or correction is called "none", counts are numbers, and activations carry what
`deserialize` lets pass. `RefsInv` says that whatever is posted, being run or
in the reader's hands refers to options and filters that exist. `PasswordInv`:
`stop` draws a new password, and no task that was posted before sets the old
one again. The two properties about options speak of moments when nothing is
left to run, so their invariants say what is due at all others. `ModeInv`: a
stream that runs with another mode than that of the options finds the reader
about to post a restart, a restart or start in the looper, or a task that has
still to prepare (`Unsettled`). `LinkInv`: the posted starts form a chain, in
which each replaces the options that the one before it made current, and the
last made `current`; `start` is not a coroutine, so only the head of the
looper is ever run out of the chain, although coroutines overtake it.
`FacingInv`: the camera is that of options which some activation has still to
replace (`Awaited`), so with no activation left it is that of `current`.

`StreamerFilterProofs` adds `FiltersRecorded` (`FiltersAreRecorded`) and
`OneFilter` (`OneFilterPerCorrection`). They need one assumption more, that
effects, corrections and flip axes have different names, which holds because
`FilterRepository` gives a name one category. The invariant `FInv` follows
each filter, and the options that record it, through the reader's hands, the
looper and the steps of the main thread. `OnceInv`: no two tasks start the
same options or add the same filter. `DueInv`: options that are not started
yet are with the reader, in the looper or being applied, and at one of these
places only, so their filters are applied once. `NamesInv`: what is recorded
as effect, correction or flip is one. `CrossInv`: an effect or a flip that
has not crossed with an activation is changed in the options in use, with no
start on its way. `FiltersInv`, for each filter whose kind has not crossed: at
most one options object records it; it is applied once if those options are
neither waiting to be started nor about to record another effect in its
place, and otherwise not at all; a filter that nobody records is the effect
about to be recorded, or is not applied. `AskedInv`: a correction that is not
crowded was not asked for, has its one filter, or has one on its way, with the
value last asked for. The proof showed that `OneFilterPerCorrection` does not
need the exception of `crossed` changes which it made at first: an activation
that crosses a correction finds it pending, and that makes it crowded.

`DevicePresetsProofs` proves for any phones with any lists of sizes, any
sliders, users and number of sessions `PresetsTypeOK` (`TypeOK`),
`BitratesSafe` (`BitratesStaySerializable`), `PresetsKept`
(`SteadySessionKeepsPresets`), `SavedPresetsComeBack` (the action property
`PresetsComeBack`), `PhoneFollows` (`PhoneFollowsRegistry`) and `RefusedFor`
(`RefusedOnlyForKnownReasons`). Its assumptions are that names are finitely
many, that cameras list pairs of integers, that "None" is of no category, and
that the sliders stay in the ranges their dialogs give them. The invariant
follows a device's options on their way. `StoreInv`: registry and loaded
states hold options with bit rates in range, the file holds sections of such
options, whole or cut short, and none when it says that the feature is off.
`OrderInv`, a part of it, says of the registry, of the loaded states, and of
what `Load` would make of the file, that for each device the bounds are in
order, or the device is in `cut` and the upper bound is the default. It is not
asked of a file that is being written; when a crash ends the writing, the
lemma `CutInOrder` compares the places of the two lines: either both are there
or both are missing, or the section has lost its upper bound and the crash
puts the device into `cut`. `RoundTrip` shows that `ParseDeviceLine` gives
back what `Section` wrote. `SavingInv`: each section of a file that is being
written is a number of lines of the one `Save` has to write, which is what the
session knew. `SavedInv`: a file that was finished with the feature on is all
of it. `KnownInv`: a session that began with the feature on knows every device
of the file. `WindowInv` ties an open dialog to the phone that is connected: a
dialog that outlived its phone keeps the next one from being activated,
without which its sliders would change one device and tell another. `PhoneInv`
is then kept by each command: it adds to what `PhoneFollowsRegistry` says that
the bounds of an activated phone are in order, since an activation with others
is never sent, so that no command of the dialog can be refused by a phone that
is activated on their account.

*Only model-checked:*

- everything with fairness (`SendsComplete`, `StopCompletes`,
  `FailureEndsSession`, `LockIsReleased`, `LossIsNoticed`, `GuiResponds`),
  which the prover cannot treat.

## 6. What is left out

OpenSSL, FFmpeg, V4L2, the RTSP library and Android's UI are external: only
their outcomes appear. Failures of OpenSSL's key derivation, which throw out
of `handleClient`, are left out. The phone's read deadlines are not timed.
Log lines, toasts and QR rendering are not modelled. The phone's zoom, rotation
(a turn by -90 degrees arrives as 166 and is ignored), flash, focus,
stabilization and bit rate are values handed on to the library and are not in
`Streamer` (the bit rates that are recorded in the options are in
`DevicePresets`); neither is the framing of the legacy commands in the byte stream.
The bytes of the descriptor, the activation and the error report are not
modelled. On Windows neither are zoom, flips and rotation, the canvas and the
snapshots, well-formed error reports, and races inside a single operation on a
vector or a widget. `DevicePresets` has one phone at a time, whose encoder and camera
it leaves out, and presets are
kept by device name, as in the code: two phones of one name share them. The
FFmpeg runner on Linux is no longer called, and the diagnostic redactor is
called by its tests only.

## 7. Plan

In this order:

1. The legacy commands' framing of a byte stream cut at arbitrary points,
   against a reference parser.
2. The canvas's asynchronous frames and the snapshots.
