-------------------------- MODULE MCDevicePresets --------------------------
(* An instance of DevicePresets for TLC: users who touch the controls that *)
(* depend on each other, on a phone with a size too small to be streamed,  *)
(* a phone without a front camera, and one whose front camera has no size  *)
(* that is large enough.                                                   *)
EXTENDS DevicePresets, TLC

MCOffers ==
  ("pixel" :> [back |-> <<<<1280, 720>>, <<640, 480>>, <<256, 144>>>>, front |-> <<<<640, 480>>>>])
    @@ ("tablet" :> [back |-> <<<<1280, 720>>>>, front |-> <<>>])
    @@ ("old" :> [back |-> <<<<640, 480>>>>, front |-> <<<<160, 120>>>>])

User(controls, phones, n) ==
  [controls |-> controls, phones |-> phones, starts |-> n]

MCUsers ==
  {User({"flash"}, {"pixel", "tablet"}, 2), User({"flash"}, {"pixel"}, 3),
   User({"resolution", "bitrate"}, {"tablet"}, 1),
   User({"resolution", "swap"}, {"pixel"}, 2), User({"swap"}, {"tablet"}, 2),
   User({"resolution", "swap"}, {"old"}, 2),
   User({"bitrate"}, {"pixel"}, 2), User({"correction", "effect"}, {"pixel"}, 2)}
=============================================================================
