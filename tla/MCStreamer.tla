----------------------------- MODULE MCStreamer -----------------------------
(* An instance of Streamer for TLC: three peers, each sending the messages *)
(* that touch the same part of the state.                                  *)
EXTENDS Streamer

Activation(size, facing, effect, correction) ==
  [size |-> size, fps |-> 1, facing |-> facing, codec |-> "H264", effect |-> effect,
   correction |-> correction, value |-> 1]

ModePeer ==
  [commands |-> {"activation", "resolution", "fps", "codec"}, messages |-> 4,
   activations |-> {Activation(s, "BACK", None, None) : s \in {1, 2}}]

CameraPeer ==
  [commands |-> {"activation", "camera", "fps"}, messages |-> 3,
   activations |-> {Activation(1, f, None, None) : f \in {"BACK", "FRONT"}}]

FilterPeer ==
  [commands |-> {"activation", "effect", "correction", "flip"}, messages |-> 3,
   activations |-> {Activation(1, "BACK", e, c) : e \in {"sepia", None},
                                                 c \in {"gamma", None}}]

Peers == {ModePeer, CameraPeer, FilterPeer}
=============================================================================
