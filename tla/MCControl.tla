----------------------------- MODULE MCControl -----------------------------
(* BridgeControl for TLC: two addresses; the Pi that the daemon knows and that *)
(* can do everything, and one without the save overlay that is not ready.      *)
EXTENDS BridgeControl, TLC

CONSTANTS f1, f2, a1, a2

All == UNION {Required(operation) \cup Optional(operation) : operation \in Operations}
Pi(device, caps, ready) ==
    [valid |-> TRUE, board |-> "zero2w", detected |-> "zero2w", supported |-> TRUE,
     device |-> device, min |-> 1, max |-> 1, caps |-> caps, ready |-> ready]
SomeDescriptors == f1 :> Pi("d1", All, TRUE)
                   @@ f2 :> Pi("d2", All \ {"save-overlay", "runtime-metrics"}, FALSE)
SomePis == a1 :> f1 @@ a2 :> f2
SomeKinds == {<<"select", "gamecube-emulated">>}
=============================================================================
