-------------------------- MODULE MCControlChannel --------------------------
(* Instances of ControlChannel for TLC. *)
EXTENDS ControlChannel

CONSTANTS r1, r2, r3, update, stale

ThreeRequests == {r1, r2, r3}
Callbacks == {update, stale}
OnInitCallbacks == {stale}
=============================================================================
