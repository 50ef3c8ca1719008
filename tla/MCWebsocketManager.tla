------------------------- MODULE MCWebsocketManager -------------------------
(* Instances of WebsocketManager for TLC. *)
EXTENDS WebsocketManager

CONSTANTS control, stream, service, executor

ControlAndStream == {control, stream}
ServiceAndExecutor == {service, executor}
=============================================================================
