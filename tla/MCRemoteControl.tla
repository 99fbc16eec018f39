--------------------------- MODULE MCRemoteControl ---------------------------
(* A channel that is listed twice, as 24 is, two that a leading zero tells   *)
(* apart, and one of three digits.                                          *)
EXTENDS RemoteControl

SomeChannels == <<1, 8, 10, 10, 101>>
=============================================================================
