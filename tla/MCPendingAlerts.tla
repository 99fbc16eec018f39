--------------------------- MODULE MCPendingAlerts ---------------------------
(* One or two showings, announced one and two moments after the beginning. *)
EXTENDS PendingAlerts

OneShowing == {1}
OneAlertTime == <<1>>
OneStartTime == <<2>>

TwoShowings == {1, 2}
TwoAlertTimes == <<1, 2>>
TwoStartTimes == <<2, 3>>
=============================================================================
