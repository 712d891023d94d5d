----------------------------- MODULE MCBandwidth -----------------------------
(* Instances of Bandwidth for TLC. *)
EXTENDS Bandwidth, TLC

CONSTANTS hourly, daily, monthly

\* The last window is longer than the retention of the configurations, 2 hours.
AllWindows == {hourly, daily, monthly}

WindowLength == hourly :> 1 @@ daily :> 2 @@ monthly :> 3
WindowQuota == hourly :> 2 @@ daily :> 3 @@ monthly :> 3
=============================================================================
