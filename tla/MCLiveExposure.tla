--------------------------- MODULE MCLiveExposure ---------------------------
(* Small instances of LiveExposure. *)
EXTENDS LiveExposure
OneToken == {"yes"}
OnePrice == {1}
FullPayout == {1}
BothSides == {"BUY", "SELL"}
AllFaults == {"unanswered", "crash", "late"}
=============================================================================
