--------------------------- MODULE MCLiveTrading ---------------------------
(* Small instances of LiveTrading. *)
EXTENDS LiveTrading
OneToken == {"yes"}
OnePrice == {1}
SplitPayout == {0, 1}
NoneBack == {0}
FullPayout == {1}
BothSides == {"BUY", "SELL"}
NoFault == {}
AllFaults == {"unanswered", "crash", "late"}
=============================================================================
