---------------------------- MODULE MCCopyLedger ----------------------------
(* Instances of CopyLedger.  A BUY is filled with four units, so that      *)
(* halves of halves stay whole; a SELL asks for a half or for everything.  *)
EXTENDS CopyLedger

Ev(l, s, t, n, p) ==
    [leader |-> l, side |-> s, ts |-> t, size |-> n, price |-> p, valid |-> TRUE]
Invalid(l, t) ==
    [leader |-> l, side |-> "SELL", ts |-> t, size |-> 1, price |-> 0, valid |-> FALSE]

MCLeaders == {"a", "b"}
SoleLeader == {"a"}

(* a buys and sells a half, b buys at another price and sells everything.  *)
TwoLeaders ==
    [a1 |-> Ev("a", "BUY", 1, 2, 1),
     a2 |-> Ev("a", "SELL", 2, 1, 1),
     b1 |-> Ev("b", "BUY", 1, 1, 2),
     b2 |-> Ev("b", "SELL", 2, 1, 2)]
MCEvents == {"a1", "a2", "b1", "b2"}

(* a buys, sells a half and buys again; a row with a price of zero.        *)
OneLeader ==
    [a1 |-> Ev("a", "BUY", 1, 2, 1),
     a2 |-> Ev("a", "SELL", 2, 1, 1),
     a3 |-> Ev("a", "BUY", 3, 2, 2),
     a4 |-> Invalid("a", 2)]
SignalEvents == {"a1", "a2", "a3", "a4"}
=============================================================================
