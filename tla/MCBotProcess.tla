----------------------------- MODULE MCBotProcess ----------------------------
(* Instances of BotProcess: a BUY and a SELL of two tokens for what        *)
(* survives, and a SELL between two BUYs of one token for the order.       *)
EXTENDS BotProcess

Ev(t, s, n) == [token |-> t, side |-> s, ts |-> n]

PollTokens == {"t", "u"}
PollEvents == {"t1", "u2"}
PollSource == [t1 |-> Ev("t", "BUY", 1), u2 |-> Ev("u", "SELL", 2)]

OrderTokens == {"t"}
OrderEvents == {"b1", "s2", "b3"}
OrderSource ==
    [b1 |-> Ev("t", "BUY", 1), s2 |-> Ev("t", "SELL", 2), b3 |-> Ev("t", "BUY", 3)]
=============================================================================
