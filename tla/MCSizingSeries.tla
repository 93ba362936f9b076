--------------------------- MODULE MCSizingSeries ---------------------------
(* Small instances of SizingSeries: a unit of money is a cent.             *)
EXTENDS SizingSeries

Ev(side, ts, size, price) == [side |-> side, ts |-> ts, size |-> size, price |-> price]

(* Two buys of the first window, a sell between them, one buy in the next. *)
MCSource ==
    [b1 |-> Ev("BUY", 0, 10, 50), b2 |-> Ev("BUY", 3, 20, 40),
     s1 |-> Ev("SELL", 2, 5, 50), b3 |-> Ev("BUY", 4, 10, 44)]
MCEvents == {"b1", "b2", "s1", "b3"}

(* A thin best ask in front of a deeper one; a price far too high.         *)
Level(p, n) == [price |-> p, size |-> n]
MCBooks == {<<Level(45, 4), Level(48, 30)>>, <<Level(70, 10)>>}

(* A fixed size is the simplest of the modes with a series and left out.   *)
MixedModes == {"adaptive", "percent", "classic"}
Adaptive == {"adaptive"}
MCMaxSizes == {300, 600}
OneMaxSize == {600}
MCSeconds == {4, 2}
OneWindow == {4}
=============================================================================
