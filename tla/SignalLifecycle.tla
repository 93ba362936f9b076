--------------------------- MODULE SignalLifecycle ---------------------------
(***************************************************************************)
(* What the order history promises about a leader's trades: each becomes   *)
(* at most one copy, a copy that waits is either carried out or given up,  *)
(* and what the history calls finished stays as it is.  The administrator  *)
(* may wipe the whole history, never a part of it.  Queues, retries,       *)
(* workers, money and shares do not exist at this level.                   *)
(***************************************************************************)
CONSTANTS Events, IsBuy(_),
          Wipes         \* whether the history may be wiped

VARIABLE status

LInit == status = [e \in Events |-> "none"]

(* A new copy is decided at once or left waiting: a BUY for its price, a   *)
(* SELL for the rest of its exit.                                          *)
First(e) ==
    IF IsBuy(e) THEN {"skipped", "executed", "retry_pending"}
                ELSE {"skipped", "executed", "exit_pending"}

(* A waiting entry is executed or skipped, a waiting exit is executed or   *)
(* closed with the position; nothing else ever changes.                    *)
Outcomes(old) ==
    CASE old = "retry_pending" -> {"executed", "skipped"}
      [] old = "exit_pending" -> {"executed", "closed"}
      [] OTHER -> {}

Stays(e) == status'[e] = status[e]
Decided(e) == status'[e] \in Outcomes(status[e])

(* One step looks at one new trade at most, and may end any number of      *)
(* copies that wait, of which at most one is a purchase.                   *)
LStep ==
    /\ status' \in [Events -> {"none", "skipped", "retry_pending", "executed",
                               "exit_pending", "closed"}]
    /\ \A e \in Events :
          \/ Stays(e)
          \/ Decided(e)
          \/ status[e] = "none" /\ status'[e] \in First(e)
    /\ \A e, f \in Events :
          status[e] = "none" /\ status[f] = "none" /\ ~Stays(e) /\ ~Stays(f) => e = f
    /\ \A e, f \in Events :
          /\ IsBuy(e) /\ status'[e] = "executed" /\ ~Stays(e)
          /\ IsBuy(f) /\ status'[f] = "executed" /\ ~Stays(f)
          => e = f

LWipe == Wipes /\ status' = [e \in Events |-> "none"]

LSpec == LInit /\ [][LStep \/ LWipe]_status
=============================================================================
