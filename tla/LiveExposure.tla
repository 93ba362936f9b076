---------------------------- MODULE LiveExposure ----------------------------
(***************************************************************************)
(* How wrong the snapshot may be: LiveTrading with a history variable.     *)
(*                                                                         *)
(* For the snapshot, and for the reading a refresh may replace it with,    *)
(* `exposure` adds up the three ways in which cash that is not there gets  *)
(* into it: the exchange reported a match late, an order matched and       *)
(* nobody noted it, a sale was noted on top of a reading that already had  *)
(* it.  Nothing else is to make a snapshot, or an entry, exceed the wallet.*)
(***************************************************************************)
EXTENDS LiveTrading

VARIABLE exposure   \* for each reading, what it shows beyond the wallet

exposureVars == <<vars, exposure>>

Readings == {"snapshot", "refresh"}

\* `owes`: the order of `job` matched after the reading and is not noted yet.
NoExposure == [late |-> 0, lost |-> 0, twice |-> 0, owes |-> FALSE]

\* A reading made now.
ReadNow == [late |-> AtLeast0(reported.cash - exchange.cash), lost |-> 0, twice |-> 0,
            owes |-> FALSE]

Hidden(r) == exposure[r].late + exposure[r].lost + exposure[r].twice

ExposureInit == Init /\ exposure = [r \in Readings |-> NoExposure]

-----------------------------------------------------------------------------
(* The actions of LiveTrading, and what each does to the two readings *)

StartReading ==
  /\ RefreshStart
  /\ exposure' = [exposure EXCEPT !["refresh"] = NoExposure]

\* What was noted since the refresh began stays on top of the reading.
ReadCash ==
  /\ RefreshCash
  /\ exposure' = [exposure EXCEPT !["refresh"] = [ReadNow EXCEPT !.twice = exposure["refresh"].twice]]

Install ==
  /\ RefreshFinish
  /\ exposure' = [exposure EXCEPT !["snapshot"] = exposure["refresh"]]

ReadAnew ==
  /\ Restart
  /\ exposure' = [r \in Readings |-> IF r = "snapshot" THEN ReadNow ELSE NoExposure]

\* The refresh owes it only if its cash has been read.
MatchOwed(m, p) ==
  /\ Match(m, p)
  /\ exposure' = [r \in Readings |-> [exposure[r] EXCEPT
                     !.owes = r = "snapshot" \/ refresh.phase \in {"cash", "read"}]]

NotedOn(e) ==
  [e EXCEPT !.owes = FALSE,
            !.twice = IF job.side = "SELL" /\ ~e.owes THEN @ + job.money ELSE @]
AnswerNoted ==
  /\ Answer
  /\ exposure' = [r \in Readings |-> NotedOn(exposure[r])]

LostFrom(e) ==
  [e EXCEPT !.owes = FALSE,
            !.lost = IF job.side = "BUY" /\ e.owes THEN @ + job.money ELSE @]
MatchLost ==
  /\ Unanswered
  /\ exposure' = [r \in Readings |-> LostFrom(exposure[r])]

StrayLost(stray, m, p) ==
  /\ MatchStray(stray, m, p)
  /\ exposure' = IF stray.order.side = "BUY"
                 THEN [r \in Readings |-> [exposure[r] EXCEPT !.lost = @ + m * p]]
                 ELSE exposure

\* Everything else neither reads the exchange nor concerns a match.
Other ==
  \/ RefreshPositions \/ RefreshFail \/ Expire \/ SyncStart \/ SyncWrite
  \/ RefuseEntry \/ Report \/ Midnight
  \/ \E t \in Tokens :
       \/ \E budget \in 1..MaxOrder : StartBuy(t, budget)
       \/ AcceptExit(t) \/ StartSell(t) \/ CloseExit(t)
       \/ Settle(t) \/ Redeem(t)
       \/ \E payout \in Payouts : Resolve(t, payout)

ExposureNext ==
  \/ StartReading \/ ReadCash \/ Install \/ ReadAnew
  \/ \E m \in 0..MaxOrder, p \in Prices :
       MatchOwed(m, p) \/ \E stray \in strays : StrayLost(stray, m, p)
  \/ AnswerNoted \/ MatchLost
  \/ Other /\ UNCHANGED exposure

ExposureSpec == ExposureInit /\ [][ExposureNext]_exposureVars

-----------------------------------------------------------------------------
(* Properties *)

\* Outside the short time between a match and its note, the snapshot promises
\* no cash beyond the wallet's but what was reported late, never noted, or sold
\* and counted twice: fills noted while a refresh is in flight, failed reads,
\* restarts and redemptions add nothing.
SnapshotWithin ==
  ~job.matched => CashNow(snap) <= exchange.cash + Hidden("snapshot")

\* No entry is sent for more than that and the tolerated drift, whatever sync
\* wrote into the ledger and however old the snapshot was that it wrote from.
EntriesWithin ==
  [][job = NoJob /\ job'.side = "BUY"
       => job'.amount <= exchange.cash + Tolerance + Hidden("snapshot")]_exposureVars

=============================================================================
