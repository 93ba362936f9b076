-------------------------- MODULE BotProcess_proof --------------------------
(***************************************************************************)
(* Every step of the process is a step of the queue, so what is proved of  *)
(* the queue holds through shutdowns, late workers and crashes.            *)
(***************************************************************************)
EXTENDS BotProcess, CopyQueue_proof

LEMMA BotStep == [BotNext]_botVars => [Next]_vars
<1>. SUFFICES ASSUME [BotNext]_botVars PROVE [Next]_vars
  OBVIOUS
<1>1. ASSUME Discover \/ RequestStop \/ Start \/ UNCHANGED botVars PROVE UNCHANGED vars
  BY <1>1 DEF Discover, RequestStop, Start, botVars
<1>2. ASSUME StartPoll \/ GoOnPolling PROVE Next
  BY <1>2 DEF StartPoll, GoOnPolling, Next
<1>3. ASSUME Deliver \/ World PROVE Next
  BY <1>3 DEF Deliver, World, Next
<1>4. ASSUME NEW t \in Tokens, Work(t) PROVE Next
  BY <1>4 DEF Work, Next
<1>5. ASSUME StreamStops PROVE Next \/ UNCHANGED vars
  BY <1>5 DEF StreamStops, Next
<1>6. ASSUME Panel \/ LoopsEnd \/ Exit \/ Crash PROVE Next
  BY <1>6 DEF Panel, LoopsEnd, Exit, Crash, Next
<1>. QED
  BY <1>1, <1>2, <1>3, <1>4, <1>5, <1>6 DEF BotNext

(* The process, in whatever phase, only does what the queue may do.        *)
THEOREM BotImplementsQueue == BotSpec => Spec
<1>1. BotInit => Init
  BY DEF BotInit
<1>. QED
  BY <1>1, BotStep, PTL DEF BotSpec, Spec

(* What _poll_leader has offered and checkpointed is not lost while it is  *)
(* listed, whenever run_bot is stopped, killed or started again, between   *)
(* the scheduling of a poll and its commit too.                            *)
THEOREM BotCheckpointCovers == BotSpec => []CheckpointCovers
  BY BotImplementsQueue, CheckpointCoversHolds, PTL

(* No event waits without a worker or in two, through the phases of        *)
(* run_bot, a cancelled pass and a worker that the stream started late.    *)
THEOREM BotPendingHasWorker == BotSpec => []PendingHasWorker
  BY BotImplementsQueue, PendingHasWorkerHolds, PTL

(* No BUY overtakes a SELL that raised the watermark, whenever run_bot is  *)
(* stopped or killed.                                                      *)
THEOREM BotBarrierKept == BotSpec => []BarrierKept
  BY BotImplementsQueue, BarrierKeptHolds, PTL

(* The reserve of the queue keeps room for SELLs in every phase.           *)
THEOREM BotSellsGetRoom == BotSpec => []SellsGetRoom
  BY BotImplementsQueue, SellsGetRoomHolds, PTL

(* The types of the process: those of the queue, one of the five phases    *)
(* of run_bot, and a leader that is tracked or not.                        *)
THEOREM BotTypesHold == BotSpec => []BotTypes
<1> DEFINE PhaseTypes == phase \in {"up", "stopping", "drained", "closed", "down"}
                         /\ tracked \in BOOLEAN
<1>1. BotInit => PhaseTypes
  BY DEF BotInit
<1>2. TypeOK /\ PhaseTypes /\ [BotNext]_botVars => PhaseTypes'
  <2>. SUFFICES ASSUME TypeOK, PhaseTypes, [BotNext]_botVars PROVE PhaseTypes'
    OBVIOUS
  <2>1. active \in BOOLEAN
    BY DEF TypeOK
  <2>2. ASSUME NEW t \in Tokens, Work(t) PROVE PhaseTypes'
    BY <2>2 DEF Work
  <2>3. ASSUME Discover \/ StartPoll \/ GoOnPolling \/ Deliver \/ Panel \/ World
        PROVE  PhaseTypes'
    BY <2>1, <2>3 DEF Discover, StartPoll, GoOnPolling, Deliver, Panel, World
  <2>4. ASSUME \/ RequestStop \/ LoopsEnd \/ StreamStops \/ Exit \/ Crash \/ Start
               \/ UNCHANGED botVars
        PROVE  PhaseTypes'
    BY <2>4 DEF RequestStop, LoopsEnd, StreamStops, Exit, Crash, Start, botVars
  <2>. QED
    BY <2>2, <2>3, <2>4 DEF BotNext
<1>3. BotSpec => []TypeOK
  BY BotImplementsQueue, TypesHold, PTL
<1>4. TypeOK /\ PhaseTypes => BotTypes
  BY DEF BotTypes
<1>. QED
  BY <1>1, <1>2, <1>3, <1>4, PTL DEF BotSpec
=============================================================================
