----------------------------- MODULE BotProcess -----------------------------
(***************************************************************************)
(* The process around the queue: app/__main__.py starts the trade stream,  *)
(* the engine and the panel, and on a signal, or when one of them ends,    *)
(* takes them down in an order of its own.                                 *)
(*                                                                         *)
(*   up        everything runs                                             *)
(*   stopping  the engine was told to stop; its loops finish their pass    *)
(*   drained   the loops have ended or were cancelled, and with them every *)
(*             poll and worker of that moment; the stream still delivers   *)
(*   closed    the stream has ended; late workers may still run            *)
(*   down      no process                                                  *)
(*                                                                         *)
(* A crash leads from any phase to down.  Every step is a step of          *)
(* CopyQueue taken in a phase that allows it.                              *)
(***************************************************************************)
EXTENDS CopyQueue

VARIABLES
    phase,
    tracked         \* the leader is in the stream's tracked_addresses

botVars == <<vars, phase, tracked>>

Running == phase \in {"up", "stopping", "drained", "closed"}

BotTypes ==
    /\ TypeOK
    /\ phase \in {"up", "stopping", "drained", "closed", "down"}
    /\ tracked \in BOOLEAN

BotInit == Init /\ phase = "up" /\ tracked = FALSE

-----------------------------------------------------------------------------
(* poll_once: with copying on it publishes which leaders the stream is to  *)
(* deliver, then starts the polls that are not running yet.                *)
Discover ==
    /\ phase = "up" /\ ~paused
    /\ tracked' = active
    /\ UNCHANGED <<vars, phase>>

StartPoll ==
    /\ phase = "up"
    /\ PollFetch
    /\ tracked' = active
    /\ UNCHANGED phase

GoOnPolling ==
    /\ phase \in {"up", "stopping"}
    /\ PollInitialize \/ PollRead \/ PollSchedule \/ PollCommit \/ PollFail
    /\ UNCHANGED <<phase, tracked>>

(* A worker runs until it is cancelled; nothing cancels one that the       *)
(* stream scheduled after the loops had ended.                             *)
Work(t) ==
    /\ Running
    /\ CloseBatch(t) \/ Run(t)
    /\ UNCHANGED <<phase, tracked>>

Deliver ==
    /\ phase \in {"up", "stopping", "drained"}
    /\ (tracked /\ \E e \in Events : Hear(e)) \/ ScheduleHeard \/ LoseHeard
    /\ UNCHANGED <<phase, tracked>>

Panel ==
    /\ phase \in {"up", "stopping"}
    /\ TogglePause \/ ToggleLeader \/ Reset
    /\ UNCHANGED <<phase, tracked>>

World == (\E e \in Events : Index(e)) /\ UNCHANGED <<phase, tracked>>

-----------------------------------------------------------------------------
(* A signal, or a loop of the process that ended by itself.                *)
RequestStop ==
    /\ "stop" \in Environment
    /\ phase = "up"
    /\ phase' = "stopping"
    /\ UNCHANGED <<vars, tracked>>

(* run_bot waits for the engine SHUTDOWN_GRACE_SECONDS, then cancels it.   *)
(* Slip: it waits until the work in flight is done.                        *)
WorkDone == poll = Idle /\ \A t \in Tokens : chain[t] = <<>>
GraceOver == TRUE

LoopsEnd ==
    /\ phase = "stopping" /\ GraceOver
    /\ Abandon
    /\ phase' = "drained"
    /\ UNCHANGED tracked

StreamStops ==
    /\ phase = "drained"
    /\ LoseHeard \/ (heard = {} /\ UNCHANGED vars)
    /\ phase' = "closed"
    /\ UNCHANGED tracked

Exit == phase = "closed" /\ Restart /\ phase' = "down" /\ tracked' = FALSE
Crash == phase \in {"up", "stopping", "drained"} /\ Restart /\ phase' = "down" /\ tracked' = FALSE

Start ==
    /\ phase = "down"
    /\ phase' = "up"
    /\ UNCHANGED <<vars, tracked>>

BotNext ==
    \/ Discover \/ StartPoll \/ GoOnPolling \/ Deliver \/ Panel \/ World
    \/ \E t \in Tokens : Work(t)
    \/ RequestStop \/ LoopsEnd \/ StreamStops \/ Exit \/ Crash \/ Start

BotSpec == BotInit /\ [][BotNext]_botVars

(* The poll repeats while the process is up and a request ends by its      *)
(* timeout; requests, queries and commits of polls may fail, but are       *)
(* assumed to succeed again and again.  Workers end because every wait of  *)
(* theirs is bounded.  A shutdown waits for nothing but a timeout  *)
(* and for tasks it has cancelled.  Nothing is assumed of the stream, the  *)
(* administrator, the index, crashes or whoever starts the process, and    *)
(* nothing of workers and polls once the process is being stopped.         *)
BotFairness ==
    /\ WF_botVars(StartPoll)
    /\ SF_botVars(phase = "up" /\ (PollInitialize \/ PollRead) /\ GoOnPolling)
    /\ SF_botVars(phase = "up" /\ PollSchedule /\ GoOnPolling)
    /\ SF_botVars(phase = "up" /\ PollCommit /\ GoOnPolling)
    /\ \A t \in Tokens :
          /\ WF_botVars(phase = "up" /\ CloseBatch(t) /\ Work(t))
          /\ WF_botVars(phase = "up" /\ Run(t) /\ Work(t))
    /\ WF_botVars(LoopsEnd) /\ WF_botVars(StreamStops) /\ WF_botVars(Exit)

FairBot == BotSpec /\ BotFairness

-----------------------------------------------------------------------------
(* What a poll has offered before it committed its checkpoint is           *)
(* eventually committed, if the process and copying come to stay on and    *)
(* newer trades do not crowd it out: refusals by a full queue, pauses, a   *)
(* poll that races a worker, failed polls, resets, shutdowns that abandon  *)
(* work and crashes are all repaired by a later poll.                      *)
StaysOn == <>[](phase = "up" /\ ~paused /\ active)
OfferedIsCommitted ==
    StaysOn => \A e \in Events :
        (e \in secured) ~> (e \in receipts \/ Crowded(e, visible))

(* A trade the activity lists at or above the floor of the session is      *)
(* eventually committed, however late it was indexed and whatever the      *)
(* checkpoint says by then, unless it is crowded out or the floor is       *)
(* forgotten with the process.                                             *)
LateIsCommitted ==
    StaysOn => \A e \in Events :
        (e \in visible /\ floor \in 1..Source[e].ts)
            ~> (e \in receipts \/ Crowded(e, visible) \/ floor = 0)

(* A shutdown comes to its end although a worker or a poll never does.     *)
ShutdownEnds == (phase = "stopping") ~> (phase = "down")
=============================================================================
