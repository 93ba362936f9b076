---------------------------- MODULE AbstractLock ----------------------------
(***************************************************************************)
(* What app/priority.py promises to the engine: one holder at a time, a    *)
(* lock that never idles while somebody waits for it, and a hand-over that *)
(* goes to a most urgent waiter.  Futures, cancelled heap entries and the  *)
(* gap between a grant and the wake-up of the granted task do not exist    *)
(* at this level: `owner' is whoever the lock belongs to.                  *)
(***************************************************************************)
CONSTANTS Tasks, Priorities, NoTask, MoreUrgent(_, _)

VARIABLES
    owner,      \* the task the lock belongs to, or NoTask
    waiting     \* the priority each waiting task asked for

avars == <<owner, waiting>>

Waiters == DOMAIN waiting

AInit ==
    /\ owner = NoTask
    /\ waiting = [t \in {} |-> 0]

Without(t) == [u \in Waiters \ {t} |-> waiting[u]]

(* The lock is free: the task gets it at once.                             *)
Take(t) ==
    /\ owner = NoTask
    /\ owner' = t
    /\ UNCHANGED waiting

Wait(t, p) ==
    /\ owner \notin {NoTask, t}
    /\ t \notin Waiters
    /\ waiting' = [u \in Waiters \cup {t} |-> IF u = t THEN p ELSE waiting[u]]
    /\ UNCHANGED owner

GiveUp(t) ==
    /\ t \in Waiters
    /\ waiting' = Without(t)
    /\ UNCHANGED owner

(* The owner leaves: a most urgent waiter takes over in the same step, and *)
(* only with nobody waiting does the lock become free.                     *)
Leave ==
    /\ owner # NoTask
    /\ \/ /\ Waiters = {}
          /\ owner' = NoTask
          /\ UNCHANGED waiting
       \/ \E u \in Waiters :
             /\ \A v \in Waiters : ~MoreUrgent(waiting[v], waiting[u])
             /\ owner' = u
             /\ waiting' = Without(u)

ANext ==
    \/ \E t \in Tasks : Take(t) \/ GiveUp(t)
    \/ \E t \in Tasks, p \in Priorities : Wait(t, p)
    \/ Leave

ASpec == AInit /\ [][ANext]_avars
=============================================================================
