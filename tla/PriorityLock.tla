---------------------------- MODULE PriorityLock ----------------------------
(***************************************************************************)
(* app/priority.py: the cancellable priority mutex around every ledger     *)
(* transaction.  A task that asks for the lock pushes a future on a heap   *)
(* ordered by (priority, arrival) and awaits it; the holder's release()    *)
(* pops the heap until it finds a future nobody cancelled.                 *)
(*                                                                         *)
(* One asyncio loop runs all tasks, so code between two awaits is one      *)
(* action.  Two gaps remain and are the point of the model: between the    *)
(* grant (set_result) and the wake-up of the granted task, and between the *)
(* cancellation of a task and the CancelledError it receives.              *)
(*                                                                         *)
(* A definition introduced as a "slip" is a plausible mistake in the code  *)
(* below it; no action uses it.                                            *)
(***************************************************************************)
EXTENDS Naturals

CONSTANTS
    Tasks,          \* asyncio tasks that use the lock
    Priorities,     \* 0: sell, exit, admin; 10: buy; 20: retried buy
    MaxSeq,         \* bound: the largest arrival number on the heap
    NoTask          \* no owner, in the abstract lock

ASSUME PrioritiesAssumption == Priorities \subseteq Nat
ASSUME MaxSeqAssumption == MaxSeq \in Nat
ASSUME NoTaskAssumption == NoTask \notin Tasks

VARIABLES
    busy,       \* self._busy
    waiters,    \* self._waiters, entries of live and of cancelled futures
    pc,         \* where each task stands in acquire()
    ticket      \* arrival number of the task's own future, 0 for none

vars == <<busy, waiters, pc, ticket>>

Entry == [task : Tasks, pri : Priorities, seq : 1..MaxSeq]

(* waiting: the awaited future is pending; cancelled: it was cancelled and *)
(* the task not yet woken; granted: its result is set and the task not yet *)
(* woken; revoked: task.cancel() arrived after the grant.                  *)
States == {"idle", "waiting", "cancelled", "granted", "revoked", "holding"}

TypeOK ==
    /\ busy \in BOOLEAN
    /\ waiters \subseteq Entry
    /\ pc \in [Tasks -> States]
    /\ ticket \in [Tasks -> 0..MaxSeq]

Init ==
    /\ busy = FALSE
    /\ waiters = {}
    /\ pc = [t \in Tasks |-> "idle"]
    /\ ticket = [t \in Tasks |-> 0]

-----------------------------------------------------------------------------
(* Tuples on the heap compare by priority, then by arrival.                *)
(* Slips: by arrival only; the latest of a priority first.                 *)
ByArrival(d, e) == d.seq < e.seq
LatestFirst(d, e) == d.pri < e.pri \/ (d.pri = e.pri /\ d.seq > e.seq)
Precedes(d, e) == d.pri < e.pri \/ (d.pri = e.pri /\ d.seq < e.seq)

(* An entry whose future is still pending: anything else that is left on   *)
(* the heap belongs to an acquire() that was cancelled.                    *)
Live(e, state, own) == state[e.task] = "waiting" /\ own[e.task] = e.seq

(* _grant() run by task t with the lock free: pop the heap q up to its     *)
(* first live entry, dropping the cancelled ones on the way.  `state' and  *)
(* `own' are pc and ticket as t has left them; t granted to itself goes on *)
(* without suspending, any other task has yet to be woken.                 *)
Grant(t, q, state, own) ==
    \/ /\ \A e \in q : ~Live(e, state, own)
       /\ busy' = FALSE
       /\ waiters' = {}
       /\ pc' = state
       /\ ticket' = own
    \/ \E e \in q :
          /\ Live(e, state, own)
          /\ \A d \in q : Live(d, state, own) /\ d # e => Precedes(e, d)
          /\ busy' = TRUE
          /\ waiters' = {d \in q : Precedes(e, d)}
          /\ IF e.task = t
             THEN /\ pc' = [state EXCEPT ![t] = "holding"]
                  /\ ticket' = [own EXCEPT ![t] = 0]
             ELSE /\ pc' = [state EXCEPT ![e.task] = "granted"]
                  /\ ticket' = own

(* The counter only ever orders entries that are on the heap together, so  *)
(* it is modelled as one more than the largest number there.               *)
(* Slip: the counter does not advance.                                     *)
SameSequence(s) == s = 1
NextSequence(s) ==
    /\ \A e \in waiters : e.seq < s
    /\ s = 1 \/ \E e \in waiters : e.seq = s - 1

(* acquire(): push a future, then _grant(), which does nothing while the   *)
(* lock is busy.                                                           *)
Acquire(t, p) ==
    /\ pc[t] = "idle"
    /\ \E s \in 1..MaxSeq :
          LET queue == waiters \cup {[task |-> t, pri |-> p, seq |-> s]}
              state == [pc EXCEPT ![t] = "waiting"]
              own == [ticket EXCEPT ![t] = s]
          IN  /\ NextSequence(s)
              /\ \/ /\ busy
                    /\ waiters' = queue
                    /\ pc' = state
                    /\ ticket' = own
                    /\ UNCHANGED busy
                 \/ ~busy /\ Grant(t, queue, state, own)

(* task.cancel() while the future is pending cancels the future; once the  *)
(* result is set it only marks the task.                                   *)
Cancel(t) ==
    /\ \/ pc[t] = "waiting" /\ pc' = [pc EXCEPT ![t] = "cancelled"]
       \/ pc[t] = "granted" /\ pc' = [pc EXCEPT ![t] = "revoked"]
    /\ UNCHANGED <<busy, waiters, ticket>>

Wake(t) ==
    /\ pc[t] = "granted"
    /\ pc' = [pc EXCEPT ![t] = "holding"]
    /\ ticket' = [ticket EXCEPT ![t] = 0]
    /\ UNCHANGED <<busy, waiters>>

(* release() of a task that leaves for idle, from its critical section or  *)
(* from the except branch of a cancelled acquire().                        *)
(* Slip: the lock is freed and nobody is granted.                          *)
FreeOnly(t) ==
    /\ busy
    /\ busy' = FALSE
    /\ pc' = [pc EXCEPT ![t] = "idle"]
    /\ ticket' = [ticket EXCEPT ![t] = 0]
    /\ UNCHANGED waiters
ReleaseBy(t) ==
    /\ busy
    /\ Grant(t, waiters, [pc EXCEPT ![t] = "idle"], [ticket EXCEPT ![t] = 0])

LeaveIdle(t) ==
    /\ pc' = [pc EXCEPT ![t] = "idle"]
    /\ ticket' = [ticket EXCEPT ![t] = 0]
    /\ UNCHANGED <<busy, waiters>>

(* CancelledError in acquire(): the lock is passed on only if it had been  *)
(* granted.  Slips: it is always passed on, or never.                      *)
ReleaseAnyway(t) == pc[t] = "cancelled" /\ ReleaseBy(t)
WakeCancelled(t) == pc[t] = "cancelled" /\ LeaveIdle(t)

KeepGrant(t) == pc[t] = "revoked" /\ LeaveIdle(t)
WakeRevoked(t) == pc[t] = "revoked" /\ ReleaseBy(t)

Release(t) == pc[t] = "holding" /\ ReleaseBy(t)

Next ==
    \E t \in Tasks :
        \/ \E p \in Priorities : Acquire(t, p)
        \/ Cancel(t)
        \/ Wake(t)
        \/ WakeCancelled(t)
        \/ WakeRevoked(t)
        \/ Release(t)

Spec == Init /\ [][Next]_vars

(* The loop runs every ready callback, so a settled future always wakes    *)
(* its task; the ledger section ends because every await inside it has a   *)
(* timeout (app/polymarket.py) or is a database call.                      *)
Fairness ==
    \A t \in Tasks :
        /\ WF_vars(Wake(t))
        /\ WF_vars(WakeCancelled(t))
        /\ WF_vars(WakeRevoked(t))
        /\ WF_vars(Release(t))

FairSpec == Spec /\ Fairness

-----------------------------------------------------------------------------
Owners == {t \in Tasks : pc[t] \in {"granted", "revoked", "holding"}}

(* At most one task holds the lock or has been promised it, whatever is    *)
(* cancelled between a grant and a wake-up (the except branch of acquire). *)
MutualExclusion == \A t, u \in Owners : t = u

(* The lock is never lost: it is marked busy exactly while some task owns  *)
(* it, so a cancelled waiter can neither keep it nor free another's.       *)
NeverLost == busy <=> Owners # {}

(* A free lock has nobody waiting for it: no wake-up was forgotten.        *)
NoIdleWaiter == ~busy => \A t \in Tasks : pc[t] # "waiting"

(* Every waiting task is on the heap under its own ticket.                 *)
Queued ==
    \A t \in Tasks : pc[t] = "waiting" =>
        \E e \in waiters : e.task = t /\ e.seq = ticket[t]

(* No two queued futures share an arrival number, so the heap never has to *)
(* compare the futures themselves (a TypeError in heapq).                  *)
DistinctArrivals == \A d, e \in waiters : d.seq = e.seq => d = e

IInv ==
    /\ TypeOK
    /\ MutualExclusion
    /\ NeverLost
    /\ NoIdleWaiter
    /\ Queued
    /\ DistinctArrivals

(* A grant goes to the task that, of those still waiting, has the most     *)
(* urgent priority and asked first: a sell never queues behind a buy.      *)
GrantedEntry(t, e) == e.task = t /\ e.seq = ticket[t]

InOrder ==
    [][\A t \in Tasks : pc[t] = "waiting" /\ pc'[t] = "granted" =>
          \A e, d \in waiters :
              GrantedEntry(t, e) /\ Live(d, pc, ticket) /\ d # e
                  => e.pri <= d.pri /\ (e.pri = d.pri => e.seq < d.seq)]_vars

Urgent(t) ==
    /\ pc[t] = "waiting"
    /\ \E e \in waiters :
          GrantedEntry(t, e) /\ \A p \in Priorities : e.pri <= p

(* A task of the most urgent priority always leaves the queue: sells and   *)
(* exits are not starved by later requests of any priority.                *)
UrgentServed == \A t \in Tasks : Urgent(t) ~> pc[t] # "waiting"

-----------------------------------------------------------------------------
(* The lock as its users see it.                                           *)
OwnerTask == IF Owners = {} THEN NoTask ELSE CHOOSE t \in Tasks : t \in Owners

Asked ==
    [t \in {u \in Tasks : pc[u] = "waiting"} |->
        (CHOOSE e \in waiters : e.task = t /\ e.seq = ticket[t]).pri]

Abstract == INSTANCE AbstractLock WITH
    owner <- OwnerTask, waiting <- Asked,
    MoreUrgent <- LAMBDA p, q : p < q

(* The heap of futures implements the plain lock.                          *)
ImplementsAbstract == Abstract!ASpec
=============================================================================
