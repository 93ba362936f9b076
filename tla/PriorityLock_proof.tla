------------------------- MODULE PriorityLock_proof -------------------------
(***************************************************************************)
(* The priority lock is a mutex that is never lost and goes to the most    *)
(* urgent waiter, for any set of tasks, any priorities and any number of   *)
(* queued futures; it implements the plain lock.                           *)
(***************************************************************************)
EXTENDS PriorityLock, TLAPS

LEMMA InitIInv == Init => IInv
<1>1. SUFFICES ASSUME Init
               PROVE  IInv
  OBVIOUS
<1>2. TypeOK
  <2>1. pc \in [Tasks -> States]
    BY <1>1 DEF Init, States
  <2>2. 0 \in 0..MaxSeq
    BY MaxSeqAssumption
  <2>3. ticket \in [Tasks -> 0..MaxSeq]
    BY <1>1, <2>2 DEF Init
  <2>. QED
    BY <1>1, <2>1, <2>3 DEF Init, TypeOK
<1>3. \A t \in Tasks : pc[t] = "idle"
  BY <1>1 DEF Init
<1>4. Owners = {}
  BY <1>3 DEF Owners
<1>. QED
  BY <1>1, <1>2, <1>3, <1>4 DEF Init, IInv, MutualExclusion, NeverLost,
        NoIdleWaiter, Queued, DistinctArrivals

(* A heap on which every waiting task stands under its own ticket, with no *)
(* task owning the lock: running _grant() on it restores the invariant.    *)
Grantable(q, state, own) ==
    /\ q \subseteq Entry
    /\ state \in [Tasks -> States]
    /\ own \in [Tasks -> 0..MaxSeq]
    /\ \A u \in Tasks : state[u] \notin {"granted", "revoked", "holding"}
    /\ \A u \in Tasks : state[u] = "waiting" =>
          \E e \in q : e.task = u /\ e.seq = own[u]
    /\ \A d, e \in q : d.seq = e.seq => d = e

LEMMA GrantIInv ==
    ASSUME NEW t \in Tasks, NEW q, NEW state, NEW own,
           Grantable(q, state, own), Grant(t, q, state, own)
    PROVE  IInv'
<1> USE PrioritiesAssumption, MaxSeqAssumption
<1>1. CASE /\ \A e \in q : ~Live(e, state, own)
           /\ busy' = FALSE
           /\ waiters' = {}
           /\ pc' = state
           /\ ticket' = own
  <2>1. \A u \in Tasks : state[u] # "waiting"
    BY <1>1 DEF Grantable, Live
  <2>. QED
    BY <1>1, <2>1 DEF Grantable, IInv, TypeOK, MutualExclusion, NeverLost,
          NoIdleWaiter, Queued, DistinctArrivals, Owners
<1>2. ASSUME NEW e \in q,
             Live(e, state, own),
             \A d \in q : Live(d, state, own) /\ d # e => Precedes(e, d),
             busy' = TRUE,
             waiters' = {d \in q : Precedes(e, d)},
             IF e.task = t
             THEN /\ pc' = [state EXCEPT ![t] = "holding"]
                  /\ ticket' = [own EXCEPT ![t] = 0]
             ELSE /\ pc' = [state EXCEPT ![e.task] = "granted"]
                  /\ ticket' = own
      PROVE  IInv'
  <2>1. e \in Entry /\ e.task \in Tasks
    BY DEF Grantable, Entry
  <2>2. TypeOK'
    BY <1>2, <2>1 DEF Grantable, TypeOK, States
  <2>3. Owners' = {e.task}
    BY <1>2, <2>1 DEF Grantable, Owners, States
  <2>4. \A u \in Tasks \ {e.task} : pc'[u] = state[u] /\ ticket'[u] = own[u]
    BY <1>2, <2>1 DEF Grantable
  <2>5. Queued'
    <3>1. SUFFICES ASSUME NEW u \in Tasks, pc'[u] = "waiting"
                   PROVE  \E d \in waiters' : d.task = u /\ d.seq = ticket'[u]
      BY DEF Queued
    <3>2. u # e.task
      BY <3>1, <2>3 DEF Owners
    <3>3. PICK d \in q : d.task = u /\ d.seq = own[u]
      BY <3>1, <3>2, <2>4 DEF Grantable
    <3>4. d # e /\ Live(d, state, own)
      BY <3>1, <3>2, <3>3, <2>4 DEF Live
    <3>. QED
      BY <1>2, <3>2, <3>3, <3>4, <2>4
  <2>6. DistinctArrivals'
    BY <1>2 DEF DistinctArrivals, Grantable
  <2>. QED
    BY <1>2, <2>1, <2>2, <2>3, <2>5, <2>6
       DEF IInv, MutualExclusion, NeverLost, NoIdleWaiter
<1>. QED
  BY <1>1, <1>2 DEF Grant

LEMMA AcquireIInv ==
    ASSUME IInv, NEW t \in Tasks, NEW p \in Priorities, Acquire(t, p)
    PROVE  IInv'
<1> USE PrioritiesAssumption, MaxSeqAssumption
<1>1. PICK s \in 1..MaxSeq :
         /\ NextSequence(s)
         /\ \/ /\ busy
               /\ waiters' = waiters \cup {[task |-> t, pri |-> p, seq |-> s]}
               /\ pc' = [pc EXCEPT ![t] = "waiting"]
               /\ ticket' = [ticket EXCEPT ![t] = s]
               /\ UNCHANGED busy
            \/ /\ ~busy
               /\ Grant(t, waiters \cup {[task |-> t, pri |-> p, seq |-> s]},
                        [pc EXCEPT ![t] = "waiting"], [ticket EXCEPT ![t] = s])
  BY DEF Acquire
<1> DEFINE new == [task |-> t, pri |-> p, seq |-> s]
           queue == waiters \cup {new}
           state == [pc EXCEPT ![t] = "waiting"]
           own == [ticket EXCEPT ![t] = s]
<1>2. new \in Entry /\ new.task = t /\ new.seq = s
  BY DEF Entry
<1>3. queue \subseteq Entry
  BY <1>2 DEF IInv, TypeOK
<1>4. state \in [Tasks -> States] /\ own \in [Tasks -> 0..MaxSeq]
  BY DEF IInv, TypeOK, States
<1>5. \A u \in Tasks : state[u] = "waiting" =>
          \E e \in queue : e.task = u /\ e.seq = own[u]
  <2>1. SUFFICES ASSUME NEW u \in Tasks, state[u] = "waiting"
                 PROVE  \E e \in queue : e.task = u /\ e.seq = own[u]
    OBVIOUS
  <2>2. CASE u = t
    BY <2>2, <1>2 DEF IInv, TypeOK
  <2>3. CASE u # t
    BY <2>1, <2>3 DEF IInv, TypeOK, Queued
  <2>. QED
    BY <2>2, <2>3
<1>6. \A d, e \in queue : d.seq = e.seq => d = e
  <2>1. \A e \in waiters : e.seq \in 1..MaxSeq /\ e.seq < s
    BY <1>1 DEF NextSequence, IInv, TypeOK, Entry
  <2>. QED
    BY <2>1, <1>2 DEF IInv, DistinctArrivals
<1> HIDE DEF new, queue, state, own
<1>7. CASE busy
  <2>1. waiters' = queue /\ pc' = state /\ ticket' = own /\ busy' = busy
    BY <1>1, <1>7 DEF queue, state, own, new
  <2>2. Owners' = Owners
    BY <2>1, <1>4 DEF Owners, state, Acquire, IInv, TypeOK, States
  <2>. QED
    BY <1>3, <1>4, <1>5, <1>6, <1>7, <2>1, <2>2
       DEF IInv, TypeOK, MutualExclusion, NeverLost, NoIdleWaiter, Queued,
           DistinctArrivals
<1>8. CASE ~busy
  <2>1. Grant(t, queue, state, own)
    BY <1>1, <1>8 DEF queue, state, own, new
  <2>2. \A u \in Tasks : state[u] \notin {"granted", "revoked", "holding"}
    BY <1>8 DEF state, IInv, TypeOK, NeverLost, Owners
  <2>3. Grantable(queue, state, own)
    BY <1>3, <1>4, <1>5, <1>6, <2>2 DEF Grantable
  <2>. QED
    BY <2>1, <2>3, GrantIInv
<1>. QED
  BY <1>7, <1>8

LEMMA ReleaseIInv ==
    ASSUME IInv, NEW t \in Tasks, t \in Owners, ReleaseBy(t)
    PROVE  IInv'
<1> DEFINE state == [pc EXCEPT ![t] = "idle"]
           own == [ticket EXCEPT ![t] = 0]
<1>1. state \in [Tasks -> States] /\ own \in [Tasks -> 0..MaxSeq]
  BY MaxSeqAssumption DEF IInv, TypeOK, States
<1>2. \A u \in Tasks : state[u] \notin {"granted", "revoked", "holding"}
  BY DEF IInv, TypeOK, MutualExclusion, Owners
<1>3. \A u \in Tasks : state[u] = "waiting" =>
          \E e \in waiters : e.task = u /\ e.seq = own[u]
  BY DEF IInv, TypeOK, Queued
<1>4. Grantable(waiters, state, own)
  BY <1>1, <1>2, <1>3 DEF Grantable, IInv, TypeOK, DistinctArrivals
<1>. QED
  BY <1>4, GrantIInv DEF ReleaseBy

LEMMA NextIInv == IInv /\ [Next]_vars => IInv'
<1>1. SUFFICES ASSUME IInv, [Next]_vars
               PROVE  IInv'
  OBVIOUS
<1> USE MaxSeqAssumption
<1>2. ASSUME NEW t \in Tasks, NEW p \in Priorities, Acquire(t, p)
      PROVE  IInv'
  BY <1>1, <1>2, AcquireIInv
<1>3. ASSUME NEW t \in Tasks, Cancel(t)
      PROVE  IInv'
  BY <1>1, <1>3 DEF Cancel, IInv, TypeOK, States, MutualExclusion, NeverLost,
        NoIdleWaiter, Queued, DistinctArrivals, Owners
<1>4. ASSUME NEW t \in Tasks, Wake(t) \/ WakeCancelled(t)
      PROVE  IInv'
  BY <1>1, <1>4 DEF Wake, WakeCancelled, LeaveIdle, IInv, TypeOK, States,
        MutualExclusion, NeverLost, NoIdleWaiter, Queued, DistinctArrivals, Owners
<1>5. ASSUME NEW t \in Tasks, WakeRevoked(t) \/ Release(t)
      PROVE  IInv'
  BY <1>1, <1>5, ReleaseIInv DEF WakeRevoked, Release, Owners
<1>6. CASE UNCHANGED vars
  BY <1>1, <1>6 DEF vars, IInv, TypeOK, MutualExclusion, NeverLost,
        NoIdleWaiter, Queued, DistinctArrivals, Owners
<1>. QED
  BY <1>1, <1>2, <1>3, <1>4, <1>5, <1>6 DEF Next

THEOREM LockInvariant == Spec => []IInv
BY InitIInv, NextIInv, PTL DEF Spec

(* Never two owners, whatever is cancelled and whenever it is.             *)
THEOREM LockMutualExclusion == Spec => []MutualExclusion
<1>1. IInv => MutualExclusion
  BY DEF IInv
<1>. QED
  BY <1>1, LockInvariant, PTL

(* The lock is busy exactly while it has an owner.                         *)
THEOREM LockNeverLost == Spec => []NeverLost
<1>1. IInv => NeverLost
  BY DEF IInv
<1>. QED
  BY <1>1, LockInvariant, PTL

(* No task waits for a free lock.                                          *)
THEOREM LockNoIdleWaiter == Spec => []NoIdleWaiter
<1>1. IInv => NoIdleWaiter
  BY DEF IInv
<1>. QED
  BY <1>1, LockInvariant, PTL
-----------------------------------------------------------------------------
(* The order of the hand-over.  Only a release promises the lock to a task *)
(* that waits, so the step that matters is _grant() run by an owner.       *)

LEMMA GrantedEntryUnique ==
    ASSUME IInv, NEW u \in Tasks, NEW e \in waiters, NEW d \in waiters,
           GrantedEntry(u, e), GrantedEntry(u, d)
    PROVE  d = e
BY DEF IInv, DistinctArrivals, GrantedEntry

(* What a release grants: the first entry of the tasks that wait.          *)
LEMMA ReleaseGrants ==
    ASSUME IInv, NEW t \in Tasks, t \in Owners, ReleaseBy(t)
    PROVE  \/ /\ \A u \in Tasks : pc[u] # "waiting"
              /\ pc' = [pc EXCEPT ![t] = "idle"]
              /\ ticket' = [ticket EXCEPT ![t] = 0]
              /\ waiters' = {}
           \/ \E e \in waiters :
                 /\ e.task \in Tasks \ {t} /\ e.pri \in Priorities
                 /\ Live(e, pc, ticket)
                 /\ \A d \in waiters : Live(d, pc, ticket) /\ d # e => Precedes(e, d)
                 /\ pc' = [[pc EXCEPT ![t] = "idle"] EXCEPT ![e.task] = "granted"]
                 /\ ticket' = [ticket EXCEPT ![t] = 0]
                 /\ waiters' = {d \in waiters : Precedes(e, d)}
<1> DEFINE state == [pc EXCEPT ![t] = "idle"]
           own == [ticket EXCEPT ![t] = 0]
<1>1. \A e \in waiters : e \in Entry /\ e.task \in Tasks /\ e.pri \in Priorities
  BY DEF IInv, TypeOK, Entry
<1>2. pc[t] # "waiting"
  BY DEF Owners
<1>3. \A e \in waiters : Live(e, state, own) <=> Live(e, pc, ticket)
  <2>. SUFFICES ASSUME NEW e \in waiters
                PROVE  Live(e, state, own) <=> Live(e, pc, ticket)
    OBVIOUS
  <2>1. CASE e.task = t
    BY <2>1, <1>2 DEF Live, IInv, TypeOK
  <2>2. CASE e.task # t
    BY <2>2, <1>1 DEF Live, IInv, TypeOK
  <2>. QED
    BY <2>1, <2>2
<1>4. \A e \in waiters : Live(e, pc, ticket) => e.task # t
  BY <1>2 DEF Live
<1>5. Grant(t, waiters, state, own)
  BY DEF ReleaseBy
<1> HIDE DEF state, own
<1>6. CASE \A e \in waiters : ~Live(e, state, own)
  <2>1. \A u \in Tasks : pc[u] # "waiting"
    BY <1>3, <1>6 DEF IInv, Queued, Live
  <2>2. pc' = state /\ ticket' = own /\ waiters' = {}
    BY <1>5, <1>6 DEF Grant
  <2>. QED
    BY <2>1, <2>2 DEF state, own
<1>7. CASE ~\A e \in waiters : ~Live(e, state, own)
  <2>1. PICK e \in waiters :
           /\ Live(e, state, own)
           /\ \A d \in waiters : Live(d, state, own) /\ d # e => Precedes(e, d)
           /\ waiters' = {d \in waiters : Precedes(e, d)}
           /\ IF e.task = t
              THEN /\ pc' = [state EXCEPT ![t] = "holding"]
                   /\ ticket' = [own EXCEPT ![t] = 0]
              ELSE /\ pc' = [state EXCEPT ![e.task] = "granted"]
                   /\ ticket' = own
    BY <1>5, <1>7 DEF Grant
  <2>2. e.task # t
    BY <2>1, <1>3, <1>4
  <2>3. pc' = [state EXCEPT ![e.task] = "granted"] /\ ticket' = own
    BY <2>1, <2>2
  <2>. QED
    BY <2>1, <2>2, <2>3, <1>1, <1>3 DEF state, own
<1>. QED
  BY <1>6, <1>7
LEMMA NextInOrder ==
    ASSUME IInv, [Next]_vars, NEW u \in Tasks,
           pc[u] = "waiting", pc'[u] = "granted"
    PROVE  \A e, d \in waiters :
              GrantedEntry(u, e) /\ Live(d, pc, ticket) /\ d # e
                  => e.pri <= d.pri /\ (e.pri = d.pri => e.seq < d.seq)
<1> USE PrioritiesAssumption
<1>1. ~UNCHANGED vars
  BY DEF vars
<1>2. ASSUME NEW t \in Tasks, NEW p \in Priorities, Acquire(t, p)
      PROVE  FALSE
  <2>1. busy
    BY DEF IInv, NoIdleWaiter
  <2>2. pc' = [pc EXCEPT ![t] = "waiting"]
    BY <1>2, <2>1 DEF Acquire
  <2>. QED
    BY <2>2 DEF IInv, TypeOK
<1>3. ASSUME NEW t \in Tasks, Cancel(t) \/ Wake(t) \/ WakeCancelled(t)
      PROVE  FALSE
  BY <1>3 DEF Cancel, Wake, WakeCancelled, LeaveIdle, IInv, TypeOK
<1>4. ASSUME NEW t \in Tasks, WakeRevoked(t) \/ Release(t)
      PROVE  \A e, d \in waiters :
                GrantedEntry(u, e) /\ Live(d, pc, ticket) /\ d # e
                    => e.pri <= d.pri /\ (e.pri = d.pri => e.seq < d.seq)
  <2>1. t \in Owners /\ ReleaseBy(t)
    BY <1>4 DEF WakeRevoked, Release, Owners
  <2>2. PICK g \in waiters :
           /\ g.task \in Tasks \ {t}
           /\ Live(g, pc, ticket)
           /\ \A d \in waiters : Live(d, pc, ticket) /\ d # g => Precedes(g, d)
           /\ pc' = [[pc EXCEPT ![t] = "idle"] EXCEPT ![g.task] = "granted"]
    BY <2>1, ReleaseGrants
  <2>3. g.task = u
    BY <2>2 DEF IInv, TypeOK
  <2>4. GrantedEntry(u, g)
    BY <2>2, <2>3 DEF Live, GrantedEntry
  <2>5. \A e \in waiters : GrantedEntry(u, e) => e = g
    BY <2>4, GrantedEntryUnique
  <2>6. \A e \in waiters : e.pri \in Nat /\ e.seq \in Nat
    <3>1. \A e \in waiters : e.pri \in Priorities /\ e.seq \in 1..MaxSeq
      BY DEF IInv, TypeOK, Entry
    <3>2. 1..MaxSeq \subseteq Nat
      BY MaxSeqAssumption
    <3>3. \A e \in waiters : e.pri \in Nat
      BY <3>1
    <3>4. \A e \in waiters : e.seq \in Nat
      BY <3>1, <3>2
    <3>. QED
      BY <3>3, <3>4
  <2>. QED
    BY <2>2, <2>5, <2>6 DEF Precedes
<1>. QED
  BY <1>1, <1>2, <1>3, <1>4 DEF Next

(* A grant goes to the most urgent of the tasks that still wait, and among *)
(* equals to the one that asked first.                                     *)
THEOREM LockInOrder == Spec => InOrder
<1>1. IInv /\ [Next]_vars =>
        [\A t \in Tasks : pc[t] = "waiting" /\ pc'[t] = "granted" =>
           \A e, d \in waiters :
              GrantedEntry(t, e) /\ Live(d, pc, ticket) /\ d # e
                  => e.pri <= d.pri /\ (e.pri = d.pri => e.seq < d.seq)]_vars
  BY NextInOrder
<1>. QED
  BY <1>1, LockInvariant, PTL DEF Spec, InOrder

-----------------------------------------------------------------------------
(* The heap of futures implements the plain lock.  An acquire is Take or   *)
(* Wait, a cancelled wait GiveUp, the release of an owner Leave; waking a  *)
(* task, or cancelling one that has been granted, changes nothing here.    *)

LEMMA OwnerKnown ==
    ASSUME IInv, NEW t \in Tasks, t \in Owners
    PROVE  OwnerTask = t
BY DEF IInv, MutualExclusion, OwnerTask, Owners

LEMMA OwnerKnownNext ==
    ASSUME IInv', NEW t \in Tasks, t \in Owners'
    PROVE  OwnerTask' = t
BY DEF IInv, MutualExclusion, OwnerTask, Owners

LEMMA AskedKnown ==
    ASSUME IInv, NEW t \in Tasks, pc[t] = "waiting",
           NEW e \in waiters, e.task = t, e.seq = ticket[t]
    PROVE  Asked[t] = e.pri
<1>1. \A d \in waiters : d.task = t /\ d.seq = ticket[t] => d = e
  BY DEF IInv, DistinctArrivals
<1>2. (CHOOSE d \in waiters : d.task = t /\ d.seq = ticket[t]) = e
  BY <1>1
<1>. QED
  BY <1>2 DEF Asked

LEMMA AskedKnownNext ==
    ASSUME IInv', NEW t \in Tasks, pc'[t] = "waiting",
           NEW e \in waiters', e.task = t, e.seq = ticket'[t]
    PROVE  Asked'[t] = e.pri
<1>1. \A d \in waiters' : d.task = t /\ d.seq = ticket'[t] => d = e
  BY DEF IInv, DistinctArrivals
<1>2. (CHOOSE d \in waiters' : d.task = t /\ d.seq = ticket'[t]) = e
  BY <1>1
<1>. QED
  BY <1>2 DEF Asked

(* A task that goes on waiting keeps the priority it asked for.            *)
LEMMA AskedStays ==
    ASSUME IInv, IInv', NEW t \in Tasks, pc[t] = "waiting", pc'[t] = "waiting",
           ticket'[t] = ticket[t],
           \A e \in waiters : Live(e, pc, ticket) /\ e.task = t => e \in waiters'
    PROVE  Asked'[t] = Asked[t]
<1>1. PICK e \in waiters : e.task = t /\ e.seq = ticket[t]
  BY DEF IInv, Queued
<1>2. e \in waiters'
  BY <1>1 DEF Live
<1>. QED
  BY <1>1, <1>2, AskedKnown, AskedKnownNext

LEMMA InitAbstract == Init => Abstract!AInit
<1>1. ASSUME Init
      PROVE  Owners = {} /\ {u \in Tasks : pc[u] = "waiting"} = {}
  BY <1>1 DEF Init, Owners
<1>. QED
  BY <1>1 DEF Abstract!AInit, OwnerTask, Asked

LEMMA AcquireAbstract ==
    ASSUME IInv, IInv', NEW t \in Tasks, NEW p \in Priorities, Acquire(t, p)
    PROVE  Abstract!Take(t) \/ Abstract!Wait(t, p)
<1> USE PrioritiesAssumption, MaxSeqAssumption
<1>1. PICK s \in 1..MaxSeq :
         /\ NextSequence(s)
         /\ \/ /\ busy
               /\ waiters' = waiters \cup {[task |-> t, pri |-> p, seq |-> s]}
               /\ pc' = [pc EXCEPT ![t] = "waiting"]
               /\ ticket' = [ticket EXCEPT ![t] = s]
            \/ /\ ~busy
               /\ Grant(t, waiters \cup {[task |-> t, pri |-> p, seq |-> s]},
                        [pc EXCEPT ![t] = "waiting"], [ticket EXCEPT ![t] = s])
  BY DEF Acquire
<1> DEFINE new == [task |-> t, pri |-> p, seq |-> s]
           queue == waiters \cup {new}
           state == [pc EXCEPT ![t] = "waiting"]
           own == [ticket EXCEPT ![t] = s]
<1>2. new.task = t /\ new.seq = s /\ new.pri = p
  OBVIOUS
<1>3. pc[t] = "idle" /\ pc \in [Tasks -> States] /\ ticket \in [Tasks -> 0..MaxSeq]
  BY DEF Acquire, IInv, TypeOK
<1> HIDE DEF new
<1>4. CASE busy
  <2>1. /\ waiters' = queue /\ pc' = state /\ ticket' = own
    BY <1>1, <1>4 DEF new
  <2>2. PICK u \in Tasks : u \in Owners
    BY <1>4 DEF IInv, NeverLost, Owners
  <2>3. u # t
    BY <2>2, <1>3 DEF Owners
  <2>4. u \in Owners'
    BY <2>1, <2>2, <2>3, <1>3 DEF Owners
  <2>5. OwnerTask = u /\ OwnerTask' = u
    BY <2>2, <2>4, OwnerKnown, OwnerKnownNext
  <2>6. OwnerTask \notin {NoTask, t}
    BY <2>3, <2>5, NoTaskAssumption
  <2>7. {v \in Tasks : pc'[v] = "waiting"} = {v \in Tasks : pc[v] = "waiting"} \cup {t}
    BY <2>1, <1>3
  <2>8. Asked'[t] = p
    <3>1. new \in waiters' /\ pc'[t] = "waiting" /\ ticket'[t] = s
      BY <2>1, <1>3
    <3>. QED
      BY <3>1, <1>2, AskedKnownNext
  <2>9. ASSUME NEW v \in Tasks, pc[v] = "waiting"
        PROVE  Asked'[v] = Asked[v]
    <3>1. v # t /\ pc'[v] = "waiting" /\ ticket'[v] = ticket[v]
      BY <2>9, <2>1, <1>3
    <3>. QED
      BY <2>9, <2>1, <3>1, AskedStays
  <2> DEFINE W == {v \in Tasks : pc[v] = "waiting"}
  <2>10. DOMAIN Asked = W /\ t \notin W
    BY <1>3 DEF Asked
  <2>11. DOMAIN Asked' = W \cup {t}
    BY <2>7 DEF Asked
  <2>12. Asked' = [v \in W \cup {t} |-> IF v = t THEN p ELSE Asked[v]]
    <3>1. Asked' = [v \in W \cup {t} |-> Asked'[v]]
      BY <2>11 DEF Asked
    <3>2. \A v \in W \cup {t} : Asked'[v] = IF v = t THEN p ELSE Asked[v]
      BY <2>8, <2>9
    <3>. QED
      BY <3>1, <3>2
  <2>. QED
    BY <2>5, <2>6, <2>10, <2>12 DEF Abstract!Wait, Abstract!Waiters
<1>5. CASE ~busy
  <2>1. Grant(t, queue, state, own)
    BY <1>1, <1>5 DEF new
  <2>2. \A u \in Tasks : pc[u] # "waiting"
    BY <1>5 DEF IInv, NoIdleWaiter
  <2>3. \A e \in waiters : e.task \in Tasks /\ e.seq # s
    <3>1. \A e \in waiters : e.task \in Tasks /\ e.seq \in 1..MaxSeq /\ e.seq < s
      BY <1>1 DEF NextSequence, IInv, TypeOK, Entry
    <3>. QED
      BY <3>1
  <2>4. \A e \in queue : Live(e, state, own) => e = new
    BY <2>2, <2>3, <1>3 DEF Live
  <2>5. Live(new, state, own)
    BY <1>2, <1>3 DEF Live
  <2>6. pc' = [state EXCEPT ![t] = "holding"]
    BY <2>1, <2>4, <2>5, <1>2 DEF Grant
  <2>7. \A u \in Tasks : pc'[u] # "waiting"
    BY <2>2, <2>6, <1>3
  <2>8. t \in Owners'
    BY <2>6, <1>3 DEF Owners
  <2>9. OwnerTask = NoTask
    BY <1>5 DEF IInv, NeverLost, OwnerTask
  <2>10. OwnerTask' = t
    BY <2>8, OwnerKnownNext
  <2>11. Asked' = Asked
    <3>1. {u \in Tasks : pc[u] = "waiting"} = {}
      BY <2>2
    <3>2. {u \in Tasks : pc'[u] = "waiting"} = {}
      BY <2>7
    <3>. QED
      BY <3>1, <3>2 DEF Asked
  <2>. QED
    BY <2>9, <2>10, <2>11 DEF Abstract!Take
<1>. QED
  BY <1>4, <1>5

(* Taking one task out of the waiting ones.                                *)
LEMMA AskedWithout ==
    ASSUME IInv, IInv', NEW t \in Tasks, pc[t] = "waiting",
           {u \in Tasks : pc'[u] = "waiting"} = {u \in Tasks : pc[u] = "waiting"} \ {t},
           \A u \in Tasks : pc'[u] = "waiting" => Asked'[u] = Asked[u]
    PROVE  Asked' = Abstract!Without(t)
<1> DEFINE W == {u \in Tasks : pc[u] = "waiting"}
<1>1. DOMAIN Asked = W
  BY DEF Asked
<1>2. Asked' = [u \in W \ {t} |-> Asked'[u]]
  BY DEF Asked
<1>3. \A u \in W \ {t} : Asked'[u] = Asked[u]
  OBVIOUS
<1>4. Asked' = [u \in W \ {t} |-> Asked[u]]
  BY <1>2, <1>3
<1>. QED
  BY <1>1, <1>4 DEF Abstract!Without, Abstract!Waiters

LEMMA CancelAbstract ==
    ASSUME IInv, IInv', NEW t \in Tasks, Cancel(t)
    PROVE  Abstract!GiveUp(t) \/ UNCHANGED <<OwnerTask, Asked>>
<1>1. pc \in [Tasks -> States] /\ UNCHANGED <<busy, waiters, ticket>>
  BY DEF Cancel, IInv, TypeOK
<1>2. CASE pc[t] = "waiting" /\ pc' = [pc EXCEPT ![t] = "cancelled"]
  <2>1. Owners' = Owners
    BY <1>1, <1>2 DEF Owners
  <2>2. OwnerTask' = OwnerTask
    BY <2>1 DEF OwnerTask
  <2>3. {u \in Tasks : pc'[u] = "waiting"} = {u \in Tasks : pc[u] = "waiting"} \ {t}
    BY <1>1, <1>2
  <2>4. \A u \in Tasks : pc'[u] = "waiting" => Asked'[u] = Asked[u]
    BY <1>1, <1>2, AskedStays
  <2>5. Asked' = Abstract!Without(t)
    BY <1>2, <2>3, <2>4, AskedWithout
  <2>6. t \in Abstract!Waiters
    BY <1>2 DEF Abstract!Waiters, Asked
  <2>. QED
    BY <2>2, <2>5, <2>6 DEF Abstract!GiveUp
<1>3. CASE pc[t] = "granted" /\ pc' = [pc EXCEPT ![t] = "revoked"]
  <2>1. Owners' = Owners /\ \A u \in Tasks : pc'[u] = "waiting" <=> pc[u] = "waiting"
    BY <1>1, <1>3 DEF Owners
  <2>. QED
    BY <1>1, <2>1 DEF OwnerTask, Asked
<1>. QED
  BY <1>2, <1>3 DEF Cancel

LEMMA WakeAbstract ==
    ASSUME IInv, IInv', NEW t \in Tasks, Wake(t) \/ WakeCancelled(t)
    PROVE  UNCHANGED <<OwnerTask, Asked>>
<1>1. /\ pc \in [Tasks -> States] /\ UNCHANGED waiters
      /\ ticket \in [Tasks -> 0..MaxSeq]
      /\ ticket' = [ticket EXCEPT ![t] = 0]
      /\ pc[t] # "waiting"
  BY DEF Wake, WakeCancelled, LeaveIdle, IInv, TypeOK
<1>2. Owners' = Owners /\ \A u \in Tasks : pc'[u] = "waiting" <=> pc[u] = "waiting"
  BY <1>1 DEF Wake, WakeCancelled, LeaveIdle, Owners
<1>3. OwnerTask' = OwnerTask
  BY <1>2 DEF OwnerTask
<1>4. \A u \in Tasks : pc[u] = "waiting" => Asked'[u] = Asked[u]
  BY <1>1, <1>2, AskedStays
<1> DEFINE W == {u \in Tasks : pc[u] = "waiting"}
<1>5. Asked = [u \in W |-> Asked[u]] /\ Asked' = [u \in W |-> Asked'[u]]
  <2>1. {u \in Tasks : pc'[u] = "waiting"} = W
    BY <1>2
  <2>. QED
    BY <2>1 DEF Asked
<1>. QED
  BY <1>3, <1>4, <1>5

LEMMA ReleaseAbstract ==
    ASSUME IInv, IInv', NEW t \in Tasks, t \in Owners, ReleaseBy(t)
    PROVE  Abstract!Leave
<1>1. OwnerTask = t /\ OwnerTask # NoTask
  BY OwnerKnown, NoTaskAssumption
<1>2. pc \in [Tasks -> States] /\ ticket \in [Tasks -> 0..MaxSeq]
  BY DEF IInv, TypeOK
<1>3. CASE /\ \A u \in Tasks : pc[u] # "waiting"
           /\ pc' = [pc EXCEPT ![t] = "idle"]
  <2>1. {u \in Tasks : pc[u] = "waiting"} = {} /\ {u \in Tasks : pc'[u] = "waiting"} = {}
    BY <1>2, <1>3
  <2>2. Asked' = Asked /\ DOMAIN Asked = {}
    BY <2>1 DEF Asked
  <2>3. Owners' = {}
    BY <1>2, <1>3 DEF Owners, IInv, MutualExclusion
  <2>4. OwnerTask' = NoTask
    BY <2>3 DEF OwnerTask
  <2>. QED
    BY <1>1, <2>2, <2>4 DEF Abstract!Leave, Abstract!Waiters
<1>4. ASSUME NEW e \in waiters,
             e.task \in Tasks \ {t}, Live(e, pc, ticket),
             \A d \in waiters : Live(d, pc, ticket) /\ d # e => Precedes(e, d),
             pc' = [[pc EXCEPT ![t] = "idle"] EXCEPT ![e.task] = "granted"],
             ticket' = [ticket EXCEPT ![t] = 0],
             waiters' = {d \in waiters : Precedes(e, d)}
      PROVE  Abstract!Leave
  <2> DEFINE u == e.task
  <2>1. u \in Tasks /\ pc[u] = "waiting" /\ e.seq = ticket[u]
    BY <1>4 DEF Live
  <2>2. u \in Owners'
    BY <1>2, <1>4, <2>1 DEF Owners
  <2>3. OwnerTask' = u
    BY <2>1, <2>2, OwnerKnownNext
  <2>4. pc[t] # "waiting"
    BY DEF Owners
  <2>5. {v \in Tasks : pc'[v] = "waiting"} = {v \in Tasks : pc[v] = "waiting"} \ {u}
    BY <1>2, <1>4, <2>1, <2>4
  <2>6. ASSUME NEW v \in Tasks, pc'[v] = "waiting"
        PROVE  Asked'[v] = Asked[v]
    <3>1. v # u /\ v # t /\ pc[v] = "waiting" /\ ticket'[v] = ticket[v]
      BY <2>6, <2>5, <2>4, <1>2, <1>4
    <3>2. \A d \in waiters : Live(d, pc, ticket) /\ d.task = v => d \in waiters'
      BY <3>1, <1>4
    <3>. QED
      BY <2>6, <3>1, <3>2, AskedStays
  <2>7. Asked' = Abstract!Without(u)
    BY <2>1, <2>5, <2>6, AskedWithout
  <2>8. Asked[u] = e.pri
    BY <2>1, AskedKnown
  <2>9. \A v \in {w \in Tasks : pc[w] = "waiting"} : ~(Asked[v] < Asked[u])
    <3>. SUFFICES ASSUME NEW v \in Tasks, pc[v] = "waiting"
                  PROVE  ~(Asked[v] < Asked[u])
      OBVIOUS
    <3>1. PICK d \in waiters : d.task = v /\ d.seq = ticket[v]
      BY DEF IInv, Queued
    <3>2. Asked[v] = d.pri
      BY <3>1, AskedKnown
    <3>3. d = e \/ Precedes(e, d)
      BY <3>1, <1>4 DEF Live
    <3>4. d.pri \in Nat /\ e.pri \in Nat
      BY PrioritiesAssumption DEF IInv, TypeOK, Entry
    <3>. QED
      BY <2>8, <3>2, <3>3, <3>4 DEF Precedes
  <2>10. DOMAIN Asked = {w \in Tasks : pc[w] = "waiting"}
    BY DEF Asked
  <2> HIDE DEF u
  <2>. QED
    BY <1>1, <2>1, <2>3, <2>7, <2>9, <2>10 DEF Abstract!Leave, Abstract!Waiters
<1>. QED
  BY <1>3, <1>4, ReleaseGrants

LEMMA NextAbstract ==
    ASSUME IInv, IInv', [Next]_vars
    PROVE  [Abstract!ANext]_(Abstract!avars)
<1>1. ASSUME NEW t \in Tasks, NEW p \in Priorities, Acquire(t, p)
      PROVE  Abstract!ANext
  BY <1>1, AcquireAbstract DEF Abstract!ANext
<1>2. ASSUME NEW t \in Tasks, Cancel(t)
      PROVE  [Abstract!ANext]_(Abstract!avars)
  BY <1>2, CancelAbstract DEF Abstract!ANext, Abstract!avars
<1>3. ASSUME NEW t \in Tasks, Wake(t) \/ WakeCancelled(t)
      PROVE  UNCHANGED Abstract!avars
  BY <1>3, WakeAbstract DEF Abstract!avars
<1>4. ASSUME NEW t \in Tasks, WakeRevoked(t) \/ Release(t)
      PROVE  Abstract!ANext
  BY <1>4, ReleaseAbstract DEF Abstract!ANext, WakeRevoked, Release, Owners
<1>5. CASE UNCHANGED vars
  BY <1>5 DEF vars, Abstract!avars, OwnerTask, Asked, Owners
<1>. QED
  BY <1>1, <1>2, <1>3, <1>4, <1>5 DEF Next

(* Every behaviour of the futures on the heap is one of the plain lock:    *)
(* its users may forget cancelled entries and the gap before a wake-up.    *)
THEOREM LockImplementsAbstract == Spec => ImplementsAbstract
<1>1. IInv /\ IInv' /\ [Next]_vars => [Abstract!ANext]_(Abstract!avars)
  BY NextAbstract
<1>. QED
  BY <1>1, InitAbstract, LockInvariant, PTL DEF Spec, ImplementsAbstract, Abstract!ASpec
=============================================================================
