--------------------------- MODULE CopyQueue_proof ---------------------------
(***************************************************************************)
(* For every finite set of trades, every window of the activity, every     *)
(* limit of the queue and every environment: the checkpoint never passes a *)
(* trade that a checkpointed poll has offered and no worker has committed, *)
(* an event that waits has one worker, a new sell is not overtaken and     *)
(* sells have room.                                                        *)
(***************************************************************************)
EXTENDS CopyQueue, Sums_proof, SequenceTheorems

(* Offered by a poll that committed its checkpoint, committed by no worker, *)
(* wiped by no reset, and still listed.                                    *)
Outstanding == secured \ receipts
Listed == {e \in Outstanding : ~Crowded(e, visible)}

(* The checkpoint alone is not inductive: it is computed from what the     *)
(* running poll fetched, from the receipts it read and from a floor in     *)
(* memory, each older than the commit that uses it.  What is listed must   *)
(* be in the answer, above the floor, and unknown to the poll; once the    *)
(* poll has scheduled, its answer is what it offered, and what it is going *)
(* to commit lies behind none of it.                                       *)
PollSound ==
    /\ poll.step # "idle" => Listed \subseteq poll.seen
    /\ Outstanding \cap poll.known = {}
    /\ poll.step \in {"read", "scheduled"} => initialized
    /\ poll.step = "scheduled" => \A e \in poll.seen : poll.mark <= Source[e].ts

FloorSound ==
    /\ \A e \in Listed : floor <= Source[e].ts
    /\ poll.step \in {"read", "scheduled"} => \A e \in poll.seen : floor <= Source[e].ts
    /\ ~initialized => secured = {}

Subsets ==
    /\ visible \subseteq Events /\ secured \subseteq visible
    /\ poll = Poll(poll.step, poll.seen, poll.known, poll.mark)
    /\ poll.step \in {"idle", "fetched", "read", "scheduled"}
    /\ poll.seen \subseteq visible /\ poll.known \subseteq visible

QueueInv == Subsets /\ PollSound /\ FloorSound /\ CheckpointCovers

-----------------------------------------------------------------------------
(* Newer trades only ever crowd a trade out of the answers.                *)
LEMMA CrowdedGrows ==
    ASSUME NEW small, NEW large, small \subseteq large, large \subseteq Events,
           NEW e, Crowded(e, small)
    PROVE  Crowded(e, large)
<1>. DEFINE newer(s) == {f \in s \ {e} : Source[f].ts >= Source[e].ts}
<1>1. newer(small) \in SUBSET newer(large)
  OBVIOUS
<1>2. IsFiniteSet(newer(large))
  BY EventsAssumption, FS_Subset
<1>3. /\ Cardinality(newer(small)) <= Cardinality(newer(large))
      /\ Cardinality(newer(small)) \in Nat /\ Cardinality(newer(large)) \in Nat
  BY <1>1, <1>2, FS_Subset, FS_CardinalityType
<1>4. Cardinality(newer(small)) >= Window
  BY DEF Crowded
<1>. QED
  BY <1>3, <1>4, LimitsAssumption DEF Crowded

LEMMA BeforeIsLeast ==
    ASSUME NEW times \in SUBSET Nat, times # {}
    PROVE  Before(times) \in times /\ \A u \in times : Before(times) <= u
BY LeastNumber DEF Before

(* A step that moves neither checkpoint, floor nor poll, takes nothing     *)
(* from what is visible and makes no trade outstanding.                    *)
Quiet ==
    /\ UNCHANGED <<lastTs, initialized, poll>>
    /\ floor' \in {0, floor}
    /\ visible \subseteq visible' /\ visible' \subseteq Events
    /\ secured' \subseteq secured
    /\ Outstanding' \subseteq Outstanding

LEMMA QuietKeeps == QueueInv /\ Quiet => QueueInv'
<1>. SUFFICES ASSUME QueueInv, Quiet PROVE QueueInv'
  OBVIOUS
<1>1. Listed' \subseteq Listed
  BY CrowdedGrows DEF Quiet, Listed
<1>2. Subsets'
  BY DEF QueueInv, Quiet, Subsets
<1>3. PollSound'
  BY <1>1 DEF QueueInv, Quiet, PollSound
<1>4. \A e \in Events : 0 <= Source[e].ts
  BY SourceAssumption
<1>5. FloorSound'
  BY <1>1, <1>2, <1>4 DEF QueueInv, Quiet, FloorSound, Subsets, Listed, Outstanding
<1>6. CheckpointCovers'
  BY <1>1 DEF QueueInv, Quiet, CheckpointCovers, Listed, Outstanding
<1>. QED
  BY <1>2, <1>3, <1>5, <1>6 DEF QueueInv

-----------------------------------------------------------------------------
LEMMA InitQueue == Init => QueueInv
  BY DEF Init, Idle, Poll, QueueInv, Subsets, PollSound, FloorSound, CheckpointCovers,
         Listed, Outstanding

LEMMA FetchKeeps == QueueInv /\ PollFetch => QueueInv'
<1>. SUFFICES ASSUME QueueInv, PollFetch PROVE QueueInv'
  OBVIOUS
<1>1. PICK answer \in Answers(visible) :
          poll' = Poll("fetched", answer, {}, 0)
  BY DEF PollFetch
<1>2. /\ UNCHANGED <<visible, receipts, initialized, lastTs, floor, secured>>
      /\ Listed' = Listed /\ Outstanding' = Outstanding
  BY DEF PollFetch, database, queues, Listed, Outstanding, Crowded
<1>3. Listed \subseteq answer /\ answer \subseteq visible
  BY DEF Answers, QueueInv, Subsets, Listed, Outstanding
<1>4. Subsets'
  BY <1>1, <1>2, <1>3 DEF QueueInv, Subsets, Poll
<1>5. PollSound' /\ FloorSound'
  BY <1>1, <1>2, <1>3 DEF QueueInv, PollSound, FloorSound, Poll
<1>6. CheckpointCovers'
  BY <1>2 DEF QueueInv, CheckpointCovers, Crowded
<1>. QED
  BY <1>4, <1>5, <1>6 DEF QueueInv

LEMMA InitializeKeeps == QueueInv /\ PollInitialize => QueueInv'
<1>. SUFFICES ASSUME QueueInv, PollInitialize PROVE QueueInv'
  OBVIOUS
<1>1. secured = {} /\ secured' = {} /\ visible' = visible /\ poll' = Idle
  BY DEF PollInitialize, QueueInv, FloorSound
<1>2. Listed' = {} /\ Outstanding' = {}
  BY <1>1 DEF Listed, Outstanding
<1>. QED
  BY <1>1, <1>2 DEF QueueInv, Subsets, PollSound, FloorSound, CheckpointCovers,
                    Idle, Poll, Outstanding

LEMMA ReadKeeps == QueueInv /\ PollRead => QueueInv'
<1>. SUFFICES ASSUME QueueInv, PollRead PROVE QueueInv'
  OBVIOUS
<1>. DEFINE new == {e \in poll.seen : Source[e].ts >= SessionFloor}
<1>1. /\ UNCHANGED <<visible, receipts, initialized, lastTs, secured>>
      /\ Listed' = Listed /\ Outstanding' = Outstanding
  BY DEF PollRead, database, queues, Listed, Outstanding, Crowded
<1>2. CheckpointCovers'
  BY <1>1 DEF QueueInv, CheckpointCovers, Crowded
<1>3. \A e \in Listed : e \in Events /\ SessionFloor <= Source[e].ts
  BY DEF QueueInv, Subsets, CheckpointCovers, FloorSound, SessionFloor, Listed, Outstanding
<1>4. \/ poll' = Idle /\ UNCHANGED floor
      \/ /\ floor' = SessionFloor
         /\ poll' \in {Idle, Poll("read", new, new \cap receipts, 0)}
         /\ poll' # Idle => initialized
  BY DEF PollRead
<1>5. Listed \subseteq poll.seen
  BY DEF PollRead, QueueInv, PollSound
<1>6. Listed \subseteq new
  BY <1>3, <1>5
<1>7. Subsets'
  BY <1>1, <1>4 DEF QueueInv, Subsets, Idle, Poll
<1>8. PollSound'
  BY <1>1, <1>4, <1>6 DEF PollSound, Idle, Poll, Outstanding
<1>9. FloorSound'
  BY <1>1, <1>3, <1>4 DEF QueueInv, FloorSound, Idle, Poll
<1>. QED
  BY <1>2, <1>7, <1>8, <1>9 DEF QueueInv

LEMMA ScheduleKeeps == QueueInv /\ PollSchedule => QueueInv'
<1>. SUFFICES ASSUME QueueInv, PollSchedule PROVE QueueInv'
  OBVIOUS
<1>. DEFINE offered == poll.seen \ poll.known
            mark == Checkpoint(offered, poll.seen)
<1>1. /\ UNCHANGED <<visible, receipts, initialized, lastTs, floor, secured>>
      /\ poll.step = "read" /\ poll' = Poll("scheduled", offered, {}, mark)
      /\ Listed' = Listed /\ Outstanding' = Outstanding
  BY DEF PollSchedule, database, Listed, Outstanding, Crowded
<1>2. Listed \subseteq offered
  BY <1>1 DEF QueueInv, PollSound, Listed
<1>3. offered \subseteq Events /\ \A e \in offered : floor <= Source[e].ts
  BY <1>1 DEF QueueInv, Subsets, FloorSound
<1>4. \A e \in offered : mark <= Source[e].ts
  <2>. SUFFICES ASSUME NEW e \in offered PROVE mark <= Source[e].ts
    OBVIOUS
  <2>. DEFINE times == {Source[d].ts : d \in offered}
  <2>1. times \in SUBSET Nat /\ Source[e].ts \in times
    BY <1>3, SourceAssumption
  <2>2. Before(times) <= Source[e].ts
    BY <2>1, BeforeIsLeast
  <2>. QED
    BY <2>2 DEF Checkpoint
<1>. HIDE DEF mark
<1>5. Subsets'
  BY <1>1 DEF QueueInv, Subsets, Poll
<1>6. PollSound'
  BY <1>1, <1>2, <1>4 DEF QueueInv, PollSound, Poll
<1>7. FloorSound'
  BY <1>1, <1>3 DEF QueueInv, FloorSound, Poll
<1>8. CheckpointCovers'
  BY <1>1 DEF QueueInv, CheckpointCovers, Crowded
<1>. QED
  BY <1>5, <1>6, <1>7, <1>8 DEF QueueInv

LEMMA CommitKeeps == QueueInv /\ PollCommit => QueueInv'
<1>. SUFFICES ASSUME QueueInv, PollCommit PROVE QueueInv'
  OBVIOUS
<1>1. /\ UNCHANGED <<visible, receipts, initialized, floor>>
      /\ poll.step = "scheduled" /\ poll' = Idle /\ secured' = secured \cup poll.seen
      /\ lastTs' = poll.mark
  BY DEF PollCommit
<1>2. Listed' \subseteq poll.seen
  BY <1>1 DEF QueueInv, PollSound, Listed, Outstanding, Crowded
<1>3. poll.seen \subseteq visible
  BY DEF QueueInv, Subsets
<1>4. Subsets'
  BY <1>1, <1>3 DEF QueueInv, Subsets, Idle, Poll
<1>5. PollSound' /\ FloorSound'
  BY <1>1, <1>2 DEF QueueInv, PollSound, FloorSound, Idle, Poll, Outstanding
<1>6. CheckpointCovers'
  BY <1>1, <1>2 DEF QueueInv, PollSound, CheckpointCovers, Listed, Outstanding
<1>. QED
  BY <1>4, <1>5, <1>6 DEF QueueInv

(* A failure and the end of the loops forget the poll, a restart the floor *)
(* too; none touches what is stored.                                       *)
LEMMA EndKeeps == QueueInv /\ (PollFail \/ Abandon \/ Restart) => QueueInv'
<1>. SUFFICES ASSUME QueueInv, PollFail \/ Abandon \/ Restart PROVE QueueInv'
  OBVIOUS
<1>1. /\ UNCHANGED <<visible, receipts, initialized, lastTs, secured>>
      /\ floor' \in {0, floor} /\ poll' = Idle
      /\ Listed' = Listed /\ Outstanding' = Outstanding
  BY DEF PollFail, Abandon, Restart, database, Listed, Outstanding, Crowded
<1>2. Listed \subseteq Events /\ \A e \in Events : 0 <= Source[e].ts
  BY SourceAssumption DEF Listed, Outstanding, QueueInv, Subsets
<1>3. CheckpointCovers'
  BY <1>1 DEF QueueInv, CheckpointCovers, Crowded
<1>. QED
  BY <1>1, <1>2, <1>3 DEF QueueInv, Subsets, PollSound, FloorSound, Idle, Poll, Outstanding

(* Every other step is quiet: workers commit, a reset wipes receipts and   *)
(* with them what was outstanding no longer, the index only grows.         *)
LEMMA StepQuiet ==
    ASSUME QueueInv, [Next]_vars,
           ~(PollFetch \/ PollInitialize \/ PollRead \/ PollSchedule \/ PollCommit),
           ~(PollFail \/ Abandon \/ Restart)
    PROVE  Quiet
<1>1. ASSUME NEW e \in Events, Hear(e) \/ Index(e) PROVE Quiet
  BY <1>1 DEF Hear, Index, Quiet, database, queues, Outstanding, QueueInv, Subsets
<1>2. ASSUME \/ ScheduleHeard \/ LoseHeard \/ TogglePause \/ ToggleLeader
             \/ UNCHANGED vars
      PROVE  Quiet
  BY <1>2 DEF ScheduleHeard, LoseHeard, TogglePause, ToggleLeader, vars, Quiet, database, queues,
              Outstanding, QueueInv, Subsets
<1>3. ASSUME NEW t \in Tokens, CloseBatch(t) \/ Run(t) PROVE Quiet
  <2>1. UNCHANGED <<visible, initialized, lastTs, floor, poll, secured>>
    BY <1>3 DEF CloseBatch, Run, database, queues
  <2>2. receipts \subseteq receipts'
    BY <1>3 DEF CloseBatch, Run, Committed, database
  <2>. QED
    BY <2>1, <2>2 DEF Quiet, Outstanding, QueueInv, Subsets
<1>4. ASSUME Reset PROVE Quiet
  BY <1>4 DEF Reset, Quiet, Outstanding, QueueInv, Subsets
<1>. QED
  BY <1>1, <1>2, <1>3, <1>4 DEF Next

LEMMA StepQueue == QueueInv /\ [Next]_vars => QueueInv'
  BY StepQuiet, QuietKeeps, FetchKeeps, InitializeKeeps, ReadKeeps, ScheduleKeeps, CommitKeeps,
     EndKeeps

-----------------------------------------------------------------------------
(* The invariant of the poll and its checkpoint holds whatever the stream, *)
(* the workers, the administrator, resets and restarts do in between.      *)
THEOREM QueueInvariant == Spec => []QueueInv
  BY InitQueue, StepQueue, PTL DEF Spec

(* What _poll_leader has offered and checkpointed no later checkpoint      *)
(* loses while it is listed, with failures and restarts between the two.   *)
THEOREM CheckpointCoversHolds == Spec => []CheckpointCovers
<1>1. QueueInv => CheckpointCovers
  BY DEF QueueInv
<1>. QED
  BY <1>1, QueueInvariant, PTL

-----------------------------------------------------------------------------
(* The two recursive functions of the queue satisfy their equations: below *)
(* the least place where one does not, the equation has one solution.      *)
WithoutStep(s, gone, x, i) == IF s[i] \in gone THEN x ELSE Append(x, s[i])

LEMMA WithoutUnfolds ==
    ASSUME NEW s, Len(s) \in Nat, NEW gone
    PROVE  \E kept :
              /\ kept[0] = <<>>
              /\ \A i \in 1..Len(s) : kept[i] = WithoutStep(s, gone, kept[i - 1], i)
              /\ Without(s, gone) = kept[Len(s)]
<1> DEFINE body(g, n) == [i \in 0..n |-> IF i = 0 THEN <<>>
                             ELSE IF s[i] \in gone THEN g[i - 1] ELSE Append(g[i - 1], s[i])]
           R(n) == (CHOOSE g : g = body(g, n))[n]
           V(n) == IF n = 0 THEN <<>> ELSE WithoutStep(s, gone, R(n - 1), n)
           bad == {n \in Nat : R(n) # V(n)}
<1>1. bad = {}
  <2>. SUFFICES ASSUME bad # {} PROVE FALSE
    OBVIOUS
  <2>1. PICK n \in bad : \A m \in bad : n <= m
    <3>1. bad \in SUBSET Nat
      OBVIOUS
    <3> HIDE DEF bad
    <3>. QED
      BY <3>1, LeastNumber
  <2>2. \A m \in 0..(n - 1) : R(m) = V(m)
    <3> HIDE DEF R, V
    <3>. QED
      BY <2>1
  <2> DEFINE H == [i \in 0..n |-> V(i)]
  <2>3. \A i \in 1..n : H[i] = WithoutStep(s, gone, H[i - 1], i)
    <3> HIDE DEF R
    <3>. QED
      BY <2>2
  <2>4. H[0] = <<>> /\ n \in Nat /\ H[n] = V(n)
    BY <2>1
  <2>5. H = [i \in 0..n |-> H[i]]
    OBVIOUS
  <2> HIDE DEF H, R, V
  <2>6. \A g : g = body(g, n) => g = H
    <3>. SUFFICES ASSUME NEW g, g = body(g, n) PROVE g = H
      OBVIOUS
    <3>1. /\ body(g, n)[0] = <<>>
          /\ \A i \in 1..n : body(g, n)[i] = WithoutStep(s, gone, g[i - 1], i)
          /\ body(g, n) = [i \in 0..n |-> body(g, n)[i]]
      BY <2>4 DEF WithoutStep
    <3> HIDE DEF body
    <3>2. /\ g[0] = <<>> /\ \A i \in 1..n : g[i] = WithoutStep(s, gone, g[i - 1], i)
          /\ g = [i \in 0..n |-> g[i]]
      BY <3>1
    <3> DEFINE off == {i \in 0..n : g[i] # H[i]}
    <3>3. off = {}
      <4>. SUFFICES ASSUME off # {} PROVE FALSE
        OBVIOUS
      <4>1. PICK k \in off : \A m \in off : k <= m
        <5>1. off \in SUBSET Nat
          OBVIOUS
        <5> HIDE DEF off
        <5>. QED
          BY <5>1, LeastNumber
      <4>2. CASE k = 0
        BY <2>4, <3>2, <4>2
      <4>3. CASE k # 0
        <5>1. k \in 1..n /\ k - 1 \in 0..n /\ k - 1 \notin off
          BY <2>4, <4>1, <4>3
        <5>. QED
          BY <2>3, <3>2, <5>1
      <4>. QED
        BY <4>2, <4>3
    <3>. QED
      BY <2>5, <3>2, <3>3
  <2>7. H = body(H, n)
    <3>1. /\ body(H, n)[0] = <<>>
          /\ \A i \in 1..n : body(H, n)[i] = WithoutStep(s, gone, H[i - 1], i)
          /\ body(H, n) = [i \in 0..n |-> body(H, n)[i]]
      BY <2>4 DEF WithoutStep
    <3> HIDE DEF body
    <3>2. \A i \in 0..n : i = 0 \/ i \in 1..n
      BY <2>4
    <3>3. \A i \in 0..n : H[i] = body(H, n)[i]
      BY <2>3, <2>4, <3>1, <3>2
    <3>. QED
      BY <2>5, <3>1, <3>3
  <2> HIDE DEF body
  <2>8. (CHOOSE g : g = body(g, n)) = H
    BY <2>6, <2>7
  <2>9. R(n) = V(n)
    BY <2>4, <2>8 DEF R
  <2>. QED
    BY <2>1, <2>9
<1>2. Without(s, gone) = R(Len(s))
  BY DEF Without
<1> HIDE DEF R
<1> DEFINE kept == [i \in 0..Len(s) |-> R(i)]
<1>3. kept[0] = <<>> /\ Without(s, gone) = kept[Len(s)]
  BY <1>1, <1>2
<1>4. \A i \in 1..Len(s) : kept[i] = WithoutStep(s, gone, kept[i - 1], i)
  <2>1. TAKE i \in 1..Len(s)
  <2>2. i \in Nat /\ i # 0
    OBVIOUS
  <2>3. R(i) = V(i)
    BY <1>1, <2>2
  <2>. QED
    BY <2>2, <2>3
<1>. QED
  BY <1>3, <1>4

LEMMA EnqueueUnfolds ==
    ASSUME NEW q, NEW s, Len(s) \in Nat
    PROVE  \E after :
              /\ after[0] = q
              /\ \A i \in 1..Len(s) : after[i] = Enqueue(after[i - 1], s[i])
              /\ EnqueueAll(q, s) = after[Len(s)]
<1> DEFINE body(g, n) == [i \in 0..n |-> IF i = 0 THEN q ELSE Enqueue(g[i - 1], s[i])]
           R(n) == (CHOOSE g : g = body(g, n))[n]
           V(n) == IF n = 0 THEN q ELSE Enqueue(R(n - 1), s[n])
           bad == {n \in Nat : R(n) # V(n)}
<1>1. bad = {}
  <2>. SUFFICES ASSUME bad # {} PROVE FALSE
    OBVIOUS
  <2>1. PICK n \in bad : \A m \in bad : n <= m
    <3>1. bad \in SUBSET Nat
      OBVIOUS
    <3> HIDE DEF bad
    <3>. QED
      BY <3>1, LeastNumber
  <2>2. \A m \in 0..(n - 1) : R(m) = V(m)
    <3> HIDE DEF R, V
    <3>. QED
      BY <2>1
  <2> DEFINE H == [i \in 0..n |-> V(i)]
  <2>3. \A i \in 1..n : H[i] = Enqueue(H[i - 1], s[i])
    <3> HIDE DEF R
    <3>. QED
      BY <2>2
  <2>4. H[0] = q /\ n \in Nat /\ H[n] = V(n)
    BY <2>1
  <2>5. H = [i \in 0..n |-> H[i]]
    OBVIOUS
  <2> HIDE DEF H, R, V
  <2>6. \A g : g = body(g, n) => g = H
    <3>. SUFFICES ASSUME NEW g, g = body(g, n) PROVE g = H
      OBVIOUS
    <3>1. /\ body(g, n)[0] = q
          /\ \A i \in 1..n : body(g, n)[i] = Enqueue(g[i - 1], s[i])
          /\ body(g, n) = [i \in 0..n |-> body(g, n)[i]]
      BY <2>4
    <3> HIDE DEF body
    <3>2. /\ g[0] = q /\ \A i \in 1..n : g[i] = Enqueue(g[i - 1], s[i])
          /\ g = [i \in 0..n |-> g[i]]
      BY <3>1
    <3> DEFINE off == {i \in 0..n : g[i] # H[i]}
    <3>3. off = {}
      <4>. SUFFICES ASSUME off # {} PROVE FALSE
        OBVIOUS
      <4>1. PICK k \in off : \A m \in off : k <= m
        <5>1. off \in SUBSET Nat
          OBVIOUS
        <5> HIDE DEF off
        <5>. QED
          BY <5>1, LeastNumber
      <4>2. CASE k = 0
        BY <2>4, <3>2, <4>2
      <4>3. CASE k # 0
        <5>1. k \in 1..n /\ k - 1 \in 0..n /\ k - 1 \notin off
          BY <2>4, <4>1, <4>3
        <5>. QED
          BY <2>3, <3>2, <5>1
      <4>. QED
        BY <4>2, <4>3
    <3>. QED
      BY <2>5, <3>2, <3>3
  <2>7. H = body(H, n)
    <3>1. /\ body(H, n)[0] = q
          /\ \A i \in 1..n : body(H, n)[i] = Enqueue(H[i - 1], s[i])
          /\ body(H, n) = [i \in 0..n |-> body(H, n)[i]]
      BY <2>4
    <3> HIDE DEF body
    <3>2. \A i \in 0..n : i = 0 \/ i \in 1..n
      BY <2>4
    <3>3. \A i \in 0..n : H[i] = body(H, n)[i]
      BY <2>3, <2>4, <3>1, <3>2
    <3>. QED
      BY <2>5, <3>1, <3>3
  <2> HIDE DEF body
  <2>8. (CHOOSE g : g = body(g, n)) = H
    BY <2>6, <2>7
  <2>9. R(n) = V(n)
    BY <2>4, <2>8 DEF R
  <2>. QED
    BY <2>1, <2>9
<1>2. EnqueueAll(q, s) = R(Len(s))
  BY DEF EnqueueAll
<1> HIDE DEF R
<1> DEFINE after == [i \in 0..Len(s) |-> R(i)]
<1>3. after[0] = q /\ EnqueueAll(q, s) = after[Len(s)]
  BY <1>1, <1>2
<1>4. \A i \in 1..Len(s) : after[i] = Enqueue(after[i - 1], s[i])
  <2>1. TAKE i \in 1..Len(s)
  <2>2. i \in Nat /\ i # 0
    OBVIOUS
  <2>3. R(i) = V(i)
    BY <1>1, <2>2
  <2>. QED
    BY <2>2, <2>3
<1>. QED
  BY <1>3, <1>4

-----------------------------------------------------------------------------
(* A sequence without some elements keeps the others, in their order.      *)
LEMMA WithoutKeeps ==
    ASSUME NEW s \in Seq(Events), NEW gone
    PROVE  /\ Without(s, gone) \in Seq(Events)
           /\ Elements(Without(s, gone)) = Elements(s) \ gone
           /\ \A a, c \in DOMAIN Without(s, gone) : a < c =>
                 \E x, y \in DOMAIN s :
                    x < y /\ s[x] = Without(s, gone)[a] /\ s[y] = Without(s, gone)[c]
<1> DEFINE n == Len(s)
<1>1. n \in Nat /\ DOMAIN s = 1..n /\ \A i \in 1..n : s[i] \in Events
  OBVIOUS
<1>2. PICK kept : /\ kept[0] = <<>>
                  /\ \A i \in 1..n : kept[i] = WithoutStep(s, gone, kept[i - 1], i)
                  /\ Without(s, gone) = kept[n]
  BY <1>1, WithoutUnfolds
<1> HIDE DEF n
<1> DEFINE good(i) ==
      /\ kept[i] \in Seq(Events)
      /\ \A k \in 1..Len(kept[i]) : \E x \in 1..i : s[x] = kept[i][k] /\ s[x] \notin gone
      /\ \A x \in 1..i : s[x] \notin gone => \E k \in 1..Len(kept[i]) : kept[i][k] = s[x]
      /\ \A a, c \in 1..Len(kept[i]) : a < c =>
            \E x, y \in 1..i : x < y /\ s[x] = kept[i][a] /\ s[y] = kept[i][c]
<1>3. good(0)
  BY <1>2
<1>4. ASSUME NEW i \in 1..n, good(i - 1) PROVE good(i)
  <2> DEFINE old == kept[i - 1]
  <2>1. old \in Seq(Events) /\ Len(old) \in Nat /\ s[i] \in Events
    BY <1>1, <1>4
  <2>2. kept[i] = WithoutStep(s, gone, old, i)
    BY <1>2
  <2>3. \A x \in 1..i : x \in 1..(i - 1) \/ x = i
    BY <1>1
  <2>4. \A x \in 1..(i - 1) : x \in 1..i
    BY <1>1
  <2>5. CASE s[i] \in gone
    <3>1. kept[i] = old
      BY <2>2, <2>5 DEF WithoutStep
    <3>. QED
      BY <1>4, <2>3, <2>4, <2>5, <3>1
  <2>6. CASE s[i] \notin gone
    <3>1. kept[i] = Append(old, s[i])
      BY <2>2, <2>6 DEF WithoutStep
    <3>2. /\ kept[i] \in Seq(Events) /\ Len(kept[i]) = Len(old) + 1
          /\ kept[i][Len(old) + 1] = s[i]
          /\ \A k \in 1..Len(old) : kept[i][k] = old[k]
      BY <2>1, <3>1
    <3>3. \A k \in 1..Len(kept[i]) : k \in 1..Len(old) \/ k = Len(old) + 1
      BY <2>1, <3>2
    <3>4. /\ \A k \in 1..Len(old) : \E x \in 1..(i - 1) : s[x] = old[k] /\ s[x] \notin gone
          /\ \A x \in 1..(i - 1) : s[x] \notin gone => \E k \in 1..Len(old) : old[k] = s[x]
          /\ \A a, c \in 1..Len(old) : a < c =>
                \E x, y \in 1..(i - 1) : x < y /\ s[x] = old[a] /\ s[y] = old[c]
      BY <1>4
    <3> HIDE DEF old
    <3>5. i \in 1..i /\ \A x \in 1..(i - 1) : x < i
      BY <1>1
    <3>6. \A k \in 1..Len(kept[i]) : \E x \in 1..i : s[x] = kept[i][k] /\ s[x] \notin gone
      BY <2>4, <2>6, <3>2, <3>3, <3>4, <3>5
    <3>7. \A x \in 1..i : s[x] \notin gone => \E k \in 1..Len(kept[i]) : kept[i][k] = s[x]
      <4>1. Len(old) + 1 \in 1..Len(kept[i]) /\ \A k \in 1..Len(old) : k \in 1..Len(kept[i])
        BY <2>1, <3>2
      <4>. QED
        BY <2>3, <3>2, <3>4, <4>1
    <3>8. ASSUME NEW a \in 1..Len(kept[i]), NEW c \in 1..Len(kept[i]), a < c
          PROVE  \E x, y \in 1..i : x < y /\ s[x] = kept[i][a] /\ s[y] = kept[i][c]
      <4>1. a \in 1..Len(old)
        BY <2>1, <3>2, <3>8
      <4>2. CASE c \in 1..Len(old)
        BY <2>4, <3>2, <3>4, <3>8, <4>1, <4>2
      <4>3. CASE c = Len(old) + 1
        BY <2>4, <3>2, <3>4, <3>5, <4>1, <4>3
      <4>. QED
        BY <3>3, <4>2, <4>3
    <3>. QED
      BY <3>2, <3>6, <3>7, <3>8
  <2>. QED
    BY <2>5, <2>6
<1>5. good(n)
  <2> HIDE DEF good
  <2> DEFINE bad == {i \in 0..n : ~good(i)}
  <2>. SUFFICES ASSUME bad # {} PROVE FALSE
    BY <1>1
  <2>1. PICK i \in bad : \A m \in bad : i <= m
    <3>1. bad \in SUBSET Nat
      BY <1>1
    <3> HIDE DEF bad
    <3>. QED
      BY <3>1, LeastNumber
  <2>2. i \in 1..n /\ i - 1 \in 0..n
    BY <1>1, <1>3
  <2>3. good(i - 1)
    BY <2>1, <2>2
  <2>. QED
    BY <1>4, <2>2, <2>3
<1> DEFINE W == Without(s, gone)
<1> HIDE DEF W
<1>6. W = kept[n]
  BY <1>2 DEF W
<1>7. /\ kept[n] \in Seq(Events)
      /\ \A k \in 1..Len(kept[n]) : \E x \in 1..n : s[x] = kept[n][k] /\ s[x] \notin gone
      /\ \A x \in 1..n : s[x] \notin gone => \E k \in 1..Len(kept[n]) : kept[n][k] = s[x]
      /\ \A a, c \in 1..Len(kept[n]) : a < c =>
            \E x, y \in 1..n : x < y /\ s[x] = kept[n][a] /\ s[y] = kept[n][c]
  BY <1>5
<1> HIDE DEF good
<1>8. W \in Seq(Events) /\ DOMAIN W = 1..Len(W) /\ DOMAIN s = 1..n
  BY <1>1, <1>6, <1>7
<1>9. \A k \in DOMAIN W : W[k] \in Elements(s) /\ W[k] \notin gone
  <2>1. TAKE k \in DOMAIN W
  <2>2. PICK x \in 1..n : s[x] = W[k] /\ s[x] \notin gone
    BY <1>6, <1>7, <1>8
  <2>. QED
    BY <1>8, <2>2 DEF Elements
<1>10. \A x \in DOMAIN s : s[x] \notin gone => s[x] \in Elements(W)
  <2>1. SUFFICES ASSUME NEW x \in DOMAIN s, s[x] \notin gone PROVE s[x] \in Elements(W)
    OBVIOUS
  <2>2. PICK k \in 1..Len(W) : W[k] = s[x]
    BY <1>6, <1>7, <1>8, <2>1
  <2>. QED
    BY <1>8, <2>2 DEF Elements
<1>11. ASSUME NEW a \in DOMAIN W, NEW c \in DOMAIN W, a < c
       PROVE  \E x, y \in DOMAIN s : x < y /\ s[x] = W[a] /\ s[y] = W[c]
  <2>1. a \in 1..Len(kept[n]) /\ c \in 1..Len(kept[n])
    BY <1>6, <1>8
  <2>2. PICK x \in 1..n, y \in 1..n : x < y /\ s[x] = kept[n][a] /\ s[y] = kept[n][c]
    BY <1>7, <1>11, <2>1
  <2>. QED
    BY <1>6, <1>8, <2>2
<1>12. Elements(W) = Elements(s) \ gone
  BY <1>9, <1>10 DEF Elements
<1>. QED
  BY <1>8, <1>11, <1>12 DEF W

-----------------------------------------------------------------------------
(* The queue: what waits and who works on it, as a record q of the three   *)
(* structures.                                                             *)
Jobs == [events : Seq(Events), key : {Single} \cup (Nat \X Nat), open : BOOLEAN,
         raised : BOOLEAN]

QueueTypes(q) ==
    q \in [pending : Seq(Events), chain : [Tokens -> Seq(Jobs)], mark : [Tokens -> Nat]]

Arrived(q, e, f) == \E x, y \in DOMAIN q.pending : x < y /\ q.pending[x] = e /\ q.pending[y] = f

(* A worker works on pending events of its token; while it is open its key *)
(* is not newer than the watermark.                                        *)
JobSound(q, t, job) ==
    /\ job.events # <<>>
    /\ \A e \in Elements(job.events) : e \in Elements(q.pending) /\ Source[e].token = t
    /\ job.raised => ~job.open
    /\ job.open => job.key # Single /\ job.key[2] <= q.mark[t]

(* No event waits twice, no two workers share one.                         *)
OnePlace(q) ==
    /\ \A x, y \in DOMAIN q.pending : q.pending[x] = q.pending[y] => x = y
    /\ \A t \in Tokens : \A i, j \in DOMAIN q.chain[t] :
          \A k \in DOMAIN q.chain[t][i].events, l \in DOMAIN q.chain[t][j].events :
             q.chain[t][i].events[k] = q.chain[t][j].events[l] => i = j /\ k = l

Placed(q) ==
    \A e \in Elements(q.pending) : \E i \in DOMAIN q.chain[Source[e].token] :
        e \in Elements(q.chain[Source[e].token][i].events)

OneOpen(q) ==
    \A t \in Tokens : \A i, j \in DOMAIN q.chain[t] :
        /\ q.chain[t][i].open /\ q.chain[t][j].open
        /\ q.chain[t][i].key = q.chain[t][j].key
        => i = j

(* What is ahead of a SELL that raised the watermark arrived no later, and *)
(* the batches that are still open there have an older key: nothing that   *)
(* arrives from now on joins them.                                         *)
Barrier(q) ==
    \A t \in Tokens : \A i, j \in DOMAIN q.chain[t] : q.chain[t][i].raised /\ j < i =>
        /\ q.chain[t][j].open => q.chain[t][j].key[2] < q.mark[t]
        /\ \A e \in Elements(q.chain[t][i].events), f \in Elements(q.chain[t][j].events) :
              ~Arrived(q, e, f)

Buys(q) == {e \in Elements(q.pending) : ~IsSell(e)}
BuysBounded(q) == Cardinality(Buys(q)) <= QueueLimit

QueueSound(q) ==
    /\ QueueTypes(q)
    /\ \A t \in Tokens : \A i \in DOMAIN q.chain[t] : JobSound(q, t, q.chain[t][i])
    /\ OnePlace(q) /\ Placed(q) /\ OneOpen(q) /\ Barrier(q) /\ BuysBounded(q)

LEMMA Shape ==
    ASSUME NEW q, QueueTypes(q)
    PROVE  /\ q.pending \in Seq(Events) /\ Len(q.pending) \in Nat
           /\ DOMAIN q.pending = 1..Len(q.pending)
           /\ Elements(q.pending) \subseteq Events
           /\ q.chain \in [Tokens -> Seq(Jobs)] /\ q.mark \in [Tokens -> Nat]
           /\ \A t \in Tokens :
                 /\ Len(q.chain[t]) \in Nat /\ DOMAIN q.chain[t] = 1..Len(q.chain[t])
                 /\ \A i \in DOMAIN q.chain[t] :
                       /\ q.chain[t][i] \in Jobs
                       /\ q.chain[t][i].events \in Seq(Events)
                       /\ Len(q.chain[t][i].events) \in Nat
                       /\ DOMAIN q.chain[t][i].events = 1..Len(q.chain[t][i].events)
<1>1. q.pending \in Seq(Events) /\ q.chain \in [Tokens -> Seq(Jobs)] /\ q.mark \in [Tokens -> Nat]
  BY DEF QueueTypes
<1>2. \A x \in DOMAIN q.pending : q.pending[x] \in Events
  BY <1>1
<1>3. ASSUME NEW t \in Tokens
      PROVE  /\ Len(q.chain[t]) \in Nat /\ DOMAIN q.chain[t] = 1..Len(q.chain[t])
             /\ \A i \in DOMAIN q.chain[t] : q.chain[t][i] \in Jobs
  BY <1>1
<1>4. \A job \in Jobs : /\ job.events \in Seq(Events) /\ Len(job.events) \in Nat
                        /\ DOMAIN job.events = 1..Len(job.events)
  BY DEF Jobs
<1>. QED
  BY <1>1, <1>2, <1>3, <1>4 DEF Elements

LEMMA InitSound == Init => QueueSound(Queues)
<1>. SUFFICES ASSUME Init PROVE QueueSound(Queues)
  OBVIOUS
<1>1. Queues = [pending |-> <<>>, chain |-> [t \in Tokens |-> <<>>], mark |-> [t \in Tokens |-> 0]]
  BY DEF Init, Queues
<1> DEFINE q == Queues
<1>2. QueueTypes(q)
  BY <1>1 DEF QueueTypes
<1>3. q.pending = <<>> /\ \A t \in Tokens : q.chain[t] = <<>>
  BY <1>1
<1>4. Elements(q.pending) = {} /\ Buys(q) = {}
  BY <1>3 DEF Elements, Buys
<1>5. BuysBounded(q)
  BY <1>4, FS_EmptySet, LimitsAssumption DEF BuysBounded
<1> HIDE DEF q
<1>. QED
  BY <1>2, <1>3, <1>4, <1>5 DEF QueueSound, OnePlace, Placed, OneOpen, Barrier, q

(* Closing batches, one when it runs or all in a reset, keeps the queue    *)
(* sound; the watermark may only change when none stays open.              *)
Closes(q, r) ==
    /\ r.pending = q.pending
    /\ \A t \in Tokens :
          /\ DOMAIN r.chain[t] = DOMAIN q.chain[t]
          /\ \A i \in DOMAIN q.chain[t] :
                /\ r.chain[t][i].events = q.chain[t][i].events
                /\ r.chain[t][i].raised = q.chain[t][i].raised
                /\ r.chain[t][i].open => /\ q.chain[t][i].open /\ r.mark[t] = q.mark[t]
                                         /\ r.chain[t][i].key = q.chain[t][i].key

LEMMA ClosesKeeps ==
    ASSUME NEW q, NEW r, QueueSound(q), QueueTypes(r), Closes(q, r)
    PROVE  QueueSound(r)
<1>1. /\ Elements(r.pending) = Elements(q.pending) /\ Buys(r) = Buys(q)
      /\ \A e, f : Arrived(r, e, f) <=> Arrived(q, e, f)
  BY DEF Closes, Buys, Arrived
<1>2. ASSUME NEW t \in Tokens, NEW i \in DOMAIN r.chain[t] PROVE JobSound(r, t, r.chain[t][i])
  BY <1>1, <1>2 DEF QueueSound, Closes, JobSound
<1>3. OnePlace(r)
  BY DEF QueueSound, Closes, OnePlace
<1>4. Placed(r)
  <2>. SUFFICES ASSUME NEW e \in Elements(q.pending)
                PROVE  \E i \in DOMAIN r.chain[Source[e].token] :
                          e \in Elements(r.chain[Source[e].token][i].events)
    BY <1>1 DEF Placed
  <2>1. PICK i \in DOMAIN q.chain[Source[e].token] :
             e \in Elements(q.chain[Source[e].token][i].events)
    BY DEF QueueSound, Placed
  <2>2. e \in Events
    BY Shape DEF QueueSound
  <2>3. Source[e].token \in Tokens
    BY <2>2, SourceAssumption
  <2>. QED
    BY <2>1, <2>3 DEF Closes
<1>5. OneOpen(r)
  BY DEF QueueSound, Closes, OneOpen
<1>6. Barrier(r)
  BY <1>1 DEF QueueSound, Closes, Barrier
<1>. QED
  BY <1>1, <1>2, <1>3, <1>4, <1>5, <1>6 DEF QueueSound, BuysBounded

LEMMA TokenOf == \A e \in Events : Source[e].token \in Tokens /\ Source[e].ts \in Nat
  BY SourceAssumption

(* Fewer events wait, in the same order.                                   *)
LEMMA FewerBuys ==
    ASSUME NEW q, NEW r, Elements(r.pending) \subseteq Elements(q.pending),
           Elements(q.pending) \subseteq Events, BuysBounded(q)
    PROVE  BuysBounded(r)
<1>1. Buys(r) \subseteq Buys(q) /\ Buys(q) \subseteq Events
  BY DEF Buys
<1>2. IsFiniteSet(Buys(q))
  BY <1>1, EventsAssumption, FS_Subset
<1>3. /\ Cardinality(Buys(r)) <= Cardinality(Buys(q))
      /\ Cardinality(Buys(r)) \in Nat /\ Cardinality(Buys(q)) \in Nat
  BY <1>1, <1>2, FS_Subset, FS_CardinalityType
<1>. QED
  BY <1>3, LimitsAssumption DEF BuysBounded

(* A worker that is done leaves with its events.                           *)
Done(q, t) ==
    [pending |-> Without(q.pending, Elements(q.chain[t][1].events)),
     chain |-> [q.chain EXCEPT ![t] = Tail(@)],
     mark |-> q.mark]

LEMMA DoneKeeps ==
    ASSUME NEW q, NEW t \in Tokens, QueueSound(q), q.chain[t] # <<>>
    PROVE  QueueSound(Done(q, t))
<1> DEFINE r == Done(q, t)
<1>0. /\ q.chain[t] # <<>>
      /\ r.chain = [q.chain EXCEPT ![t] = Tail(@)]
      /\ r.pending = Without(q.pending, Elements(q.chain[t][1].events))
      /\ r.mark = q.mark
      /\ r = [pending |-> r.pending, chain |-> r.chain, mark |-> r.mark]
  BY DEF Done
<1> HIDE DEF r
<1> DEFINE at(u, i) == IF u = t THEN i + 1 ELSE i
           gone == Elements(q.chain[t][1].events)
<1>1. QueueTypes(q)
  BY DEF QueueSound
<1>2. 1 \in DOMAIN q.chain[t]
  BY <1>0, <1>1, Shape
<1>3. /\ r.chain \in [Tokens -> Seq(Jobs)]
      /\ \A i \in 1..(Len(q.chain[t]) - 1) : r.chain[t][i] = q.chain[t][i + 1]
      /\ DOMAIN r.chain[t] = 1..(Len(q.chain[t]) - 1)
      /\ \A u \in Tokens \ {t} : r.chain[u] = q.chain[u]
  BY <1>0, <1>1, Shape
<1>4. \A u \in Tokens :
         /\ \A i \in DOMAIN r.chain[u] :
               /\ at(u, i) \in DOMAIN q.chain[u] /\ r.chain[u][i] = q.chain[u][at(u, i)]
               /\ u = t => at(u, i) # 1
               /\ \A j \in DOMAIN r.chain[u] : /\ at(u, i) = at(u, j) => i = j
                                               /\ j < i => at(u, j) < at(u, i)
         /\ \A a \in DOMAIN q.chain[u] : (u = t /\ a = 1)
               \/ \E i \in DOMAIN r.chain[u] : at(u, i) = a
  <2>1. TAKE u \in Tokens
  <2>2. CASE u # t
    BY <1>1, <1>3, <2>2, Shape
  <2>3. CASE u = t
    <3>1. \A a \in DOMAIN q.chain[t] : a = 1 \/ a - 1 \in DOMAIN r.chain[t]
      BY <1>1, <1>3, Shape
    <3>2. Len(q.chain[t]) \in Nat /\ DOMAIN q.chain[t] = 1..Len(q.chain[t])
      BY <1>1, Shape
    <3>3. \A a \in DOMAIN q.chain[t] : a = 1 \/ \E i \in DOMAIN r.chain[t] : i + 1 = a
      BY <3>1, <3>2
    <3>4. \A i \in DOMAIN r.chain[t] :
             /\ i + 1 \in DOMAIN q.chain[t] /\ r.chain[t][i] = q.chain[t][i + 1] /\ i + 1 # 1
             /\ \A j \in DOMAIN r.chain[t] : /\ i + 1 = j + 1 => i = j
                                             /\ j < i => j + 1 < i + 1
      <4>1. ASSUME NEW n \in Nat, NEW i \in 1..(n - 1)
            PROVE  /\ i + 1 \in 1..n /\ i + 1 # 1
                   /\ \A j \in 1..(n - 1) : (i + 1 = j + 1 => i = j) /\ (j < i => j + 1 < i + 1)
        OBVIOUS
      <4>2. \A i \in DOMAIN r.chain[t] : r.chain[t][i] = q.chain[t][i + 1]
        BY <1>3
      <4>3. DOMAIN r.chain[t] = 1..(Len(q.chain[t]) - 1)
        BY <1>3
      <4>. QED
        BY <3>2, <4>1, <4>2, <4>3
    <3>. QED
      BY <2>3, <3>3, <3>4
  <2>. QED
    BY <2>2, <2>3
<1> HIDE DEF at
<1>5. /\ r.pending \in Seq(Events) /\ Elements(r.pending) = Elements(q.pending) \ gone
      /\ \A a, c \in DOMAIN r.pending : a < c =>
            Arrived(q, r.pending[a], r.pending[c])
  <2>1. q.pending \in Seq(Events) /\ r.pending = Without(q.pending, gone)
    BY <1>0, <1>1, Shape
  <2> HIDE DEF gone
  <2>. QED
    BY <2>1, WithoutKeeps DEF Arrived
<1>6. QueueTypes(r)
  BY <1>1, <1>3, <1>5, <1>0, Shape DEF QueueTypes
<1>7. \A e, f : Arrived(r, e, f) => Arrived(q, e, f)
  BY <1>5 DEF Arrived
<1>8. ASSUME NEW u \in Tokens, NEW i \in DOMAIN r.chain[u], NEW k \in DOMAIN r.chain[u][i].events
      PROVE  r.chain[u][i].events[k] \notin gone
  <2>. SUFFICES ASSUME NEW l \in DOMAIN q.chain[t][1].events,
                       q.chain[t][1].events[l] = r.chain[u][i].events[k]
                PROVE  FALSE
    BY DEF Elements
  <2>1. r.chain[u][i] = q.chain[u][at(u, i)] /\ at(u, i) \in DOMAIN q.chain[u]
    BY <1>4
  <2>2. u = t
    <3>1. JobSound(q, u, r.chain[u][i]) /\ JobSound(q, t, q.chain[t][1])
      BY <1>2, <2>1 DEF QueueSound
    <3>2. /\ r.chain[u][i].events[k] \in Elements(r.chain[u][i].events)
          /\ r.chain[u][i].events[k] \in Elements(q.chain[t][1].events)
      BY DEF Elements
    <3>. QED
      BY <3>1, <3>2 DEF JobSound
  <2>3. at(u, i) = 1
    BY <1>2, <2>1, <2>2 DEF QueueSound, OnePlace
  <2>. QED
    BY <1>4, <2>2, <2>3
<1>9. ASSUME NEW u \in Tokens, NEW i \in DOMAIN r.chain[u] PROVE JobSound(r, u, r.chain[u][i])
  <2>1. JobSound(q, u, r.chain[u][i])
    BY <1>4 DEF QueueSound
  <2>2. \A e \in Elements(r.chain[u][i].events) : e \notin gone
    BY <1>8 DEF Elements
  <2>. QED
    BY <1>0, <1>5, <2>1, <2>2 DEF JobSound
<1>10. OnePlace(r)
  <2>1. ASSUME NEW x \in DOMAIN r.pending, NEW y \in DOMAIN r.pending, x < y
        PROVE  r.pending[x] # r.pending[y]
    <3>1. PICK a \in DOMAIN q.pending, c \in DOMAIN q.pending :
               a < c /\ q.pending[a] = r.pending[x] /\ q.pending[c] = r.pending[y]
      BY <1>5, <2>1 DEF Arrived
    <3>2. a # c
      BY <1>1, <3>1, Shape
    <3>. QED
      BY <3>1, <3>2 DEF QueueSound, OnePlace
  <2>2. \A x, y \in DOMAIN r.pending : x < y \/ y < x \/ x = y
    BY <1>5
  <2>3. \A x, y \in DOMAIN r.pending : r.pending[x] = r.pending[y] => x = y
    BY <2>1, <2>2
  <2>4. ASSUME NEW u \in Tokens, NEW i \in DOMAIN r.chain[u], NEW j \in DOMAIN r.chain[u],
               NEW k \in DOMAIN r.chain[u][i].events, NEW l \in DOMAIN r.chain[u][j].events,
               r.chain[u][i].events[k] = r.chain[u][j].events[l]
        PROVE  i = j /\ k = l
    <3>1. at(u, i) = at(u, j) /\ k = l
      BY <1>4, <2>4 DEF QueueSound, OnePlace
    <3>. QED
      BY <1>4, <3>1
  <2>. QED
    BY <2>3, <2>4 DEF OnePlace
<1>11. Placed(r)
  <2>. SUFFICES ASSUME NEW e \in Elements(q.pending), e \notin gone
                PROVE  \E i \in DOMAIN r.chain[Source[e].token] :
                          e \in Elements(r.chain[Source[e].token][i].events)
    BY <1>5 DEF Placed
  <2> DEFINE u == Source[e].token
  <2>1. u \in Tokens
    BY <1>1, Shape, TokenOf
  <2>2. PICK i \in DOMAIN q.chain[u] : e \in Elements(q.chain[u][i].events)
    BY DEF QueueSound, Placed
  <2>3. ~(u = t /\ i = 1)
    BY <2>2
  <2>4. PICK x \in DOMAIN r.chain[u] : at(u, x) = i
    BY <1>4, <2>1, <2>2, <2>3
  <2>5. r.chain[u][x] = q.chain[u][i]
    BY <1>4, <2>1, <2>4
  <2>. QED
    BY <2>2, <2>4, <2>5
<1>12. OneOpen(r)
  <2>1. ASSUME NEW u \in Tokens, NEW i \in DOMAIN r.chain[u], NEW j \in DOMAIN r.chain[u],
               r.chain[u][i].open, r.chain[u][j].open, r.chain[u][i].key = r.chain[u][j].key
        PROVE  i = j
    <3>1. at(u, i) = at(u, j)
      BY <1>4, <2>1 DEF QueueSound, OneOpen
    <3>. QED
      BY <1>4, <3>1
  <2>. QED
    BY <2>1 DEF OneOpen
<1>13. Barrier(r)
  <2>1. ASSUME NEW u \in Tokens, NEW i \in DOMAIN r.chain[u], NEW j \in DOMAIN r.chain[u],
               r.chain[u][i].raised, j < i
        PROVE  /\ r.chain[u][j].open => r.chain[u][j].key[2] < r.mark[u]
               /\ \A e \in Elements(r.chain[u][i].events), f \in Elements(r.chain[u][j].events) :
                     ~Arrived(q, e, f)
    <3>1. at(u, j) < at(u, i)
      BY <1>4, <2>1
    <3>2. /\ at(u, i) \in DOMAIN q.chain[u] /\ at(u, j) \in DOMAIN q.chain[u]
          /\ r.chain[u][i] = q.chain[u][at(u, i)] /\ r.chain[u][j] = q.chain[u][at(u, j)]
      BY <1>4
    <3>3. Barrier(q) /\ r.mark = q.mark
      BY <1>0 DEF QueueSound
    <3>4. /\ q.chain[u][at(u, j)].open => q.chain[u][at(u, j)].key[2] < q.mark[u]
          /\ \A e \in Elements(q.chain[u][at(u, i)].events),
               f \in Elements(q.chain[u][at(u, j)].events) : ~Arrived(q, e, f)
      BY <2>1, <3>1, <3>2, <3>3 DEF Barrier
    <3>. QED
      BY <3>2, <3>3, <3>4
  <2>. QED
    BY <1>7, <2>1 DEF Barrier
<1>14. BuysBounded(r)
  BY <1>1, <1>5, Shape, FewerBuys DEF QueueSound
<1>. QED
  BY <1>6, <1>9, <1>10, <1>11, <1>12, <1>13, <1>14 DEF QueueSound, r

(* An event that does not wait yet is put behind those that wait.          *)
Offered(q, r, e) ==
    /\ e \notin Elements(q.pending) /\ HasRoom(q, e)
    /\ r.pending = Append(q.pending, e)

LEMMA LastPlace ==
    ASSUME NEW S, NEW s \in Seq(S), NEW x \in S
    PROVE  /\ Append(s, x) \in Seq(S) /\ Len(Append(s, x)) = Len(s) + 1 /\ Len(s) \in Nat
           /\ Append(s, x) # <<>>
           /\ DOMAIN s = 1..Len(s) /\ DOMAIN Append(s, x) = 1..(Len(s) + 1)
           /\ \A i \in DOMAIN s : i \in DOMAIN Append(s, x) /\ i < Len(s) + 1 /\ Append(s, x)[i] = s[i]
           /\ Append(s, x)[Len(s) + 1] = x
           /\ \A i \in DOMAIN Append(s, x) : i \in DOMAIN s \/ i = Len(s) + 1
           /\ Elements(Append(s, x)) = Elements(s) \cup {x}
<1>1. /\ Append(s, x) \in Seq(S) /\ Len(Append(s, x)) = Len(s) + 1 /\ Len(s) \in Nat
      /\ Append(s, x) # <<>>
      /\ DOMAIN s = 1..Len(s) /\ DOMAIN Append(s, x) = 1..(Len(s) + 1)
      /\ \A i \in 1..Len(s) : Append(s, x)[i] = s[i]
      /\ Append(s, x)[Len(s) + 1] = x
  OBVIOUS
<1>2. /\ \A i \in DOMAIN s : i \in DOMAIN Append(s, x) /\ i < Len(s) + 1
      /\ \A i \in DOMAIN Append(s, x) : i \in DOMAIN s \/ i = Len(s) + 1
      /\ Len(s) + 1 \in DOMAIN Append(s, x)
  BY <1>1
<1>3. Elements(Append(s, x)) = Elements(s) \cup {x}
  <2>1. \A i \in DOMAIN Append(s, x) : Append(s, x)[i] \in Elements(s) \cup {x}
    BY <1>1, <1>2 DEF Elements
  <2>2. \A i \in DOMAIN s : s[i] \in Elements(Append(s, x))
    BY <1>1, <1>2 DEF Elements
  <2>3. x \in Elements(Append(s, x))
    BY <1>1, <1>2 DEF Elements
  <2>. QED
    BY <2>1, <2>2, <2>3 DEF Elements
<1>. QED
  BY <1>1, <1>2, <1>3

LEMMA OfferedWaits ==
    ASSUME NEW q, NEW r, NEW e \in Events, QueueSound(q), Offered(q, r, e)
    PROVE  /\ r.pending \in Seq(Events) /\ Elements(r.pending) = Elements(q.pending) \cup {e}
           /\ \A x, y \in DOMAIN r.pending : r.pending[x] = r.pending[y] => x = y
           /\ \A f, g : Arrived(r, f, g) =>
                 f \in Elements(q.pending) /\ (Arrived(q, f, g) \/ g = e)
           /\ BuysBounded(r)
<1>1. QueueTypes(q)
  BY DEF QueueSound
<1> DEFINE s == q.pending
           last == Len(s) + 1
<1>2. s \in Seq(Events) /\ Len(s) \in Nat /\ Elements(s) \subseteq Events
  BY <1>1, Shape
<1>3. /\ r.pending \in Seq(Events) /\ DOMAIN r.pending = 1..last
      /\ r.pending[last] = e /\ \A x \in DOMAIN s : r.pending[x] = s[x] /\ s[x] # e
      /\ \A x \in DOMAIN r.pending : (x \in DOMAIN s /\ x < last) \/ x = last
      /\ Elements(r.pending) = Elements(q.pending) \cup {e}
  BY <1>2, LastPlace DEF Offered, Elements
<1>4. \A x, y \in DOMAIN s : s[x] = s[y] => x = y
  BY DEF QueueSound, OnePlace
<1> HIDE DEF s, last
<1>5. \A x, y \in DOMAIN r.pending : r.pending[x] = r.pending[y] => x = y
  BY <1>3, <1>4
<1>6. ASSUME NEW f, NEW g, Arrived(r, f, g)
      PROVE  f \in Elements(q.pending) /\ (Arrived(q, f, g) \/ g = e)
  <2>1. PICK x \in DOMAIN r.pending, y \in DOMAIN r.pending :
             x < y /\ r.pending[x] = f /\ r.pending[y] = g
    BY <1>6 DEF Arrived
  <2>2. x \in DOMAIN s
    BY <1>2, <1>3, <2>1 DEF last
  <2>3. y \in DOMAIN s \/ g = e
    BY <1>3, <2>1
  <2>. QED
    BY <1>3, <2>1, <2>2, <2>3 DEF Arrived, Elements, s
<1>7. BuysBounded(r)
  <2>1. CASE IsSell(e)
    <3>1. Buys(r) = Buys(q)
      BY <1>3, <2>1 DEF Buys
    <3>. QED
      BY <3>1 DEF BuysBounded, QueueSound
  <2>2. CASE ~IsSell(e)
    <3>1. Buys(r) \subseteq Elements(r.pending) /\ Elements(r.pending) \subseteq Events
      BY <1>2, <1>3 DEF Buys, s
    <3>2. e \in Buys(r) /\ Buys(r) \ {e} \subseteq Elements(s)
      BY <1>3, <2>2 DEF Buys, s
    <3>3. IsFiniteSet(Buys(r)) /\ IsFiniteSet(Elements(s))
      BY <3>1, <1>2, EventsAssumption, FS_Subset
    <3>4. Cardinality(Elements(s)) <= Len(s) /\ Cardinality(Elements(s)) \in Nat
      <4>1. IsFiniteSet(1..Len(s)) /\ Cardinality(1..Len(s)) = Len(s)
        BY <1>2, FS_Interval
      <4>2. [x \in 1..Len(s) |-> s[x]] \in Surjection(1..Len(s), Elements(s))
        <5>1. DOMAIN s = 1..Len(s)
          BY <1>2
        <5>. QED
          BY <5>1 DEF Elements, Surjection
      <4>. QED
        BY <4>1, <4>2, FS_Surjection, FS_CardinalityType
    <3>5. Cardinality(Buys(r) \ {e}) <= Cardinality(Elements(s))
      BY <3>2, <3>3, FS_Subset
    <3>6. Cardinality(Buys(r)) = Cardinality(Buys(r) \ {e}) + 1 /\ Cardinality(Buys(r) \ {e}) \in Nat
      <4>1. IsFiniteSet(Buys(r) \ {e}) /\ Cardinality(Buys(r) \ {e}) = Cardinality(Buys(r)) - 1
        BY <3>2, <3>3, FS_RemoveElement
      <4>2. Cardinality(Buys(r)) \in Nat /\ Cardinality(Buys(r) \ {e}) \in Nat
        BY <3>3, <4>1, FS_CardinalityType
      <4>. QED
        BY <4>1, <4>2
    <3>7. Len(s) < QueueLimit
      BY <2>2, <1>2, LimitsAssumption DEF Offered, HasRoom, s
    <3>. QED
      BY <1>2, <3>4, <3>5, <3>6, <3>7, LimitsAssumption DEF BuysBounded
  <2>. QED
    BY <2>1, <2>2
<1>. QED
  BY <1>3, <1>5, <1>6, <1>7 DEF s

(* A BUY that joins the open batch of its key.                             *)
Joins(q, r, e, b) ==
    LET t == Source[e].token
    IN  /\ Offered(q, r, e) /\ r.mark = q.mark
        /\ b \in DOMAIN q.chain[t]
        /\ q.chain[t][b].open /\ q.chain[t][b].key = BatchKey(q, e)
        /\ \A u \in Tokens : /\ DOMAIN r.chain[u] = DOMAIN q.chain[u]
                             /\ \A i \in DOMAIN q.chain[u] : r.chain[u][i] =
                                   IF u = t /\ i = b
                                   THEN With(q.chain[t][b], e)
                                   ELSE q.chain[u][i]

LEMMA JoinsKeeps ==
    ASSUME NEW q, NEW r, NEW e \in Events, NEW b, QueueSound(q), QueueTypes(r), Joins(q, r, e, b)
    PROVE  QueueSound(r)
<1> DEFINE t == Source[e].token
           last == Len(q.chain[t][b].events) + 1
<1>1. /\ QueueTypes(q) /\ t \in Tokens /\ b \in DOMAIN q.chain[t]
      /\ Offered(q, r, e) /\ r.mark = q.mark
      /\ q.chain[t][b].open /\ q.chain[t][b].key = BatchKey(q, e)
  BY TokenOf DEF QueueSound, Joins
<1>2. /\ r.chain[t][b].events = Append(q.chain[t][b].events, e)
      /\ r.chain[t][b].events # <<>>
      /\ Elements(r.chain[t][b].events) = Elements(q.chain[t][b].events) \cup {e}
      /\ \A k \in DOMAIN r.chain[t][b].events :
            \/ k \in DOMAIN q.chain[t][b].events
               /\ r.chain[t][b].events[k] = q.chain[t][b].events[k]
            \/ k = last /\ r.chain[t][b].events[k] = e
  <2>1. q.chain[t][b] \in Jobs /\ q.chain[t][b].events \in Seq(Events)
    BY <1>1, Shape
  <2>2. r.chain[t][b].events = Append(q.chain[t][b].events, e)
    BY <1>1, <2>1 DEF Joins, Jobs, With
  <2> DEFINE s == q.chain[t][b].events
  <2>3. s \in Seq(Events)
    BY <2>1
  <2> HIDE DEF s
  <2>4. /\ Append(s, e) # <<>> /\ Elements(Append(s, e)) = Elements(s) \cup {e}
        /\ \A k \in DOMAIN Append(s, e) :
              \/ k \in DOMAIN s /\ Append(s, e)[k] = s[k]
              \/ k = Len(s) + 1 /\ Append(s, e)[k] = e
    BY <2>3, LastPlace
  <2>. QED
    BY <2>2, <2>4 DEF s
<1>3. /\ r.chain[t][b].key = q.chain[t][b].key /\ r.chain[t][b].open
      /\ r.chain[t][b].raised = q.chain[t][b].raised
  <2>1. q.chain[t][b] \in Jobs
    BY <1>1, Shape
  <2>. QED
    BY <1>1, <2>1 DEF Joins, Jobs, With
<1>4. \A u \in Tokens : \A i \in DOMAIN q.chain[u] : ~(u = t /\ i = b) => r.chain[u][i] = q.chain[u][i]
  BY DEF Joins
<1>5. \A u \in Tokens : DOMAIN r.chain[u] = DOMAIN q.chain[u]
  BY DEF Joins
<1>6. /\ Elements(r.pending) = Elements(q.pending) \cup {e}
      /\ \A x, y \in DOMAIN r.pending : r.pending[x] = r.pending[y] => x = y
      /\ \A f, g : Arrived(r, f, g) => f \in Elements(q.pending) /\ (Arrived(q, f, g) \/ g = e)
      /\ BuysBounded(r) /\ e \notin Elements(q.pending)
  BY <1>1, OfferedWaits DEF Offered
<1>7. \A u \in Tokens : \A i \in DOMAIN q.chain[u] :
         /\ JobSound(q, u, q.chain[u][i])
         /\ \A k \in DOMAIN q.chain[u][i].events :
               q.chain[u][i].events[k] \in Elements(q.chain[u][i].events)
               /\ q.chain[u][i].events[k] # e
  <2>1. TAKE u \in Tokens
  <2>2. TAKE i \in DOMAIN q.chain[u]
  <2>3. JobSound(q, u, q.chain[u][i])
    BY DEF QueueSound
  <2>4. \A k \in DOMAIN q.chain[u][i].events :
           q.chain[u][i].events[k] \in Elements(q.chain[u][i].events)
    BY DEF Elements
  <2>. QED
    BY <1>6, <2>3, <2>4 DEF JobSound
<1> HIDE DEF t, last
<1>8. ASSUME NEW u \in Tokens, NEW i \in DOMAIN r.chain[u] PROVE JobSound(r, u, r.chain[u][i])
  <2>1. JobSound(q, u, q.chain[u][i])
    BY <1>5, <1>7
  <2>2. CASE u = t /\ i = b
    BY <1>1, <1>2, <1>3, <1>6, <2>1, <2>2 DEF JobSound, t
  <2>3. CASE ~(u = t /\ i = b)
    BY <1>1, <1>4, <1>5, <1>6, <2>1, <2>3 DEF JobSound
  <2>. QED
    BY <2>2, <2>3
<1>9. OnePlace(r)
  <2>1. ASSUME NEW u \in Tokens, NEW i \in DOMAIN r.chain[u], NEW j \in DOMAIN r.chain[u],
               NEW k \in DOMAIN r.chain[u][i].events, NEW l \in DOMAIN r.chain[u][j].events,
               r.chain[u][i].events[k] = r.chain[u][j].events[l]
        PROVE  i = j /\ k = l
    <3>1. \/ k \in DOMAIN q.chain[u][i].events
             /\ r.chain[u][i].events[k] = q.chain[u][i].events[k]
          \/ u = t /\ i = b /\ k = last /\ r.chain[u][i].events[k] = e
      BY <1>2, <1>4, <1>5
    <3>2. \/ l \in DOMAIN q.chain[u][j].events
             /\ r.chain[u][j].events[l] = q.chain[u][j].events[l]
          \/ u = t /\ j = b /\ l = last /\ r.chain[u][j].events[l] = e
      BY <1>2, <1>4, <1>5
    <3>3. /\ \A x \in DOMAIN q.chain[u][i].events, y \in DOMAIN q.chain[u][j].events :
                q.chain[u][i].events[x] = q.chain[u][j].events[y] => i = j /\ x = y
          /\ \A x \in DOMAIN q.chain[u][i].events : q.chain[u][i].events[x] # e
          /\ \A y \in DOMAIN q.chain[u][j].events : q.chain[u][j].events[y] # e
      BY <1>5, <1>7 DEF QueueSound, OnePlace
    <3>4. CASE r.chain[u][i].events[k] = e
      BY <2>1, <3>1, <3>2, <3>3, <3>4
    <3>5. CASE r.chain[u][i].events[k] # e
      <4>1. k \in DOMAIN q.chain[u][i].events /\ l \in DOMAIN q.chain[u][j].events
        BY <2>1, <3>1, <3>2, <3>5
      <4>2. q.chain[u][i].events[k] = q.chain[u][j].events[l]
        BY <2>1, <3>1, <3>2, <3>5
      <4>. QED
        BY <3>3, <4>1, <4>2
    <3>. QED
      BY <3>4, <3>5
  <2>. QED
    BY <1>6, <2>1 DEF OnePlace
<1>10. Placed(r)
  <2>. SUFFICES ASSUME NEW f \in Elements(q.pending) \cup {e}
                PROVE  \E i \in DOMAIN r.chain[Source[f].token] :
                          f \in Elements(r.chain[Source[f].token][i].events)
    BY <1>6 DEF Placed
  <2>1. CASE f = e
    BY <1>1, <1>2, <1>5, <2>1 DEF t
  <2>2. CASE f # e
    <3> DEFINE u == Source[f].token
    <3>1. PICK i \in DOMAIN q.chain[u] : f \in Elements(q.chain[u][i].events)
      BY <2>2 DEF QueueSound, Placed
    <3>2. u \in Tokens
      BY <1>1, <2>2, Shape, TokenOf
    <3> HIDE DEF u
    <3>3. i \in DOMAIN r.chain[u] /\ f \in Elements(r.chain[u][i].events)
      BY <1>2, <1>4, <1>5, <3>1, <3>2
    <3>. QED
      BY <3>3 DEF u
  <2>. QED
    BY <2>1, <2>2
<1>11. OneOpen(r)
  <2>1. \A u \in Tokens : \A i \in DOMAIN r.chain[u] :
           i \in DOMAIN q.chain[u] /\ r.chain[u][i].key = q.chain[u][i].key
           /\ (r.chain[u][i].open => q.chain[u][i].open)
    BY <1>1, <1>3, <1>4, <1>5
  <2>. QED
    BY <2>1 DEF QueueSound, OneOpen
<1>12. Barrier(r)
  <2>1. ASSUME NEW u \in Tokens, NEW i \in DOMAIN r.chain[u], NEW j \in DOMAIN r.chain[u],
               r.chain[u][i].raised, j < i
        PROVE  /\ r.chain[u][j].open => r.chain[u][j].key[2] < r.mark[u]
               /\ \A f \in Elements(r.chain[u][i].events), g \in Elements(r.chain[u][j].events) :
                     ~Arrived(r, f, g)
    <3>1. JobSound(q, u, q.chain[u][i]) /\ JobSound(q, u, q.chain[u][j])
      BY <1>5, <1>7
    <3>2. ~(u = t /\ i = b)
      BY <1>1, <1>3, <2>1, <3>1 DEF JobSound
    <3>3. r.chain[u][i] = q.chain[u][i] /\ i \in DOMAIN q.chain[u] /\ j \in DOMAIN q.chain[u]
      BY <1>4, <1>5, <3>2
    <3>4. /\ q.chain[u][j].open => q.chain[u][j].key[2] < q.mark[u]
          /\ \A f \in Elements(q.chain[u][i].events), g \in Elements(q.chain[u][j].events) :
                ~Arrived(q, f, g)
      BY <2>1, <3>3 DEF QueueSound, Barrier
    <3>5. ~(u = t /\ j = b)
      <4>1. BatchKey(q, e)[2] = q.mark[t] /\ q.mark[t] \in Nat
        BY <1>1, Shape DEF BatchKey, t
      <4>. QED
        BY <1>1, <3>4, <4>1
    <3>6. r.chain[u][j] = q.chain[u][j]
      BY <1>4, <3>3, <3>5
    <3>7. e \notin Elements(q.chain[u][j].events)
      BY <1>6, <3>1 DEF JobSound
    <3>. QED
      BY <1>1, <1>6, <3>3, <3>4, <3>6, <3>7
  <2>. QED
    BY <2>1 DEF Barrier
<1>. QED
  BY <1>6, <1>8, <1>9, <1>10, <1>11, <1>12 DEF QueueSound

(* Any other event gets a worker of its own, behind those of its token.    *)
Adds(q, r, e, key) ==
    LET t == Source[e].token
    IN  /\ Offered(q, r, e)
        /\ key \in {Single, BatchKey(q, e)} /\ (key # Single => ~IsSell(e))
        /\ \A i \in DOMAIN q.chain[t] : ~(q.chain[t][i].open /\ q.chain[t][i].key = key)
        /\ r.chain[t] = Append(q.chain[t], Job(<<e>>, key, Raises(q, e)))
        /\ \A u \in Tokens \ {t} : r.chain[u] = q.chain[u]
        /\ r.mark = IF Raises(q, e) THEN [q.mark EXCEPT ![t] = Source[e].ts] ELSE q.mark

LEMMA AddsKeeps ==
    ASSUME NEW q, NEW r, NEW e \in Events, NEW key, QueueSound(q), QueueTypes(r),
           Adds(q, r, e, key)
    PROVE  QueueSound(r)
<1> DEFINE t == Source[e].token
           last == Len(q.chain[t]) + 1
           new == Job(<<e>>, key, Raises(q, e))
<1>1. /\ QueueTypes(q) /\ t \in Tokens /\ Offered(q, r, e)
      /\ key \in {Single, BatchKey(q, e)} /\ (key # Single => ~IsSell(e))
      /\ \A i \in DOMAIN q.chain[t] : ~(q.chain[t][i].open /\ q.chain[t][i].key = key)
  BY TokenOf DEF QueueSound, Adds
<1>2. /\ r.chain[t][last] = new /\ last \in DOMAIN r.chain[t] /\ last \notin DOMAIN q.chain[t]
      /\ last \in Nat /\ \A i \in DOMAIN q.chain[t] : i \in Nat /\ i < last
      /\ \A u \in Tokens : /\ \A i \in DOMAIN q.chain[u] :
                                 i \in DOMAIN r.chain[u] /\ r.chain[u][i] = q.chain[u][i]
                           /\ \A i \in DOMAIN r.chain[u] :
                                 i \in DOMAIN q.chain[u] \/ (u = t /\ i = last)
  <2>1. q.chain[t] \in Seq(Jobs) /\ new \in Jobs
    <3>1. q.chain[t] \in Seq(Jobs) /\ <<e>> \in Seq(Events)
      BY <1>1, Shape
    <3>2. key \in {Single} \cup (Nat \X Nat)
      <4>1. Bucket(e) \in Nat
        BY SourceAssumption, LimitsAssumption DEF Bucket
      <4>2. q.mark[t] \in Nat
        BY <1>1, Shape
      <4>. QED
        BY <1>1, <4>1, <4>2 DEF BatchKey
    <3>3. Raises(q, e) \in BOOLEAN /\ (key # Single) \in BOOLEAN
      BY DEF Raises
    <3>. QED
      BY <3>1, <3>2, <3>3 DEF Job, Jobs
  <2>2. /\ r.chain[t] = Append(q.chain[t], new)
        /\ \A u \in Tokens \ {t} : r.chain[u] = q.chain[u]
    BY DEF Adds
  <2> HIDE DEF new, t
  <2> DEFINE s == q.chain[t]
  <2>3. s \in Seq(Jobs)
    BY <2>1
  <2> HIDE DEF s
  <2>4. /\ Append(s, new)[last] = new /\ last \in DOMAIN Append(s, new) /\ last \notin DOMAIN s
        /\ \A i \in DOMAIN s : i \in DOMAIN Append(s, new) /\ Append(s, new)[i] = s[i]
        /\ last \in Nat /\ \A i \in DOMAIN s : i \in Nat /\ i < last
        /\ \A i \in DOMAIN Append(s, new) : i \in DOMAIN s \/ i = last
    <3>1. last = Len(s) + 1
      BY DEF s
    <3> HIDE DEF last
    <3>. QED
      BY <2>1, <2>3, <3>1, LastPlace
  <2> HIDE DEF last
  <2>. QED
    BY <2>2, <2>4 DEF s
<1>3. /\ Elements(r.pending) = Elements(q.pending) \cup {e}
      /\ \A x, y \in DOMAIN r.pending : r.pending[x] = r.pending[y] => x = y
      /\ \A f, g : Arrived(r, f, g) => f \in Elements(q.pending) /\ (Arrived(q, f, g) \/ g = e)
      /\ BuysBounded(r) /\ e \notin Elements(q.pending)
  BY <1>1, OfferedWaits DEF Offered
<1>4. /\ \A u \in Tokens : q.mark[u] \in Nat /\ r.mark[u] \in Nat /\ q.mark[u] <= r.mark[u]
      /\ Raises(q, e) => q.mark[t] < r.mark[t]
      /\ ~Raises(q, e) => r.mark = q.mark
  <2>1. /\ q.mark \in [Tokens -> Nat] /\ Source[e].ts \in Nat
        /\ r.mark = IF Raises(q, e) THEN [q.mark EXCEPT ![t] = Source[e].ts] ELSE q.mark
        /\ Raises(q, e) => q.mark[t] < Source[e].ts
    BY <1>1, Shape, TokenOf DEF Adds, Raises
  <2> HIDE DEF t, last, new
  <2>2. CASE Raises(q, e)
    BY <1>1, <2>1, <2>2
  <2>3. CASE ~Raises(q, e)
    BY <2>1, <2>3
  <2>. QED
    BY <2>2, <2>3
<1>5. /\ DOMAIN new.events = {1} /\ new.events[1] = e /\ Elements(new.events) = {e}
      /\ new.events # <<>> /\ new.key = key /\ new.open = (key # Single)
      /\ new.raised = Raises(q, e)
  BY DEF Job, Elements
<1>6. \A u \in Tokens : \A i \in DOMAIN q.chain[u] :
         /\ JobSound(q, u, q.chain[u][i]) /\ q.chain[u][i] \in Jobs
         /\ \A k \in DOMAIN q.chain[u][i].events : q.chain[u][i].events[k] # e
         /\ e \notin Elements(q.chain[u][i].events)
  <2>1. TAKE u \in Tokens
  <2>2. TAKE i \in DOMAIN q.chain[u]
  <2>3. JobSound(q, u, q.chain[u][i]) /\ q.chain[u][i] \in Jobs
    BY <1>1, Shape DEF QueueSound
  <2>4. e \notin Elements(q.chain[u][i].events)
    BY <1>3, <2>3 DEF JobSound
  <2>. QED
    BY <2>3, <2>4 DEF Elements
<1>7. \A job \in Jobs : job.key # Single => job.key[2] \in Nat
  BY DEF Jobs
<1>8. BatchKey(q, e)[2] = q.mark[t]
  BY DEF BatchKey
<1>9. t = Source[e].token
  OBVIOUS
<1> HIDE DEF t, last, new
<1>10. ASSUME NEW u \in Tokens, NEW i \in DOMAIN r.chain[u] PROVE JobSound(r, u, r.chain[u][i])
  <2>1. CASE i \in DOMAIN q.chain[u]
    <3>1. JobSound(q, u, r.chain[u][i]) /\ r.chain[u][i] \in Jobs
      BY <1>2, <1>6, <2>1
    <3>2. r.chain[u][i].open =>
             r.chain[u][i].key # Single /\ r.chain[u][i].key[2] <= r.mark[u]
      BY <1>4, <1>7, <3>1 DEF JobSound
    <3>. QED
      BY <1>3, <3>1, <3>2 DEF JobSound
  <2>2. CASE u = t /\ i = last
    <3>1. new.open => key = BatchKey(q, e) /\ ~Raises(q, e)
      BY <1>1, <1>5 DEF Raises
    <3>2. new.open => new.key # Single /\ new.key[2] <= r.mark[t]
      BY <1>1, <1>4, <1>5, <1>8, <3>1
    <3>. QED
      BY <1>2, <1>3, <1>5, <1>9, <2>2, <3>1, <3>2 DEF JobSound
  <2>. QED
    BY <1>2, <2>1, <2>2
<1>11. OnePlace(r)
  <2>1. ASSUME NEW u \in Tokens, NEW i \in DOMAIN r.chain[u], NEW j \in DOMAIN r.chain[u],
               NEW k \in DOMAIN r.chain[u][i].events, NEW l \in DOMAIN r.chain[u][j].events,
               r.chain[u][i].events[k] = r.chain[u][j].events[l]
        PROVE  i = j /\ k = l
    <3>1. CASE i \in DOMAIN q.chain[u] /\ j \in DOMAIN q.chain[u]
      BY <1>2, <2>1, <3>1 DEF QueueSound, OnePlace
    <3>2. CASE i \notin DOMAIN q.chain[u]
      <4>1. r.chain[u][i] = new /\ k = 1 /\ r.chain[u][i].events[k] = e /\ i = last /\ u = t
        BY <1>2, <1>5, <3>2
      <4>2. j \notin DOMAIN q.chain[u]
        BY <1>2, <1>6, <2>1, <4>1
      <4>. QED
        BY <1>2, <1>5, <4>1, <4>2
    <3>3. CASE j \notin DOMAIN q.chain[u]
      <4>1. r.chain[u][j] = new /\ l = 1 /\ r.chain[u][j].events[l] = e /\ j = last /\ u = t
        BY <1>2, <1>5, <3>3
      <4>2. i \notin DOMAIN q.chain[u]
        BY <1>2, <1>6, <2>1, <4>1
      <4>. QED
        BY <1>2, <1>5, <4>1, <4>2
    <3>. QED
      BY <3>1, <3>2, <3>3
  <2>. QED
    BY <1>3, <2>1 DEF OnePlace
<1>12. Placed(r)
  <2>. SUFFICES ASSUME NEW f \in Elements(q.pending) \cup {e}
                PROVE  \E i \in DOMAIN r.chain[Source[f].token] :
                          f \in Elements(r.chain[Source[f].token][i].events)
    BY <1>3 DEF Placed
  <2>1. CASE f = e
    BY <1>2, <1>5, <1>9, <2>1
  <2>2. CASE f # e
    <3> DEFINE u == Source[f].token
    <3>1. PICK i \in DOMAIN q.chain[u] : f \in Elements(q.chain[u][i].events)
      BY <2>2 DEF QueueSound, Placed
    <3>2. u \in Tokens
      BY <1>1, <2>2, Shape, TokenOf
    <3> HIDE DEF u
    <3>3. i \in DOMAIN r.chain[u] /\ f \in Elements(r.chain[u][i].events)
      BY <1>2, <3>1, <3>2
    <3>. QED
      BY <3>3 DEF u
  <2>. QED
    BY <2>1, <2>2
<1>13. OneOpen(r)
  <2>1. ASSUME NEW u \in Tokens, NEW i \in DOMAIN r.chain[u], NEW j \in DOMAIN r.chain[u],
               r.chain[u][i].open, r.chain[u][j].open, r.chain[u][i].key = r.chain[u][j].key
        PROVE  i = j
    <3>1. CASE i \in DOMAIN q.chain[u] /\ j \in DOMAIN q.chain[u]
      BY <1>2, <2>1, <3>1 DEF QueueSound, OneOpen
    <3>2. CASE i \notin DOMAIN q.chain[u]
      BY <1>1, <1>2, <1>5, <2>1, <3>2
    <3>3. CASE j \notin DOMAIN q.chain[u]
      BY <1>1, <1>2, <1>5, <2>1, <3>3
    <3>. QED
      BY <3>1, <3>2, <3>3
  <2>. QED
    BY <2>1 DEF OneOpen
<1>14. Barrier(r)
  <2>1. ASSUME NEW u \in Tokens, NEW i \in DOMAIN r.chain[u], NEW j \in DOMAIN r.chain[u],
               r.chain[u][i].raised, j < i
        PROVE  /\ r.chain[u][j].open => r.chain[u][j].key[2] < r.mark[u]
               /\ \A f \in Elements(r.chain[u][i].events), g \in Elements(r.chain[u][j].events) :
                     ~Arrived(r, f, g)
    <3>1. j \in DOMAIN q.chain[u]
      BY <1>2, <2>1
    <3>2. /\ r.chain[u][j] = q.chain[u][j] /\ JobSound(q, u, r.chain[u][j])
          /\ r.chain[u][j] \in Jobs /\ e \notin Elements(r.chain[u][j].events)
      BY <1>2, <1>6, <3>1
    <3>3. r.chain[u][j].open => r.chain[u][j].key[2] \in Nat
      BY <1>7, <3>2 DEF JobSound
    <3>4. CASE i \in DOMAIN q.chain[u]
      <4>1. r.chain[u][i] = q.chain[u][i]
        BY <1>2, <3>4
      <4>2. /\ r.chain[u][j].open => r.chain[u][j].key[2] < q.mark[u]
            /\ \A f \in Elements(r.chain[u][i].events), g \in Elements(r.chain[u][j].events) :
                  ~Arrived(q, f, g)
        BY <2>1, <3>1, <3>2, <3>4, <4>1 DEF QueueSound, Barrier
      <4>. QED
        BY <1>3, <1>4, <3>2, <3>3, <4>2
    <3>5. CASE u = t /\ i = last
      <4>1. Raises(q, e) /\ Elements(r.chain[u][i].events) = {e}
        BY <1>2, <1>5, <2>1, <3>5
      <4>2. r.chain[u][j].open => r.chain[u][j].key[2] <= q.mark[u]
        BY <3>2 DEF JobSound
      <4>. QED
        BY <1>3, <1>4, <3>3, <3>5, <4>1, <4>2
    <3>. QED
      BY <1>2, <3>4, <3>5
  <2>. QED
    BY <2>1 DEF Barrier
<1>. QED
  BY <1>3, <1>10, <1>11, <1>12, <1>13, <1>14 DEF QueueSound

(* _schedule_copy keeps the queue sound, and so does the poll that calls   *)
(* it for each event of an answer.                                         *)
LEMMA EnqueueKeeps ==
    ASSUME NEW q, NEW e \in Events, QueueSound(q)
    PROVE  QueueSound(Enqueue(q, e))
<1> DEFINE r == Enqueue(q, e)
           t == Source[e].token
           key == IF Batching /\ ~IsSell(e) THEN BatchKey(q, e) ELSE Single
           batch == {i \in DOMAIN q.chain[t] : q.chain[t][i].open /\ q.chain[t][i].key = key}
           found == [i \in DOMAIN q.chain[t] |->
                        IF i \in batch THEN With(q.chain[t][i], e)
                        ELSE q.chain[t][i]]
<1>. SUFFICES ASSUME ~(Waits(q, e) \/ ~HasRoom(q, e)) PROVE QueueSound(r)
  BY DEF Enqueue
<1>1. /\ QueueTypes(q) /\ t \in Tokens /\ Source[e].ts \in Nat
      /\ \A i \in DOMAIN q.chain[t] : q.chain[t][i] \in Jobs /\ JobSound(q, t, q.chain[t][i])
  BY Shape, TokenOf DEF QueueSound
<1>2. /\ r.pending = Append(q.pending, e) /\ r.chain = Place(q, e)
      /\ r.mark = IF Raises(q, e) THEN [q.mark EXCEPT ![t] = Source[e].ts] ELSE q.mark
      /\ r = [pending |-> r.pending, chain |-> r.chain, mark |-> r.mark]
  BY DEF Enqueue
<1>3. /\ batch # {} => r.chain = [q.chain EXCEPT ![t] = found]
      /\ batch = {} => r.chain = [q.chain EXCEPT ![t] = Append(@, Job(<<e>>, key, Raises(q, e)))]
  BY <1>2 DEF Place
<1> HIDE DEF r
<1>4. Offered(q, r, e)
  BY <1>2 DEF Offered, Waits
<1>5. r.pending \in Seq(Events) /\ r.mark \in [Tokens -> Nat]
  BY <1>1, <1>2, Shape
<1>6. /\ key \in {Single, BatchKey(q, e)} /\ (key # Single => ~IsSell(e))
      /\ BatchKey(q, e) \in Nat \X Nat
  <2>1. Bucket(e) \in Nat
    BY SourceAssumption, LimitsAssumption DEF Bucket
  <2>2. q.mark[t] \in Nat
    BY <1>1, Shape
  <2>. QED
    BY <2>1, <2>2 DEF BatchKey
<1>7. q.chain \in [Tokens -> Seq(Jobs)] /\ q.chain[t] \in Seq(Jobs)
  BY <1>1, Shape
<1> HIDE DEF key
<1>8. CASE batch # {}
  <2>1. PICK b \in DOMAIN q.chain[t] : q.chain[t][b].open /\ q.chain[t][b].key = key
    BY <1>8
  <2>2. batch = {b}
    BY <1>1, <2>1 DEF QueueSound, OneOpen
  <2>3. key # Single
    BY <1>1, <2>1 DEF JobSound
  <2>4. key = BatchKey(q, e) /\ ~Raises(q, e)
    BY <1>6, <2>3 DEF Raises
  <2> DEFINE s == q.chain[t]
             job == With(s[b], e)
             joined == [i \in DOMAIN s |-> IF i = b THEN job ELSE s[i]]
  <2>5. r.chain = [q.chain EXCEPT ![t] = joined]
    <3>1. r.chain = [q.chain EXCEPT ![t] = found]
      BY <1>3, <1>8
    <3>2. found = joined
      <4> HIDE DEF batch
      <4>. QED
        BY <2>2
    <3>. QED
      BY <3>1, <3>2
  <2>6. job \in Jobs
    <3>1. s[b] \in Jobs /\ Append(s[b].events, e) \in Seq(Events)
      BY <1>1, <2>1, Shape
    <3> HIDE DEF s
    <3>. QED
      BY <3>1 DEF Jobs, With
  <2>7. joined \in Seq(Jobs) /\ DOMAIN joined = DOMAIN s
    <3> HIDE DEF job
    <3>1. s \in Seq(Jobs) /\ Len(s) \in Nat /\ DOMAIN s = 1..Len(s) /\ \A i \in DOMAIN s : s[i] \in Jobs
      BY <1>7
    <3> HIDE DEF s
    <3>2. joined \in [1..Len(s) -> Jobs]
      BY <2>6, <3>1
    <3>. QED
      BY <3>1, <3>2, SeqDef
  <2>8. /\ r.chain \in [Tokens -> Seq(Jobs)] /\ r.chain[t] = joined
        /\ \A u \in Tokens \ {t} : r.chain[u] = q.chain[u]
    <3> HIDE DEF joined, t
    <3>. QED
      BY <1>1, <1>7, <2>5, <2>7
  <2>9. QueueTypes(r)
    BY <1>2, <1>5, <2>8 DEF QueueTypes
  <2>10. Joins(q, r, e, b)
    <3>1. \A u \in Tokens : /\ DOMAIN r.chain[u] = DOMAIN q.chain[u]
                            /\ \A i \in DOMAIN q.chain[u] : r.chain[u][i] =
                                  IF u = t /\ i = b THEN job ELSE q.chain[u][i]
      BY <2>7, <2>8
    <3>. QED
      BY <1>2, <1>4, <2>1, <2>4, <3>1 DEF Joins
  <2>. QED
    BY <2>9, <2>10, JoinsKeeps
<1>9. CASE batch = {}
  <2> DEFINE new == Job(<<e>>, key, Raises(q, e))
  <2>1. new \in Jobs
    <3>1. <<e>> \in Seq(Events) /\ key \in {Single} \cup (Nat \X Nat)
      BY <1>6
    <3>2. Raises(q, e) \in BOOLEAN /\ (key # Single) \in BOOLEAN
      BY DEF Raises
    <3>. QED
      BY <3>1, <3>2 DEF Job, Jobs
  <2>2. r.chain = [q.chain EXCEPT ![t] = Append(@, new)]
    BY <1>3, <1>9
  <2> HIDE DEF new
  <2>3. /\ r.chain \in [Tokens -> Seq(Jobs)] /\ r.chain[t] = Append(q.chain[t], new)
        /\ \A u \in Tokens \ {t} : r.chain[u] = q.chain[u]
    BY <1>1, <1>7, <2>1, <2>2
  <2>4. QueueTypes(r)
    BY <1>2, <1>5, <2>3 DEF QueueTypes
  <2>5. Adds(q, r, e, key)
    BY <1>2, <1>4, <1>6, <1>9, <2>3 DEF Adds, new
  <2>. QED
    BY <2>4, <2>5, AddsKeeps
<1>. QED
  BY <1>8, <1>9

LEMMA EnqueueAllKeeps ==
    ASSUME NEW q, NEW s \in Seq(Events), QueueSound(q)
    PROVE  QueueSound(EnqueueAll(q, s))
<1>1. Len(s) \in Nat /\ \A i \in 1..Len(s) : s[i] \in Events
  OBVIOUS
<1>2. PICK after : /\ after[0] = q
                   /\ \A i \in 1..Len(s) : after[i] = Enqueue(after[i - 1], s[i])
                   /\ EnqueueAll(q, s) = after[Len(s)]
  BY <1>1, EnqueueUnfolds
<1> DEFINE bad == {i \in 0..Len(s) : ~QueueSound(after[i])}
<1>. SUFFICES ASSUME bad # {} PROVE FALSE
  BY <1>1, <1>2
<1>3. PICK i \in bad : \A m \in bad : i <= m
  <2>1. bad \in SUBSET Nat
    OBVIOUS
  <2> HIDE DEF bad
  <2>. QED
    BY <2>1, LeastNumber
<1>4. i \in 1..Len(s) /\ i - 1 \in 0..Len(s)
  BY <1>1, <1>2
<1>5. QueueSound(after[i - 1])
  BY <1>3, <1>4
<1>. QED
  BY <1>1, <1>2, <1>4, <1>5, EnqueueKeeps

-----------------------------------------------------------------------------
(* Of finitely many numbers there is a greatest one.                       *)
LEMMA GreatestNumber ==
    ASSUME NEW times \in SUBSET Nat, times # {}, IsFiniteSet(times)
    PROVE  \E t \in times : \A u \in times : u <= t
<1> DEFINE from(t) == {u \in times : t <= u}
           tails == {from(t) : t \in times}
<1>1. tails \subseteq FiniteSubsetsOf(Nat)
  <2>1. \A t \in times : from(t) \subseteq Nat /\ IsFiniteSet(from(t))
    BY FS_Subset
  <2>. QED
    BY <2>1 DEF FiniteSubsetsOf
<1>2. tails # {} /\ IsWellFoundedOn(StrictSubsetOrdering(Nat), FiniteSubsetsOf(Nat))
  BY FS_StrictSubsetOrderingWellFounded
<1>3. PICK x \in tails : \A y \in tails : <<y, x>> \notin StrictSubsetOrdering(Nat)
  <2> HIDE DEF tails
  <2>. QED
    BY <1>1, <1>2, WFMin
<1>4. PICK t \in times : x = from(t)
  OBVIOUS
<1>5. \A u \in times : u <= t
  <2>. SUFFICES ASSUME NEW u \in times, t < u PROVE FALSE
    OBVIOUS
  <2>1. from(u) \subseteq from(t) /\ t \in from(t) /\ t \notin from(u)
    <3>1. \A v \in times : u <= v => t <= v
      OBVIOUS
    <3>2. t <= t /\ ~(u <= t)
      OBVIOUS
    <3>. QED
      BY <3>1, <3>2
  <2>2. from(u) \in tails /\ from(t) \in tails
    OBVIOUS
  <2> HIDE DEF from, tails
  <2>3. <<from(u), from(t)>> \in StrictSubsetOrdering(Nat)
    BY <1>1, <2>1, <2>2 DEF StrictSubsetOrdering, FiniteSubsetsOf
  <2>. QED
    BY <1>3, <1>4, <2>2, <2>3
<1>. QED
  BY <1>5

LEMMA AfterIsGreater ==
    ASSUME NEW trades \in SUBSET Events, trades # {}
    PROVE  /\ After({Source[e].ts : e \in trades}) \in Nat \ {0}
           /\ \A e \in trades : Source[e].ts < After({Source[e2].ts : e2 \in trades})
<1> DEFINE times == {Source[e].ts : e \in trades}
<1>1. times \in SUBSET Nat /\ times # {}
  BY TokenOf
<1>2. IsFiniteSet(times)
  <2>1. IsFiniteSet(trades)
    BY EventsAssumption, FS_Subset
  <2>2. [e \in trades |-> Source[e].ts] \in Surjection(trades, times)
    BY DEF Surjection
  <2> HIDE DEF times
  <2>. QED
    BY <2>1, <2>2, FS_Surjection
<1>3. \A e \in trades : Source[e].ts \in times
  OBVIOUS
<1>4. /\ After(times) \in Nat \ {0} /\ \A u \in times : u < After(times)
  <2> HIDE DEF times
  <2>1. PICK t \in times : \A u \in times : u <= t
    BY <1>1, <1>2, GreatestNumber
  <2>2. /\ (CHOOSE v \in times : \A u \in times : u <= v) \in times
        /\ \A u \in times : u <= (CHOOSE v \in times : \A w \in times : w <= v)
    BY <2>1
  <2> DEFINE top == CHOOSE v \in times : \A u \in times : u <= v
  <2>3. top \in Nat /\ \A u \in times : u \in Nat /\ u <= top
    BY <1>1, <2>2
  <2>4. After(times) = 1 + top
    BY DEF After
  <2> HIDE DEF top
  <2>. QED
    BY <2>3, <2>4
<1>. QED
  BY <1>3, <1>4

(* The types of what is not in the queue structures; a poll that goes on   *)
(* after the lookup has trades to offer.                                   *)
StoreTypes ==
    /\ receipts \subseteq Events /\ secured \subseteq Events
    /\ initialized \in BOOLEAN /\ paused \in BOOLEAN /\ active \in BOOLEAN
    /\ lastTs \in Nat /\ floor \in Nat
    /\ poll.step = "read" => poll.seen # {}
    /\ poll.mark \in Nat
    /\ heard = {} \/ \E e \in Events : heard = {e}

SoundInv == QueueInv /\ StoreTypes /\ QueueSound(Queues)

LEMMA InitSoundInv == Init => SoundInv
<1>1. ASSUME Init PROVE StoreTypes
  <2>1. poll.step # "read" /\ poll.mark \in Nat
    BY <1>1 DEF Init, Idle, Poll
  <2>. QED
    BY <1>1, <2>1 DEF Init, StoreTypes
<1>. QED
  BY <1>1, InitQueue, InitSound DEF SoundInv

LEMMA StoreKeeps ==
    ASSUME SoundInv, [Next]_vars
    PROVE  StoreTypes'
<1>1. /\ StoreTypes /\ visible \subseteq Events /\ poll.seen \subseteq Events
      /\ poll.known \subseteq Events
      /\ poll.step \in {"idle", "fetched", "read", "scheduled"}
  BY DEF SoundInv, QueueInv, Subsets
<1>2. ASSUME NEW e \in Events, Hear(e) \/ Index(e) PROVE StoreTypes'
  BY <1>1, <1>2 DEF Hear, Index, StoreTypes, database, queues
<1>3. CASE ScheduleHeard \/ LoseHeard \/ TogglePause \/ ToggleLeader \/ UNCHANGED vars
  BY <1>1, <1>3 DEF ScheduleHeard, LoseHeard, TogglePause, ToggleLeader, vars, StoreTypes,
                    database, queues
<1>4. CASE PollFetch
  BY <1>1, <1>4 DEF PollFetch, StoreTypes, Poll, database, queues
<1>5. CASE PollInitialize
  <2>1. PICK now \in Times : lastTs' = IF poll.seen = {} THEN now
                                       ELSE After({Source[e].ts : e \in poll.seen})
    BY <1>5 DEF PollInitialize
  <2>2. lastTs' \in Nat
    BY <1>1, <2>1, TokenOf, AfterIsGreater DEF Times
  <2>. QED
    BY <1>1, <1>5, <2>2 DEF PollInitialize, StoreTypes, Idle, Poll
<1>6. CASE PollRead
  <2> DEFINE new == {e \in poll.seen : Source[e].ts >= SessionFloor}
  <2>1. /\ UNCHANGED <<receipts, secured, initialized, paused, active, lastTs, heard>>
        /\ floor' \in {floor, lastTs}
    BY <1>6 DEF PollRead, database, SessionFloor
  <2>2. \/ poll' = Idle
        \/ new # {} /\ poll' = Poll("read", new, new \cap receipts, 0)
    BY <1>6 DEF PollRead
  <2> HIDE DEF new
  <2>3. (poll'.step = "read" => poll'.seen # {}) /\ poll'.mark = 0
    BY <2>2 DEF Idle, Poll
  <2>. QED
    BY <1>1, <2>1, <2>3 DEF StoreTypes
<1>7. CASE PollSchedule
  <2> DEFINE offered == poll.seen \ poll.known
             times == {Source[e].ts : e \in offered}
             mark == Checkpoint(offered, poll.seen)
  <2>1. /\ UNCHANGED <<receipts, secured, initialized, paused, active, lastTs, floor, heard>>
        /\ poll.step = "read" /\ poll' = Poll("scheduled", offered, {}, mark)
    BY <1>7 DEF PollSchedule, database
  <2>2. mark \in Nat
    <3>1. CASE offered # {}
      <4>1. times \in SUBSET Nat /\ times # {}
        BY <1>1, <3>1, TokenOf
      <4>2. mark = Before(times)
        BY <3>1 DEF Checkpoint
      <4> HIDE DEF times, mark
      <4>. QED
        BY <4>1, <4>2, BeforeIsLeast
    <3>2. CASE offered = {}
      <4>1. poll.seen \in SUBSET Events /\ poll.seen # {}
        BY <1>1, <2>1 DEF StoreTypes
      <4>2. mark = After({Source[e].ts : e \in poll.seen}) - 1
        BY <3>2 DEF Checkpoint
      <4>3. After({Source[e].ts : e \in poll.seen}) \in Nat \ {0}
        BY <4>1, AfterIsGreater
      <4>. QED
        BY <4>2, <4>3
    <3>. QED
      BY <3>1, <3>2
  <2> HIDE DEF mark
  <2>. QED
    BY <1>1, <2>1, <2>2 DEF StoreTypes, Poll
<1>11. CASE PollCommit \/ PollFail
  BY <1>1, <1>11 DEF PollCommit, PollFail, StoreTypes, Idle, Poll, database
<1>8. ASSUME NEW t \in Tokens, CloseBatch(t) PROVE StoreTypes'
  BY <1>1, <1>8 DEF CloseBatch, StoreTypes, database
<1>9. ASSUME NEW t \in Tokens, Run(t) PROVE StoreTypes'
  <2>1. 1 \in DOMAIN chain[t] /\ Head(chain[t]).events \in Seq(Events)
    <3>1. QueueTypes(Queues) /\ chain = Queues.chain
      BY DEF SoundInv, QueueSound, Queues
    <3>2. chain[t] \in Seq(Jobs) /\ chain[t] # <<>>
      BY <1>9, <3>1, Shape DEF Run
    <3>3. Head(chain[t]) \in Jobs /\ 1 \in DOMAIN chain[t]
      BY <3>2
    <3>. QED
      BY <3>3 DEF Jobs
  <2>2. Elements(Head(chain[t]).events) \subseteq Events
    BY <2>1 DEF Elements
  <2>3. receipts' \subseteq Events
    BY <1>1, <1>9, <2>2 DEF Run, Committed, StoreTypes
  <2>. QED
    BY <1>1, <1>9, <2>3 DEF Run, StoreTypes
<1>10. CASE Reset \/ Abandon \/ Restart
  BY <1>1, <1>10 DEF Reset, Abandon, Restart, StoreTypes, database, Idle, Poll
<1>. QED
  BY <1>2, <1>3, <1>4, <1>5, <1>6, <1>7, <1>8, <1>9, <1>10, <1>11 DEF Next

LEMMA ByTimeIsSeq ==
    ASSUME NEW trades \in SUBSET Events, NEW s \in ByTime(trades)
    PROVE  s \in Seq(Events)
<1>1. Cardinality(trades) \in Nat
  BY EventsAssumption, FS_Subset, FS_CardinalityType
<1>2. s \in [1..Cardinality(trades) -> Events]
  BY DEF ByTime
<1>. QED
  BY <1>1, <1>2, SeqDef

LEMMA ClosedJob ==
    ASSUME NEW job \in Jobs
    PROVE  LET closed == Closed(job)
           IN  /\ closed \in Jobs /\ closed.events = job.events /\ closed.key = job.key
               /\ closed.raised = job.raised /\ closed.open = FALSE
BY DEF Jobs, Closed

LEMMA PoppedJob ==
    ASSUME NEW job \in Jobs, NEW key
    PROVE  LET popped == Popped(job, key)
           IN  /\ popped \in Jobs /\ popped.events = job.events /\ popped.key = job.key
               /\ popped.raised = job.raised
               /\ popped.open => job.open
BY ClosedJob DEF Popped

LEMMA QueueKeeps ==
    ASSUME SoundInv, [Next]_vars
    PROVE  QueueSound(Queues)'
<1> DEFINE q == Queues
           r == [pending |-> pending', chain |-> chain', mark |-> watermark']
<1>1. /\ QueueSound(q) /\ QueueTypes(q)
      /\ q = [pending |-> pending, chain |-> chain, mark |-> watermark]
      /\ Queues' = r
  BY DEF SoundInv, QueueSound, Queues
<1>2. /\ pending \in Seq(Events) /\ chain \in [Tokens -> Seq(Jobs)] /\ watermark \in [Tokens -> Nat]
      /\ \A t \in Tokens : /\ Len(chain[t]) \in Nat /\ DOMAIN chain[t] = 1..Len(chain[t])
                           /\ \A i \in DOMAIN chain[t] : chain[t][i] \in Jobs
  BY <1>1, Shape
<1>. SUFFICES QueueSound(r)
  BY <1>1
<1>3. CASE UNCHANGED queues
  BY <1>1, <1>3 DEF queues
<1>4. CASE ScheduleHeard
  <2>1. PICK e \in heard : Becomes(Enqueue(q, e))
    BY <1>4 DEF ScheduleHeard
  <2>2. e \in Events
    BY DEF SoundInv, StoreTypes
  <2>3. QueueSound(Enqueue(q, e))
    BY <1>1, <2>2, EnqueueKeeps
  <2> HIDE DEF q
  <2>4. Enqueue(q, e) = r
    <3>1. Enqueue(q, e) \in [pending : Seq(Events), chain : [Tokens -> Seq(Jobs)], mark : [Tokens -> Nat]]
      BY <2>3 DEF QueueSound, QueueTypes
    <3>. QED
      BY <2>1, <3>1 DEF Becomes
  <2>. QED
    BY <2>3, <2>4
<1>5. CASE PollSchedule
  <2>1. PICK s \in ByTime(poll.seen \ poll.known) : Becomes(EnqueueAll(q, s))
    BY <1>5 DEF PollSchedule
  <2>2. s \in Seq(Events)
    BY <2>1, ByTimeIsSeq DEF SoundInv, QueueInv, Subsets
  <2>3. QueueSound(EnqueueAll(q, s))
    BY <1>1, <2>2, EnqueueAllKeeps
  <2> HIDE DEF q
  <2>4. EnqueueAll(q, s) = r
    <3>1. EnqueueAll(q, s) \in [pending : Seq(Events), chain : [Tokens -> Seq(Jobs)], mark : [Tokens -> Nat]]
      BY <2>3 DEF QueueSound, QueueTypes
    <3>. QED
      BY <2>1, <3>1 DEF Becomes
  <2>. QED
    BY <2>3, <2>4
<1>6. ASSUME NEW t \in Tokens, CloseBatch(t) PROVE QueueSound(r)
  <2> DEFINE key == Head(chain[t]).key
             head == [Closed(chain[t][1]) EXCEPT !.key = Single]
             rest == [i \in DOMAIN chain[t] |-> IF i = 1 THEN head ELSE Popped(chain[t][i], key)]
  <2>1. /\ pending' = pending /\ watermark' = watermark
        /\ chain' = [chain EXCEPT ![t] = rest]
    BY <1>2, <1>6 DEF CloseBatch
  <2>2. 1 \in DOMAIN chain[t]
    BY <1>2, <1>6 DEF CloseBatch
  <2>3. head \in Jobs /\ head.events = chain[t][1].events
        /\ head.raised = chain[t][1].raised /\ ~head.open
    <3> DEFINE closed == Closed(chain[t][1])
    <3>1. /\ closed \in Jobs /\ closed.events = chain[t][1].events
          /\ closed.raised = chain[t][1].raised /\ closed.open = FALSE
      BY <1>2, <2>2, ClosedJob
    <3> HIDE DEF closed
    <3>2. LET h == [closed EXCEPT !.key = Single]
          IN  h \in Jobs /\ h.events = closed.events /\ h.raised = closed.raised /\ ~h.open
      BY <3>1 DEF Jobs
    <3>. QED
      BY <3>1, <3>2 DEF closed
  <2> HIDE DEF key, head
  <2>4. ASSUME NEW i \in DOMAIN chain[t]
        PROVE  /\ rest[i] \in Jobs /\ rest[i].events = chain[t][i].events
               /\ rest[i].raised = chain[t][i].raised
               /\ rest[i].open => chain[t][i].open /\ rest[i].key = chain[t][i].key
    <3>1. CASE i = 1
      BY <2>2, <2>3, <3>1
    <3>2. CASE i # 1
      <4>1. rest[i] = Popped(chain[t][i], key)
        BY <3>2
      <4> HIDE DEF rest
      <4>. QED
        BY <1>2, <4>1, PoppedJob
    <3>. QED
      BY <3>1, <3>2
  <2>5. DOMAIN rest = DOMAIN chain[t] /\ rest \in Seq(Jobs)
    <3>1. rest \in [1..Len(chain[t]) -> Jobs]
      BY <1>2, <2>4
    <3>. QED
      BY <1>2, <3>1, SeqDef
  <2> HIDE DEF rest
  <2>6. chain' \in [Tokens -> Seq(Jobs)]
    BY <1>2, <2>1, <2>5
  <2>7. QueueTypes(r)
    BY <1>2, <2>1, <2>6 DEF QueueTypes
  <2>8. \A u \in Tokens : chain'[u] = IF u = t THEN rest ELSE chain[u]
    BY <1>2, <2>1
  <2>9. Closes(q, r)
    BY <1>1, <2>1, <2>4, <2>5, <2>8 DEF Closes
  <2>. QED
    BY <1>1, <2>7, <2>9, ClosesKeeps
<1>7. ASSUME NEW t \in Tokens, Run(t) PROVE QueueSound(r)
  <2>1. /\ chain[t] # <<>> /\ chain' = [chain EXCEPT ![t] = Tail(@)] /\ watermark' = watermark
        /\ pending' = Without(pending, Elements(Head(chain[t]).events))
    BY <1>7 DEF Run
  <2>2. Head(chain[t]) = chain[t][1]
    BY <1>2, <2>1
  <2>3. r = Done(q, t)
    BY <1>1, <2>1, <2>2 DEF Done
  <2>. QED
    BY <1>1, <2>1, <2>3, DoneKeeps
<1>8. CASE Reset
  <2>1. /\ pending' = pending /\ watermark' = [t \in Tokens |-> 0]
        /\ chain' = [t \in Tokens |-> BatchesCleared(chain[t])]
    BY <1>8 DEF Reset
  <2>2. ASSUME NEW t \in Tokens
        PROVE  /\ chain'[t] \in Seq(Jobs) /\ DOMAIN chain'[t] = DOMAIN chain[t]
               /\ \A i \in DOMAIN chain[t] : chain'[t][i] = Closed(chain[t][i])
    <3>1. chain'[t] = [i \in DOMAIN chain[t] |-> Closed(chain[t][i])]
      BY <2>1 DEF BatchesCleared
    <3>2. \A i \in DOMAIN chain[t] : Closed(chain[t][i]) \in Jobs
      BY <1>2, ClosedJob
    <3>3. chain'[t] \in [1..Len(chain[t]) -> Jobs]
      BY <1>2, <3>1, <3>2
    <3>. QED
      BY <1>2, <3>1, <3>3, SeqDef
  <2>3. chain' \in [Tokens -> Seq(Jobs)]
    BY <2>1, <2>2
  <2>4. QueueTypes(r)
    BY <1>2, <2>1, <2>3 DEF QueueTypes
  <2>5. \A t \in Tokens : \A i \in DOMAIN chain[t] :
           /\ chain'[t][i].events = chain[t][i].events /\ chain'[t][i].key = chain[t][i].key
           /\ chain'[t][i].raised = chain[t][i].raised /\ ~chain'[t][i].open
    <3>1. TAKE t \in Tokens
    <3>2. TAKE i \in DOMAIN chain[t]
    <3> DEFINE job == chain[t][i]
    <3>3. job \in Jobs /\ chain'[t][i] = Closed(job)
      BY <1>2, <2>2
    <3> HIDE DEF job
    <3>4. /\ chain'[t][i].events = job.events /\ chain'[t][i].key = job.key
          /\ chain'[t][i].raised = job.raised /\ ~chain'[t][i].open
      BY <3>3, ClosedJob
    <3>. QED
      BY <3>4 DEF job
  <2>6. Closes(q, r)
    BY <1>1, <2>1, <2>2, <2>5 DEF Closes
  <2>. QED
    BY <1>1, <2>4, <2>6, ClosesKeeps
<1>9. CASE Abandon \/ Restart
  <2>1. pending' = <<>> /\ chain' = [t \in Tokens |-> <<>>] /\ watermark' \in [Tokens -> Nat]
    BY <1>2, <1>9 DEF Abandon, Restart
  <2>2. r.pending = <<>> /\ \A t \in Tokens : r.chain[t] = <<>>
    BY <2>1
  <2>3. QueueTypes(r)
    BY <2>1 DEF QueueTypes
  <2> HIDE DEF r
  <2>4. Elements(r.pending) = {} /\ Buys(r) = {}
    BY <2>2 DEF Elements, Buys
  <2>5. BuysBounded(r)
    BY <2>4, FS_EmptySet, LimitsAssumption DEF BuysBounded
  <2>. QED
    BY <2>2, <2>3, <2>4, <2>5 DEF QueueSound, OnePlace, Placed, OneOpen, Barrier
<1>10. ASSUME NEW e \in Events, Hear(e) \/ Index(e) PROVE UNCHANGED queues
  BY <1>10 DEF Hear, Index, queues
<1>11. ASSUME \/ LoseHeard \/ PollFetch \/ PollInitialize \/ PollRead \/ PollCommit
              \/ PollFail \/ TogglePause \/ ToggleLeader \/ UNCHANGED vars
       PROVE  UNCHANGED queues
  BY <1>11 DEF LoseHeard, PollFetch, PollInitialize, PollRead, PollCommit, PollFail, TogglePause,
               ToggleLeader, vars, queues
<1>. QED
  BY <1>3, <1>4, <1>5, <1>6, <1>7, <1>8, <1>9, <1>10, <1>11 DEF Next

THEOREM SoundInvariant == Spec => []SoundInv
<1>1. SoundInv /\ [Next]_vars => SoundInv'
  BY StoreKeeps, QueueKeeps, StepQueue DEF SoundInv
<1>. QED
  BY <1>1, InitSoundInv, PTL DEF Spec

LEMMA QueueFacts ==
    ASSUME QueueSound(Queues)
    PROVE  /\ pending \in Seq(Events) /\ Len(pending) \in Nat /\ DOMAIN pending = 1..Len(pending)
           /\ Elements(pending) \subseteq Events
           /\ \A x, y \in DOMAIN pending : pending[x] = pending[y] => x = y
           /\ watermark \in [Tokens -> Nat]
           /\ \A t \in Tokens : \A i \in DOMAIN chain[t] :
                 /\ i \in 1..Len(chain[t]) /\ Len(chain[t]) \in Nat
                 /\ DOMAIN chain[t] = 1..Len(chain[t])
                 /\ chain[t][i] \in Jobs /\ chain[t][i].events \in Seq(Events)
                 /\ JobSound(Queues, t, chain[t][i])
           /\ \A t \in Tokens : \A i, j \in DOMAIN chain[t] :
                 \A k \in DOMAIN chain[t][i].events, l \in DOMAIN chain[t][j].events :
                    chain[t][i].events[k] = chain[t][j].events[l] => i = j /\ k = l
<1>1. Queues.pending = pending /\ Queues.chain = chain /\ Queues.mark = watermark
  BY DEF Queues
<1>2. /\ pending \in Seq(Events) /\ Len(pending) \in Nat /\ DOMAIN pending = 1..Len(pending)
      /\ Elements(pending) \subseteq Events /\ watermark \in [Tokens -> Nat]
      /\ \A t \in Tokens :
            /\ Len(chain[t]) \in Nat /\ DOMAIN chain[t] = 1..Len(chain[t])
            /\ \A i \in DOMAIN chain[t] : chain[t][i] \in Jobs /\ chain[t][i].events \in Seq(Events)
  BY <1>1, Shape DEF QueueSound
<1>3. \A t \in Tokens : \A i \in DOMAIN chain[t] : JobSound(Queues, t, chain[t][i])
  BY <1>1 DEF QueueSound
<1>. QED
  BY <1>1, <1>2, <1>3 DEF QueueSound, OnePlace

LEMMA SoundTypes == SoundInv => TypeOK
<1>. SUFFICES ASSUME SoundInv PROVE TypeOK
  OBVIOUS
<1>1. QueueSound(Queues)
  BY DEF SoundInv
<1>2. /\ pending \in Seq(Events) /\ watermark \in [Tokens -> Nat]
      /\ \A t \in Tokens : \A i \in DOMAIN chain[t] :
            /\ chain[t][i].events \in Seq(Events) /\ chain[t][i].events # <<>>
            /\ chain[t][i].open => chain[t][i].key # Single
  BY <1>1, QueueFacts DEF JobSound
<1>3. heard \subseteq Events /\ Cardinality(heard) <= 1
  <2>1. CASE heard = {}
    BY <2>1, FS_EmptySet
  <2>2. CASE heard # {}
    <3>1. PICK e \in Events : heard = {e}
      BY <2>2 DEF SoundInv, StoreTypes
    <3>2. Cardinality({e}) = 1
      BY FS_Singleton
    <3>. QED
      BY <3>1, <3>2
  <2>. QED
    BY <2>1, <2>2
<1>4. poll \in [step : {"idle", "fetched", "read", "scheduled"}, seen : SUBSET Events,
                known : SUBSET Events, mark : Nat]
  <2>1. poll.mark \in Nat
    BY DEF SoundInv, StoreTypes
  <2>. QED
    BY <2>1 DEF SoundInv, QueueInv, Subsets, Poll
<1>5. visible \subseteq Events
  BY DEF SoundInv, QueueInv, Subsets
<1>. QED
  BY <1>2, <1>3, <1>4, <1>5 DEF SoundInv, StoreTypes, TypeOK

LEMMA SoundBarrier == SoundInv => BarrierKept
<1>. SUFFICES ASSUME SoundInv, NEW s \in Elements(pending), NEW b \in Elements(pending),
                     Raised(s), ArrivedBefore(s, b), Ahead(b, s)
              PROVE  FALSE
  BY DEF BarrierKept
<1>1. QueueSound(Queues) /\ Barrier(Queues)
  BY DEF SoundInv, QueueSound
<1>2. PICK t \in Tokens : \E i, j \in DOMAIN chain[t] :
               i < j /\ b \in Elements(chain[t][i].events) /\ s \in Elements(chain[t][j].events)
  BY DEF Ahead
<1>3. PICK i \in DOMAIN chain[t], j \in DOMAIN chain[t] :
               i < j /\ b \in Elements(chain[t][i].events) /\ s \in Elements(chain[t][j].events)
  BY <1>2
<1>4. Source[s].token = t
  BY <1>1, <1>3, QueueFacts DEF JobSound
<1>5. PICK m \in DOMAIN chain[t] : chain[t][m].raised /\ s \in Elements(chain[t][m].events)
  BY <1>4 DEF Raised
<1>6. m = j
  <2>1. PICK k \in DOMAIN chain[t][m].events : chain[t][m].events[k] = s
    BY <1>5 DEF Elements
  <2>2. PICK l \in DOMAIN chain[t][j].events : chain[t][j].events[l] = s
    BY <1>3 DEF Elements
  <2>. QED
    BY <1>1, <2>1, <2>2, QueueFacts
<1>7. Arrived(Queues, s, b)
  BY DEF ArrivedBefore, Arrived, Queues
<1>8. chain = Queues.chain
  BY DEF Queues
<1>. QED
  BY <1>1, <1>3, <1>5, <1>6, <1>7, <1>8 DEF Barrier

(* As many events wait as there are places in _pending.                    *)
LEMMA WaitingCount ==
    ASSUME QueueSound(Queues)
    PROVE  /\ IsFiniteSet(Elements(pending)) /\ Cardinality(Elements(pending)) = Len(pending)
           /\ Len(pending) \in Nat
<1>1. /\ Len(pending) \in Nat /\ DOMAIN pending = 1..Len(pending)
      /\ Elements(pending) \subseteq Events
      /\ \A x, y \in DOMAIN pending : pending[x] = pending[y] => x = y
  BY QueueFacts
<1> DEFINE f == [x \in 1..Len(pending) |-> pending[x]]
<1>2. f \in Bijection(1..Len(pending), Elements(pending))
  BY <1>1 DEF Bijection, Injection, IsInjective, Surjection, Elements
<1>3. IsFiniteSet(1..Len(pending)) /\ Cardinality(1..Len(pending)) = Len(pending)
  <2>1. ASSUME NEW m \in Nat PROVE IsFiniteSet(1..m) /\ Cardinality(1..m) = m
    <3>1. 1 \in Int /\ m \in Int
      OBVIOUS
    <3>2. /\ IsFiniteSet(1..m)
          /\ Cardinality(1..m) = IF 1 > m THEN 0 ELSE m - 1 + 1
      BY <3>1, FS_Interval
    <3>. QED
      BY <3>2
  <2>. QED
    BY <1>1, <2>1
<1>4. IsFiniteSet(Elements(pending))
  BY <1>1, EventsAssumption, FS_Subset
<1> HIDE DEF f
<1>5. Cardinality(Elements(pending)) = Cardinality(1..Len(pending))
  BY <1>2, <1>3, FS_Bijection DEF ExistsBijection
<1>. QED
  BY <1>1, <1>3, <1>4, <1>5

LEMMA SoundRoom == SoundInv => SellsGetRoom
<1>. SUFFICES ASSUME SoundInv, NEW e \in Events, IsSell(e), Refused(e)
              PROVE  Cardinality({f \in Elements(pending) : IsSell(f)}) >= SellReserve
  BY DEF SellsGetRoom
<1> DEFINE waiting == Elements(pending)
           sells == {f \in waiting : IsSell(f)}
           buys == {f \in waiting : ~IsSell(f)}
<1>1. QueueSound(Queues) /\ Cardinality(buys) <= QueueLimit
  BY DEF SoundInv, QueueSound, BuysBounded, Buys, Queues
<1>2. Len(pending) >= QueueLimit + SellReserve
  BY <1>1, WaitingCount, LimitsAssumption DEF Refused, HasRoom, Queues
<1>3. IsFiniteSet(waiting) /\ Cardinality(waiting) = Len(pending) /\ Len(pending) \in Nat
  BY <1>1, WaitingCount
<1>4. IsFiniteSet(sells) /\ IsFiniteSet(buys)
  BY <1>3, FS_Subset
<1>5. waiting = sells \cup buys /\ sells \cap buys = {}
  OBVIOUS
<1> HIDE DEF waiting, sells, buys
<1>6. /\ Cardinality(waiting) = Cardinality(sells) + Cardinality(buys) - Cardinality(sells \cap buys)
      /\ Cardinality(sells \cap buys) = 0
  BY <1>4, <1>5, FS_Union, FS_EmptySet
<1>7. Cardinality(sells) \in Nat /\ Cardinality(buys) \in Nat
  BY <1>4, FS_CardinalityType
<1>8. Cardinality(sells) >= SellReserve
  BY <1>1, <1>2, <1>3, <1>6, <1>7, LimitsAssumption
<1>. QED
  BY <1>8 DEF sells, waiting

(* A worker has no more events than wait, and a token no more workers.     *)
LEMMA WorkersBounded ==
    ASSUME QueueSound(Queues), NEW t \in Tokens, NEW i \in DOMAIN chain[t]
    PROVE  /\ i \in 1..Len(pending)
           /\ \A k \in DOMAIN chain[t][i].events : k \in 1..Len(pending)
<1> DEFINE waiting == Elements(pending)
           n == Len(chain[t])
           events == chain[t][i].events
<1>1. IsFiniteSet(waiting) /\ Cardinality(waiting) = Len(pending) /\ Len(pending) \in Nat
  BY WaitingCount
<1>2. n \in Nat /\ DOMAIN chain[t] = 1..n /\ i \in 1..n
  BY QueueFacts
<1>3. \A j \in DOMAIN chain[t] :
         /\ chain[t][j].events \in Seq(Events) /\ chain[t][j].events # <<>>
         /\ \A k \in DOMAIN chain[t][j].events : chain[t][j].events[k] \in waiting
  <2>1. TAKE j \in DOMAIN chain[t]
  <2>2. JobSound(Queues, t, chain[t][j]) /\ chain[t][j].events \in Seq(Events)
    BY QueueFacts
  <2>3. Elements(chain[t][j].events) \subseteq waiting
    BY <2>2 DEF JobSound, Queues
  <2>. QED
    BY <2>2, <2>3 DEF JobSound, Elements
<1>4. \A j, m \in DOMAIN chain[t] :
         \A k \in DOMAIN chain[t][j].events, l \in DOMAIN chain[t][m].events :
            chain[t][j].events[k] = chain[t][m].events[l] => j = m /\ k = l
  BY QueueFacts
<1>5. n <= Len(pending)
  <2> DEFINE f == [j \in 1..n |-> chain[t][j].events[1]]
  <2>1. \A j \in 1..n : 1 \in DOMAIN chain[t][j].events
    BY <1>2, <1>3
  <2>2. f \in Injection(1..n, waiting)
    BY <1>2, <1>3, <1>4, <2>1 DEF Injection, IsInjective
  <2>3. Cardinality(1..n) = n
    BY <1>2, FS_Interval
  <2> HIDE DEF f, waiting
  <2>4. Cardinality(1..n) <= Cardinality(waiting)
    BY <1>1, <2>2, FS_Injection
  <2>. QED
    BY <1>1, <2>3, <2>4
<1>6. Len(events) \in Nat /\ DOMAIN events = 1..Len(events)
  BY <1>3
<1>7. Len(events) <= Len(pending)
  <2> DEFINE f == [k \in 1..Len(events) |-> events[k]]
  <2>1. f \in Injection(1..Len(events), waiting)
    <3>1. \A k \in 1..Len(events) : events[k] \in waiting
      BY <1>3, <1>6
    <3>2. \A k, l \in 1..Len(events) : events[k] = events[l] => k = l
      BY <1>4, <1>6
    <3> HIDE DEF events, waiting
    <3>. QED
      BY <3>1, <3>2 DEF Injection, IsInjective
  <2>2. Cardinality(1..Len(events)) = Len(events)
    BY <1>6, FS_Interval
  <2> HIDE DEF f, waiting, events
  <2>3. Cardinality(1..Len(events)) <= Cardinality(waiting)
    BY <1>1, <2>1, FS_Injection
  <2>. QED
    BY <1>1, <2>2, <2>3
<1>. QED
  BY <1>1, <1>2, <1>5, <1>6, <1>7

LEMMA SoundPlaces == SoundInv => PendingHasWorker
<1>. SUFFICES ASSUME SoundInv PROVE PendingHasWorker
  OBVIOUS
<1> DEFINE n == Len(pending)
           waiting == Elements(pending)
           places == {p \in Tokens \X (1..n) \X (1..n) :
                         /\ p[2] \in DOMAIN chain[p[1]]
                         /\ p[3] \in DOMAIN chain[p[1]][p[2]].events}
           at(p) == chain[p[1]][p[2]].events[p[3]]
<1>1. QueueSound(Queues)
  BY DEF SoundInv
<1>2. \A p \in places : at(p) \in waiting /\ Source[at(p)].token = p[1]
  <2>1. TAKE p \in places
  <2>2. p[1] \in Tokens /\ p[2] \in DOMAIN chain[p[1]]
    OBVIOUS
  <2>3. JobSound(Queues, p[1], chain[p[1]][p[2]])
    BY <1>1, <2>2, QueueFacts
  <2>4. at(p) \in Elements(chain[p[1]][p[2]].events)
    BY DEF Elements
  <2>. QED
    BY <2>3, <2>4 DEF JobSound, Queues
<1>3. \A p, r \in places : at(p) = at(r) => p = r
  <2>1. SUFFICES ASSUME NEW p \in places, NEW r \in places, at(p) = at(r) PROVE p = r
    OBVIOUS
  <2>2. p[1] = r[1]
    <3> HIDE DEF places, at
    <3>. QED
      BY <1>2, <2>1
  <2>3. p[1] \in Tokens /\ p[2] \in DOMAIN chain[p[1]] /\ r[2] \in DOMAIN chain[p[1]]
    BY <2>2
  <2>4. p[2] = r[2] /\ p[3] = r[3]
    <3>1. /\ p[3] \in DOMAIN chain[p[1]][p[2]].events
          /\ r[3] \in DOMAIN chain[p[1]][r[2]].events
          /\ chain[p[1]][p[2]].events[p[3]] = chain[p[1]][r[2]].events[r[3]]
      BY <2>1, <2>2
    <3>2. \A t \in Tokens : \A i, j \in DOMAIN chain[t] :
             \A k \in DOMAIN chain[t][i].events, l \in DOMAIN chain[t][j].events :
                chain[t][i].events[k] = chain[t][j].events[l] => i = j /\ k = l
      BY <1>1, QueueFacts
    <3> HIDE DEF places, at
    <3>. QED
      BY <2>3, <3>1, <3>2
  <2>. QED
    BY <2>2, <2>4
<1>4. \A e \in waiting : \E p \in places : at(p) = e
  <2>1. TAKE e \in waiting
  <2> DEFINE t == Source[e].token
  <2>2. t \in Tokens
    BY <1>1, QueueFacts, TokenOf
  <2>3. PICK i \in DOMAIN chain[t] : e \in Elements(chain[t][i].events)
    BY <1>1 DEF QueueSound, Placed, Queues
  <2>4. PICK k \in DOMAIN chain[t][i].events : chain[t][i].events[k] = e
    BY <2>3 DEF Elements
  <2>5. i \in 1..n /\ k \in 1..n
    BY <1>1, <2>2, WorkersBounded
  <2> HIDE DEF t, n
  <2>6. <<t, i, k>> \in places /\ at(<<t, i, k>>) = e
    BY <2>2, <2>4, <2>5
  <2> HIDE DEF places, at
  <2>. QED
    BY <2>6
<1>5. IsFiniteSet(waiting) /\ Cardinality(waiting) = n
  BY <1>1, WaitingCount
<1>6. {at(p) : p \in places} = waiting
  <2> HIDE DEF places, at, waiting
  <2>. QED
    BY <1>2, <1>4
<1>7. Cardinality(places) = Cardinality(waiting)
  <2> DEFINE f == [p \in places |-> at(p)]
  <2> HIDE DEF places, at, waiting
  <2>1. f \in Injection(places, waiting) /\ f \in Surjection(places, waiting)
    BY <1>2, <1>3, <1>4 DEF Injection, IsInjective, Surjection
  <2> HIDE DEF f
  <2>. QED
    BY <1>5, <2>1, FS_Injection
<1>. QED
  BY <1>5, <1>6, <1>7 DEF PendingHasWorker

-----------------------------------------------------------------------------
(* The types of the queue, the poll and what is stored, checkpoint and     *)
(* floor among them, whatever the stream and the polls deliver.            *)
THEOREM TypesHold == Spec => []TypeOK
  BY SoundInvariant, SoundTypes, PTL

(* _pending and the workers of _schedule_copy agree: no event waits        *)
(* without a worker, none is worked on twice.                              *)
THEOREM PendingHasWorkerHolds == Spec => []PendingHasWorker
  BY SoundInvariant, SoundPlaces, PTL

(* A BUY never overtakes a SELL that was news when it arrived before it:   *)
(* the watermark in a batch's key keeps _schedule_copy from joining it to  *)
(* a batch ahead of the SELL.                                              *)
THEOREM BarrierKeptHolds == Spec => []BarrierKept
  BY SoundInvariant, SoundBarrier, PTL

(* However many BUYs wait, copy_queue_limit refuses a SELL only when its   *)
(* reserve is full of SELLs.                                               *)
THEOREM SellsGetRoomHolds == Spec => []SellsGetRoom
  BY SoundInvariant, SoundRoom, PTL
=============================================================================
