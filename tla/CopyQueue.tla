----------------------------- MODULE CopyQueue -----------------------------
(***************************************************************************)
(* From a leader's trade to a copy: the RTDS stream and the REST poll hand *)
(* the same events to _schedule_copy of app/engine.py, which bounds the    *)
(* number of pending copies, joins BUY fragments into batches and chains   *)
(* the workers of one token; a worker commits the receipts of its events.  *)
(* The poll keeps a floor in memory and a checkpoint in the database; a    *)
(* restart keeps only the checkpoint and the receipts, a reset of the      *)
(* database only the checkpoint.                                           *)
(*                                                                         *)
(* One leader with several tokens: leaders share nothing here but the      *)
(* limit of the queue.  What a worker decides about its events is in       *)
(* CopyLedger; here it either commits all of them or leaves no trace.      *)
(* A definition introduced as a "slip" is a plausible mistake in the code  *)
(* below it; no action uses it.                                            *)
(***************************************************************************)
EXTENDS Integers, Sequences, FiniteSets

CONSTANTS
    Events, Tokens,
    Source,         \* event -> token, side, ts
    Window,         \* how many trades one answer of the activity lists
    Burst,          \* smart_sizing_burst_seconds
    Batching,       \* SMART_SIZING_ENABLED, with every price in range
    QueueLimit,     \* copy_queue_limit
    SellReserve,    \* what a SELL may exceed it by (64 in the code)
    Environment     \* bound: what happens beside the polls and workers

VARIABLES
    visible,        \* trades the REST activity shows (external)
    receipts,       \* SourceReceipt rows
    initialized, lastTs,    \* Leader.initialized, Leader.last_timestamp
    paused, active,         \* Account.paused, Leader.active
    pending,        \* _pending, in the order of its keys
    chain,          \* the unfinished workers of each token, oldest first
    watermark,      \* _sell_watermarks
    floor,          \* _leader_floors; 0 when there is none
    poll,           \* the running poll of the leader
    heard,          \* the RTDS event that is being looked up
    secured         \* history: what a poll has offered to the queue before its
                    \* checkpoint was committed, and no reset has wiped

database == <<receipts, initialized, lastTs, paused, active>>
queues == <<pending, chain, watermark>>
vars == <<visible, database, queues, floor, poll, heard, secured>>

Times == {Source[e].ts : e \in Events}
After(times) == 1 + CHOOSE t \in times : \A u \in times : u <= t
Before(times) == CHOOSE t \in times : \A u \in times : t <= u

ASSUME SourceAssumption ==
    Source \in [Events -> [token : Tokens, side : {"BUY", "SELL"}, ts : Nat \ {0}]]
ASSUME LimitsAssumption ==
    /\ Burst \in Nat \ {0} /\ Batching \in BOOLEAN
    /\ QueueLimit \in Nat /\ SellReserve \in Nat
    /\ Window \in Nat \ {0}
    /\ Environment \subseteq {"pause", "switch", "rtds", "reset", "stop", "fail"}
ASSUME EventsAssumption == IsFiniteSet(Events)

IsSell(e) == Source[e].side = "SELL"
Elements(s) == {s[i] : i \in DOMAIN s}

(* A worker: its events, the key of its batch, whether _buy_batches still  *)
(* leads to it, and whether it is a SELL that raised the watermark.        *)
Single == <<>>

(* Slip: every worker is entered in _buy_batches.                          *)
OpenJob(events, key, raised) ==
    [events |-> events, key |-> key, open |-> TRUE, raised |-> raised]
Job(events, key, raised) ==
    [events |-> events, key |-> key, open |-> key # Single, raised |-> raised]

(* A poll: what its answer listed, what of it was known, and once it has    *)
(* scheduled the rest, the checkpoint it is going to commit.               *)
Poll(step, seen, known, mark) == [step |-> step, seen |-> seen, known |-> known, mark |-> mark]
Idle == Poll("idle", {}, {}, 0)

TypeOK ==
    /\ visible \subseteq Events /\ receipts \subseteq Events /\ secured \subseteq Events
    /\ initialized \in BOOLEAN /\ lastTs \in Nat
    /\ paused \in BOOLEAN /\ active \in BOOLEAN
    /\ pending \in Seq(Events)
    /\ \A t \in Tokens : \A i \in DOMAIN chain[t] :
          /\ chain[t][i].events \in Seq(Events) /\ chain[t][i].events # <<>>
          /\ chain[t][i].open => chain[t][i].key # Single
    /\ watermark \in [Tokens -> Nat]
    /\ floor \in Nat
    /\ poll \in [step : {"idle", "fetched", "read", "scheduled"}, seen : SUBSET Events,
                 known : SUBSET Events, mark : Nat]
    /\ heard \subseteq Events /\ Cardinality(heard) <= 1

Init ==
    /\ visible = {} /\ receipts = {} /\ secured = {}
    /\ initialized = FALSE /\ lastTs = 0
    /\ paused = FALSE /\ active = TRUE
    /\ pending = <<>>
    /\ chain = [t \in Tokens |-> <<>>]
    /\ watermark = [t \in Tokens |-> 0]
    /\ floor = 0
    /\ poll = Idle
    /\ heard = {}

-----------------------------------------------------------------------------
(* _schedule_copy, on the record q of the three queue structures.          *)
Queues == [pending |-> pending, chain |-> chain, mark |-> watermark]

Bucket(e) == (Source[e].ts \div Burst) * Burst

(* Slip: no extra room for a SELL.                                         *)
SameRoom(q, e) == Len(q.pending) < QueueLimit
HasRoom(q, e) ==
    Len(q.pending) < QueueLimit + (IF IsSell(e) THEN SellReserve ELSE 0)

(* Slip: fragments are joined whatever was sold in between.                *)
BucketOnly(q, e) == <<Bucket(e)>>
BatchKey(q, e) == <<Bucket(e), q.mark[Source[e].token]>>

Raises(q, e) == IsSell(e) /\ Source[e].ts > q.mark[Source[e].token]

With(job, e) == [job EXCEPT !.events = Append(@, e)]

(* A BUY joins the open batch of its key; anything else, and a BUY without *)
(* one, becomes a worker behind the last of its token.                     *)
Place(q, e) ==
    LET t == Source[e].token
        key == IF Batching /\ ~IsSell(e) THEN BatchKey(q, e) ELSE Single
        batch == {i \in DOMAIN q.chain[t] : q.chain[t][i].open /\ q.chain[t][i].key = key}
    IN  IF batch # {}
        THEN [q.chain EXCEPT ![t] = [i \in DOMAIN @ |->
                 IF i \in batch THEN With(@[i], e) ELSE @[i]]]
        ELSE [q.chain EXCEPT ![t] = Append(@, Job(<<e>>, key, Raises(q, e)))]

(* Slip: what already waits is not looked for.                             *)
Unknown(q, e) == FALSE
Waits(q, e) == e \in Elements(q.pending)

Enqueue(q, e) ==
    IF Waits(q, e) \/ ~HasRoom(q, e) THEN q
    ELSE [pending |-> Append(q.pending, e),
          chain |-> Place(q, e),
          mark |-> IF Raises(q, e)
                   THEN [q.mark EXCEPT ![Source[e].token] = Source[e].ts] ELSE q.mark]

EnqueueAll(q, s) ==
    LET after[i \in 0..Len(s)] == IF i = 0 THEN q ELSE Enqueue(after[i - 1], s[i])
    IN  after[Len(s)]

Becomes(q) == pending' = q.pending /\ chain' = q.chain /\ watermark' = q.mark

-----------------------------------------------------------------------------
(* on_rtds_trade: the stream handles one message at a time.  It looks the  *)
(* leader and the receipts up, then schedules.                             *)
Hear(e) ==
    /\ "rtds" \in Environment
    /\ heard = {}
    /\ initialized /\ active /\ e \notin receipts
    /\ heard' = {e}
    /\ UNCHANGED <<visible, database, queues, floor, poll, secured>>

ScheduleHeard ==
    \E e \in heard :
        /\ Becomes(Enqueue(Queues, e))
        /\ heard' = {}
        /\ UNCHANGED <<visible, database, floor, poll, secured>>

(* Its lookup fails or is cancelled; the stream does not ask again.        *)
LoseHeard ==
    /\ heard # {}
    /\ heard' = {}
    /\ UNCHANGED <<visible, database, queues, floor, poll, secured>>

(* The leader's trade reaches the REST activity, early or late.            *)
Index(e) ==
    /\ e \notin visible
    /\ visible' = visible \cup {e}
    /\ UNCHANGED <<database, queues, floor, poll, heard, secured>>

-----------------------------------------------------------------------------
(* _poll_leader: fetch, look up, schedule, then commit the checkpoint.  An *)
(* answer lists the newest trades; e is crowded out of `shown' by others   *)
(* that are not older than it.                                             *)
Crowded(e, shown) ==
    Cardinality({f \in shown \ {e} : Source[f].ts >= Source[e].ts}) >= Window
Answers(shown) ==
    {answer \in SUBSET shown :
        /\ {e \in shown : ~Crowded(e, shown)} \subseteq answer
        /\ Cardinality(answer) <= Window
        /\ \A e \in answer, f \in shown \ answer : Source[f].ts <= Source[e].ts}

PollFetch ==
    /\ poll = Idle
    /\ ~paused /\ active
    /\ \E answer \in Answers(visible) :
          poll' = Poll("fetched", answer, {}, 0)
    /\ UNCHANGED <<visible, database, queues, floor, heard, secured>>

(* The first poll only marks where copying starts: behind the newest trade *)
(* it shows, or at the present time if it shows none.                      *)
PollInitialize ==
    /\ poll.step = "fetched"
    /\ active /\ ~initialized
    /\ initialized' = TRUE
    /\ \E now \in Times :
          lastTs' = IF poll.seen = {} THEN now
                    ELSE After({Source[e].ts : e \in poll.seen})
    /\ floor' = lastTs'
    /\ poll' = Idle
    /\ UNCHANGED <<visible, receipts, paused, active, queues, heard, secured>>

(* Slip: every poll starts at the checkpoint in the database.              *)
CheckpointFloor == lastTs
SessionFloor == IF floor = 0 THEN lastTs ELSE floor

PollRead ==
    /\ poll.step = "fetched"
    /\ ~active \/ initialized
    /\ LET new == {e \in poll.seen : Source[e].ts >= SessionFloor}
       IN  IF ~active \/ poll.seen = {}
           THEN poll' = Idle /\ UNCHANGED floor
           ELSE /\ floor' = SessionFloor
                /\ poll' = IF new = {} THEN Idle
                           ELSE Poll("read", new, new \cap receipts, 0)
    /\ UNCHANGED <<visible, database, queues, heard, secured>>

(* Slip: the checkpoint is the newest event whatever is outstanding.       *)
NewestSeen(outstanding, seen) == After({Source[e].ts : e \in seen}) - 1
Checkpoint(outstanding, seen) ==
    IF outstanding # {} THEN Before({Source[e].ts : e \in outstanding})
                        ELSE After({Source[e].ts : e \in seen}) - 1

(* An answer is sorted by time; trades of one moment are sorted by a key,   *)
(* which may put them in any order.                                        *)
ByTime(trades) ==
    {s \in [1..Cardinality(trades) -> trades] :
        /\ trades \subseteq Elements(s)
        /\ \A i, j \in DOMAIN s : i < j => Source[s[i]].ts <= Source[s[j]].ts}

(* What is not known is scheduled without an await ...                     *)
PollSchedule ==
    /\ poll.step = "read"
    /\ LET outstanding == poll.seen \ poll.known
       IN  /\ \E s \in ByTime(outstanding) : Becomes(EnqueueAll(Queues, s))
           /\ poll' = Poll("scheduled", outstanding, {}, Checkpoint(outstanding, poll.seen))
    /\ UNCHANGED <<visible, database, floor, heard, secured>>

(* ... and the checkpoint is committed, while workers already run.         *)
PollCommit ==
    /\ poll.step = "scheduled"
    /\ lastTs' = poll.mark
    /\ secured' = secured \cup poll.seen
    /\ poll' = Idle
    /\ UNCHANGED <<visible, receipts, initialized, paused, active, queues, floor, heard>>

(* A query or the commit fails: what was scheduled stays scheduled, the    *)
(* database keeps the checkpoint of an earlier poll.                       *)
PollFail ==
    /\ "fail" \in Environment
    /\ poll # Idle
    /\ poll' = Idle
    /\ UNCHANGED <<visible, database, queues, floor, heard, secured>>

-----------------------------------------------------------------------------
(* A worker whose predecessor is done takes its key out of _buy_batches,   *)
(* then runs under the ledger lock.  After a reset the key may already     *)
(* lead to a newer batch, which is closed with it.                         *)
Closed(job) == [job EXCEPT !.open = FALSE]
Popped(job, key) == IF job.key = key THEN Closed(job) ELSE job

CloseBatch(t) ==
    /\ chain[t] # <<>> /\ Head(chain[t]).key # Single
    /\ LET key == Head(chain[t]).key
       IN  chain' = [chain EXCEPT ![t] = [i \in DOMAIN @ |->
               IF i = 1 THEN [Closed(@[1]) EXCEPT !.key = Single] ELSE Popped(@[i], key)]]
    /\ UNCHANGED <<visible, database, pending, watermark, floor, poll, heard, secured>>

(* What is left of a sequence when the elements in `gone' are taken out.   *)
Without(s, gone) ==
    LET kept[i \in 0..Len(s)] ==
            IF i = 0 THEN <<>>
            ELSE IF s[i] \in gone THEN kept[i - 1] ELSE Append(kept[i - 1], s[i])
    IN  kept[Len(s)]

(* A worker that finds the account paused or the leader off drops its      *)
(* events; a later poll offers them again.                                 *)
Committed(events) == IF paused \/ ~active THEN receipts ELSE receipts \cup events

Run(t) ==
    /\ chain[t] # <<>> /\ Head(chain[t]).key = Single
    /\ LET events == Elements(Head(chain[t]).events)
       IN  /\ receipts' = Committed(events)
           /\ pending' = Without(pending, events)
    /\ chain' = [chain EXCEPT ![t] = Tail(@)]
    /\ UNCHANGED <<visible, initialized, lastTs, paused, active, watermark, floor,
                   poll, heard, secured>>

-----------------------------------------------------------------------------
TogglePause ==
    /\ "pause" \in Environment
    /\ paused' = ~paused
    /\ UNCHANGED <<visible, receipts, initialized, lastTs, active, queues, floor,
                   poll, heard, secured>>

ToggleLeader ==
    /\ "switch" \in Environment
    /\ active' = ~active
    /\ UNCHANGED <<visible, receipts, initialized, lastTs, paused, queues, floor,
                   poll, heard, secured>>

(* _reset_database and reset_runtime_state: the receipts are gone, the     *)
(* checkpoint stays; scheduled copies and a running poll go on.  What was  *)
(* committed before is not expected again.                                 *)
(* Slip: the open batches are kept.                                        *)
BatchesKept(jobs) == jobs
BatchesCleared(jobs) == [i \in DOMAIN jobs |-> Closed(jobs[i])]

Reset ==
    /\ "reset" \in Environment
    /\ receipts' = {}
    /\ secured' = secured \ receipts
    /\ chain' = [t \in Tokens |-> BatchesCleared(chain[t])]
    /\ watermark' = [t \in Tokens |-> 0]
    /\ floor' = 0
    /\ UNCHANGED <<visible, initialized, lastTs, paused, active, pending, poll,
                   heard>>

(* The loops of the engine have ended: run cancels the poll, the copies    *)
(* that wait and those that run.                                           *)
Abandon ==
    /\ pending' = <<>>
    /\ chain' = [t \in Tokens |-> <<>>]
    /\ poll' = Idle
    /\ UNCHANGED <<visible, database, watermark, floor, heard, secured>>

(* The process has ended, by itself or by a crash; the database is left.   *)
Restart ==
    /\ pending' = <<>>
    /\ chain' = [t \in Tokens |-> <<>>]
    /\ watermark' = [t \in Tokens |-> 0]
    /\ floor' = 0
    /\ poll' = Idle
    /\ heard' = {}
    /\ UNCHANGED <<visible, database, secured>>

Next ==
    \/ \E e \in Events : Hear(e) \/ Index(e)
    \/ ScheduleHeard \/ LoseHeard
    \/ PollFetch \/ PollInitialize \/ PollRead
    \/ PollSchedule \/ PollCommit \/ PollFail
    \/ \E t \in Tokens : CloseBatch(t) \/ Run(t)
    \/ TogglePause \/ ToggleLeader \/ Reset
    \/ Abandon \/ Restart

Spec == Init /\ [][Next]_vars

-----------------------------------------------------------------------------
(* Once a poll has committed its checkpoint, no later checkpoint lies      *)
(* behind what it offered to the queue and what no worker has committed,   *)
(* as long as the activity still lists it: neither a full queue nor a      *)
(* pause, a failed poll, a reset or a restart loses it.                    *)
CheckpointCovers ==
    \A e \in secured \ receipts : ~Crowded(e, visible) => lastTs <= Source[e].ts

(* What leaves the queue uncommitted and is still listed is looked at by   *)
(* the next poll.  It is what the comments say, not what the code does.    *)
DroppedIsPolledAgain ==
    [][\A e \in Elements(pending) \ Elements(pending') :
          e \notin receipts' /\ e \in visible /\ ~Crowded(e, visible)
             => SessionFloor' <= Source[e].ts]_vars

(* _pending names exactly the events of unfinished workers, each once, so  *)
(* no event waits without a worker and none is in two workers.             *)
PendingHasWorker ==
    LET places == {p \in Tokens \X (1..Len(pending)) \X (1..Len(pending)) :
                      /\ p[2] \in DOMAIN chain[p[1]]
                      /\ p[3] \in DOMAIN chain[p[1]][p[2]].events}
        at(p) == chain[p[1]][p[2]].events[p[3]]
    IN  /\ {at(p) : p \in places} = Elements(pending)
        /\ Cardinality(places) = Cardinality(Elements(pending))
        /\ Cardinality(Elements(pending)) = Len(pending)

(* The worker of event e is ahead of the worker of event f.                *)
Ahead(e, f) ==
    \E t \in Tokens : \E i, j \in DOMAIN chain[t] :
        i < j /\ e \in Elements(chain[t][i].events) /\ f \in Elements(chain[t][j].events)

ArrivedBefore(e, f) ==
    \E i, j \in DOMAIN pending : i < j /\ pending[i] = e /\ pending[j] = f

Raised(s) ==
    \E i \in DOMAIN chain[Source[s].token] :
        LET job == chain[Source[s].token][i]
        IN  job.raised /\ s \in Elements(job.events)

(* A SELL that is news when it arrives is never overtaken by a BUY of the  *)
(* token that arrives later, by joining a batch that was open before it or *)
(* otherwise.                                                              *)
BarrierKept ==
    \A s, b \in Elements(pending) :
        IsSell(s) /\ Raised(s) /\ ArrivedBefore(s, b) => ~Ahead(b, s)

(* A SELL finds room however many BUYs wait: once the queue has refused    *)
(* one, SellReserve SELLs are in it.                                       *)
Refused(e) == e \notin Elements(pending) /\ ~HasRoom(Queues, e)
SellsGetRoom ==
    \A e \in Events : IsSell(e) /\ Refused(e) =>
        Cardinality({f \in Elements(pending) : IsSell(f)}) >= SellReserve

=============================================================================
