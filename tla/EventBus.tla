------------------------------- MODULE EventBus -------------------------------
(***************************************************************************)
(* The event bus (internal/platform/events) and its only subscriber, the   *)
(* audit service: requests append events to a Redis stream; a worker per   *)
(* process reads them through the subscriber's consumer group, inserts     *)
(* each into app_audit_logs and acknowledges it.                           *)
(*                                                                         *)
(* Time appears only as its effects: Elapse makes the oldest unacknowledged *)
(* delivery older than ClaimMinIdle, and Publish may trim entries older    *)
(* than RetentionWindow.  Both may happen at any moment.                   *)
(***************************************************************************)
EXTENDS Integers, Sequences, SequencesExt

CONSTANTS
    Workers,    \* processes that run the subscriber's recurring job
    BatchSize,  \* Config.BatchSize
    Faults,     \* the kinds of failure this instance may meet
    MaxEvents,  \* bound: events published
    MaxFaults   \* bound: failures met

FaultKinds == {"read", "insert", "commit", "ack", "crash"}

ASSUME EventBusAssumption ==
    /\ BatchSize \in Nat \ {0}
    /\ MaxEvents \in Nat
    /\ MaxFaults \in Nat
    /\ Faults \subseteq FaultKinds

VARIABLES
    published,  \* how many events the stream has been given; their IDs are 1, 2, ...
    trimmed,    \* how many of the oldest were trimmed from the stream
    cursor,     \* the consumer group's last delivered ID
    pel,        \* the group's pending entries: for each, those delivered before it
    idle,       \* the pending entries delivered longer ago than ClaimMinIdle
    recorded,   \* the IDs in app_audit_logs, where they are the primary key
    pc,         \* where each worker is in ProcessSubscriber
    batch,      \* the messages of its batch that it has still to handle
    faults      \* failures met so far

vars == <<published, trimmed, cursor, pel, idle, recorded, pc, batch, faults>>

Events == 1..MaxEvents

Pending == DOMAIN pel

Init ==
    /\ published = 0 /\ trimmed = 0 /\ cursor = 0
    /\ pel = [m \in {} |-> {}] /\ idle = {}
    /\ recorded = {}
    /\ pc = [w \in Workers |-> "idle"]
    /\ batch = [w \in Workers |-> <<>>]
    /\ faults = 0

Fails(kind) ==
    /\ kind \in Faults
    /\ faults < MaxFaults
    /\ faults' = faults + 1

-----------------------------------------------------------------------------
(* The stream and its consumer group *)

\* Entries leave the pending list.
Forget(S) ==
    /\ pel' = [m \in Pending \ S |-> pel[m] \ S]
    /\ idle' = idle \ S

\* XADD with an approximate MINID: entries older than the retention window may
\* go, whether delivered, acknowledged or neither.  Nobody reads them again.
Publish ==
    /\ published < MaxEvents
    /\ published' = published + 1
    /\ trimmed' \in trimmed..published
    /\ Forget(1..trimmed')
    /\ UNCHANGED <<cursor, recorded, pc, batch, faults>>

\* The oldest delivery reaches ClaimMinIdle.
Elapse ==
    LET oldest == {m \in Pending \ idle : pel[m] \subseteq idle} IN
    /\ oldest # {}
    /\ idle' = idle \cup oldest
    /\ UNCHANGED <<published, trimmed, cursor, pel, recorded, pc, batch, faults>>

\* Entries never delivered to the group.
Fresh == {m \in Events : cursor < m /\ trimmed < m /\ m <= published}

\* Mutant: XREADGROUP without CLAIM.
OfferedUnclaimed == Fresh

\* XREADGROUP > with CLAIM.
Offered == idle \cup Fresh

\* The order of a reply: what is claimed, by its last delivery, then what is fresh.
Sooner(m, n) ==
    \/ m \in idle /\ n \in Fresh
    \/ m \in idle /\ n \in idle /\ m \in pel[n]
    \/ m \in idle /\ n \in idle /\ n \notin pel[m] /\ m < n
    \/ m \in Fresh /\ n \in Fresh /\ m < n

\* The reply: the first BatchSize entries in that order, or all there are.
Replies ==
    {s \in SeqOf(Offered, BatchSize) :
        /\ \A i, j \in DOMAIN s : i < j => Sooner(s[i], s[j])
        /\ \A i \in DOMAIN s : \A n \in Offered \ ToSet(s) : Sooner(s[i], n)
        /\ Len(s) = BatchSize \/ ToSet(s) = Offered}

\* The messages of one reply are delivered, or delivered again, at one time.
Deliver(messages) ==
    LET S == ToSet(messages)
        last == messages[Len(messages)]
    IN  /\ pel' = [m \in Pending \cup S |-> IF m \in S THEN Pending \ S ELSE pel[m] \ S]
        /\ idle' = idle \ S
        /\ cursor' = IF last > cursor THEN last ELSE cursor

-----------------------------------------------------------------------------
(* ProcessSubscriber *)

\* Nothing to read: the pass returns and the job waits for its next run.
ReadNothing(w) ==
    /\ pc[w] = "idle"
    /\ Offered = {}
    /\ UNCHANGED vars

Read(w) ==
    /\ pc[w] = "idle"
    /\ Offered # {}
    /\ \E messages \in Replies :
         /\ Deliver(messages)
         /\ \/ /\ pc' = [pc EXCEPT ![w] = "handle"]
               /\ batch' = [batch EXCEPT ![w] = messages]
               /\ UNCHANGED faults
            \/ Fails("read") /\ UNCHANGED <<pc, batch>>   \* the reply is lost
    /\ UNCHANGED <<published, trimmed, recorded>>

\* The pass ends, with the rest of its batch delivered but not handled.
Abandon(w) ==
    /\ pc' = [pc EXCEPT ![w] = "idle"]
    /\ batch' = [batch EXCEPT ![w] = <<>>]

\* Mutant: the subscriber logs a failed insert and reports success.
HandleSwallowingErrors(w) ==
    LET m == Head(batch[w]) IN
    /\ pc[w] = "handle"
    /\ \/ recorded' = recorded \cup {m} /\ UNCHANGED faults
       \/ Fails("insert") /\ UNCHANGED recorded
    /\ pc' = [pc EXCEPT ![w] = "ack"]
    /\ UNCHANGED <<published, trimmed, cursor, pel, idle, batch>>

\* The audit service inserts the event under its own ID.
Handle(w) ==
    LET m == Head(batch[w]) IN
    /\ pc[w] = "handle"
    /\ \/ /\ m \notin recorded
          /\ recorded' = recorded \cup {m}
          /\ pc' = [pc EXCEPT ![w] = "ack"]
          /\ UNCHANGED <<batch, faults>>
       \/ /\ m \in recorded                          \* duplicate key
          /\ Abandon(w)
          /\ UNCHANGED <<recorded, faults>>
       \/ /\ Fails("insert")
          /\ Abandon(w)
          /\ UNCHANGED recorded
       \/ /\ Fails("commit")                         \* inserted, but reported as failed
          /\ recorded' = recorded \cup {m}
          /\ Abandon(w)
    /\ UNCHANGED <<published, trimmed, cursor, pel, idle>>

\* Mutant: the loop runs once more after the last message.
AckPastTheEnd(w) ==
    /\ pc[w] = "ack"
    /\ \/ /\ Forget({Head(batch[w])})
          /\ pc' = [pc EXCEPT ![w] = IF Len(batch[w]) > 0 THEN "handle" ELSE "idle"]
          /\ batch' = [batch EXCEPT ![w] = Tail(@)]
          /\ UNCHANGED faults
       \/ /\ Fails("ack")
          /\ Abandon(w)
          /\ UNCHANGED <<pel, idle>>
    /\ UNCHANGED <<published, trimmed, cursor, recorded>>

\* Mutant: the whole batch is acknowledged with its first message.
AckWholeBatch(w) ==
    /\ pc[w] = "ack"
    /\ \/ /\ Forget(ToSet(batch[w]))
          /\ pc' = [pc EXCEPT ![w] = IF Len(batch[w]) > 1 THEN "handle" ELSE "idle"]
          /\ batch' = [batch EXCEPT ![w] = Tail(@)]
          /\ UNCHANGED faults
       \/ /\ Fails("ack")
          /\ Abandon(w)
          /\ UNCHANGED <<pel, idle>>
    /\ UNCHANGED <<published, trimmed, cursor, recorded>>

\* XACK, then the next message of the batch; the pass ends with the last one.
Ack(w) ==
    /\ pc[w] = "ack"
    /\ \/ /\ Forget({Head(batch[w])})
          /\ pc' = [pc EXCEPT ![w] = IF Len(batch[w]) > 1 THEN "handle" ELSE "idle"]
          /\ batch' = [batch EXCEPT ![w] = Tail(@)]
          /\ UNCHANGED faults
       \/ /\ Fails("ack")
          /\ Abandon(w)
          /\ UNCHANGED <<pel, idle>>
    /\ UNCHANGED <<published, trimmed, cursor, recorded>>

\* The process stops during a pass and is started again.
Crash(w) ==
    /\ pc[w] # "idle"
    /\ Fails("crash")
    /\ Abandon(w)
    /\ UNCHANGED <<published, trimmed, cursor, pel, idle, recorded>>

-----------------------------------------------------------------------------
Process(w) == ReadNothing(w) \/ Read(w) \/ Handle(w) \/ Ack(w)

Next == Publish \/ Elapse \/ \E w \in Workers : Process(w) \/ Crash(w)

\* The scheduler runs every worker's job again and again, also after an error,
\* and pending entries grow old.  Nobody has to publish and nothing has to fail.
Fairness ==
    /\ WF_vars(Elapse)
    /\ \A w \in Workers : WF_vars(Read(w)) /\ WF_vars(Handle(w)) /\ WF_vars(Ack(w))

Spec == Init /\ [][Next]_vars /\ Fairness

-----------------------------------------------------------------------------
(* Properties *)

\* The group's bookkeeping is well formed: pending entries are delivered and still
\* in the stream, their deliveries are in an order in which the old ones come first,
\* and a worker in a pass has a message.
TypeOK ==
    /\ published \in 0..MaxEvents
    /\ trimmed \in 0..published
    /\ cursor \in 0..published
    /\ Pending \subseteq trimmed + 1 .. cursor /\ pel \in [Pending -> SUBSET Pending]
    /\ \A m, n \in Pending : /\ m \notin pel[m]
                             /\ n \in pel[m] => pel[n] \subseteq pel[m]
                             /\ n \notin pel[m] => pel[m] \subseteq pel[n]
    /\ idle \subseteq Pending /\ \A m \in idle : pel[m] \subseteq idle
    /\ recorded \subseteq 1..cursor
    /\ pc \in [Workers -> {"idle", "handle", "ack"}]
    /\ batch \in [Workers -> Seq(1..cursor)]
    /\ \A w \in Workers : pc[w] = "idle" <=> batch[w] = <<>>
    /\ faults \in 0..MaxFaults

\* No failure, crash or overlap of two workers loses an event silently: an
\* event of the stream that was delivered is in the audit log or still pending,
\* so that it will be delivered again (bus.go:42, an error leaves it
\* unacknowledged).
DeliveredIsRecordedOrPending ==
    \A m \in Events : trimmed < m /\ m <= cursor => m \in recorded \cup Pending

\* What the stream still holds for the subscriber.
Owed == Pending \cup Fresh

Ledger == INSTANCE EventLedger WITH owed <- Owed, log <- recorded

\* Deliveries, claims, lost replies, crashes and overlapping workers change neither
\* what is owed nor the log: an event leaves the first only for the second or by its
\* retention, does not come back, and enters the log once (bus.go:162-196).
ImplementsLedger == Ledger!Spec

\* The hand-over is durable: an event that was published reaches the audit log
\* unless it outlives its retention in the stream (config/eventbus.go:5).
EventuallyRecorded ==
    \A m \in Events : m <= published ~> m \in recorded \/ m <= trimmed

\* An event that is in the audit log and pending, with nobody about to
\* acknowledge it: whoever claims it next fails on its primary key.
Stuck ==
    \E m \in recorded \cap Pending :
        \A w \in Workers : ~(pc[w] = "ack" /\ Head(batch[w]) = m)

\* A recorded event whose acknowledgement was lost is all that can keep another
\* from the audit log: lost replies, failed inserts, crashes and overlapping
\* workers only delay it.
RecordedUnlessStuck == <>[]Stuck \/ EventuallyRecorded
=============================================================================
