---------------------------- MODULE EventBusProofs ----------------------------
(***************************************************************************)
(* Proofs about EventBus for any number of workers and events, any size of *)
(* a batch and any number of failures.                                     *)
(***************************************************************************)
EXTENDS EventBus, SequenceTheorems, TLAPS

\* A worker acknowledges only what is in the audit log.
AckRecorded == \A w \in Workers : pc[w] = "ack" => Head(batch[w]) \in recorded

EventInv == TypeOK /\ DeliveredIsRecordedOrPending /\ AckRecorded

\* The deliveries of pending entries, as TypeOK has them in order.
Ordered(p) ==
    /\ p \in [DOMAIN p -> SUBSET DOMAIN p]
    /\ \A m, n \in DOMAIN p : /\ m \notin p[m]
                              /\ n \in p[m] => p[n] \subseteq p[m]
                              /\ n \notin p[m] => p[m] \subseteq p[n]

USE EventBusAssumption

-----------------------------------------------------------------------------
(* The pending list *)

\* Whatever leaves the list, the rest of it is in order.
LEMMA ForgetOrdered ==
    ASSUME NEW p, Ordered(p), NEW S
    PROVE  Ordered([m \in DOMAIN p \ S |-> p[m] \ S])
BY DEF Ordered

\* What is delivered, again or for the first time, comes after the rest.
LEMMA DeliverOrdered ==
    ASSUME NEW p, Ordered(p), NEW S
    PROVE  Ordered([m \in DOMAIN p \cup S |-> IF m \in S THEN DOMAIN p \ S ELSE p[m] \ S])
BY DEF Ordered

\* Forgetting keeps the list in order, and the old entries first.
LEMMA Forgotten ==
    ASSUME TypeOK, NEW S, Forget(S)
    PROVE  /\ Pending' = Pending \ S /\ Ordered(pel')
           /\ idle' \subseteq Pending' /\ \A m \in idle' : pel'[m] \subseteq idle'
<1>1. pel' = [m \in DOMAIN pel \ S |-> pel[m] \ S] /\ idle' = idle \ S
  BY DEF Forget, Pending
<1>2. Ordered(pel) /\ idle \subseteq DOMAIN pel /\ \A m \in idle : pel[m] \subseteq idle
  BY DEF TypeOK, Pending, Ordered
<1>3. Ordered(pel')
  BY <1>1, <1>2, ForgetOrdered
<1>4. QED
  BY <1>1, <1>2, <1>3 DEF Pending

\* A reply is a batch of what is offered, not empty, that leaves out no entry which is
\* fresh and before its last one.
LEMMA Replied ==
    ASSUME TypeOK, Offered # {}, NEW messages \in Replies
    PROVE  /\ messages \in Seq(1..published) /\ messages # <<>>
           /\ Len(messages) \in 1..BatchSize
           /\ DOMAIN messages = 1..Len(messages)
           /\ ToSet(messages) \subseteq Offered
           /\ messages[Len(messages)] \in ToSet(messages)
           /\ \A m \in Events : cursor < m /\ trimmed < m /\ m <= messages[Len(messages)]
                                => m \in ToSet(messages)
<1>1. /\ published \in Nat /\ cursor \in 0..published /\ trimmed \in 0..published
      /\ published <= MaxEvents
      /\ idle \subseteq trimmed + 1 .. cursor
  BY DEF TypeOK
<1>2. Offered \subseteq 1..published
  <2>1. \A m \in idle : m \in 1..published
    BY <1>1
  <2>2. \A m \in Fresh : m \in 1..published
    BY <1>1 DEF Fresh, Events
  <2>3. QED
    BY <2>1, <2>2 DEF Offered
<1>3. PICK k \in 0..BatchSize : messages \in [1..k -> Offered]
  BY DEF Replies, SeqOf
<1>4. messages \in Seq(1..published) /\ Len(messages) = k /\ DOMAIN messages = 1..k
  <2>1. k \in Nat /\ messages \in [1..k -> 1..published]
    <3>1. k \in Nat
      OBVIOUS
    <3>2. messages \in [1..k -> Offered]
      BY <1>3
    <3>3. QED
      BY <1>2, <3>1, <3>2, Zenon
  <2>2. messages \in Seq(1..published)
    BY <2>1, SeqDef
  <2>3. DOMAIN messages = 1..Len(messages) /\ Len(messages) \in Nat
    BY <2>2, LenProperties
  <2>4. DOMAIN messages = 1..k
    BY <2>1
  <2>5. \A i \in Nat : 1 <= i => (i <= k <=> i <= Len(messages))
    <3>1. \A i : i \in 1..k <=> i \in 1..Len(messages)
      BY <2>3, <2>4, Zenon
    <3>2. QED
      BY <2>1, <2>3, <3>1
  <2>6. Len(messages) = k
    BY <2>1, <2>3, <2>5
  <2>7. QED
    BY <2>2, <2>4, <2>6
<1>5. /\ \A i, j \in DOMAIN messages : i < j => Sooner(messages[i], messages[j])
      /\ \A i \in DOMAIN messages : \A n \in Offered \ ToSet(messages) : Sooner(messages[i], n)
      /\ Len(messages) = BatchSize \/ ToSet(messages) = Offered
  BY DEF Replies
<1>6. k # 0
  BY <1>4, <1>5 DEF ToSet
<1>7. k \in DOMAIN messages /\ messages[k] \in ToSet(messages) /\ ToSet(messages) \subseteq Offered
  BY <1>3, <1>4, <1>6 DEF ToSet
<1>8. ASSUME NEW m \in Events, cursor < m, trimmed < m, m <= messages[k], m \notin ToSet(messages)
      PROVE  FALSE
  <2>1. messages[k] \in 1..published /\ messages[k] \notin idle /\ m \in Fresh
    <3>1. messages[k] \in 1..published
      BY <1>2, <1>7
    <3>2. messages[k] \notin idle
      BY <1>1, <1>8, <3>1 DEF Events
    <3>3. m <= published
      BY <1>1, <1>8, <3>1 DEF Events
    <3>4. QED
      BY <1>8, <3>1, <3>2, <3>3 DEF Fresh
  <2>2. Sooner(messages[k], m)
    BY <1>5, <1>7, <1>8, <2>1 DEF Offered
  <2>3. QED
    BY <1>8, <2>1, <2>2 DEF Sooner, Events
<1>9. QED
  BY <1>4, <1>6, <1>7, <1>8

\* What a delivery makes of the group.
LEMMA Delivered ==
    ASSUME TypeOK, Offered # {}, NEW messages \in Replies, Deliver(messages)
    PROVE  /\ Pending' = Pending \cup ToSet(messages) /\ Ordered(pel')
           /\ idle' \subseteq Pending' /\ \A m \in idle' : pel'[m] \subseteq idle'
           /\ cursor' \in cursor..published
           /\ ToSet(messages) \subseteq trimmed + 1 .. cursor'
           /\ messages \in Seq(1..cursor')
           /\ \A m \in Events : cursor < m /\ trimmed < m /\ m <= cursor' => m \in ToSet(messages)
<1> DEFINE S == ToSet(messages)
           last == messages[Len(messages)]
<1>1. /\ pel' = [m \in DOMAIN pel \cup S |-> IF m \in S THEN DOMAIN pel \ S ELSE pel[m] \ S]
      /\ idle' = idle \ S
      /\ cursor' = IF last > cursor THEN last ELSE cursor
  BY DEF Deliver, Pending
<1>2. Ordered(pel) /\ idle \subseteq DOMAIN pel /\ \A m \in idle : pel[m] \subseteq idle
  BY DEF TypeOK, Pending, Ordered
<1>3. Ordered(pel')
  BY <1>1, <1>2, DeliverOrdered
<1>4. /\ Pending' = Pending \cup S
      /\ idle' \subseteq Pending' /\ \A m \in idle' : pel'[m] \subseteq idle'
  BY <1>1, <1>2 DEF Pending
<1>5. /\ messages \in Seq(1..published) /\ DOMAIN messages = 1..Len(messages)
      /\ last \in S /\ S \subseteq Offered /\ Len(messages) \in 1..BatchSize
      /\ \A m \in Events : cursor < m /\ trimmed < m /\ m <= last => m \in S
  BY Replied
<1>6. /\ published \in Nat /\ cursor \in 0..published /\ trimmed \in 0..published
      /\ idle \subseteq trimmed + 1 .. cursor /\ published <= MaxEvents
  BY DEF TypeOK
<1>7. last \in 1..published
  BY <1>5, <1>6 DEF Offered, Fresh, Events
<1>8. cursor' \in cursor..published /\ last <= cursor'
  BY <1>1, <1>6, <1>7
<1>9. ASSUME NEW m \in S
      PROVE  m \in trimmed + 1 .. cursor'
  <2>1. CASE m \in idle
    BY <1>6, <1>8, <2>1
  <2>2. CASE m \in Fresh
    <3>1. PICK i \in 1..Len(messages) : messages[i] = m
      BY <1>5, <1>9 DEF ToSet
    <3>2. i < Len(messages) => Sooner(m, last)
      <4>1. Len(messages) \in DOMAIN messages /\ i \in DOMAIN messages
        BY <1>5, <3>1
      <4>2. \A h, j \in DOMAIN messages : h < j => Sooner(messages[h], messages[j])
        BY DEF Replies
      <4>3. QED
        BY <3>1, <4>1, <4>2
    <3>3. m <= last
      BY <1>5, <1>6, <1>7, <2>2, <3>1, <3>2 DEF Sooner, Fresh, Events
    <3>4. QED
      BY <1>6, <1>7, <1>8, <2>2, <3>3 DEF Fresh, Events
  <2>3. QED
    BY <1>5, <2>1, <2>2 DEF Offered
<1>10. messages \in Seq(1..cursor')
  <2>1. \A i \in 1..Len(messages) : messages[i] \in 1..cursor'
    BY <1>5, <1>6, <1>8, <1>9 DEF ToSet
  <2>2. Len(messages) \in Nat /\ messages \in [1..Len(messages) -> 1..cursor']
    <3>1. messages \in [1..Len(messages) -> 1..published] /\ Len(messages) \in Nat
      BY <1>5, LenProperties
    <3>2. QED
      BY <2>1, <3>1
  <2>3. QED
    BY <2>2, SeqDef
<1>11. \A m \in Events : cursor < m /\ trimmed < m /\ m <= cursor' => m \in S
  BY <1>1, <1>5, <1>6, <1>7 DEF Events
<1>12. QED
  BY <1>3, <1>4, <1>8, <1>9, <1>10, <1>11

-----------------------------------------------------------------------------
(* The invariant *)

\* What the parts that count the stream, order the pending list and follow the
\* workers come to.
Stream ==
    /\ published \in 0..MaxEvents /\ trimmed \in 0..published /\ cursor \in 0..published
    /\ Pending \subseteq trimmed + 1 .. cursor
    /\ recorded \subseteq 1..cursor /\ faults \in 0..MaxFaults

Deliveries ==
    /\ Ordered(pel)
    /\ idle \subseteq Pending /\ \A m \in idle : pel[m] \subseteq idle

Passes ==
    /\ pc \in [Workers -> {"idle", "handle", "ack"}]
    /\ batch \in [Workers -> Seq(1..cursor)]
    /\ \A w \in Workers : pc[w] = "idle" <=> batch[w] = <<>>

LEMMA TypeParts == TypeOK <=> Stream /\ Deliveries /\ Passes
BY DEF TypeOK, Stream, Deliveries, Passes, Ordered, Pending

\* A worker's pass changes, and no other's.
LEMMA PassChanges ==
    ASSUME Passes, NEW w \in Workers, cursor \in Nat, cursor' \in Nat, cursor <= cursor',
           NEW label \in {"idle", "handle", "ack"}, NEW messages \in Seq(1..cursor'),
           label = "idle" <=> messages = <<>>,
           pc' = [pc EXCEPT ![w] = label], batch' = [batch EXCEPT ![w] = messages]
    PROVE  Passes'
<1>1. \A v \in Workers : batch[v] \in Seq(1..cursor')
  <2>1. 1..cursor \subseteq 1..cursor'
    OBVIOUS
  <2>2. QED
    BY <2>1, SeqMonotonic DEF Passes
<1>2. pc' \in [Workers -> {"idle", "handle", "ack"}] /\ batch' \in [Workers -> Seq(1..cursor')]
  BY <1>1 DEF Passes
<1>3. ASSUME NEW v \in Workers
      PROVE  pc'[v] = "idle" <=> batch'[v] = <<>>
  BY DEF Passes
<1>4. QED
  BY <1>2, <1>3 DEF Passes

\* A pass that ends.
LEMMA PassEnds ==
    ASSUME Passes, NEW w \in Workers, cursor \in Nat, cursor' = cursor, Abandon(w)
    PROVE  Passes'
<1>1. <<>> \in Seq(1..cursor')
  BY EmptySeq
<1>2. /\ pc' = [pc EXCEPT ![w] = "idle"] /\ batch' = [batch EXCEPT ![w] = <<>>]
      /\ cursor' \in Nat /\ cursor <= cursor' /\ "idle" \in {"idle", "handle", "ack"}
  BY DEF Abandon
<1>3. QED
  BY <1>1, <1>2, PassChanges, Zenon

\* What holds of the first message of a pass, and of the rest.
LEMMA FirstAndRest ==
    ASSUME TypeOK, NEW w \in Workers, pc[w] # "idle"
    PROVE  /\ Head(batch[w]) \in 1..cursor /\ Tail(batch[w]) \in Seq(1..cursor)
           /\ Len(batch[w]) > 1 <=> Tail(batch[w]) # <<>>
<1>1. batch[w] \in Seq(1..cursor) /\ batch[w] # <<>>
  BY DEF TypeOK
<1>2. /\ Head(batch[w]) \in 1..cursor /\ Tail(batch[w]) \in Seq(1..cursor)
      /\ Len(Tail(batch[w])) = Len(batch[w]) - 1
  BY <1>1, HeadTailProperties
<1>3. /\ Len(batch[w]) \in Nat /\ Len(Tail(batch[w])) \in Nat
      /\ Tail(batch[w]) = <<>> => Len(Tail(batch[w])) = 0
      /\ Tail(batch[w]) # <<>> => Len(Tail(batch[w])) # 0
  BY <1>1, <1>2, LenProperties, EmptySeq
<1> DEFINE n == Len(batch[w])
           rest == Tail(batch[w])
           k == Len(rest)
<1>4. n > 1 <=> k # 0
  <2> HIDE DEF n, k
  <2>1. n \in Nat /\ k \in Nat /\ k = n - 1
    BY <1>2, <1>3 DEF n, k, rest
  <2>2. QED
    BY <2>1
<1>5. QED
  BY <1>2, <1>3, <1>4

\* What is left of a stretch of the stream when its oldest entries go.
LEMMA TrimmedRest ==
    ASSUME NEW a \in Nat, NEW b \in Nat, NEW c \in Nat, NEW m \in a + 1 .. c, m \notin 1..b
    PROVE  m \in b + 1 .. c
OBVIOUS

LEMMA TypeStep == TypeOK /\ [Next]_vars => TypeOK'
<1> SUFFICES ASSUME TypeOK, [Next]_vars
             PROVE  TypeOK'
  OBVIOUS
<1>0. Stream /\ Deliveries /\ Passes
  BY TypeParts
<1>1. SUFFICES Stream' /\ Deliveries' /\ Passes'
  BY TypeParts DEF TypeOK, Stream, Deliveries, Passes, Ordered, Pending
<1>2. CASE UNCHANGED vars
  BY <1>0, <1>2 DEF vars, Stream, Deliveries, Passes, Ordered, Pending
<1>3. CASE Publish
  <2>1. /\ published' \in 0..MaxEvents /\ trimmed' \in trimmed..published /\ published <= published'
        /\ Forget(1..trimmed') /\ UNCHANGED <<cursor, recorded, pc, batch, faults>>
    BY <1>0, <1>3 DEF Publish, Stream
  <2>2. Pending' = Pending \ (1..trimmed') /\ Deliveries'
    BY <2>1, Forgotten DEF Deliveries
  <2>3. Stream'
    <3>1. trimmed' \in 0..published' /\ cursor' \in 0..published'
      BY <1>0, <2>1 DEF Stream
    <3>2. ASSUME NEW m \in Pending'
          PROVE  m \in trimmed' + 1 .. cursor'
      <4>1. m \in trimmed + 1 .. cursor /\ m \notin 1..trimmed'
        BY <1>0, <2>2, <3>2 DEF Stream
      <4>2. trimmed \in Nat /\ trimmed' \in Nat /\ cursor \in Nat /\ cursor' = cursor
        BY <1>0, <2>1 DEF Stream
      <4>3. QED
        BY <4>1, <4>2, TrimmedRest
    <3>3. QED
      BY <1>0, <2>1, <3>1, <3>2 DEF Stream
  <2>4. Passes'
    BY <1>0, <2>1 DEF Passes
  <2>5. QED
    BY <2>2, <2>3, <2>4
<1>4. CASE Elapse
  <2>1. /\ idle' = idle \cup {m \in Pending \ idle : pel[m] \subseteq idle} /\ pel' = pel
        /\ UNCHANGED <<published, trimmed, cursor, recorded, pc, batch, faults>>
    BY <1>4 DEF Elapse
  <2>2. Deliveries'
    BY <1>0, <2>1 DEF Deliveries, Ordered, Pending
  <2>3. QED
    BY <1>0, <2>1, <2>2 DEF Stream, Passes, Pending
<1>5. ASSUME NEW w \in Workers, Read(w)
      PROVE  Stream' /\ Deliveries' /\ Passes'
  <2>1. PICK messages \in Replies :
          /\ Deliver(messages)
          /\ \/ /\ pc' = [pc EXCEPT ![w] = "handle"]
                /\ batch' = [batch EXCEPT ![w] = messages]
                /\ UNCHANGED faults
             \/ Fails("read") /\ UNCHANGED <<pc, batch>>
    BY <1>5 DEF Read
  <2>2. Offered # {} /\ UNCHANGED <<published, trimmed, recorded>>
    BY <1>5 DEF Read
  <2>3. /\ Pending' = Pending \cup ToSet(messages) /\ Deliveries'
        /\ cursor' \in cursor..published /\ ToSet(messages) \subseteq trimmed + 1 .. cursor'
        /\ messages \in Seq(1..cursor')
    BY <2>1, <2>2, Delivered DEF Deliveries
  <2>4. messages # <<>>
    BY <2>2, Replied
  <2>5. cursor \in Nat /\ cursor' \in Nat /\ cursor <= cursor'
    BY <1>0, <2>3 DEF Stream
  <2>6. faults' \in 0..MaxFaults
    BY <1>0, <2>1 DEF Fails, Stream
  <2>7. Stream'
    <3>1. cursor' \in 0..published'
      BY <1>0, <2>2, <2>3 DEF Stream
    <3>2. ASSUME NEW m \in Pending'
          PROVE  m \in trimmed' + 1 .. cursor'
      <4>1. m \in trimmed + 1 .. cursor \/ m \in trimmed + 1 .. cursor'
        BY <1>0, <2>3, <3>2 DEF Stream
      <4>2. QED
        BY <2>2, <2>5, <4>1
    <3>3. \A m \in recorded' : m \in 1..cursor'
      BY <1>0, <2>2, <2>5 DEF Stream
    <3>4. QED
      BY <1>0, <2>2, <2>6, <3>1, <3>2, <3>3 DEF Stream
  <2>8. Passes'
    <3>1. CASE pc' = [pc EXCEPT ![w] = "handle"] /\ batch' = [batch EXCEPT ![w] = messages]
      BY <1>0, <2>3, <2>4, <2>5, <3>1, PassChanges
    <3>2. CASE UNCHANGED <<pc, batch>>
      <4>1. 1..cursor \subseteq 1..cursor'
        BY <2>5
      <4>2. batch \in [Workers -> Seq(1..cursor')]
        BY <1>0, <4>1, SeqMonotonic DEF Passes
      <4>3. QED
        BY <1>0, <3>2, <4>2 DEF Passes
    <3>3. QED
      BY <2>1, <3>1, <3>2
  <2>9. QED
    BY <2>3, <2>7, <2>8
<1>6. ASSUME NEW w \in Workers, Handle(w)
      PROVE  Stream' /\ Deliveries' /\ Passes'
  <2>1. /\ pc[w] = "handle" /\ UNCHANGED <<published, trimmed, cursor, pel, idle>>
        /\ recorded' \subseteq recorded \cup {Head(batch[w])}
        /\ \/ pc' = [pc EXCEPT ![w] = "ack"] /\ batch' = batch /\ faults' = faults
           \/ Abandon(w) /\ (faults' = faults \/ Fails("insert") \/ Fails("commit"))
    BY <1>6 DEF Handle
  <2>2. Head(batch[w]) \in 1..cursor
    BY <2>1, FirstAndRest
  <2>3. faults' \in 0..MaxFaults
    BY <1>0, <2>1 DEF Fails, Stream
  <2>4. Stream' /\ Deliveries'
    BY <1>0, <2>1, <2>2, <2>3 DEF Stream, Deliveries, Ordered, Pending
  <2>5. Passes'
    <3>1. CASE Abandon(w)
      BY <1>0, <2>1, <3>1, PassEnds DEF Stream
    <3>2. CASE pc' = [pc EXCEPT ![w] = "ack"] /\ batch' = batch
      BY <1>0, <2>1, <3>2 DEF Passes
    <3>3. QED
      BY <2>1, <3>1, <3>2
  <2>6. QED
    BY <2>4, <2>5
<1>7. ASSUME NEW w \in Workers, Ack(w)
      PROVE  Stream' /\ Deliveries' /\ Passes'
  <2>1. pc[w] = "ack" /\ UNCHANGED <<published, trimmed, cursor, recorded>>
    BY <1>7 DEF Ack
  <2>2. CASE /\ Forget({Head(batch[w])})
             /\ pc' = [pc EXCEPT ![w] = IF Len(batch[w]) > 1 THEN "handle" ELSE "idle"]
             /\ batch' = [batch EXCEPT ![w] = Tail(@)]
             /\ UNCHANGED faults
    <3>1. Pending' = Pending \ {Head(batch[w])} /\ Deliveries'
      BY <2>2, Forgotten DEF Deliveries
    <3>2. Stream'
      BY <1>0, <2>1, <2>2, <3>1 DEF Stream
    <3>3. Tail(batch[w]) \in Seq(1..cursor) /\ (Len(batch[w]) > 1 <=> Tail(batch[w]) # <<>>)
      BY <2>1, FirstAndRest
    <3>4. Passes'
      <4>1. cursor \in Nat /\ cursor' \in Nat /\ cursor <= cursor' /\ cursor' = cursor
        BY <1>0, <2>1 DEF Stream
      <4>2. CASE Tail(batch[w]) # <<>>
        <5>1. pc' = [pc EXCEPT ![w] = "handle"] /\ "handle" \in {"idle", "handle", "ack"}
          BY <2>2, <3>3, <4>2
        <5>2. QED
          BY <1>0, <2>1, <2>2, <3>3, <4>1, <4>2, <5>1, PassChanges
      <4>3. CASE Tail(batch[w]) = <<>>
        <5>1. Abandon(w)
          BY <2>2, <3>3, <4>3 DEF Abandon
        <5>2. QED
          BY <1>0, <4>1, <5>1, PassEnds
      <4>4. QED
        BY <4>2, <4>3
    <3>5. QED
      BY <3>1, <3>2, <3>4
  <2>3. CASE Fails("ack") /\ Abandon(w) /\ UNCHANGED <<pel, idle>>
    <3>1. Stream' /\ Deliveries'
      BY <1>0, <2>1, <2>3 DEF Fails, Stream, Deliveries, Ordered, Pending
    <3>2. QED
      BY <1>0, <2>1, <2>3, <3>1, PassEnds DEF Stream
  <2>4. QED
    BY <1>7, <2>2, <2>3 DEF Ack
<1>8. ASSUME NEW w \in Workers, Crash(w)
      PROVE  Stream' /\ Deliveries' /\ Passes'
  <2>1. Fails("crash") /\ Abandon(w) /\ UNCHANGED <<published, trimmed, cursor, pel, idle, recorded>>
    BY <1>8 DEF Crash
  <2>2. Stream' /\ Deliveries'
    BY <1>0, <2>1 DEF Fails, Stream, Deliveries, Ordered, Pending
  <2>3. QED
    BY <1>0, <2>1, <2>2, PassEnds DEF Stream
<1>9. QED
  BY <1>2, <1>3, <1>4, <1>5, <1>6, <1>7, <1>8 DEF Next, Process, ReadNothing

LEMMA AckStep == TypeOK /\ AckRecorded /\ [Next]_vars => AckRecorded'
<1> SUFFICES ASSUME TypeOK, AckRecorded, [Next]_vars
             PROVE  AckRecorded'
  OBVIOUS
<1>1. pc \in [Workers -> {"idle", "handle", "ack"}] /\ DOMAIN batch = Workers
  BY DEF TypeOK
<1>2. CASE UNCHANGED <<pc, batch, recorded>>
  BY <1>2 DEF AckRecorded
<1>3. CASE UNCHANGED vars \/ Publish \/ Elapse
  BY <1>2, <1>3 DEF vars, Publish, Elapse
<1>4. ASSUME NEW w \in Workers, recorded \subseteq recorded', pc'[w] # "ack",
             \A v \in Workers \ {w} : pc'[v] = pc[v] /\ batch'[v] = batch[v]
      PROVE  AckRecorded'
  BY <1>4 DEF AckRecorded
<1>5. ASSUME NEW w \in Workers, recorded \subseteq recorded', Abandon(w)
      PROVE  AckRecorded'
  BY <1>1, <1>4, <1>5 DEF Abandon
<1>6. ASSUME NEW w \in Workers, Read(w)
      PROVE  AckRecorded'
  <2>1. recorded' = recorded
    BY <1>6 DEF Read
  <2>2. PICK messages \in Replies :
          \/ pc' = [pc EXCEPT ![w] = "handle"] /\ batch' = [batch EXCEPT ![w] = messages]
          \/ UNCHANGED <<pc, batch>>
    BY <1>6 DEF Read
  <2>3. QED
    BY <1>1, <1>2, <1>4, <2>1, <2>2
<1>7. ASSUME NEW w \in Workers, Handle(w)
      PROVE  AckRecorded'
  <2>1. CASE recorded \subseteq recorded' /\ Abandon(w)
    BY <1>5, <2>1
  <2>2. CASE /\ recorded' = recorded \cup {Head(batch[w])}
             /\ pc' = [pc EXCEPT ![w] = "ack"] /\ batch' = batch
    BY <1>1, <2>2 DEF AckRecorded
  <2>3. QED
    BY <1>7, <2>1, <2>2 DEF Handle
<1>8. ASSUME NEW w \in Workers, Ack(w)
      PROVE  AckRecorded'
  <2>1. recorded' = recorded
    BY <1>8 DEF Ack
  <2>2. CASE Abandon(w)
    BY <1>5, <2>1, <2>2
  <2>3. CASE /\ pc' = [pc EXCEPT ![w] = IF Len(batch[w]) > 1 THEN "handle" ELSE "idle"]
             /\ batch' = [batch EXCEPT ![w] = Tail(@)]
    BY <1>1, <1>4, <2>1, <2>3
  <2>4. QED
    BY <1>8, <2>2, <2>3 DEF Ack
<1>9. ASSUME NEW w \in Workers, Crash(w)
      PROVE  AckRecorded'
  BY <1>5, <1>9 DEF Crash
<1>10. QED
  BY <1>3, <1>6, <1>7, <1>8, <1>9 DEF Next, Process, ReadNothing

LEMMA DeliveredStep ==
    TypeOK /\ AckRecorded /\ DeliveredIsRecordedOrPending /\ [Next]_vars
    => DeliveredIsRecordedOrPending'
<1> SUFFICES ASSUME TypeOK, AckRecorded, DeliveredIsRecordedOrPending, [Next]_vars,
                    NEW m \in Events, trimmed' < m, m <= cursor'
             PROVE  m \in recorded' \cup Pending'
  BY DEF DeliveredIsRecordedOrPending, Events
<1>0. /\ published \in Nat /\ trimmed \in Nat /\ cursor \in Nat /\ m \in Nat /\ m >= 1
      /\ trimmed < m /\ m <= cursor => m \in recorded \cup Pending
  BY DEF TypeOK, Events, DeliveredIsRecordedOrPending
<1>1. CASE UNCHANGED <<trimmed, cursor, pel>> /\ recorded \subseteq recorded'
  BY <1>0, <1>1 DEF Pending
<1>2. CASE UNCHANGED vars \/ Elapse
  BY <1>1, <1>2 DEF vars, Elapse
<1>3. CASE Publish
  <2>1. trimmed' \in trimmed..published /\ cursor' = cursor /\ recorded' = recorded
    BY <1>3 DEF Publish
  <2>2. Pending' = Pending \ (1..trimmed')
    BY <1>3, Forgotten DEF Publish
  <2>3. trimmed' \in Nat /\ trimmed < m /\ m <= cursor
    BY <1>0, <2>1
  <2>4. m \notin 1..trimmed'
    BY <1>0, <2>3
  <2>5. QED
    BY <1>0, <2>1, <2>2, <2>3, <2>4
<1>4. ASSUME NEW w \in Workers, Read(w)
      PROVE  m \in recorded' \cup Pending'
  <2>1. PICK messages \in Replies : Deliver(messages)
    BY <1>4 DEF Read
  <2>2. Offered # {} /\ UNCHANGED <<trimmed, recorded>>
    BY <1>4 DEF Read
  <2>3. /\ Pending' = Pending \cup ToSet(messages)
        /\ cursor < m /\ trimmed < m /\ m <= cursor' => m \in ToSet(messages)
    BY <2>1, <2>2, Delivered
  <2>4. cursor < m \/ m <= cursor
    BY <1>0
  <2>5. QED
    BY <1>0, <2>2, <2>3, <2>4
<1>5. ASSUME NEW w \in Workers, Handle(w)
      PROVE  m \in recorded' \cup Pending'
  BY <1>1, <1>5 DEF Handle
<1>6. ASSUME NEW w \in Workers, Ack(w)
      PROVE  m \in recorded' \cup Pending'
  <2>1. UNCHANGED <<trimmed, cursor, recorded>>
    BY <1>6 DEF Ack
  <2>2. CASE Forget({Head(batch[w])})
    <3>1. Pending' = Pending \ {Head(batch[w])}
      BY <2>2, Forgotten
    <3>2. Head(batch[w]) \in recorded
      BY <1>6 DEF Ack, AckRecorded
    <3>3. QED
      BY <1>0, <2>1, <3>1, <3>2
  <2>3. CASE UNCHANGED <<pel, idle>>
    BY <1>1, <2>1, <2>3
  <2>4. QED
    BY <1>6, <2>2, <2>3 DEF Ack
<1>7. ASSUME NEW w \in Workers, Crash(w)
      PROVE  m \in recorded' \cup Pending'
  BY <1>1, <1>7 DEF Crash
<1>8. QED
  BY <1>2, <1>3, <1>4, <1>5, <1>6, <1>7 DEF Next, Process, ReadNothing

LEMMA InitEventInv == Init => EventInv
<1> SUFFICES ASSUME Init
             PROVE  EventInv
  OBVIOUS
<1>1. <<>> \in Seq(1..cursor)
  BY EmptySeq
<1>2. batch \in [Workers -> Seq(1..cursor)] /\ \A w \in Workers : batch[w] = <<>>
  BY <1>1 DEF Init
<1>3. Pending = {}
  BY DEF Init, Pending
<1>4. TypeOK
  BY <1>2, <1>3 DEF Init, TypeOK
<1>5. DeliveredIsRecordedOrPending
  BY DEF Init, DeliveredIsRecordedOrPending, Events
<1>6. AckRecorded
  BY DEF Init, AckRecorded
<1>7. QED
  BY <1>4, <1>5, <1>6 DEF EventInv

LEMMA EventsHold == Spec => []EventInv
<1>1. EventInv /\ [Next]_vars => EventInv'
  BY TypeStep, AckStep, DeliveredStep DEF EventInv
<1>2. QED
  BY <1>1, InitEventInv, PTL DEF Spec

\* The group's pending list stays in order, and within what was delivered and not
\* trimmed, however deliveries, claims, acknowledgements and trimming interleave.
THEOREM Typing == Spec => []TypeOK
<1>1. EventInv => TypeOK
  BY DEF EventInv
<1>2. QED
  BY <1>1, EventsHold, PTL

\* No event that was delivered is lost as long as the stream keeps it: it is in the
\* audit log or will be delivered again, whatever fails, for any number of workers.
THEOREM DeliveredIsNotLost == Spec => []DeliveredIsRecordedOrPending
<1>1. EventInv => DeliveredIsRecordedOrPending
  BY DEF EventInv
<1>2. QED
  BY <1>1, EventsHold, PTL

-----------------------------------------------------------------------------
(* Refinement of EventLedger *)

\* A reply moves entries from the new ones to the pending ones.
LEMMA ReadOwesTheSame ==
    ASSUME TypeOK, TypeOK', NEW w \in Workers, Read(w)
    PROVE  Owed' = Owed
<1>1. PICK messages \in Replies : Deliver(messages)
  BY DEF Read
<1>2. Offered # {} /\ UNCHANGED <<published, trimmed, recorded>>
  BY DEF Read
<1>3. /\ Pending' = Pending \cup ToSet(messages)
      /\ cursor' \in cursor..published
      /\ ToSet(messages) \subseteq Offered
      /\ \A m \in Events : cursor < m /\ trimmed < m /\ m <= cursor' => m \in ToSet(messages)
  BY <1>1, <1>2, Delivered, Replied
<1>4. published \in Nat /\ trimmed \in Nat /\ cursor \in Nat /\ cursor' \in Nat /\ cursor <= cursor'
  BY <1>3 DEF TypeOK
<1>5. ToSet(messages) \subseteq Owed
  BY <1>3 DEF Offered, Owed, TypeOK
<1>6. Fresh' \subseteq Fresh
  BY <1>2, <1>4 DEF Fresh, Events
<1>7. Fresh \subseteq Fresh' \cup ToSet(messages)
  BY <1>2, <1>3, <1>4 DEF Fresh, Events
<1>8. QED
  BY <1>3, <1>5, <1>6, <1>7 DEF Owed

\* Publishing owes one event more, less what is trimmed.
LEMMA PublishOwes ==
    ASSUME TypeOK, TypeOK', Publish
    PROVE  Ledger!Publish
<1>1. /\ published < MaxEvents /\ published' = published + 1 /\ trimmed' \in trimmed..published
      /\ cursor' = cursor /\ recorded' = recorded
  BY DEF Publish
<1>2. Pending' = Pending \ (1..trimmed')
  BY Forgotten DEF Publish
<1>3. published \in Nat /\ trimmed \in Nat /\ cursor \in 0..published /\ MaxEvents \in Nat
  BY DEF TypeOK
<1>4. trimmed' \in 0..published
  BY <1>1, <1>3
<1>5. Fresh' = (Fresh \cup {published'}) \ (1..trimmed')
  BY <1>1, <1>3, <1>4 DEF Fresh, Events
<1>6. published' \notin Pending
  BY <1>1, <1>3 DEF TypeOK
<1>7. Owed' = (Owed \cup {published'}) \ (1..trimmed')
  BY <1>2, <1>5 DEF Owed
<1>8. QED
  BY <1>1, <1>4, <1>7 DEF Ledger!Publish

\* Who neither reads nor acknowledges leaves what is owed alone.
LEMMA StreamKept ==
    ASSUME UNCHANGED <<published, trimmed, cursor, pel>>
    PROVE  Owed' = Owed
BY DEF Owed, Fresh, Pending, Events

LEMMA HandleRecords ==
    ASSUME TypeOK, NEW w \in Workers, Handle(w)
    PROVE  [Ledger!Next]_(Ledger!vars)
<1> DEFINE m == Head(batch[w])
<1>1. published' = published /\ Owed' = Owed
  BY StreamKept DEF Handle
<1>2. m \in 1..cursor
  BY FirstAndRest DEF Handle
<1>3. m \in 1..published /\ m \in 1..MaxEvents
  BY <1>2 DEF TypeOK
<1>4. recorded' = recorded \/ recorded' = recorded \cup {m}
  BY DEF Handle
<1>5. CASE recorded' = recorded
  BY <1>1, <1>5 DEF Ledger!vars
<1>6. CASE recorded' = recorded \cup {m} /\ m \notin recorded
  BY <1>1, <1>3, <1>6 DEF Ledger!Next, Ledger!Record
<1>7. QED
  BY <1>4, <1>5, <1>6

LEMMA AckSettles ==
    ASSUME TypeOK, AckRecorded, NEW w \in Workers, Ack(w)
    PROVE  [Ledger!Next]_(Ledger!vars)
<1> DEFINE m == Head(batch[w])
<1>1. UNCHANGED <<published, trimmed, cursor, recorded>> /\ m \in recorded
  BY DEF Ack, AckRecorded
<1>2. m \in 1..cursor
  BY FirstAndRest DEF Ack
<1>3. m \in 1..MaxEvents /\ m \notin Fresh /\ Fresh' = Fresh
  BY <1>1, <1>2 DEF TypeOK, Fresh, Events
<1>4. CASE UNCHANGED <<pel, idle>>
  BY <1>1, <1>4, StreamKept DEF Ledger!vars
<1>5. CASE Forget({m})
  <2>1. Pending' = Pending \ {m}
    BY <1>5, Forgotten
  <2>2. Owed' = Owed \ {m}
    BY <1>3, <2>1 DEF Owed
  <2>3. CASE m \in Owed
    BY <1>1, <1>3, <2>2, <2>3 DEF Ledger!Next, Ledger!Settle
  <2>4. CASE m \notin Owed
    BY <1>1, <2>2, <2>4 DEF Ledger!vars
  <2>5. QED
    BY <2>3, <2>4
<1>6. QED
  BY <1>4, <1>5 DEF Ack

LEMMA LedgerStep == EventInv /\ EventInv' /\ [Next]_vars => [Ledger!Next]_(Ledger!vars)
<1> SUFFICES ASSUME EventInv, EventInv', [Next]_vars
             PROVE  [Ledger!Next]_(Ledger!vars)
  OBVIOUS
<1>1. CASE UNCHANGED <<published, trimmed, cursor, pel, recorded>>
  BY <1>1, StreamKept DEF Ledger!vars
<1>2. CASE UNCHANGED vars \/ Elapse
  BY <1>1, <1>2 DEF vars, Elapse
<1>3. CASE Publish
  BY <1>3, PublishOwes DEF EventInv, Ledger!Next
<1>4. ASSUME NEW w \in Workers, Read(w)
      PROVE  [Ledger!Next]_(Ledger!vars)
  <2>1. Owed' = Owed
    BY <1>4, ReadOwesTheSame DEF EventInv
  <2>2. QED
    BY <1>4, <2>1 DEF Read, Ledger!vars
<1>5. ASSUME NEW w \in Workers, Handle(w)
      PROVE  [Ledger!Next]_(Ledger!vars)
  BY <1>5, HandleRecords DEF EventInv
<1>6. ASSUME NEW w \in Workers, Ack(w)
      PROVE  [Ledger!Next]_(Ledger!vars)
  BY <1>6, AckSettles DEF EventInv
<1>7. ASSUME NEW w \in Workers, Crash(w)
      PROVE  [Ledger!Next]_(Ledger!vars)
  BY <1>1, <1>7 DEF Crash
<1>8. QED
  BY <1>2, <1>3, <1>4, <1>5, <1>6, <1>7 DEF Next, Process, ReadNothing

\* Whatever fails and however workers overlap, an event leaves what is owed only for
\* the log or by its retention, is not owed again, and enters the log once.
THEOREM Refinement == Spec => ImplementsLedger
<1>1. Init => Ledger!Init
  BY DEF Init, Ledger!Init, Owed, Pending, Fresh, Events
<1>2. EventInv /\ EventInv' /\ [Next]_vars => [Ledger!Next]_(Ledger!vars)
  BY LedgerStep
<1>3. QED
  BY <1>1, <1>2, EventsHold, PTL DEF Spec, ImplementsLedger, Ledger!Spec
=============================================================================
