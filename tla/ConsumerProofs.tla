--------------------------- MODULE ConsumerProofs ---------------------------
(***************************************************************************)
(* Theorems about Consumer, for every set of messages, every number of     *)
(* loops, every retry budget and both kinds of port.                       *)
(***************************************************************************)
EXTENDS Consumer, SequenceTheorems, TLAPS

(***************************************************************************)
(* Facts about the sequences and the retry operators.                      *)
(***************************************************************************)

\* Appending adds one message, and keeps a queue free of duplicates when the
\* message is not on it (enqueue, lines 51, 54 and 60).
LEMMA AppendElements ==
    ASSUME NEW s \in Seq(BrokerMessages), NEW m \in BrokerMessages
    PROVE  /\ Append(s, m) \in Seq(BrokerMessages)
           /\ Elements(Append(s, m)) = Elements(s) \cup {m}
           /\ IdsOf(Append(s, m)) = IdsOf(s) \cup {m.id}
           /\ OnceEach(s) /\ m.id \notin IdsOf(s) => OnceEach(Append(s, m))
  <1> DEFINE t == Append(s, m)
  <1>1. /\ t \in Seq(BrokerMessages)
        /\ Len(s) \in Nat
        /\ DOMAIN s = 1..Len(s)
        /\ DOMAIN t = 1..(Len(s) + 1)
        /\ \A i \in 1..Len(s) : t[i] = s[i]
        /\ t[Len(s) + 1] = m
    OBVIOUS
  <1>2. Elements(t) = Elements(s) \cup {m}
    BY <1>1 DEF Elements
  <1>3. IdsOf(t) = IdsOf(s) \cup {m.id}
    BY <1>1 DEF IdsOf
  <1>4. ASSUME OnceEach(s), m.id \notin IdsOf(s)  PROVE OnceEach(t)
    <2> SUFFICES ASSUME NEW i \in DOMAIN t, NEW j \in DOMAIN t, t[i].id = t[j].id
                 PROVE  i = j
      BY DEF OnceEach
    <2>1. \A k \in 1..Len(s) : s[k].id # m.id
      BY <1>1, <1>4 DEF IdsOf
    <2>2. CASE i \in 1..Len(s) /\ j \in 1..Len(s)
      BY <1>1, <1>4, <2>2 DEF OnceEach
    <2>3. CASE i = Len(s) + 1 \/ j = Len(s) + 1
      BY <1>1, <2>1, <2>3
    <2>4. QED
      BY <1>1, <2>2, <2>3
  <1>5. QED
    BY <1>1, <1>2, <1>3, <1>4

\* Taking the head removes that message and no other (dequeue, line 83).
LEMMA TailElements ==
    ASSUME NEW s \in Seq(BrokerMessages), s # <<>>, OnceEach(s)
    PROVE  /\ Head(s) \in BrokerMessages
           /\ Head(s) \in Elements(s)
           /\ Head(s).id \in IdsOf(s)
           /\ Tail(s) \in Seq(BrokerMessages)
           /\ Elements(Tail(s)) = Elements(s) \ {Head(s)}
           /\ IdsOf(Tail(s)) = IdsOf(s) \ {Head(s).id}
           /\ OnceEach(Tail(s))
  <1> DEFINE t == Tail(s)
  <1>1. /\ Len(s) \in Nat
        /\ Len(s) >= 1
        /\ DOMAIN s = 1..Len(s)
        /\ s[1] = Head(s)
        /\ Head(s) \in BrokerMessages
        /\ t \in Seq(BrokerMessages)
        /\ DOMAIN t = 1..(Len(s) - 1)
        /\ \A i \in 1..(Len(s) - 1) : t[i] = s[i + 1]
    BY HeadTailProperties, EmptySeq
  <1>2. \A i \in 1..Len(s) : s[i].id = s[1].id => i = 1
    BY <1>1 DEF OnceEach
  <1>3. \A i \in 2..Len(s) : i - 1 \in DOMAIN t /\ t[i - 1] = s[i]
    BY <1>1
  <1>4. \A i \in DOMAIN t : i + 1 \in 2..Len(s) /\ i + 1 \in DOMAIN s /\ t[i] = s[i + 1]
    BY <1>1
  <1>5. Elements(t) = Elements(s) \ {Head(s)}
    <2>1. ASSUME NEW x \in Elements(t)  PROVE x \in Elements(s) \ {Head(s)}
      BY <1>1, <1>2, <1>4, <2>1 DEF Elements
    <2>2. ASSUME NEW x \in Elements(s) \ {Head(s)}  PROVE x \in Elements(t)
      <3>1. PICK i \in 1..Len(s) : x = s[i]
        BY <1>1, <2>2 DEF Elements
      <3>2. i \in 2..Len(s)
        BY <1>1, <2>2, <3>1
      <3>3. i - 1 \in DOMAIN t /\ t[i - 1] = s[i]
        BY <1>3, <3>2
      <3>4. QED
        BY <3>1, <3>3 DEF Elements
    <2>3. QED
      BY <2>1, <2>2
  <1>6. IdsOf(t) = IdsOf(s) \ {Head(s).id}
    <2>1. ASSUME NEW x \in IdsOf(t)  PROVE x \in IdsOf(s) \ {Head(s).id}
      BY <1>1, <1>2, <1>4, <2>1 DEF IdsOf
    <2>2. ASSUME NEW x \in IdsOf(s) \ {Head(s).id}  PROVE x \in IdsOf(t)
      <3>1. PICK i \in 1..Len(s) : x = s[i].id
        BY <1>1, <2>2 DEF IdsOf
      <3>2. i \in 2..Len(s)
        BY <1>1, <2>2, <3>1
      <3>3. i - 1 \in DOMAIN t /\ t[i - 1] = s[i]
        BY <1>3, <3>2
      <3>4. QED
        BY <3>1, <3>3 DEF IdsOf
    <2>3. QED
      BY <2>1, <2>2
  <1>7. OnceEach(t)
    <2> SUFFICES ASSUME NEW i \in DOMAIN t, NEW j \in DOMAIN t, t[i].id = t[j].id
                 PROVE  i = j
      BY DEF OnceEach
    <2>1. i + 1 = j + 1
      BY <1>4 DEF OnceEach
    <2>2. QED
      BY <1>1, <2>1
  <1>8. Head(s) \in Elements(s) /\ Head(s).id \in IdsOf(s)
    <2>1. 1 \in DOMAIN s
      BY <1>1
    <2>2. QED
      BY <1>1, <2>1 DEF Elements, IdsOf
  <1>9. QED
    BY <1>1, <1>5, <1>6, <1>7, <1>8

\* An attempt number is an integer of at least 1, so decideRetry never throws
\* (lines 18-22 and retry.ts line 25).
LEMMA AttemptPositive ==
    ASSUME NEW h \in Int
    PROVE  /\ ReadAttempt(h) \in Int /\ ReadAttempt(h) >= 1
           /\ DecideRetry(ReadAttempt(h), MaxAttempts) # "RangeError"
  BY ConsumerAssumption DEF ReadAttempt, DecideRetry

\* A retried message carries the next attempt, which is within the budget.
LEMMA NextAttemptProperties ==
    ASSUME NEW m \in BrokerMessages
    PROVE  /\ NextAttempt(m) \in BrokerMessages
           /\ NextAttempt(m).id = m.id
           /\ NextAttempt(m).header = ReadAttempt(m.header) + 1
           /\ ReadAttempt(NextAttempt(m).header) = ReadAttempt(m.header) + 1
           /\ DecideRetry(ReadAttempt(m.header), MaxAttempts) = "retry" =>
                 /\ NextAttempt(m).header \in 2..MaxAttempts
                 /\ ReadAttempt(m.header) < MaxAttempts
  BY ConsumerAssumption DEF BrokerMessages, NextAttempt, ReadAttempt, DecideRetry
-----------------------------------------------------------------------------
(***************************************************************************)
(* Types.  A delivery that is open is one a loop took from the queue, so   *)
(* it holds a message: without Holding, an action that reads msg[l].header *)
(* would not keep the types.                                               *)
(***************************************************************************)
Holding == \A l \in Loops : /\ pc[l] = "handling" => msg[l] \in BrokerMessages
                            /\ ~settled[l] => pc[l] = "handling"

Typed == TypeOK /\ Holding

LEMMA EnqueueTyped ==
    ASSUME TypeOK, NEW m \in BrokerMessages, Enqueue(m)
    PROVE  queue' \in Seq(BrokerMessages) /\ wire' \subseteq BrokerMessages
  <1>1. Append(queue, m) \in Seq(BrokerMessages)
    BY AppendElements DEF TypeOK
  <1>2. CASE Delayed
    BY <1>2 DEF TypeOK, Enqueue
  <1>3. CASE ~Delayed
    BY <1>1, <1>3 DEF TypeOK, Enqueue
  <1>4. QED
    BY <1>2, <1>3

\* Whatever settle does, the queues keep holding broker messages.
LEMMA SettleTyped ==
    ASSUME Typed, NEW l \in Loops, pc[l] = "handling",
           NEW action, NEW ok, Settle(l, action, ok)
    PROVE  /\ queue' \in Seq(BrokerMessages) /\ wire' \subseteq BrokerMessages
           /\ dlq' \in Seq(BrokerMessages)
           /\ acked' \subseteq BrokerMessages /\ lost' \subseteq BrokerMessages
           /\ settled' = [settled EXCEPT ![l] = TRUE]
           /\ settled' \in [Loops -> BOOLEAN]
  <1>1. msg[l] \in BrokerMessages
    BY DEF Typed, Holding
  <1>2. NextAttempt(msg[l]) \in BrokerMessages
    BY <1>1, NextAttemptProperties
  <1>3. CASE Requeue(msg[l])
    BY <1>2, <1>3, EnqueueTyped DEF Settle, Requeue, Typed, TypeOK
  <1>4. CASE DeadLetter(msg[l])
    BY <1>1, <1>4, AppendElements DEF Settle, DeadLetter, Typed, TypeOK
  <1>5. CASE Acknowledge(msg[l])
    BY <1>1, <1>5 DEF Settle, Acknowledge, Typed, TypeOK
  <1>6. CASE Lose(msg[l])
    BY <1>1, <1>6 DEF Settle, Lose, Typed, TypeOK
  <1>7. QED
    BY <1>3, <1>4, <1>5, <1>6 DEF Settle, RetryMessage

LEMMA PollTyped ==
    ASSUME Typed, NEW l \in Loops, Poll(l), pc[l] # "handling"
    PROVE  /\ queue' \in Seq(BrokerMessages)
           /\ pc' \in [Loops -> {"idle", "handling", "next"}]
           /\ msg' \in [Loops -> BrokerMessages \cup {NoMessage}]
           /\ settled' \in [Loops -> BOOLEAN]
           /\ Holding'
  <1>1. CASE queue = <<>>
    BY <1>1 DEF Poll, Typed, TypeOK, Holding
  <1>2. CASE queue # <<>>
    <2>1. Head(queue) \in BrokerMessages /\ Tail(queue) \in Seq(BrokerMessages)
      BY <1>2, HeadTailProperties, EmptySeq DEF Typed, TypeOK
    <2>2. QED
      BY <1>2, <2>1 DEF Poll, Typed, TypeOK, Holding
  <1>3. QED
    BY <1>1, <1>2

LEMMA TypedInit == Init => Typed
  <1>1. <<>> \in Seq(BrokerMessages)
    BY EmptySeq
  <1>2. QED
    BY <1>1 DEF Init, Typed, TypeOK, Holding

LEMMA TypedStep == Typed /\ [Next]_vars => Typed'
  <1> SUFFICES ASSUME Typed, [Next]_vars  PROVE Typed'
    OBVIOUS
  <1>1. CASE UNCHANGED vars
    BY <1>1 DEF Typed, TypeOK, Holding, vars, held
  <1>2. ASSUME NEW m \in Messages, NEW h \in Headers, Publish(m, h)  PROVE Typed'
    <2>1. [id |-> m, header |-> h] \in BrokerMessages
      BY ConsumerAssumption DEF BrokerMessages
    <2>2. QED
      BY <1>2, <2>1, EnqueueTyped DEF Publish, Typed, TypeOK, Holding, held
  <1>3. ASSUME NEW m \in wire, Arrive(m)  PROVE Typed'
    <2>1. m \in BrokerMessages
      BY DEF Typed, TypeOK
    <2>2. QED
      BY <1>3, <2>1, AppendElements DEF Arrive, Typed, TypeOK, Holding, held
  <1>4. ASSUME NEW l \in Loops, Start(l)  PROVE Typed'
    BY <1>4, PollTyped DEF Start, Typed, TypeOK
  <1>5. ASSUME NEW l \in Loops, NEW action, NEW ok, HandlerSettles(l, action, ok)  PROVE Typed'
    BY <1>5, SettleTyped DEF HandlerSettles, Typed, TypeOK, Holding
  <1>6. ASSUME NEW l \in Loops, Resolve(l)  PROVE Typed'
    <2>1. CASE settled[l]
      BY <1>6, <2>1 DEF Resolve, Typed, TypeOK, Holding
    <2>2. CASE ~settled[l]
      BY <1>6, <2>2, SettleTyped DEF Resolve, Typed, TypeOK, Holding
    <2>3. QED
      BY <2>1, <2>2
  <1>7. ASSUME NEW l \in Loops, NEW ok \in BOOLEAN, Reject(l, ok)  PROVE Typed'
    <2>1. CASE settled[l]
      BY <1>7, <2>1 DEF Reject, Typed, TypeOK, Holding
    <2>2. CASE ~settled[l]
      BY <1>7, <2>2, SettleTyped DEF Reject, Typed, TypeOK, Holding
    <2>3. QED
      BY <2>1, <2>2
  <1>8. ASSUME NEW l \in Loops, Continue(l)  PROVE Typed'
    <2>1. CASE running
      BY <1>8, <2>1, PollTyped DEF Continue, Typed, TypeOK
    <2>2. CASE ~running
      BY <1>8, <2>2 DEF Continue, Typed, TypeOK, Holding
    <2>3. QED
      BY <2>1, <2>2
  <1>9. CASE Stop
    BY <1>9 DEF Stop, Typed, TypeOK, Holding, held
  <1>10. QED
    BY <1>1, <1>2, <1>3, <1>4, <1>5, <1>6, <1>7, <1>8, <1>9 DEF Next

\* Type correctness: the loops, the queues and the history hold what TypeOK says.
THEOREM TypeCorrect == Spec => []TypeOK
  <1>1. Typed => TypeOK
    BY DEF Typed
  <1>2. QED
    BY <1>1, TypedInit, TypedStep, PTL DEF Spec

\* A loop that left its handler has settled the delivery, so a context kept by
\* a handler that ended is dead (lines 41-43 and 71-75).
THEOREM EndedDeliveriesSettled == Spec => []EndedIsSettled
  <1>1. Typed => EndedIsSettled
    BY DEF Typed, Holding, EndedIsSettled
  <1>2. QED
    BY <1>1, TypedInit, TypedStep, PTL DEF Spec
-----------------------------------------------------------------------------
(***************************************************************************)
(* Conservation.  With the types, ExactlyOnePlace is inductive: an action  *)
(* moves one message from the place it is in, which the invariant says is  *)
(* the only one, to another.                                               *)
(***************************************************************************)
Inv == Typed /\ ExactlyOnePlace

\* Settling an open delivery takes its message, and no other, out of the
\* handlers' hands.
LEMMA OpenClosed ==
    ASSUME Inv, NEW l \in Loops, ~settled[l],
           settled' = [settled EXCEPT ![l] = TRUE], msg' = msg
    PROVE  /\ msg[l].id \in OpenIds
           /\ OpenIds' = OpenIds \ {msg[l].id}
           /\ \A j, k \in Open' : msg'[j].id = msg'[k].id => j = k
  <1>1. Open' = Open \ {l} /\ l \in Open
    BY DEF Open, Inv, Typed, TypeOK
  <1>2. \A j, k \in Open : msg[j].id = msg[k].id => j = k
    BY DEF Inv, ExactlyOnePlace, NoDuplicates
  <1>3. QED
    BY <1>1, <1>2 DEF OpenIds

\* Taking a message that no handler holds opens one delivery.
LEMMA OpenOpened ==
    ASSUME Inv, NEW l \in Loops, settled[l], NEW m \in BrokerMessages, m.id \notin OpenIds,
           settled' = [settled EXCEPT ![l] = FALSE], msg' = [msg EXCEPT ![l] = m]
    PROVE  /\ OpenIds' = OpenIds \cup {m.id}
           /\ \A j, k \in Open' : msg'[j].id = msg'[k].id => j = k
  <1>1. Open' = Open \cup {l} /\ l \notin Open
    BY DEF Open, Inv, Typed, TypeOK
  <1>2. \A k \in Open : msg'[k] = msg[k]
    BY <1>1 DEF Open, Inv, Typed, TypeOK
  <1>3. msg'[l] = m
    BY DEF Inv, Typed, TypeOK
  <1>4. \A j, k \in Open : msg[j].id = msg[k].id => j = k
    BY DEF Inv, ExactlyOnePlace, NoDuplicates
  <1>5. \A k \in Open : msg[k].id # m.id
    BY DEF OpenIds
  <1>6. QED
    BY <1>1, <1>2, <1>3, <1>4, <1>5 DEF OpenIds

\* enqueue puts a message that is nowhere else in the queue or on the wire.
LEMMA EnqueuePlaces ==
    ASSUME Inv, NEW m \in BrokerMessages, Enqueue(m), m.id \notin QueueIds \cup WireIds
    PROVE  /\ \/ QueueIds' = QueueIds \cup {m.id} /\ WireIds' = WireIds
              \/ QueueIds' = QueueIds /\ WireIds' = WireIds \cup {m.id}
           /\ OnceEach(queue)' /\ OnceIn(wire)'
  <1>1. OnceEach(queue) /\ OnceIn(wire)
    BY DEF Inv, ExactlyOnePlace, NoDuplicates
  <1>2. CASE Delayed
    <2>1. wire' = wire \cup {m} /\ queue' = queue
      BY <1>2 DEF Enqueue
    <2>2. QED
      BY <1>1, <2>1 DEF QueueIds, WireIds, OnceIn, OnceEach, IdsOf
  <1>3. CASE ~Delayed
    <2>1. queue' = Append(queue, m) /\ wire' = wire
      BY <1>3 DEF Enqueue
    <2>2. QED
      BY <1>1, <2>1, AppendElements DEF QueueIds, WireIds, OnceIn, Inv, Typed, TypeOK
  <1>4. QED
    BY <1>2, <1>3

\* settle moves the message of an open delivery to the place its action says.
LEMMA SettleMoves ==
    ASSUME Inv, NEW l \in Loops, ~settled[l],
           NEW action, NEW ok, Settle(l, action, ok), msg' = msg, sent' = sent
    PROVE  ExactlyOnePlace'
  <1> DEFINE m == msg[l]
  <1>1. m \in BrokerMessages
    BY DEF Inv, Typed, Holding
  <1>2. /\ m.id \in OpenIds
        /\ OpenIds' = OpenIds \ {m.id}
        /\ \A j, k \in Open' : msg'[j].id = msg'[k].id => j = k
    BY OpenClosed DEF Settle
  <1>3. /\ PairwiseDisjoint
        /\ NoDuplicates
        /\ sent' = QueueIds \cup WireIds \cup OpenIds \cup DlqIds \cup AckedIds \cup LostIds
    BY DEF Inv, ExactlyOnePlace
  <1>4. /\ m.id \notin QueueIds /\ m.id \notin WireIds /\ m.id \notin DlqIds
        /\ m.id \notin AckedIds /\ m.id \notin LostIds
    BY <1>2, <1>3 DEF PairwiseDisjoint
  <1>5. CASE Requeue(m)
    <2>1. NextAttempt(m) \in BrokerMessages /\ NextAttempt(m).id = m.id
      BY <1>1, NextAttemptProperties
    <2>2. /\ \/ QueueIds' = QueueIds \cup {m.id} /\ WireIds' = WireIds
             \/ QueueIds' = QueueIds /\ WireIds' = WireIds \cup {m.id}
          /\ OnceEach(queue)' /\ OnceIn(wire)'
      BY <1>4, <1>5, <2>1, EnqueuePlaces DEF Requeue
    <2>3. DlqIds' = DlqIds /\ AckedIds' = AckedIds /\ LostIds' = LostIds
      BY <1>5 DEF Requeue, DlqIds, AckedIds, LostIds, IdsOf
    <2>4. OnceEach(dlq)' /\ OnceIn(acked)' /\ OnceIn(lost)'
      BY <1>3, <1>5 DEF Requeue, NoDuplicates, OnceEach, OnceIn
    <2>5. NoDuplicates'
      BY <1>2, <2>2, <2>4 DEF NoDuplicates
    <2>6. PairwiseDisjoint'
      BY <1>2, <1>3, <1>4, <2>2, <2>3 DEF PairwiseDisjoint
    <2>7. QED
      BY <1>2, <1>3, <2>2, <2>3, <2>5, <2>6 DEF ExactlyOnePlace
  <1>6. CASE DeadLetter(m)
    <2>1. OnceEach(dlq)
      BY <1>3 DEF NoDuplicates
    <2>2. DlqIds' = DlqIds \cup {m.id} /\ OnceEach(dlq)'
      BY <1>1, <1>4, <1>6, <2>1, AppendElements DEF DeadLetter, DlqIds, Inv, Typed, TypeOK
    <2>3. QueueIds' = QueueIds /\ WireIds' = WireIds /\ AckedIds' = AckedIds /\ LostIds' = LostIds
      BY <1>6 DEF DeadLetter, QueueIds, WireIds, AckedIds, LostIds, IdsOf
    <2>4. OnceEach(queue)' /\ OnceIn(wire)' /\ OnceIn(acked)' /\ OnceIn(lost)'
      BY <1>3, <1>6 DEF DeadLetter, NoDuplicates, OnceEach, OnceIn
    <2>5. NoDuplicates'
      BY <1>2, <2>2, <2>4 DEF NoDuplicates
    <2>6. PairwiseDisjoint'
      BY <1>2, <1>3, <1>4, <2>2, <2>3 DEF PairwiseDisjoint
    <2>7. QED
      BY <1>2, <1>3, <2>2, <2>3, <2>5, <2>6 DEF ExactlyOnePlace
  <1>7. CASE Acknowledge(m)
    <2>1. AckedIds' = AckedIds \cup {m.id} /\ OnceIn(acked)'
      BY <1>3, <1>4, <1>7 DEF Acknowledge, AckedIds, OnceIn, NoDuplicates
    <2>2. QueueIds' = QueueIds /\ WireIds' = WireIds /\ DlqIds' = DlqIds /\ LostIds' = LostIds
      BY <1>7 DEF Acknowledge, QueueIds, WireIds, DlqIds, LostIds, IdsOf
    <2>3. OnceEach(queue)' /\ OnceIn(wire)' /\ OnceEach(dlq)' /\ OnceIn(lost)'
      BY <1>3, <1>7 DEF Acknowledge, NoDuplicates, OnceEach, OnceIn
    <2>4. NoDuplicates'
      BY <1>2, <2>1, <2>3 DEF NoDuplicates
    <2>5. PairwiseDisjoint'
      BY <1>2, <1>3, <1>4, <2>1, <2>2 DEF PairwiseDisjoint
    <2>6. QED
      BY <1>2, <1>3, <2>1, <2>2, <2>4, <2>5 DEF ExactlyOnePlace
  <1>8. CASE Lose(m)
    <2>1. LostIds' = LostIds \cup {m.id} /\ OnceIn(lost)'
      BY <1>3, <1>4, <1>8 DEF Lose, LostIds, OnceIn, NoDuplicates
    <2>2. QueueIds' = QueueIds /\ WireIds' = WireIds /\ DlqIds' = DlqIds /\ AckedIds' = AckedIds
      BY <1>8 DEF Lose, QueueIds, WireIds, DlqIds, AckedIds, IdsOf
    <2>3. OnceEach(queue)' /\ OnceIn(wire)' /\ OnceEach(dlq)' /\ OnceIn(acked)'
      BY <1>3, <1>8 DEF Lose, NoDuplicates, OnceEach, OnceIn
    <2>4. NoDuplicates'
      BY <1>2, <2>1, <2>3 DEF NoDuplicates
    <2>5. PairwiseDisjoint'
      BY <1>2, <1>3, <1>4, <2>1, <2>2 DEF PairwiseDisjoint
    <2>6. QED
      BY <1>2, <1>3, <2>1, <2>2, <2>4, <2>5 DEF ExactlyOnePlace
  <1>9. QED
    BY <1>5, <1>6, <1>7, <1>8 DEF Settle, RetryMessage

\* A loop that polls moves the head of the queue into its own hands.
LEMMA PollMoves ==
    ASSUME Inv, NEW l \in Loops, pc[l] # "handling", Poll(l),
           UNCHANGED <<wire, dlq, sent, acked, lost>>
    PROVE  ExactlyOnePlace'
  <1>1. /\ PairwiseDisjoint
        /\ NoDuplicates
        /\ sent' = QueueIds \cup WireIds \cup OpenIds \cup DlqIds \cup AckedIds \cup LostIds
    BY DEF Inv, ExactlyOnePlace
  <1>2. WireIds' = WireIds /\ DlqIds' = DlqIds /\ AckedIds' = AckedIds /\ LostIds' = LostIds
    BY DEF WireIds, DlqIds, AckedIds, LostIds, IdsOf
  <1>3. OnceIn(wire)' /\ OnceEach(dlq)' /\ OnceIn(acked)' /\ OnceIn(lost)'
    BY <1>1 DEF NoDuplicates, OnceEach, OnceIn
  <1>4. CASE queue = <<>>
    <2>1. QueueIds' = QueueIds /\ OpenIds' = OpenIds
      BY <1>4 DEF Poll, QueueIds, OpenIds, Open, IdsOf
    <2>2. NoDuplicates'
      BY <1>1, <1>3, <1>4 DEF Poll, NoDuplicates, OnceEach, Open
    <2>3. PairwiseDisjoint'
      BY <1>1, <1>2, <2>1 DEF PairwiseDisjoint
    <2>4. QED
      BY <1>1, <1>2, <2>1, <2>2, <2>3 DEF ExactlyOnePlace
  <1>5. CASE queue # <<>>
    <2> DEFINE m == Head(queue)
    <2>1. /\ m \in BrokerMessages
          /\ m.id \in QueueIds
          /\ QueueIds' = QueueIds \ {m.id}
          /\ OnceEach(queue)'
      BY <1>1, <1>5, TailElements DEF Poll, QueueIds, NoDuplicates, Inv, Typed, TypeOK
    <2>2. m.id \notin OpenIds
      BY <1>1, <2>1 DEF PairwiseDisjoint
    <2>3. settled[l]
      BY DEF Inv, Typed, TypeOK, Holding
    <2>4. /\ OpenIds' = OpenIds \cup {m.id}
          /\ \A j, k \in Open' : msg'[j].id = msg'[k].id => j = k
      BY <1>5, <2>1, <2>2, <2>3, OpenOpened DEF Poll
    <2>5. NoDuplicates'
      BY <1>3, <2>1, <2>4 DEF NoDuplicates
    <2>6. PairwiseDisjoint'
      BY <1>1, <1>2, <2>1, <2>4 DEF PairwiseDisjoint
    <2>7. QED
      BY <1>1, <1>2, <2>1, <2>4, <2>5, <2>6 DEF ExactlyOnePlace
  <1>6. QED
    BY <1>4, <1>5

\* An action that touches no place of a message, and settles nothing.
LEMMA NothingMoves ==
    ASSUME Inv, UNCHANGED <<queue, wire, dlq, msg, settled, sent, acked, lost>>
    PROVE  ExactlyOnePlace'
  <1>1. ExactlyOnePlace
    BY DEF Inv
  <1>2. /\ QueueIds' = QueueIds /\ WireIds' = WireIds /\ OpenIds' = OpenIds
        /\ DlqIds' = DlqIds /\ AckedIds' = AckedIds /\ LostIds' = LostIds
    BY DEF QueueIds, WireIds, DlqIds, OpenIds, AckedIds, LostIds, IdsOf, Open
  <1>3. NoDuplicates'
    BY <1>1 DEF ExactlyOnePlace, NoDuplicates, Open, OnceEach, OnceIn
  <1>4. PairwiseDisjoint'
    BY <1>1, <1>2 DEF ExactlyOnePlace, PairwiseDisjoint
  <1>5. QED
    BY <1>1, <1>2, <1>3, <1>4 DEF ExactlyOnePlace

LEMMA PublishMoves ==
    ASSUME Inv, NEW id \in Messages, NEW h \in Headers, Publish(id, h)
    PROVE  ExactlyOnePlace'
  <1> DEFINE m == [id |-> id, header |-> h]
  <1>1. m \in BrokerMessages /\ m.id = id
    BY ConsumerAssumption DEF BrokerMessages
  <1>2. /\ PairwiseDisjoint
        /\ NoDuplicates
        /\ sent = QueueIds \cup WireIds \cup OpenIds \cup DlqIds \cup AckedIds \cup LostIds
    BY DEF Inv, ExactlyOnePlace
  <1>3. id \notin QueueIds \cup WireIds \cup OpenIds \cup DlqIds \cup AckedIds \cup LostIds
    BY <1>2 DEF Publish
  <1>4. /\ \/ QueueIds' = QueueIds \cup {id} /\ WireIds' = WireIds
           \/ QueueIds' = QueueIds /\ WireIds' = WireIds \cup {id}
        /\ OnceEach(queue)' /\ OnceIn(wire)'
    BY <1>1, <1>3, EnqueuePlaces DEF Publish
  <1>5. OpenIds' = OpenIds /\ DlqIds' = DlqIds /\ AckedIds' = AckedIds /\ LostIds' = LostIds
    BY DEF Publish, held, OpenIds, Open, DlqIds, AckedIds, LostIds, IdsOf
  <1>6. NoDuplicates'
    BY <1>2, <1>4 DEF Publish, held, NoDuplicates, Open, OnceEach, OnceIn
  <1>7. PairwiseDisjoint'
    BY <1>2, <1>3, <1>4, <1>5 DEF PairwiseDisjoint
  <1>8. sent' = sent \cup {id}
    BY DEF Publish
  <1>9. QED
    BY <1>2, <1>4, <1>5, <1>6, <1>7, <1>8 DEF ExactlyOnePlace

LEMMA ArriveMoves ==
    ASSUME Inv, NEW m \in wire, Arrive(m)
    PROVE  ExactlyOnePlace'
  <1>1. m \in BrokerMessages
    BY DEF Inv, Typed, TypeOK
  <1>2. /\ PairwiseDisjoint
        /\ NoDuplicates
        /\ sent' = QueueIds \cup WireIds \cup OpenIds \cup DlqIds \cup AckedIds \cup LostIds
    BY DEF Inv, ExactlyOnePlace, Arrive
  <1>3. m.id \in WireIds /\ m.id \notin QueueIds
    BY <1>2 DEF WireIds, PairwiseDisjoint
  <1>4. WireIds' = WireIds \ {m.id} /\ OnceIn(wire)'
    BY <1>2 DEF Arrive, WireIds, NoDuplicates, OnceIn
  <1>5. QueueIds' = QueueIds \cup {m.id} /\ OnceEach(queue)'
    BY <1>1, <1>2, <1>3, AppendElements DEF Arrive, QueueIds, NoDuplicates, Inv, Typed, TypeOK
  <1>6. OpenIds' = OpenIds /\ DlqIds' = DlqIds /\ AckedIds' = AckedIds /\ LostIds' = LostIds
    BY DEF Arrive, held, OpenIds, Open, DlqIds, AckedIds, LostIds, IdsOf
  <1>7. NoDuplicates'
    BY <1>2, <1>4, <1>5 DEF Arrive, held, NoDuplicates, Open, OnceEach, OnceIn
  <1>8. PairwiseDisjoint'
    BY <1>2, <1>3, <1>4, <1>5, <1>6 DEF PairwiseDisjoint
  <1>9. QED
    BY <1>2, <1>3, <1>4, <1>5, <1>6, <1>7, <1>8 DEF ExactlyOnePlace

LEMMA InvInit == Init => Inv
  <1> SUFFICES ASSUME Init  PROVE Inv
    OBVIOUS
  <1>1. Open = {}
    BY DEF Init, Open
  <1>2. IdsOf(<<>>) = {} /\ OnceEach(<<>>)
    BY DEF IdsOf, OnceEach
  <1>3. /\ QueueIds = {} /\ WireIds = {} /\ OpenIds = {} /\ DlqIds = {}
        /\ AckedIds = {} /\ LostIds = {}
    BY <1>1, <1>2 DEF Init, QueueIds, WireIds, OpenIds, DlqIds, AckedIds, LostIds
  <1>4. NoDuplicates
    BY <1>1, <1>2 DEF Init, NoDuplicates, OnceIn
  <1>5. QED
    BY <1>3, <1>4, TypedInit DEF Init, Inv, ExactlyOnePlace, PairwiseDisjoint

LEMMA InvStep == Inv /\ [Next]_vars => Inv'
  <1> SUFFICES ASSUME Inv, [Next]_vars  PROVE ExactlyOnePlace'
    BY TypedStep DEF Inv
  <1>1. CASE UNCHANGED vars
    BY <1>1, NothingMoves DEF vars, held
  <1>2. ASSUME NEW m \in Messages, NEW h \in Headers, Publish(m, h)  PROVE ExactlyOnePlace'
    BY <1>2, PublishMoves
  <1>3. ASSUME NEW m \in wire, Arrive(m)  PROVE ExactlyOnePlace'
    BY <1>3, ArriveMoves
  <1>4. ASSUME NEW l \in Loops, Start(l)  PROVE ExactlyOnePlace'
    <2>1. pc[l] # "handling"
      BY <1>4 DEF Start
    <2>2. QED
      BY <1>4, <2>1, PollMoves DEF Start
  <1>5. ASSUME NEW l \in Loops, NEW action, NEW ok, HandlerSettles(l, action, ok)
        PROVE  ExactlyOnePlace'
    BY <1>5, SettleMoves DEF HandlerSettles
  <1>6. ASSUME NEW l \in Loops, Resolve(l)  PROVE ExactlyOnePlace'
    <2>1. CASE settled[l]
      BY <1>6, <2>1, NothingMoves DEF Resolve
    <2>2. CASE ~settled[l]
      BY <1>6, <2>2, SettleMoves DEF Resolve
    <2>3. QED
      BY <2>1, <2>2
  <1>7. ASSUME NEW l \in Loops, NEW ok \in BOOLEAN, Reject(l, ok)  PROVE ExactlyOnePlace'
    <2>1. CASE settled[l]
      BY <1>7, <2>1, NothingMoves DEF Reject
    <2>2. CASE ~settled[l]
      BY <1>7, <2>2, SettleMoves DEF Reject
    <2>3. QED
      BY <2>1, <2>2
  <1>8. ASSUME NEW l \in Loops, Continue(l)  PROVE ExactlyOnePlace'
    <2>1. CASE running
      <3>1. pc[l] # "handling" /\ Poll(l)
        BY <1>8, <2>1 DEF Continue
      <3>2. QED
        BY <1>8, <3>1, PollMoves DEF Continue
    <2>2. CASE ~running
      BY <1>8, <2>2, NothingMoves DEF Continue
    <2>3. QED
      BY <2>1, <2>2
  <1>9. CASE Stop
    BY <1>9, NothingMoves DEF Stop, held
  <1>10. QED
    BY <1>1, <1>2, <1>3, <1>4, <1>5, <1>6, <1>7, <1>8, <1>9 DEF Next

\* Conservation: every published message is in exactly one place, whatever the
\* loops, the handlers, the broker and the port do.
THEOREM MessagesConserved == Spec => []ExactlyOnePlace
  <1>1. Inv => ExactlyOnePlace
    BY DEF Inv
  <1>2. QED
    BY <1>1, InvInit, InvStep, PTL DEF Spec
-----------------------------------------------------------------------------
(***************************************************************************)
(* The retry budget.  A message on its way to a delivery has the header it *)
(* was published with, or the one of a retry that decideRetry allowed.     *)
(***************************************************************************)
LEMMA EnqueueWithinBudget ==
    ASSUME Typed, AttemptsWithinBudget, NEW m \in BrokerMessages, Enqueue(m),
           m.header \in Headers \/ m.header \in 2..MaxAttempts
    PROVE  AttemptsWithinBudget'
  <1>1. queue \in Seq(BrokerMessages)
    BY DEF Typed, TypeOK
  <1>2. (Elements(queue) \cup wire)' = Elements(queue) \cup wire \cup {m}
    <2>1. CASE Delayed
      BY <2>1 DEF Enqueue, Elements
    <2>2. CASE ~Delayed
      <3>1. queue' = Append(queue, m) /\ wire' = wire
        BY <2>2 DEF Enqueue
      <3>2. Elements(Append(queue, m)) = Elements(queue) \cup {m}
        BY <1>1, AppendElements
      <3>3. QED
        BY <3>1, <3>2 DEF Elements
    <2>3. QED
      BY <2>1, <2>2
  <1>3. QED
    BY <1>2 DEF AttemptsWithinBudget

LEMMA SettleWithinBudget ==
    ASSUME Typed, AttemptsWithinBudget, NEW l \in Loops, pc[l] = "handling",
           NEW action, NEW ok, Settle(l, action, ok)
    PROVE  AttemptsWithinBudget'
  <1>1. msg[l] \in BrokerMessages
    BY DEF Typed, Holding
  <1>2. CASE DecideRetry(Attempt(l), MaxAttempts) = "retry" /\ Requeue(msg[l])
    BY <1>1, <1>2, NextAttemptProperties, EnqueueWithinBudget DEF Requeue, Attempt
  <1>3. CASE queue' = queue /\ wire' = wire
    BY <1>3 DEF AttemptsWithinBudget, Elements
  <1>4. QED
    BY <1>2, <1>3 DEF Settle, RetryMessage, DeadLetter, Acknowledge, Lose

LEMMA PollWithinBudget ==
    ASSUME Inv, AttemptsWithinBudget, NEW l \in Loops, Poll(l), wire' = wire
    PROVE  AttemptsWithinBudget'
  <1>1. Elements(queue)' \subseteq Elements(queue)
    <2>1. CASE queue = <<>>
      BY <2>1 DEF Poll, Elements
    <2>2. CASE queue # <<>>
      BY <2>2, TailElements DEF Poll, Inv, Typed, TypeOK, ExactlyOnePlace, NoDuplicates
    <2>3. QED
      BY <2>1, <2>2
  <1>2. QED
    BY <1>1 DEF AttemptsWithinBudget

LEMMA BudgetStep == Inv /\ AttemptsWithinBudget /\ [Next]_vars => AttemptsWithinBudget'
  <1> SUFFICES ASSUME Inv, AttemptsWithinBudget, [Next]_vars  PROVE AttemptsWithinBudget'
    OBVIOUS
  <1>0. Typed
    BY DEF Inv
  <1>1. ASSUME UNCHANGED <<queue, wire>>  PROVE AttemptsWithinBudget'
    BY <1>1 DEF AttemptsWithinBudget, Elements
  <1>2. ASSUME NEW m \in Messages, NEW h \in Headers, Publish(m, h)
        PROVE  AttemptsWithinBudget'
    <2>1. [id |-> m, header |-> h] \in BrokerMessages
      BY ConsumerAssumption DEF BrokerMessages
    <2>2. QED
      BY <1>0, <1>2, <2>1, EnqueueWithinBudget DEF Publish
  <1>3. ASSUME NEW m \in wire, Arrive(m)  PROVE AttemptsWithinBudget'
    <2>1. Elements(queue)' = Elements(queue) \cup {m}
      BY <1>0, <1>3, AppendElements DEF Arrive, Typed, TypeOK
    <2>2. QED
      BY <1>3, <2>1 DEF Arrive, AttemptsWithinBudget
  <1>4. ASSUME NEW l \in Loops, Start(l)  PROVE AttemptsWithinBudget'
    BY <1>4, PollWithinBudget DEF Start
  <1>5. ASSUME NEW l \in Loops, NEW action, NEW ok, HandlerSettles(l, action, ok)
        PROVE  AttemptsWithinBudget'
    BY <1>0, <1>5, SettleWithinBudget DEF HandlerSettles
  <1>6. ASSUME NEW l \in Loops, Resolve(l)  PROVE AttemptsWithinBudget'
    BY <1>0, <1>1, <1>6, SettleWithinBudget DEF Resolve
  <1>7. ASSUME NEW l \in Loops, NEW ok \in BOOLEAN, Reject(l, ok)
        PROVE  AttemptsWithinBudget'
    BY <1>0, <1>1, <1>7, SettleWithinBudget DEF Reject
  <1>8. ASSUME NEW l \in Loops, Continue(l)  PROVE AttemptsWithinBudget'
    BY <1>1, <1>8, PollWithinBudget DEF Continue
  <1>9. QED
    BY <1>1, <1>2, <1>3, <1>4, <1>5, <1>6, <1>7, <1>8 DEF Next, Stop, vars

\* No retry takes a message beyond MaxAttempts, whatever header it came with.
THEOREM RetriesWithinBudget == Spec => []AttemptsWithinBudget
  <1>1. Init => AttemptsWithinBudget
    BY DEF Init, AttemptsWithinBudget, Elements
  <1>2. QED
    BY <1>1, InvInit, InvStep, BudgetStep, PTL DEF Spec
-----------------------------------------------------------------------------
(***************************************************************************)
(* Consumer implements Delivery: forgetting the queue's order, the wire,   *)
(* the loops and the flags, every action is one promise of Delivery or     *)
(* changes nothing that Delivery sees.                                     *)
(***************************************************************************)
Waiting == Elements(queue) \cup wire
InHands == {msg[l] : l \in Open}

LEMMA TokenProperties ==
    ASSUME NEW m \in BrokerMessages
    PROVE  /\ Token(m).id = m.id
           /\ Token(m).attempt = ReadAttempt(m.header)
           /\ Token(NextAttempt(m)) = [Token(m) EXCEPT !.attempt = @ + 1]
  <1>1. NextAttempt(m).id = m.id /\ ReadAttempt(NextAttempt(m).header) = ReadAttempt(m.header) + 1
    BY NextAttemptProperties
  <1>2. QED
    BY <1>1 DEF Token

\* A message taken out of a set without duplicates takes its token with it.
LEMMA TokensRemove ==
    ASSUME NEW S \in SUBSET BrokerMessages, NEW m \in S, OnceIn(S)
    PROVE  /\ Token(m) \in Tokens(S)
           /\ Tokens(S \ {m}) = Tokens(S) \ {Token(m)}
  <1>1. \A n \in S : Token(n) = Token(m) => n = m
    BY DEF Token, OnceIn
  <1>2. QED
    BY <1>1 DEF Tokens

LEMMA TokensAdd ==
    ASSUME NEW S, NEW m
    PROVE  Tokens(S \cup {m}) = Tokens(S) \cup {Token(m)}
  BY DEF Tokens

LEMMA TokenIds ==
    ASSUME NEW S
    PROVE  D!Ids(Tokens(S)) = {m.id : m \in S}
  <1>1. \A m \in S : Token(m).id = m.id
    BY DEF Token
  <1>2. ASSUME NEW x \in D!Ids(Tokens(S))  PROVE x \in {m.id : m \in S}
    <2>1. PICK m \in S : x = Token(m).id
      BY <1>2 DEF D!Ids, Tokens
    <2>2. QED
      BY <1>1, <2>1
  <1>3. ASSUME NEW m \in S  PROVE m.id \in D!Ids(Tokens(S))
    <2>1. Token(m) \in Tokens(S)
      BY DEF Tokens
    <2>2. QED
      BY <1>1, <2>1 DEF D!Ids
  <1>4. QED
    BY <1>2, <1>3

\* No two waiting messages, and no two in handlers' hands, have the same id.
LEMMA WaitingOnce ==
    ASSUME Inv
    PROVE  /\ Waiting \subseteq BrokerMessages /\ OnceIn(Waiting)
           /\ InHands \subseteq BrokerMessages /\ OnceIn(InHands)
           /\ {m.id : m \in Waiting} = QueueIds \cup WireIds
           /\ {m.id : m \in InHands} = OpenIds
  <1>1. queue \in Seq(BrokerMessages) /\ wire \subseteq BrokerMessages
    BY DEF Inv, Typed, TypeOK
  <1>2. /\ OnceEach(queue) /\ OnceIn(wire) /\ QueueIds \cap WireIds = {}
        /\ \A k, l \in Open : msg[k].id = msg[l].id => k = l
    BY DEF Inv, ExactlyOnePlace, NoDuplicates, PairwiseDisjoint
  <1>3. Elements(queue) \subseteq BrokerMessages
    BY <1>1 DEF Elements
  <1>4. OnceIn(Elements(queue))
    BY <1>2 DEF OnceEach, OnceIn, Elements
  <1>5. {m.id : m \in Elements(queue)} = QueueIds /\ {m.id : m \in wire} = WireIds
    BY DEF Elements, QueueIds, IdsOf, WireIds
  <1>6. OnceIn(Waiting)
    BY <1>2, <1>4, <1>5 DEF OnceIn, Waiting
  <1>7. {m.id : m \in Waiting} = QueueIds \cup WireIds
    BY <1>5 DEF Waiting
  <1>8. InHands \subseteq BrokerMessages
    BY DEF InHands, Open, Inv, Typed, Holding
  <1>9. OnceIn(InHands) /\ {m.id : m \in InHands} = OpenIds
    BY <1>2 DEF OnceIn, InHands, OpenIds
  <1>10. QED
    BY <1>1, <1>3, <1>6, <1>7, <1>8, <1>9 DEF Waiting
-----------------------------------------------------------------------------
\* What the actions do to the two sets.

LEMMA EnqueueWaits ==
    ASSUME Inv, NEW m \in BrokerMessages, Enqueue(m)
    PROVE  Waiting' = Waiting \cup {m}
  <1>1. queue \in Seq(BrokerMessages)
    BY DEF Inv, Typed, TypeOK
  <1>2. CASE Delayed
    BY <1>2 DEF Enqueue, Waiting, Elements
  <1>3. CASE ~Delayed
    <2>1. queue' = Append(queue, m) /\ wire' = wire
      BY <1>3 DEF Enqueue
    <2>2. Elements(Append(queue, m)) = Elements(queue) \cup {m}
      BY <1>1, AppendElements
    <2>3. QED
      BY <2>1, <2>2 DEF Waiting, Elements
  <1>4. QED
    BY <1>2, <1>3

LEMMA SettleEmptiesHands ==
    ASSUME Inv, NEW l \in Loops, ~settled[l],
           settled' = [settled EXCEPT ![l] = TRUE], msg' = msg
    PROVE  msg[l] \in InHands /\ InHands' = InHands \ {msg[l]}
  <1>1. Open' = Open \ {l} /\ l \in Open
    BY DEF Open, Inv, Typed, TypeOK
  <1>2. \A j, k \in Open : msg[j].id = msg[k].id => j = k
    BY DEF Inv, ExactlyOnePlace, NoDuplicates
  <1>3. QED
    BY <1>1, <1>2 DEF InHands

LEMMA PollTakes ==
    ASSUME Inv, NEW l \in Loops, pc[l] # "handling", Poll(l), wire' = wire
    PROVE  \/ Waiting' = Waiting /\ InHands' = InHands
           \/ \E m \in Waiting : Waiting' = Waiting \ {m} /\ InHands' = InHands \cup {m}
  <1>1. CASE queue = <<>>
    BY <1>1 DEF Poll, Waiting, InHands, Open, Elements
  <1>2. CASE queue # <<>>
    <2> DEFINE m == Head(queue)
    <2>1. /\ m \in Elements(queue)
          /\ Elements(Tail(queue)) = Elements(queue) \ {m}
          /\ m.id \in QueueIds
      BY <1>2, TailElements DEF Inv, Typed, TypeOK, ExactlyOnePlace, NoDuplicates, QueueIds
    <2>2. m \notin wire
      BY <2>1 DEF Inv, ExactlyOnePlace, PairwiseDisjoint, WireIds
    <2>3. queue' = Tail(queue)
      BY <1>2 DEF Poll
    <2>4. Waiting' = Waiting \ {m}
      BY <2>1, <2>2, <2>3 DEF Waiting, Elements
    <2>5. Open' = Open \cup {l} /\ l \notin Open
      BY <1>2 DEF Poll, Open, Inv, Typed, TypeOK, Holding
    <2>6. msg'[l] = m /\ \A k \in Open : msg'[k] = msg[k]
      BY <1>2, <2>5 DEF Poll, Inv, Typed, TypeOK, Open
    <2>7. InHands' = InHands \cup {m}
      BY <2>5, <2>6 DEF InHands
    <2>8. QED
      BY <2>1, <2>4, <2>7 DEF Waiting
  <1>3. QED
    BY <1>1, <1>2
-----------------------------------------------------------------------------
\* Each action is a step of Delivery.

\* An action that changes none of the sets Delivery sees.
LEMMA Unseen ==
    ASSUME Waiting' = Waiting, InHands' = InHands, UNCHANGED <<dlq, acked, lost>>
    PROVE  UNCHANGED D!vars
  BY DEF D!vars, Waiting, InHands, Tokens, Token, Elements

LEMMA PublishRefines ==
    ASSUME Inv, NEW id \in Messages, NEW h \in Headers, Publish(id, h)
    PROVE  D!Publish(id, h)
  <1> DEFINE m == [id |-> id, header |-> h]
  <1>1. m \in BrokerMessages /\ Token(m) = [id |-> id, attempt |-> ReadAttempt(h)]
    BY ConsumerAssumption DEF BrokerMessages, Token
  <1>2. Waiting' = Waiting \cup {m}
    BY <1>1, EnqueueWaits DEF Publish
  <1>3. Tokens(Waiting)' = Tokens(Waiting) \cup {Token(m)}
    BY <1>2 DEF Tokens, Token
  <1>4. id \notin QueueIds \cup WireIds \cup OpenIds \cup DlqIds \cup AckedIds \cup LostIds
    BY DEF Publish, Inv, ExactlyOnePlace
  <1>5. /\ D!Ids(Tokens(Waiting)) = QueueIds \cup WireIds
        /\ D!Ids(Tokens(InHands)) = OpenIds
    BY TokenIds, WaitingOnce
  <1>6. /\ D!Ids(Tokens(acked)) = AckedIds /\ D!Ids(Tokens(lost)) = LostIds
        /\ D!Ids(Tokens(Elements(dlq))) = DlqIds
    <2>1. {x.id : x \in Elements(dlq)} = DlqIds
      BY DEF DlqIds, IdsOf, Elements
    <2>2. QED
      BY <2>1, TokenIds DEF AckedIds, LostIds
  <1>7. UNCHANGED <<Tokens(InHands), Tokens(acked), Tokens(Elements(dlq)), Tokens(lost)>>
    BY DEF Publish, held, InHands, Open, Tokens, Token, Elements
  <1>8. QED
    BY <1>1, <1>3, <1>4, <1>5, <1>6, <1>7 DEF D!Publish, D!ReadAttempt, ReadAttempt, Waiting, InHands

\* A poll takes one waiting message, or ends the loop.
LEMMA PollRefines ==
    ASSUME Inv, NEW l \in Loops, pc[l] # "handling", Poll(l), UNCHANGED <<wire, dlq, acked, lost>>
    PROVE  D!Next \/ UNCHANGED D!vars
  <1>1. CASE Waiting' = Waiting /\ InHands' = InHands
    BY <1>1, Unseen
  <1>2. ASSUME NEW m \in Waiting, Waiting' = Waiting \ {m}, InHands' = InHands \cup {m}
        PROVE  D!Next
    <2>1. Token(m) \in Tokens(Waiting) /\ Tokens(Waiting)' = Tokens(Waiting) \ {Token(m)}
      BY <1>2, WaitingOnce, TokensRemove DEF Tokens, Token
    <2>2. Tokens(InHands)' = Tokens(InHands) \cup {Token(m)}
      BY <1>2, TokensAdd DEF Tokens, Token
    <2>3. UNCHANGED <<Tokens(acked), Tokens(Elements(dlq)), Tokens(lost)>>
      BY DEF Tokens, Token, Elements
    <2>4. D!Take(Token(m))
      BY <2>1, <2>2, <2>3 DEF D!Take, Waiting, InHands
    <2>5. QED
      BY <2>1, <2>4 DEF D!Next, Waiting
  <1>3. QED
    BY <1>1, <1>2, PollTakes

\* settle is one of Delivery's four ends of an attempt.
LEMMA SettleRefines ==
    ASSUME Inv, NEW l \in Loops, ~settled[l], pc[l] = "handling",
           NEW action, NEW ok, Settle(l, action, ok), msg' = msg
    PROVE  D!Next
  <1> DEFINE m == msg[l]
             t == Token(msg[l])
  <1>1. m \in BrokerMessages
    BY DEF Inv, Typed, Holding
  <1>2. m \in InHands /\ InHands' = InHands \ {m}
    BY SettleEmptiesHands DEF Settle
  <1>3. t \in Tokens(InHands) /\ Tokens(InHands)' = Tokens(InHands) \ {t}
    BY <1>2, WaitingOnce, TokensRemove DEF Tokens, Token
  <1>4. CASE DecideRetry(Attempt(l), MaxAttempts) = "retry" /\ Requeue(m)
    <2>1. /\ NextAttempt(m) \in BrokerMessages
          /\ Token(NextAttempt(m)) = [t EXCEPT !.attempt = @ + 1]
          /\ t.attempt < MaxAttempts
      BY <1>1, <1>4, NextAttemptProperties, TokenProperties DEF Attempt
    <2>2. Waiting' = Waiting \cup {NextAttempt(m)}
      BY <1>4, <2>1, EnqueueWaits DEF Requeue
    <2>3. Tokens(Waiting)' = Tokens(Waiting) \cup {[t EXCEPT !.attempt = @ + 1]}
      BY <2>1, <2>2, TokensAdd DEF Tokens
    <2>4. UNCHANGED <<Tokens(acked), Tokens(Elements(dlq)), Tokens(lost)>>
      BY <1>4 DEF Requeue, Tokens, Token, Elements
    <2>5. D!Retry(t)
      BY <1>3, <2>1, <2>3, <2>4 DEF D!Retry, Waiting, InHands
    <2>6. QED
      BY <1>3, <2>5 DEF D!Next, InHands
  <1>5. CASE DeadLetter(m)
    <2>1. Elements(dlq)' = Elements(dlq) \cup {m}
      <3>1. Elements(Append(dlq, m)) = Elements(dlq) \cup {m}
        BY <1>1, AppendElements DEF Inv, Typed, TypeOK
      <3>2. dlq' = Append(dlq, m)
        BY <1>5 DEF DeadLetter
      <3>3. QED
        BY <3>1, <3>2 DEF Elements
    <2>2. Tokens(Elements(dlq))' = Tokens(Elements(dlq)) \cup {t}
      BY <2>1, TokensAdd DEF Tokens
    <2>3. UNCHANGED <<Tokens(Waiting), Tokens(acked), Tokens(lost)>>
      BY <1>5 DEF DeadLetter, Tokens, Token, Elements, Waiting
    <2>4. D!DeadLetter(t)
      BY <1>3, <2>2, <2>3 DEF D!DeadLetter, Waiting, InHands
    <2>5. QED
      BY <1>3, <2>4 DEF D!Next, InHands
  <1>6. CASE Acknowledge(m)
    <2>1. Tokens(acked)' = Tokens(acked) \cup {t}
      BY <1>6, TokensAdd DEF Acknowledge, Tokens
    <2>2. UNCHANGED <<Tokens(Waiting), Tokens(Elements(dlq)), Tokens(lost)>>
      BY <1>6 DEF Acknowledge, Tokens, Token, Elements, Waiting
    <2>3. D!Ack(t)
      BY <1>3, <2>1, <2>2 DEF D!Ack, Waiting, InHands
    <2>4. QED
      BY <1>3, <2>3 DEF D!Next, InHands
  <1>7. CASE PortFails /\ Lose(m)
    <2>1. Tokens(lost)' = Tokens(lost) \cup {t}
      BY <1>7, TokensAdd DEF Lose, Tokens
    <2>2. UNCHANGED <<Tokens(Waiting), Tokens(Elements(dlq)), Tokens(acked)>>
      BY <1>7 DEF Lose, Tokens, Token, Elements, Waiting
    <2>3. D!Lose(t)
      BY <1>3, <1>7, <2>1, <2>2 DEF D!Lose, Waiting, InHands
    <2>4. QED
      BY <1>3, <2>3 DEF D!Next, InHands
  <1>8. DecideRetry(Attempt(l), MaxAttempts) # "RangeError"
    BY <1>1, AttemptPositive DEF Attempt, BrokerMessages
  <1>9. QED
    BY <1>4, <1>5, <1>6, <1>7, <1>8 DEF Settle, RetryMessage

LEMMA StepRefines == Inv /\ [Next]_vars => [D!Next]_(D!vars)
  <1> SUFFICES ASSUME Inv, [Next]_vars  PROVE D!Next \/ UNCHANGED D!vars
    OBVIOUS
  <1>1. ASSUME UNCHANGED <<queue, wire, dlq, msg, settled, acked, lost>>
        PROVE  UNCHANGED D!vars
    BY <1>1, Unseen DEF Waiting, InHands, Open, Elements
  <1>2. ASSUME NEW m \in Messages, NEW h \in Headers, Publish(m, h)  PROVE D!Next
    BY <1>2, PublishRefines DEF D!Next
  <1>3. ASSUME NEW m \in wire, Arrive(m)  PROVE UNCHANGED D!vars
    <2>1. Elements(queue)' = Elements(queue) \cup {m}
      BY <1>3, AppendElements DEF Arrive, Inv, Typed, TypeOK
    <2>2. Waiting' = Waiting
      BY <1>3, <2>1 DEF Arrive, Waiting
    <2>3. QED
      BY <1>3, <2>2, Unseen DEF Arrive, held, InHands, Open
  <1>4. ASSUME NEW l \in Loops, Start(l)  PROVE D!Next \/ UNCHANGED D!vars
    <2>1. pc[l] # "handling"
      BY <1>4 DEF Start
    <2>2. QED
      BY <1>4, <2>1, PollRefines DEF Start
  <1>5. ASSUME NEW l \in Loops, NEW action, NEW ok, HandlerSettles(l, action, ok)
        PROVE  D!Next
    BY <1>5, SettleRefines DEF HandlerSettles
  <1>6. ASSUME NEW l \in Loops, Resolve(l)  PROVE D!Next \/ UNCHANGED D!vars
    BY <1>1, <1>6, SettleRefines DEF Resolve
  <1>7. ASSUME NEW l \in Loops, NEW ok \in BOOLEAN, Reject(l, ok)
        PROVE  D!Next \/ UNCHANGED D!vars
    BY <1>1, <1>7, SettleRefines DEF Reject
  <1>8. ASSUME NEW l \in Loops, Continue(l)  PROVE D!Next \/ UNCHANGED D!vars
    <2>1. CASE running
      <3>1. pc[l] # "handling" /\ Poll(l)
        BY <1>8, <2>1 DEF Continue
      <3>2. QED
        BY <1>8, <3>1, PollRefines DEF Continue
    <2>2. CASE ~running
      BY <1>1, <1>8, <2>2 DEF Continue
    <2>3. QED
      BY <2>1, <2>2
  <1>9. CASE Stop \/ UNCHANGED vars
    BY <1>1, <1>9 DEF Stop, vars, held
  <1>10. QED
    BY <1>2, <1>3, <1>4, <1>5, <1>6, <1>7, <1>8, <1>9 DEF Next

\* Refinement: a consumer keeps the promises of Delivery.  Each attempt at a
\* message ends once, as acknowledged, retried within the budget, dead or,
\* where enqueue may throw, lost.
THEOREM ConsumerImplementsDelivery == Spec => ImplementsDelivery
  <1>1. Init => D!Init
    BY DEF Init, D!Init, Tokens, Elements, Open
  <1>2. QED
    BY <1>1, InvInit, InvStep, StepRefines, PTL DEF Spec, ImplementsDelivery, D!Spec
=============================================================================
