--------------------------- MODULE PipelineProofs ---------------------------
(***************************************************************************)
(* Theorems about Pipeline, for any messages, any number of loops, both    *)
(* budgets and every failure of the port and of the callbacks: what the    *)
(* consumer and the defined handler guarantee together.  The invariants of *)
(* the two modules alone are used as they were proved (instances CP, HP).  *)
(***************************************************************************)
EXTENDS Pipeline, TLAPS

CP == INSTANCE ConsumerProofs
HP == INSTANCE MessageHandlerProofs WITH Slots <- Loops, Attempts <- Nat \ {0}

Budget == IF MaxAttempts > 1 THEN MaxAttempts ELSE 1
Waiting == CP!Elements(queue) \cup wire

\* What the consumer's context, which refuses no ack, leaves of the states an
\* invocation may be in: it asks for nothing twice, and the only valid message
\* it leaves unsettled has attempts left or has been given up.
Fit(ph, i) ==
    /\ ph \in {"parsed", "handling", "exhausting"} => i.asked = <<>>
    /\ ph = "acking" => HP!LastOk(i)
    /\ i.exhausted # "no" => i.valid /\ i.attempt >= HandlerMax
    /\ ph = "threw" /\ i.asked = <<>> /\ i.valid /\ ~ContextFails =>
          i.exhausted # "no" \/ i.attempt < HandlerMax

\* The invocation a loop awaits is about the message the loop holds.
JoinedAt(l) ==
    /\ pc[l] # "handling" => ~H!Active(l)
    /\ pc[l] = "handling" =>
          /\ inv[l].valid <=> msg[l].id \notin PoisonMessages
          /\ inv[l].attempt = CP!Attempt(l)
          /\ settled[l] <=> inv[l].asked # <<>>
          /\ Fit(phase[l], inv[l])
          /\ inv[l].handled => msg[l].id \in handled
          /\ inv[l].handled /\ ~ObserverFails => msg[l].id \in CP!AckedIds

Joined == \A l \in Loops : JoinedAt(l)

Base == CP!Inv /\ HP!Inv /\ Joined

\* The calls of handle so far are fewer than the attempt a waiting message
\* carries, and fewer than the budget.
Counted ==
    /\ handleCalls \in [Messages -> Nat]
    /\ \A m \in Messages : handleCalls[m] <= IF m \in PoisonMessages THEN 0 ELSE Budget
    /\ \A m \in Messages \ sent : handleCalls[m] = 0
    /\ \A m \in Waiting : handleCalls[m.id] < CP!ReadAttempt(m.header) /\ handleCalls[m.id] < Budget
    /\ \A l \in CP!Open :
          /\ handleCalls[msg[l].id] <= CP!Attempt(l)
          /\ phase[l] = "parsed" =>
                handleCalls[msg[l].id] < CP!Attempt(l) /\ handleCalls[msg[l].id] < Budget

\* A message that was given up is in the hands of the handler that did, or waits no more.
GivenUp ==
    /\ giveUps \in [Messages -> {0, 1}]
    /\ \A m \in Messages \ sent : giveUps[m] = 0
    /\ \A m \in Waiting : giveUps[m.id] = 0
    /\ \A l \in CP!Open : giveUps[msg[l].id] = IF inv[l].exhausted = "no" THEN 0 ELSE 1

AckedIsHandled == \A m \in CP!AckedIds : m \in handled /\ m \notin PoisonMessages
DeadIsGivenUp == \A m \in CP!DlqIds : m \in PoisonMessages \/ giveUps[m] = 1
-----------------------------------------------------------------------------
(***************************************************************************)
(* The instances.  Pipeline names the two modules C and H; their theorems  *)
(* come with CP and HP, whose definitions are the same.                    *)
(***************************************************************************)

LEMMA ConsumerAssumed == CP!ConsumerAssumption /\ HP!MessageHandlerAssumption
  <1>1. {Delayed, PortFails, ObserverFails, ContextFails} \subseteq BOOLEAN
    BY PipelineAssumption
  <1>2. Delayed \in BOOLEAN /\ PortFails \in BOOLEAN /\ ObserverFails \in BOOLEAN /\ ContextFails \in BOOLEAN
    BY <1>1
  <1>3. QED
    BY <1>2, PipelineAssumption
    DEF CP!ConsumerAssumption, CP!BrokerMessages, HP!MessageHandlerAssumption

LEMMA SameConsumer ==
    /\ C!Init <=> CP!Init
    /\ \A m, h : C!Publish(m, h) <=> CP!Publish(m, h)
    /\ \A m : C!Arrive(m) <=> CP!Arrive(m)
    /\ C!Stop <=> CP!Stop
    /\ \A l : C!Start(l) <=> CP!Start(l)
    /\ \A l : C!Continue(l) <=> CP!Continue(l)
    /\ \A l, action, ok : C!HandlerSettles(l, action, ok) <=> CP!HandlerSettles(l, action, ok)
    /\ \A l : C!Resolve(l) <=> CP!Resolve(l)
    /\ \A l, ok : C!Reject(l, ok) <=> CP!Reject(l, ok)
    /\ \A l : C!Attempt(l) = CP!Attempt(l)
    /\ C!AckedIds = CP!AckedIds
    /\ C!DlqIds = CP!DlqIds
  <1>1. /\ C!Init <=> CP!Init
        /\ C!Stop <=> CP!Stop
        /\ \A l : C!Attempt(l) = CP!Attempt(l)
        /\ C!AckedIds = CP!AckedIds
        /\ C!DlqIds = CP!DlqIds
    BY DEF C!Init, CP!Init, C!Stop, CP!Stop, C!held, CP!held, C!Attempt, CP!Attempt,
           C!ReadAttempt, CP!ReadAttempt, C!AckedIds, CP!AckedIds, C!DlqIds, CP!DlqIds,
           C!IdsOf, CP!IdsOf
  <1>2. \A m : C!Enqueue(m) <=> CP!Enqueue(m)
    BY DEF C!Enqueue, CP!Enqueue
  <1>3. /\ \A m, h : C!Publish(m, h) <=> CP!Publish(m, h)
        /\ \A m : C!Arrive(m) <=> CP!Arrive(m)
    BY <1>2 DEF C!Publish, CP!Publish, C!Arrive, CP!Arrive, C!held, CP!held
  <1>4. \A l : C!Poll(l) <=> CP!Poll(l)
    BY DEF C!Poll, CP!Poll
  <1>5. /\ \A l : C!Start(l) <=> CP!Start(l)
        /\ \A l : C!Continue(l) <=> CP!Continue(l)
    BY <1>4 DEF C!Start, CP!Start, C!Continue, CP!Continue
  <1>6. /\ \A m : C!Requeue(m) <=> CP!Requeue(m)
        /\ \A m : C!DeadLetter(m) <=> CP!DeadLetter(m)
        /\ \A m : C!Acknowledge(m) <=> CP!Acknowledge(m)
        /\ \A m : C!Lose(m) <=> CP!Lose(m)
    <2>1. \A m : C!NextAttempt(m) = CP!NextAttempt(m)
      BY DEF C!NextAttempt, CP!NextAttempt, C!ReadAttempt, CP!ReadAttempt
    <2>2. QED
      BY <1>2, <2>1 DEF C!Requeue, CP!Requeue, C!DeadLetter, CP!DeadLetter,
           C!Acknowledge, CP!Acknowledge, C!Lose, CP!Lose
  <1>7. \A l, ok : C!RetryMessage(l, ok) <=> CP!RetryMessage(l, ok)
    BY <1>1, <1>6 DEF C!RetryMessage, CP!RetryMessage, C!DecideRetry, CP!DecideRetry
  <1>8. \A l, action, ok : C!Settle(l, action, ok) <=> CP!Settle(l, action, ok)
    BY <1>6, <1>7 DEF C!Settle, CP!Settle
  <1>9. QED
    BY <1>1, <1>3, <1>5, <1>8 DEF C!HandlerSettles, CP!HandlerSettles, C!Resolve, CP!Resolve,
       C!Reject, CP!Reject

LEMMA SameHandler ==
    /\ H!Init <=> HP!Init
    /\ \A l, isValid, n : H!Begin(l, isValid, n) <=> HP!Begin(l, isValid, n)
    /\ \A l, ok : H!Step(l, ok) <=> HP!Step(l, ok)
    /\ \A l : H!Active(l) <=> HP!Active(l)
  <1>1. /\ \A l, ph, i : H!Become(l, ph, i) <=> HP!Become(l, ph, i)
        /\ \A i : H!LastOk(i) <=> HP!LastOk(i)
        /\ \A i, kind : H!Report(i, kind) = HP!Report(i, kind)
        /\ \A isValid, n : H!Invocation(isValid, n) = HP!Invocation(isValid, n)
        /\ \A l : H!Active(l) <=> HP!Active(l)
    BY DEF H!Become, HP!Become, H!LastOk, HP!LastOk, H!Report, HP!Report,
           H!Invocation, HP!Invocation, H!Active, HP!Active
  <1>2. /\ H!Init <=> HP!Init
        /\ \A l, isValid, n : H!Begin(l, isValid, n) <=> HP!Begin(l, isValid, n)
    BY <1>1 DEF H!Init, HP!Init, H!Begin, HP!Begin
  <1>3. \A l, ph, i, op, ok : H!Ask(l, ph, i, op, ok) <=> HP!Ask(l, ph, i, op, ok)
    BY <1>1 DEF H!Ask, HP!Ask
  <1>4. \A l, i, kind, op, ok : H!ReportThenAsk(l, i, kind, op, ok) <=> HP!ReportThenAsk(l, i, kind, op, ok)
    BY <1>1, <1>3 DEF H!ReportThenAsk, HP!ReportThenAsk
  <1>5. \A l, i, ok : H!Catch(l, i, ok) <=> HP!Catch(l, i, ok)
    BY <1>1, <1>4 DEF H!Catch, HP!Catch, H!DecideRetry, HP!DecideRetry
  <1>6. \A l, ok : /\ H!Poison(l, ok) <=> HP!Poison(l, ok)
                   /\ H!CallHandle(l) <=> HP!CallHandle(l)
                   /\ H!HandleResolves(l, ok) <=> HP!HandleResolves(l, ok)
                   /\ H!HandleRejects(l, ok) <=> HP!HandleRejects(l, ok)
                   /\ H!AckEnds(l, ok) <=> HP!AckEnds(l, ok)
                   /\ H!ExhaustedResolves(l, ok) <=> HP!ExhaustedResolves(l, ok)
                   /\ H!ExhaustedRejects(l, ok) <=> HP!ExhaustedRejects(l, ok)
                   /\ H!SettlingEnds(l) <=> HP!SettlingEnds(l)
    BY <1>1, <1>3, <1>4, <1>5
    DEF H!Poison, HP!Poison, H!CallHandle, HP!CallHandle, H!HandleResolves, HP!HandleResolves,
        H!HandleRejects, HP!HandleRejects, H!AckEnds, HP!AckEnds,
        H!ExhaustedResolves, HP!ExhaustedResolves, H!ExhaustedRejects, HP!ExhaustedRejects,
        H!SettlingEnds, HP!SettlingEnds
  <1>7. QED
    BY <1>1, <1>2, <1>6 DEF H!Step, HP!Step
-----------------------------------------------------------------------------
(***************************************************************************)
(* One step of an invocation that has asked its context for nothing twice. *)
(***************************************************************************)
Call(op, ok) == [op |-> op, ok |-> ok]

\* The operation asked for, if any, and what must be so for it to be asked.
Asks(i, j, ok) ==
    \/ j.asked = i.asked
    \/ /\ i.asked = <<>>
       /\ \/ j.asked = <<Call("ack", ok)>> /\ i.valid /\ j.handled
          \/ j.asked = <<Call("retry", ok)>> /\ i.valid /\ i.attempt < HandlerMax /\ j.exhausted = "no"
          \/ j.asked = <<Call("deadLetter", ok)>> /\ (i.valid => j.exhausted = "resolved")

\* From phase p and data i an invocation comes to ph and j.
Moves(p, i, ph, j, ok) ==
    /\ ph # "parsed"
    /\ j.valid = i.valid /\ j.attempt = i.attempt
    /\ Asks(i, j, ok)
    /\ ph = "handling" => p = "parsed" /\ i.valid /\ i.asked = <<>> /\ j.asked = <<>>
    /\ ph = "exhausting" => p # "exhausting" /\ i.exhausted = "no" /\ j.exhausted = "running"
                            /\ i.asked = <<>> /\ j.asked = <<>>
    /\ ph # "exhausting" => (j.exhausted = "no" <=> i.exhausted = "no")
    /\ \/ j.handled => i.handled \/ ObserverFails
       \/ i.asked = <<>> /\ j.asked = <<Call("ack", ok)>>
    /\ i.handled => j.handled
    /\ ok \/ ~(i.asked = <<>> /\ j.asked = <<Call("ack", ok)>>) => Fit(ph, j)

LEMMA BecomeOne ==
    ASSUME HP!TypeOK, NEW l \in Loops, NEW ph, NEW j, HP!Become(l, ph, j)
    PROVE  phase'[l] = ph /\ inv'[l] = j
  BY DEF HP!TypeOK, HP!Become

\* report(...) and the operation after it: asked for, unless onOutcome threw.
Reported(l, i, op, ok) ==
    /\ inv'[l].valid = i.valid /\ inv'[l].attempt = i.attempt
    /\ inv'[l].handled = i.handled /\ inv'[l].exhausted = i.exhausted
    /\ \/ phase'[l] = "settling" /\ inv'[l].asked = <<Call(op, ok)>>
       \/ ObserverFails /\ phase'[l] = "threw" /\ inv'[l].asked = <<>>

LEMMA ReportThenAskMoves ==
    ASSUME HP!TypeOK, NEW l \in Loops, NEW i \in HP!Invocations, i.asked = <<>>,
           NEW kind, NEW op, NEW ok, HP!ReportThenAsk(l, i, kind, op, ok)
    PROVE  Reported(l, i, op, ok)
  <1> DEFINE r == HP!Report(i, kind)
             j == [r EXCEPT !.asked = Append(@, Call(op, ok))]
  <1>1. /\ r.valid = i.valid /\ r.attempt = i.attempt /\ r.handled = i.handled
        /\ r.exhausted = i.exhausted /\ r.asked = i.asked
        /\ DOMAIN r = DOMAIN i
    BY DEF HP!Report, HP!Invocations
  <1>2. DOMAIN r = {"valid", "attempt", "handled", "exhausted", "reports", "asked"}
    BY <1>1 DEF HP!Invocations
  <1>3. /\ j.valid = r.valid /\ j.attempt = r.attempt /\ j.handled = r.handled
        /\ j.exhausted = r.exhausted /\ j.asked = Append(r.asked, Call(op, ok))
    BY <1>2 DEF HP!Report
  <1>4. j.asked = <<Call(op, ok)>>
    BY <1>1, <1>3
  <1>5. CASE HP!Ask(l, "settling", r, op, ok)
    <2>1. HP!Become(l, "settling", j)
      BY <1>5 DEF HP!Ask, Call
    <2>2. phase'[l] = "settling" /\ inv'[l] = j
      BY <2>1, BecomeOne
    <2>3. QED
      BY <1>1, <1>3, <1>4, <2>2 DEF Reported
  <1>6. CASE ObserverFails /\ HP!Become(l, "threw", r)
    <2>1. phase'[l] = "threw" /\ inv'[l] = r
      BY <1>6, BecomeOne
    <2>2. QED
      BY <1>1, <1>6, <2>1 DEF Reported
  <1>7. QED
    BY <1>5, <1>6 DEF HP!ReportThenAsk

\* The catch block, entered from handle with nothing asked for yet.
LEMMA CatchMoves ==
    ASSUME HP!TypeOK, NEW l \in Loops, NEW i \in HP!Invocations,
           i.asked = <<>>, i.valid, i.exhausted = "no",
           NEW ok \in BOOLEAN, HP!Catch(l, i, ok),
           i.handled => inv[l].handled \/ ObserverFails,
           inv[l].handled => i.handled,
           i.attempt = inv[l].attempt, i.valid = inv[l].valid,
           inv[l].asked = <<>>, inv[l].exhausted = "no"
    PROVE  Moves("handling", inv[l], phase'[l], inv'[l], ok)
  <1>1. i.attempt \in Nat \ {0} /\ HandlerMax \in Int
    BY PipelineAssumption DEF HP!Invocations
  <1>2. CASE /\ HP!DecideRetry(i.attempt, HandlerMax) = "retry"
             /\ HP!ReportThenAsk(l, i, "retry", "retry", ok)
    <2>1. i.attempt < HandlerMax
      BY <1>1, <1>2 DEF HP!DecideRetry
    <2>2. Reported(l, i, "retry", ok)
      BY <1>2, ReportThenAskMoves
    <2>3. Fit(phase'[l], inv'[l])
      BY <2>1, <2>2 DEF Fit, Reported
    <2>4. QED
      BY <2>1, <2>2, <2>3 DEF Moves, Asks, Reported
  <1>3. CASE /\ HP!DecideRetry(i.attempt, HandlerMax) = "dlq"
             /\ HP!Become(l, "exhausting", [i EXCEPT !.exhausted = "running"])
    <2> DEFINE j == [i EXCEPT !.exhausted = "running"]
    <2>1. i.attempt >= HandlerMax
      BY <1>1, <1>3 DEF HP!DecideRetry
    <2>2. phase'[l] = "exhausting" /\ inv'[l] = j
      BY <1>3, BecomeOne
    <2>3. /\ j.valid = i.valid /\ j.attempt = i.attempt /\ j.asked = i.asked
          /\ j.handled = i.handled /\ j.exhausted = "running"
      BY DEF HP!Invocations
    <2>4. Fit(phase'[l], inv'[l])
      BY <2>1, <2>2, <2>3 DEF Fit
    <2>5. <<>> # <<Call("ack", ok)>>
      OBVIOUS
    <2>6. QED
      BY <2>2, <2>3, <2>4, <2>5 DEF Moves, Asks
  <1>4. QED
    BY <1>2, <1>3 DEF HP!Catch

LEMMA StepMoves ==
    ASSUME HP!Inv, NEW l \in Loops, Fit(phase[l], inv[l]), NEW ok \in BOOLEAN, HP!Step(l, ok)
    PROVE  Moves(phase[l], inv[l], phase'[l], inv'[l], ok)
  <1> DEFINE p == phase[l]
             i == inv[l]
  <1>1. /\ HP!TypeOK /\ HP!Good(p, i) /\ i \in HP!Invocations
        /\ i.attempt \in Nat \ {0} /\ HandlerMax \in Int
    BY PipelineAssumption DEF HP!Inv, HP!Good, HP!Invocations
  <1>2. CASE HP!Poison(l, ok)
    <2>1. p = "parsed" /\ ~i.valid /\ i.asked = <<>> /\ i.exhausted = "no" /\ ~i.handled
      BY <1>1, <1>2 DEF HP!Poison, HP!Good
    <2>2. Reported(l, i, "deadLetter", ok)
      BY <1>1, <1>2, <2>1, ReportThenAskMoves DEF HP!Poison
    <2>3. Fit(phase'[l], inv'[l])
      BY <2>1, <2>2 DEF Fit, Reported
    <2>4. QED
      BY <2>1, <2>2, <2>3 DEF Moves, Asks, Reported
  <1>3. CASE HP!CallHandle(l)
    <2>1. p = "parsed" /\ i.valid /\ i.asked = <<>> /\ i.exhausted = "no"
      BY <1>1, <1>3 DEF HP!CallHandle, HP!Good
    <2>2. inv'[l] = i /\ (phase'[l] = "handling" \/ (ContextFails /\ phase'[l] = "threw"))
      BY <1>1, <1>3, BecomeOne DEF HP!CallHandle
    <2>3. Fit(phase'[l], inv'[l])
      BY <2>1, <2>2 DEF Fit
    <2>4. QED
      BY <2>1, <2>2, <2>3 DEF Moves, Asks
  <1>4. CASE HP!HandleResolves(l, ok)
    <2> DEFINE d == [i EXCEPT !.handled = TRUE]
               r == HP!Report(d, "handled")
               j == [r EXCEPT !.asked = Append(@, Call("ack", ok))]
    <2>1. p = "handling" /\ i.valid /\ i.asked = <<>> /\ i.exhausted = "no"
      BY <1>1, <1>4 DEF HP!HandleResolves, HP!Good, Fit
    <2>2. /\ d \in HP!Invocations /\ d.valid = i.valid /\ d.attempt = i.attempt
          /\ d.exhausted = i.exhausted /\ d.asked = i.asked /\ d.handled
      BY <1>1 DEF HP!Invocations
    <2>3. /\ HP!AcceptedIsLast(d) /\ HP!Earned(d) /\ "handled" \in DOMAIN HP!OperationOf
      BY <1>1, <2>1, <2>2 DEF HP!AcceptedIsLast, HP!Earned, HP!Unsettled, HP!OperationOf
    <2>4. /\ r \in HP!Invocations /\ r.valid = i.valid /\ r.attempt = i.attempt
          /\ r.exhausted = i.exhausted /\ r.asked = i.asked /\ r.handled
      BY <2>2, <2>3, ConsumerAssumed, HP!ReportOnly
    <2>5. CASE HP!Ask(l, "acking", r, "ack", ok)
      <3>1. phase'[l] = "acking" /\ inv'[l] = j
        BY <1>1, <2>5, BecomeOne DEF HP!Ask, Call
      <3>2. /\ j.valid = r.valid /\ j.attempt = r.attempt /\ j.exhausted = r.exhausted
            /\ j.handled = r.handled /\ j.asked = Append(r.asked, Call("ack", ok))
        BY <2>4 DEF HP!Invocations
      <3>3. j.asked = <<Call("ack", ok)>>
        <4>1. Append(<<>>, Call("ack", ok)) = <<Call("ack", ok)>>
          OBVIOUS
        <4>2. r.asked = <<>>
          BY <2>1, <2>2, <2>4
        <4>3. QED
          BY <3>2, <4>1, <4>2, Zenon
      <3>4. ok => Fit("acking", j)
        BY <2>1, <2>4, <3>2, <3>3 DEF Fit, HP!LastOk, Call
      <3>5. QED
        BY <2>1, <2>4, <3>1, <3>2, <3>3, <3>4 DEF Moves, Asks
    <2>6. CASE ObserverFails /\ HP!Catch(l, r, ok)
      BY <1>1, <2>1, <2>4, <2>6, CatchMoves
    <2>7. QED
      BY <1>4, <2>5, <2>6 DEF HP!HandleResolves
  <1>5. CASE HP!HandleRejects(l, ok)
    <2>1. p = "handling" /\ i.valid /\ i.asked = <<>> /\ i.exhausted = "no"
      BY <1>1, <1>5 DEF HP!HandleRejects, HP!Good, Fit
    <2>2. QED
      BY <1>1, <1>5, <2>1, CatchMoves DEF HP!HandleRejects
  <1>6. CASE HP!AckEnds(l, ok)
    <2>1. p = "acking" /\ i.asked # <<>> /\ HP!LastOk(i) /\ i.exhausted = "no"
      BY <1>1, <1>6 DEF HP!AckEnds, HP!Good, HP!Told, Fit
    <2>2. inv'[l] = i /\ phase'[l] \in {"returned", "threw"}
      BY <1>1, <1>6, <2>1, BecomeOne DEF HP!AckEnds
    <2>3. Fit(phase'[l], inv'[l])
      BY <2>1, <2>2 DEF Fit
    <2>4. QED
      BY <2>1, <2>2, <2>3 DEF Moves, Asks
  <1>7. CASE HP!ExhaustedResolves(l, ok)
    <2> DEFINE d == [i EXCEPT !.exhausted = "resolved"]
    <2>1. p = "exhausting" /\ i.valid /\ i.asked = <<>> /\ i.exhausted = "running" /\ i.attempt >= HandlerMax
      BY <1>1, <1>7 DEF HP!ExhaustedResolves, HP!Good, Fit
    <2>2. /\ d \in HP!Invocations /\ d.valid = i.valid /\ d.attempt = i.attempt
          /\ d.exhausted = "resolved" /\ d.asked = i.asked /\ d.handled = i.handled
      BY <1>1 DEF HP!Invocations
    <2>3. HP!ReportThenAsk(l, d, "exhausted", "deadLetter", ok)
      BY <1>7 DEF HP!ExhaustedResolves
    <2>4. Reported(l, d, "deadLetter", ok)
      <3> HIDE DEF d
      <3>1. d.asked = <<>>
        BY <2>1, <2>2
      <3>2. QED
        BY <1>1, <2>2, <2>3, <3>1, ReportThenAskMoves
    <2>5. Fit(phase'[l], inv'[l])
      BY <2>1, <2>2, <2>4 DEF Fit, Reported
    <2>6. QED
      BY <2>1, <2>2, <2>4, <2>5 DEF Moves, Asks, Reported
  <1>8. CASE HP!ExhaustedRejects(l, ok)
    <2> DEFINE d == [i EXCEPT !.exhausted = "rejected"]
    <2>1. p = "exhausting" /\ i.valid /\ i.asked = <<>> /\ i.exhausted = "running" /\ i.attempt >= HandlerMax
      BY <1>1, <1>8 DEF HP!ExhaustedRejects, HP!Good, Fit
    <2>2. /\ d.valid = i.valid /\ d.attempt = i.attempt
          /\ d.exhausted = "rejected" /\ d.asked = i.asked /\ d.handled = i.handled
      BY <1>1 DEF HP!Invocations
    <2>3. phase'[l] = "threw" /\ inv'[l] = d
      BY <1>1, <1>8, BecomeOne DEF HP!ExhaustedRejects
    <2>4. Fit(phase'[l], inv'[l])
      BY <2>1, <2>2, <2>3 DEF Fit
    <2>5. QED
      BY <2>1, <2>2, <2>3, <2>4 DEF Moves, Asks
  <1>9. CASE HP!SettlingEnds(l)
    <2>1. p = "settling" /\ i.asked # <<>>
      BY <1>1, <1>9 DEF HP!SettlingEnds, HP!Good, HP!Told
    <2>2. inv'[l] = i /\ phase'[l] \in {"returned", "threw"}
      BY <1>1, <1>9, BecomeOne DEF HP!SettlingEnds
    <2>3. Fit(phase'[l], inv'[l])
      BY <2>1, <2>2 DEF Fit
    <2>4. QED
      BY <2>1, <2>2, <2>3 DEF Moves, Asks
  <1>10. QED
    BY <1>2, <1>3, <1>4, <1>5, <1>6, <1>7, <1>8, <1>9 DEF HP!Step
-----------------------------------------------------------------------------
(***************************************************************************)
(* The two together.  The context settles a delivery at most once; nothing *)
(* a defined handler asks for comes after that.                            *)
(***************************************************************************)

\* What the consumer does in a step of the handler it awaits.
Serves(l, ok) ==
    \/ /\ inv'[l].asked = inv[l].asked
       /\ UNCHANGED consumerVars
    \/ /\ inv[l].asked = <<>>
       /\ \/ /\ inv'[l].asked = <<Call("ack", ok)>>
             /\ CP!HandlerSettles(l, "ack", ok)
             /\ ok /\ inv[l].valid /\ inv'[l].handled
          \/ /\ inv'[l].asked = <<Call("retry", ok)>>
             /\ CP!HandlerSettles(l, "retry", ok)
             /\ inv[l].valid /\ inv[l].attempt < HandlerMax /\ inv'[l].exhausted = "no"
          \/ /\ inv'[l].asked = <<Call("deadLetter", ok)>>
             /\ CP!HandlerSettles(l, "dlq", ok)
             /\ inv[l].valid => inv'[l].exhausted = "resolved"

LEMMA HandlerStepServes ==
    ASSUME Base, NEW l \in Loops, HandlerStep(l)
    PROVE  \E ok \in BOOLEAN :
              /\ HP!Step(l, ok)
              /\ Moves(phase[l], inv[l], phase'[l], inv'[l], ok)
              /\ Serves(l, ok)
              /\ Fit(phase'[l], inv'[l])
  <1>1. PICK ok \in BOOLEAN : H!Step(l, ok) /\ Context(l, ok)
    BY DEF HandlerStep
  <1>2. HP!Step(l, ok)
    BY <1>1, SameHandler
  <1>3. Moves(phase[l], inv[l], phase'[l], inv'[l], ok)
    BY <1>2, StepMoves DEF Base, Joined, JoinedAt, HandlerStep
  <1>4. ASSUME NEW op \in {"ack", "retry", "deadLetter"}, inv[l].asked = <<>>,
               inv'[l].asked = <<Call(op, ok)>>
        PROVE  CP!HandlerSettles(l, Action[op], ok)
    <2>1. inv'[l].asked # inv[l].asked /\ inv'[l].asked[Len(inv'[l].asked)].op = op
      BY <1>4 DEF Call
    <2>2. C!HandlerSettles(l, Action[op], ok)
      <3>1. ~settled[l]
        BY <1>4 DEF Base, Joined, JoinedAt, HandlerStep
      <3>2. QED
        BY <1>1, <2>1, <3>1 DEF Context
    <2>3. QED
      BY <2>2, SameConsumer
  <1>5. CP!HandlerSettles(l, "ack", ok) => ok
    BY DEF CP!HandlerSettles, CP!Settle
  <1>6. Action["ack"] = "ack" /\ Action["retry"] = "retry" /\ Action["deadLetter"] = "dlq"
    BY DEF Action
  <1>7. Asks(inv[l], inv'[l], ok)
    BY <1>3 DEF Moves
  <1>8. Serves(l, ok)
    <2>1. CASE inv'[l].asked = inv[l].asked
      BY <1>1, <2>1 DEF Context, Serves
    <2>2. CASE /\ inv[l].asked = <<>> /\ inv'[l].asked = <<Call("ack", ok)>>
               /\ inv[l].valid /\ inv'[l].handled
      <3>1. CP!HandlerSettles(l, "ack", ok)
        BY <1>4, <1>6, <2>2
      <3>2. QED
        BY <1>5, <2>2, <3>1 DEF Serves
    <2>3. CASE /\ inv[l].asked = <<>> /\ inv'[l].asked = <<Call("retry", ok)>>
               /\ inv[l].valid /\ inv[l].attempt < HandlerMax /\ inv'[l].exhausted = "no"
      <3>1. CP!HandlerSettles(l, "retry", ok)
        BY <1>4, <1>6, <2>3
      <3>2. QED
        BY <2>3, <3>1 DEF Serves
    <2>4. CASE /\ inv[l].asked = <<>> /\ inv'[l].asked = <<Call("deadLetter", ok)>>
               /\ inv[l].valid => inv'[l].exhausted = "resolved"
      <3>1. CP!HandlerSettles(l, "dlq", ok)
        BY <1>4, <1>6, <2>4
      <3>2. QED
        BY <2>4, <3>1 DEF Serves
    <2>5. QED
      BY <1>7, <2>1, <2>2, <2>3, <2>4 DEF Asks
  <1>9. inv[l].asked = <<>> /\ inv'[l].asked = <<Call("ack", ok)>> => ok
    BY <1>4, <1>5, <1>6
  <1>10. Fit(phase'[l], inv'[l])
    BY <1>3, <1>9 DEF Moves
  <1>11. QED
    BY <1>2, <1>3, <1>8, <1>10

\* A step of a handler is a step of the consumer, or none.
LEMMA ServesIsConsumerStep ==
    ASSUME NEW l \in Loops, NEW ok \in BOOLEAN, Serves(l, ok)
    PROVE  [CP!Next]_(CP!vars)
  BY DEF Serves, CP!Next, consumerVars, CP!vars, CP!held

\* Every step of the joined system is a step of the consumer, or none.
LEMMA ConsumerStep ==
    ASSUME Base, [Next]_vars
    PROVE  [CP!Next]_(CP!vars)
  <1>1. ASSUME NEW m \in Messages, NEW h \in Headers, C!Publish(m, h)  PROVE CP!Next
    BY <1>1, SameConsumer DEF CP!Next
  <1>2. ASSUME NEW m \in wire, C!Arrive(m)  PROVE CP!Next
    BY <1>2, SameConsumer DEF CP!Next
  <1>3. ASSUME NEW l \in Loops, C!Start(l) \/ C!Continue(l) \/ C!Resolve(l)  PROVE CP!Next
    BY <1>3, SameConsumer DEF CP!Next
  <1>4. ASSUME NEW l \in Loops, NEW ok \in BOOLEAN, C!Reject(l, ok)  PROVE CP!Next
    BY <1>4, SameConsumer DEF CP!Next
  <1>5. CASE C!Stop
    BY <1>5, SameConsumer DEF CP!Next
  <1>6. ASSUME NEW l \in Loops, HandlerStep(l)  PROVE [CP!Next]_(CP!vars)
    BY <1>6, HandlerStepServes, ServesIsConsumerStep
  <1>7. CASE UNCHANGED vars
    BY <1>7 DEF vars, consumerVars, CP!vars, CP!held
  <1>8. QED
    BY <1>1, <1>2, <1>3, <1>4, <1>5, <1>6, <1>7
    DEF Next, Publish, Arrive, Stop, Start, Continue, Return, Throw

\* Every step of the joined system is a step of the handler, or none.
LEMMA InvokeBegins ==
    ASSUME CP!Typed', NEW l \in Loops, Invoke(l)
    PROVE  [HP!Next]_(HP!vars)
  <1>1. CASE UNCHANGED <<phase, inv>>
    BY <1>1 DEF HP!vars
  <1>2. CASE /\ pc'[l] = "handling"
             /\ H!Begin(l, msg'[l].id \notin PoisonMessages, C!Attempt(l)')
    <2>1. msg'[l].header \in Int
      BY <1>2 DEF CP!Typed, CP!Holding, CP!BrokerMessages
    <2>2. C!Attempt(l)' \in Nat \ {0}
      BY <2>1 DEF C!Attempt, C!ReadAttempt
    <2>3. (msg'[l].id \notin PoisonMessages) \in BOOLEAN
      OBVIOUS
    <2>4. HP!Begin(l, msg'[l].id \notin PoisonMessages, C!Attempt(l)')
      BY <1>2, SameHandler
    <2>5. QED
      BY <2>2, <2>3, <2>4 DEF HP!Next
  <1>3. QED
    BY <1>1, <1>2 DEF Invoke

LEMMA HandlerModuleStep ==
    ASSUME Base, CP!Typed', [Next]_vars
    PROVE  [HP!Next]_(HP!vars)
  <1>1. ASSUME NEW l \in Loops, HandlerStep(l)  PROVE [HP!Next]_(HP!vars)
    BY <1>1, HandlerStepServes DEF HP!Next
  <1>2. CASE UNCHANGED <<phase, inv>>
    BY <1>2 DEF HP!vars
  <1>3. QED
    BY <1>1, <1>2, InvokeBegins
    DEF Next, Publish, Arrive, Stop, Start, Continue, Return, Throw, vars, handlerVars

\* No step takes an acknowledgement back.
LEMMA AckedStays ==
    ASSUME [CP!Next]_(CP!vars)
    PROVE  CP!AckedIds \subseteq CP!AckedIds'
  <1>1. acked \subseteq acked'
    BY DEF CP!Next, CP!Publish, CP!Arrive, CP!Start, CP!Continue, CP!Stop, CP!HandlerSettles,
           CP!Resolve, CP!Reject, CP!Settle, CP!RetryMessage, CP!Requeue, CP!DeadLetter,
           CP!Acknowledge, CP!Lose, CP!vars
  <1>2. QED
    BY <1>1 DEF CP!AckedIds

LEMMA HandledStays ==
    ASSUME [Next]_vars
    PROVE  handled \subseteq handled'
  BY DEF Next, Publish, Arrive, Stop, Start, Continue, HandlerStep, Record, Return, Throw,
         vars, handlerVars, history

\* A step leaves a loop it does not touch joined to its invocation.
LEMMA JoinedFrame ==
    ASSUME NEW k \in Loops, JoinedAt(k),
           pc'[k] = pc[k], msg'[k] = msg[k], settled'[k] = settled[k],
           phase'[k] = phase[k], inv'[k] = inv[k],
           handled \subseteq handled', CP!AckedIds \subseteq CP!AckedIds'
    PROVE  JoinedAt(k)'
  BY DEF JoinedAt, Fit, H!Active, HP!LastOk, CP!Attempt

\* dequeue and the call of the handler (lines 82-84 and 63 of consumer.ts).
LEMMA TurnJoins ==
    ASSUME Base, CP!Inv', NEW l \in Loops, Start(l) \/ Continue(l),
           CP!AckedIds \subseteq CP!AckedIds'
    PROVE  Joined'
  <1>1. /\ CP!TypeOK /\ CP!TypeOK' /\ HP!TypeOK /\ handled' = handled
        /\ pc[l] # "handling"
    BY DEF Base, CP!Inv, CP!Typed, HP!Inv, Start, Continue, history, C!Start, C!Continue
  <1>2. /\ \A k \in Loops \ {l} : pc'[k] = pc[k] /\ msg'[k] = msg[k] /\ settled'[k] = settled[k]
        /\ pc'[l] = "handling" => ~settled'[l]
    <2>1. /\ pc \in [Loops -> {"idle", "handling", "next"}]
          /\ msg \in [Loops -> CP!BrokerMessages \cup {NoMessage}]
          /\ settled \in [Loops -> BOOLEAN]
      BY <1>1 DEF CP!TypeOK
    <2>2. QED
      BY <2>1 DEF Start, Continue, C!Start, C!Continue, C!Poll
  <1>3. \A k \in Loops \ {l} : phase'[k] = phase[k] /\ inv'[k] = inv[k]
    BY <1>1 DEF Start, Continue, Invoke, H!Begin, H!Become, HP!TypeOK
  <1>4. ASSUME NEW k \in Loops \ {l}  PROVE JoinedAt(k)'
    BY <1>1, <1>2, <1>3, JoinedFrame DEF Base, Joined
  <1>5. ASSUME pc'[l] # "handling", UNCHANGED <<phase, inv>>  PROVE JoinedAt(l)'
    <2>1. ~H!Active(l)
      BY <1>1 DEF Base, Joined, JoinedAt
    <2>2. QED
      BY <1>5, <2>1 DEF JoinedAt, H!Active
  <1>6. ASSUME pc'[l] = "handling",
               H!Begin(l, msg'[l].id \notin PoisonMessages, C!Attempt(l)')
        PROVE  JoinedAt(l)'
    <2> DEFINE i == HP!Invocation(msg'[l].id \notin PoisonMessages, C!Attempt(l)')
    <2>1. phase'[l] = "parsed" /\ inv'[l] = i
      <3>1. HP!Begin(l, msg'[l].id \notin PoisonMessages, C!Attempt(l)')
        BY <1>6, SameHandler
      <3>2. QED
        BY <1>1, <3>1, BecomeOne DEF HP!Begin
    <2>2. /\ i.valid = (msg'[l].id \notin PoisonMessages) /\ i.attempt = C!Attempt(l)'
          /\ i.asked = <<>> /\ i.exhausted = "no" /\ ~i.handled
      BY DEF HP!Invocation
    <2>3. C!Attempt(l)' = CP!Attempt(l)'
      BY DEF C!Attempt, CP!Attempt, C!ReadAttempt, CP!ReadAttempt
    <2>4. Fit(phase[l], inv[l])'
      BY <2>1, <2>2 DEF Fit
    <2>5. QED
      BY <1>2, <1>6, <2>1, <2>2, <2>3, <2>4 DEF JoinedAt
  <1>7. JoinedAt(l)'
    BY <1>5, <1>6 DEF Start, Continue, Invoke
  <1>8. QED
    BY <1>4, <1>7 DEF Joined

\* A step of the handler, with the settling it asks for.
LEMMA HandlerStepJoins ==
    ASSUME Base, NEW l \in Loops, HandlerStep(l), handled \subseteq handled',
           CP!AckedIds \subseteq CP!AckedIds'
    PROVE  Joined'
  <1>1. PICK ok \in BOOLEAN : /\ HP!Step(l, ok)
                              /\ Moves(phase[l], inv[l], phase'[l], inv'[l], ok)
                              /\ Serves(l, ok)
                              /\ Fit(phase'[l], inv'[l])
    BY HandlerStepServes
  <1>2. CP!TypeOK /\ HP!TypeOK /\ JoinedAt(l) /\ pc[l] = "handling"
    BY DEF Base, CP!Inv, CP!Typed, HP!Inv, Joined, HandlerStep
  <1>3. pc' = pc /\ msg' = msg
    BY <1>1 DEF Serves, consumerVars, CP!HandlerSettles
  <1>4. \A k \in Loops \ {l} : phase'[k] = phase[k] /\ inv'[k] = inv[k]
    <2>1. phase \in [Loops -> HP!Phases] /\ inv \in [Loops -> HP!Invocations]
      BY <1>2 DEF HP!TypeOK
    <2>2. ASSUME NEW ph, NEW j, HP!Become(l, ph, j)
          PROVE  \A k \in Loops \ {l} : phase'[k] = phase[k] /\ inv'[k] = inv[k]
      BY <2>1, <2>2 DEF HP!Become
    <2>3. \E ph, j : HP!Become(l, ph, j)
      BY <1>1 DEF HP!Step, HP!Poison, HP!CallHandle, HP!HandleResolves, HP!HandleRejects,
         HP!AckEnds, HP!ExhaustedResolves, HP!ExhaustedRejects, HP!SettlingEnds, HP!Catch,
         HP!ReportThenAsk, HP!Ask
    <2>4. QED
      BY <2>2, <2>3
  <1>5. /\ \A k \in Loops \ {l} : settled'[k] = settled[k]
        /\ settled'[l] <=> inv'[l].asked # <<>>
    <2>1. settled \in [Loops -> BOOLEAN]
      BY <1>2 DEF CP!TypeOK
    <2>2. CASE inv'[l].asked = inv[l].asked /\ settled' = settled
      BY <1>2, <2>2 DEF JoinedAt
    <2>3. CASE inv'[l].asked # <<>> /\ settled' = [settled EXCEPT ![l] = TRUE]
      BY <2>1, <2>3
    <2>4. \A op : <<Call(op, ok)>> # <<>>
      OBVIOUS
    <2>5. QED
      BY <1>1, <2>2, <2>3, <2>4 DEF Serves, consumerVars, CP!HandlerSettles, CP!Settle
  <1>6. ASSUME NEW k \in Loops \ {l}  PROVE JoinedAt(k)'
    BY <1>3, <1>4, <1>5, JoinedFrame DEF Base, Joined
  <1>7. inv'[l].handled => msg'[l].id \in handled'
    BY <1>3 DEF HandlerStep, Record
  <1>8. inv'[l].handled /\ ~ObserverFails => msg'[l].id \in CP!AckedIds'
    <2>1. CASE inv[l].handled /\ ~ObserverFails
      BY <1>2, <1>3, <2>1 DEF JoinedAt
    <2>2. CASE inv[l].asked = <<>> /\ inv'[l].asked = <<Call("ack", ok)>>
      <3>1. CP!HandlerSettles(l, "ack", ok) /\ ok
        BY <1>1, <2>2 DEF Serves, Call
      <3>2. acked' = acked \cup {msg[l]}
        BY <3>1 DEF CP!HandlerSettles, CP!Settle, CP!Acknowledge
      <3>3. QED
        BY <1>3, <3>2 DEF CP!AckedIds
    <2>3. QED
      BY <1>1, <2>1, <2>2 DEF Moves
  <1>9. inv'[l].valid = inv[l].valid /\ inv'[l].attempt = inv[l].attempt
    BY <1>1 DEF Moves
  <1>10. JoinedAt(l)'
    BY <1>1, <1>2, <1>3, <1>5, <1>7, <1>8, <1>9 DEF JoinedAt, CP!Attempt
  <1>11. QED
    BY <1>6, <1>10 DEF Joined

\* The handler's promise is settled, and the loop resumes.
LEMMA EndJoins ==
    ASSUME Base, NEW l \in Loops, Return(l) \/ Throw(l), CP!AckedIds \subseteq CP!AckedIds'
    PROVE  Joined'
  <1>1. CP!TypeOK
    BY DEF Base, CP!Inv, CP!Typed
  <1>2. /\ UNCHANGED <<phase, inv, handled>>
        /\ phase[l] \in {"returned", "threw"}
        /\ CP!Resolve(l) \/ \E ok \in BOOLEAN : CP!Reject(l, ok)
    BY SameConsumer DEF Return, Throw, handlerVars, history
  <1>3. /\ msg' = msg
        /\ pc'[l] # "handling"
        /\ \A k \in Loops \ {l} : pc'[k] = pc[k] /\ settled'[k] = settled[k]
    BY <1>1, <1>2 DEF CP!Resolve, CP!Reject, CP!Settle, CP!TypeOK
  <1>4. ASSUME NEW k \in Loops \ {l}  PROVE JoinedAt(k)'
    BY <1>2, <1>3, JoinedFrame DEF Base, Joined
  <1>5. JoinedAt(l)'
    BY <1>2, <1>3 DEF JoinedAt, H!Active
  <1>6. QED
    BY <1>4, <1>5 DEF Joined

LEMMA BaseStep ==
    ASSUME Base, [Next]_vars
    PROVE  Base'
  <1>1. [CP!Next]_(CP!vars)
    BY ConsumerStep
  <1>2. CP!Inv'
    BY <1>1, ConsumerAssumed, CP!InvStep DEF Base
  <1>3. [HP!Next]_(HP!vars)
    BY <1>2, HandlerModuleStep DEF CP!Inv
  <1>4. HP!Inv'
    BY <1>3, ConsumerAssumed, HP!NextKeepsInv DEF Base
  <1>5. CP!AckedIds \subseteq CP!AckedIds' /\ handled \subseteq handled'
    BY <1>1, AckedStays, HandledStays
  <1>6. Joined'
    <2>1. ASSUME UNCHANGED <<pc, msg, settled, phase, inv>>  PROVE Joined'
      BY <1>5, <2>1, JoinedFrame DEF Base, Joined
    <2>2. ASSUME NEW m \in Messages, NEW h \in Headers, C!Publish(m, h), UNCHANGED handlerVars
          PROVE  Joined'
      BY <2>1, <2>2 DEF C!Publish, C!held, handlerVars
    <2>3. ASSUME NEW m \in wire, C!Arrive(m), UNCHANGED handlerVars  PROVE Joined'
      BY <2>1, <2>3 DEF C!Arrive, C!held, handlerVars
    <2>4. CASE Stop
      BY <2>1, <2>4 DEF Stop, C!Stop, C!held, handlerVars
    <2>5. ASSUME NEW l \in Loops, Start(l) \/ Continue(l)  PROVE Joined'
      BY <1>2, <1>5, <2>5, TurnJoins
    <2>6. ASSUME NEW l \in Loops, HandlerStep(l)  PROVE Joined'
      BY <1>5, <2>6, HandlerStepJoins
    <2>7. ASSUME NEW l \in Loops, Return(l) \/ Throw(l)  PROVE Joined'
      BY <1>5, <2>7, EndJoins
    <2>8. CASE UNCHANGED vars
      BY <2>1, <2>8 DEF vars, consumerVars, handlerVars
    <2>9. QED
      BY <2>2, <2>3, <2>4, <2>5, <2>6, <2>7, <2>8 DEF Next, Publish, Arrive
  <1>7. QED
    BY <1>2, <1>4, <1>6 DEF Base

LEMMA BaseInit ==
    ASSUME Init
    PROVE  Base
  <1>1. CP!Init /\ HP!Init
    BY SameConsumer, SameHandler DEF Init
  <1>2. CP!Inv
    BY <1>1, ConsumerAssumed, CP!InvInit
  <1>3. HP!Inv
    BY <1>1, ConsumerAssumed, HP!InitHasInv
  <1>4. Joined
    BY <1>1 DEF CP!Init, HP!Init, Joined, JoinedAt, H!Active
  <1>5. QED
    BY <1>2, <1>3, <1>4 DEF Base

\* Pipeline keeps the invariants of its two modules, joined.
LEMMA BaseInvariant == Spec => []Base
  BY BaseInit, BaseStep, PTL DEF Spec

\* consumer.ts:41-43: an operation asked for on a settled delivery is ignored.
\* None of a defined handler is, whatever its callbacks and the port do: what it
\* told its observer is what the consumer was asked for while it could do it.
NothingIgnored ==
    [][\A l \in Loops : HandlerStep(l) /\ inv'[l].asked # inv[l].asked => ~settled[l]]_vars

THEOREM HandlerIsHeard == Spec => NothingIgnored
  <1>1. ASSUME Base, NEW l \in Loops, HandlerStep(l), inv'[l].asked # inv[l].asked
        PROVE  ~settled[l]
    <2>1. inv[l].asked = <<>>
      BY <1>1, HandlerStepServes DEF Serves
    <2>2. QED
      BY <1>1, <2>1 DEF Base, Joined, JoinedAt, HandlerStep
  <1>2. Base => \A l \in Loops : HandlerStep(l) /\ inv'[l].asked # inv[l].asked => ~settled[l]
    BY <1>1
  <1>3. QED
    BY <1>2, BaseInvariant, PTL DEF Spec, NothingIgnored
-----------------------------------------------------------------------------
(***************************************************************************)
(* What a step of the consumer brings to each place.                       *)
(***************************************************************************)
Retries(l) == CP!DecideRetry(CP!Attempt(l), MaxAttempts) = "retry"
DeadLetters(l) == CP!DecideRetry(CP!Attempt(l), MaxAttempts) = "dlq"

\* settle brings the next attempt to the queue, or the message to the
\* dead-letter queue or among the acknowledged.
SettledPlaces(l, action) ==
    /\ \A m \in Waiting' : m \in Waiting \/ (m = CP!NextAttempt(msg[l]) /\ action = "retry" /\ Retries(l))
    /\ \A x \in CP!DlqIds' :
          x \in CP!DlqIds \/ (x = msg[l].id /\ (action = "dlq" \/ (action = "retry" /\ DeadLetters(l))))
    /\ \A x \in CP!AckedIds' : x \in CP!AckedIds \/ (x = msg[l].id /\ action = "ack")
    /\ CP!Open' = CP!Open \ {l}

LEMMA HeldMessage ==
    ASSUME CP!Inv, NEW l \in Loops, ~settled[l]
    PROVE  /\ msg[l] \in CP!BrokerMessages /\ msg[l].id \in Messages /\ msg[l].header \in Int
           /\ CP!Attempt(l) \in Int /\ CP!Attempt(l) >= 1
           /\ l \in CP!Open /\ pc[l] = "handling"
  <1>1. msg[l] \in CP!BrokerMessages /\ pc[l] = "handling"
    BY DEF CP!Inv, CP!Typed, CP!Holding
  <1>2. QED
    BY <1>1 DEF CP!BrokerMessages, CP!Attempt, CP!ReadAttempt, CP!Open

LEMMA SettlePlaces ==
    ASSUME CP!Inv, NEW l \in Loops, ~settled[l], NEW action, NEW ok,
           CP!Settle(l, action, ok), msg' = msg
    PROVE  SettledPlaces(l, action)
  <1>1. msg[l] \in CP!BrokerMessages
    BY HeldMessage
  <1>2. /\ queue \in Seq(CP!BrokerMessages) /\ dlq \in Seq(CP!BrokerMessages)
        /\ settled \in [Loops -> BOOLEAN]
    BY DEF CP!Inv, CP!Typed, CP!TypeOK
  <1>3. CP!Open' = CP!Open \ {l}
    BY <1>2 DEF CP!Settle, CP!Open
  <1>4. ASSUME NEW m \in CP!BrokerMessages, CP!Enqueue(m)
        PROVE  Waiting' = Waiting \cup {m}
    <2>1. CP!Elements(Append(queue, m)) = CP!Elements(queue) \cup {m}
      BY <1>2, ConsumerAssumed, CP!AppendElements
    <2>2. CASE queue' = Append(queue, m) /\ wire' = wire
      BY <2>1, <2>2 DEF Waiting
    <2>3. CASE queue' = queue /\ wire' = wire \cup {m}
      BY <2>3 DEF Waiting
    <2>4. QED
      BY <1>4, <2>2, <2>3 DEF CP!Enqueue
  <1>5. CASE CP!Requeue(msg[l]) /\ action = "retry" /\ Retries(l)
    <2>1. CP!NextAttempt(msg[l]) \in CP!BrokerMessages
      BY <1>1, ConsumerAssumed, CP!NextAttemptProperties
    <2>2. Waiting' = Waiting \cup {CP!NextAttempt(msg[l])}
      BY <1>4, <1>5, <2>1 DEF CP!Requeue
    <2>3. CP!DlqIds' = CP!DlqIds /\ CP!AckedIds' = CP!AckedIds
      BY <1>5 DEF CP!Requeue, CP!DlqIds, CP!AckedIds
    <2>4. QED
      BY <1>3, <1>5, <2>2, <2>3 DEF SettledPlaces
  <1>6. CASE CP!DeadLetter(msg[l]) /\ (action = "dlq" \/ (action = "retry" /\ DeadLetters(l)))
    <2>1. CP!DlqIds' = CP!DlqIds \cup {msg[l].id}
      BY <1>1, <1>2, <1>6, ConsumerAssumed, CP!AppendElements DEF CP!DeadLetter, CP!DlqIds
    <2>2. Waiting' = Waiting /\ CP!AckedIds' = CP!AckedIds
      BY <1>6 DEF CP!DeadLetter, Waiting, CP!AckedIds
    <2>3. QED
      BY <1>3, <1>6, <2>1, <2>2 DEF SettledPlaces
  <1>7. CASE CP!Acknowledge(msg[l]) /\ action = "ack"
    <2>1. CP!AckedIds' = CP!AckedIds \cup {msg[l].id}
      BY <1>7 DEF CP!Acknowledge, CP!AckedIds
    <2>2. Waiting' = Waiting /\ CP!DlqIds' = CP!DlqIds
      BY <1>7 DEF CP!Acknowledge, Waiting, CP!DlqIds
    <2>3. QED
      BY <1>3, <1>7, <2>1, <2>2 DEF SettledPlaces
  <1>8. CASE CP!Lose(msg[l])
    <2>1. Waiting' = Waiting /\ CP!DlqIds' = CP!DlqIds /\ CP!AckedIds' = CP!AckedIds
      BY <1>8 DEF CP!Lose, Waiting, CP!DlqIds, CP!AckedIds
    <2>2. QED
      BY <1>3, <2>1 DEF SettledPlaces
  <1>9. QED
    BY <1>5, <1>6, <1>7, <1>8 DEF CP!Settle, CP!RetryMessage, Retries, DeadLetters

\* A turn of the loop takes at most a waiting message, into its own hands.
LEMMA TurnPlaces ==
    ASSUME CP!Inv, NEW l \in Loops, CP!Start(l) \/ CP!Continue(l)
    PROVE  /\ Waiting' \subseteq Waiting
           /\ UNCHANGED <<dlq, acked, sent>>
           /\ \A k \in CP!Open' :
                 \/ k \in CP!Open /\ k # l /\ msg'[k] = msg[k]
                 \/ k = l /\ pc'[l] = "handling" /\ msg'[l] \in Waiting
  <1>1. /\ queue \in Seq(CP!BrokerMessages)
        /\ msg \in [Loops -> CP!BrokerMessages \cup {NoMessage}]
        /\ settled \in [Loops -> BOOLEAN]
        /\ CP!OnceEach(queue)
        /\ pc \in [Loops -> {"idle", "handling", "next"}]
    BY DEF CP!Inv, CP!Typed, CP!TypeOK, CP!ExactlyOnePlace, CP!NoDuplicates
  <1>2. wire' = wire /\ UNCHANGED <<dlq, acked, sent>> /\ pc[l] # "handling"
    BY DEF CP!Start, CP!Continue
  <1>3. settled[l]
    BY <1>1, <1>2 DEF CP!Inv, CP!Typed, CP!Holding
  <1>4. CASE UNCHANGED <<queue, msg, settled>>
    BY <1>2, <1>3, <1>4 DEF Waiting, CP!Open
  <1>5. CASE /\ queue # <<>>
             /\ queue' = Tail(queue)
             /\ pc' = [pc EXCEPT ![l] = "handling"]
             /\ msg' = [msg EXCEPT ![l] = Head(queue)]
             /\ settled' = [settled EXCEPT ![l] = FALSE]
    <2>1. /\ Head(queue) \in CP!Elements(queue)
          /\ CP!Elements(Tail(queue)) = CP!Elements(queue) \ {Head(queue)}
      BY <1>1, <1>5, ConsumerAssumed, CP!TailElements
    <2>2. Waiting' \subseteq Waiting
      BY <1>2, <1>5, <2>1 DEF Waiting
    <2>3. pc'[l] = "handling" /\ msg'[l] \in Waiting
      BY <1>1, <1>5, <2>1 DEF Waiting
    <2>4. \A k \in CP!Open' : k # l => k \in CP!Open /\ msg'[k] = msg[k]
      BY <1>1, <1>5 DEF CP!Open
    <2>5. QED
      BY <1>2, <2>2, <2>3, <2>4
  <1>6. QED
    BY <1>4, <1>5 DEF CP!Start, CP!Continue, CP!Poll

\* The message in a handler's hands is nowhere else.
LEMMA HeldAlone ==
    ASSUME CP!Inv, NEW l \in Loops, ~settled[l]
    PROVE  /\ msg[l].id \in sent
           /\ msg[l].id \notin CP!DlqIds
           /\ \A m \in Waiting : m.id # msg[l].id
           /\ \A k \in CP!Open : k # l => msg[k].id # msg[l].id
  <1>1. l \in CP!Open /\ msg[l].id \in CP!OpenIds
    BY DEF CP!Open, CP!OpenIds
  <1>2. CP!PairwiseDisjoint /\ CP!NoDuplicates /\ CP!OpenIds \subseteq sent
    BY DEF CP!Inv, CP!ExactlyOnePlace
  <1>3. msg[l].id \notin CP!QueueIds \cup CP!WireIds \cup CP!DlqIds
    BY <1>1, <1>2 DEF CP!PairwiseDisjoint
  <1>4. \A m \in Waiting : m.id \in CP!QueueIds \cup CP!WireIds
    BY DEF Waiting, CP!Elements, CP!QueueIds, CP!WireIds, CP!IdsOf
  <1>5. QED
    BY <1>1, <1>2, <1>3, <1>4 DEF CP!NoDuplicates

LEMMA WaitingTyped ==
    ASSUME CP!Inv, NEW m \in Waiting
    PROVE  /\ m \in CP!BrokerMessages /\ m.id \in Messages /\ m.header \in Int
           /\ m.id \in sent
  <1>1. queue \in Seq(CP!BrokerMessages) /\ wire \subseteq CP!BrokerMessages
    BY DEF CP!Inv, CP!Typed, CP!TypeOK
  <1>2. m \in CP!BrokerMessages
    BY <1>1 DEF Waiting, CP!Elements
  <1>3. m.id \in CP!QueueIds \cup CP!WireIds
    BY DEF Waiting, CP!Elements, CP!QueueIds, CP!WireIds, CP!IdsOf
  <1>4. QED
    BY <1>2, <1>3 DEF CP!BrokerMessages, CP!Inv, CP!ExactlyOnePlace

\* Loops other than l keep their invocation.
LEMMA OthersKept ==
    ASSUME Base, NEW l \in Loops, Start(l) \/ Continue(l) \/ HandlerStep(l),
           NEW k \in Loops, k # l
    PROVE  phase'[k] = phase[k] /\ inv'[k] = inv[k]
  <1>1. phase \in [Loops -> HP!Phases] /\ inv \in [Loops -> HP!Invocations]
    BY DEF Base, HP!Inv, HP!TypeOK
  <1>2. ASSUME NEW ph, NEW j, HP!Become(l, ph, j)
        PROVE  phase'[k] = phase[k] /\ inv'[k] = inv[k]
    BY <1>1, <1>2 DEF HP!Become
  <1>3. CASE HandlerStep(l)
    <2>1. PICK ok \in BOOLEAN : HP!Step(l, ok)
      BY <1>3, HandlerStepServes
    <2>2. \E ph, j : HP!Become(l, ph, j)
      BY <2>1 DEF HP!Step, HP!Poison, HP!CallHandle, HP!HandleResolves, HP!HandleRejects,
         HP!AckEnds, HP!ExhaustedResolves, HP!ExhaustedRejects, HP!SettlingEnds, HP!Catch,
         HP!ReportThenAsk, HP!Ask
    <2>3. QED
      BY <1>2, <2>2
  <1>4. CASE Start(l) \/ Continue(l)
    <2>1. UNCHANGED <<phase, inv>> \/ \E ph, j : HP!Become(l, ph, j)
      BY <1>4, SameHandler DEF Start, Continue, Invoke, HP!Begin
    <2>2. QED
      BY <1>2, <2>1
  <1>5. QED
    BY <1>3, <1>4
-----------------------------------------------------------------------------
(***************************************************************************)
(* The calls of handle.                                                    *)
(***************************************************************************)

\* A step that calls no handle keeps the counts, if what it puts on the queue
\* has attempts left and what it takes was waiting.
LEMMA CountedKept ==
    ASSUME CP!Inv, Counted, handleCalls' = handleCalls, sent \subseteq sent',
           \A m \in Waiting' : m \in Waiting \/
              (handleCalls[m.id] < CP!ReadAttempt(m.header) /\ handleCalls[m.id] < Budget),
           \A k \in CP!Open' :
              \/ k \in CP!Open /\ msg'[k] = msg[k] /\ (phase'[k] = "parsed" => phase[k] = "parsed")
              \/ msg'[k] \in Waiting
    PROVE  Counted'
  <1>1. \A m \in Waiting' : handleCalls'[m.id] < CP!ReadAttempt(m.header) /\ handleCalls'[m.id] < Budget
    BY DEF Counted
  <1>2. ASSUME NEW k \in CP!Open'
        PROVE  /\ handleCalls'[msg'[k].id] <= CP!Attempt(k)'
               /\ phase'[k] = "parsed" =>
                    handleCalls'[msg'[k].id] < CP!Attempt(k)' /\ handleCalls'[msg'[k].id] < Budget
    <2>1. CASE k \in CP!Open /\ msg'[k] = msg[k] /\ (phase'[k] = "parsed" => phase[k] = "parsed")
      BY <2>1 DEF Counted, CP!Attempt
    <2>2. CASE msg'[k] \in Waiting
      <3>1. msg'[k].id \in Messages /\ msg'[k].header \in Int
        BY <2>2, WaitingTyped
      <3>2. /\ handleCalls[msg'[k].id] \in Nat
            /\ handleCalls[msg'[k].id] < CP!ReadAttempt(msg'[k].header)
            /\ handleCalls[msg'[k].id] < Budget
        BY <2>2, <3>1 DEF Counted
      <3>3. CP!ReadAttempt(msg'[k].header) \in Int
        BY <3>1 DEF CP!ReadAttempt
      <3>4. QED
        BY <3>2, <3>3 DEF CP!Attempt
    <2>3. QED
      BY <1>2, <2>1, <2>2
  <1>3. QED
    BY <1>1, <1>2 DEF Counted

\* define-message-handler.ts:63: handle is called for a message that nobody
\* else has and that was called for less often than its attempt says.
LEMMA CallCounts ==
    ASSUME Base, Counted, NEW l \in Loops, HandlerStep(l), phase'[l] = "handling"
    PROVE  Counted'
  <1>1. PICK ok \in BOOLEAN : /\ Moves(phase[l], inv[l], phase'[l], inv'[l], ok)
                              /\ Serves(l, ok)
    BY HandlerStepServes
  <1>2. /\ phase[l] = "parsed" /\ inv[l].valid /\ inv[l].asked = <<>> /\ inv'[l].asked = <<>>
    BY <1>1 DEF Moves
  <1>3. UNCHANGED consumerVars
    <2>1. \A op : <<Call(op, ok)>> # <<>>
      OBVIOUS
    <2>2. QED
      BY <1>1, <1>2, <2>1 DEF Serves
  <1> DEFINE m == msg[l].id
  <1>4. CP!Inv /\ ~settled[l] /\ m \notin PoisonMessages
    BY <1>2 DEF Base, Joined, JoinedAt, HandlerStep
  <1>5. /\ m \in Messages /\ l \in CP!Open /\ CP!Attempt(l) \in Int
        /\ m \in sent
        /\ \A w \in Waiting : w.id # m
        /\ \A k \in CP!Open : k # l => msg[k].id # m
    BY <1>4, HeldMessage, HeldAlone
  <1>6. /\ handleCalls \in [Messages -> Nat]
        /\ handleCalls[m] < CP!Attempt(l) /\ handleCalls[m] < Budget
    BY <1>2, <1>5 DEF Counted
  <1>7. handleCalls' = [handleCalls EXCEPT ![m] = @ + 1]
    BY <1>2, <1>5, <1>6 DEF HandlerStep, Record
  <1>8. /\ handleCalls' \in [Messages -> Nat]
        /\ handleCalls'[m] = handleCalls[m] + 1
        /\ \A n \in Messages : n # m => handleCalls'[n] = handleCalls[n]
    BY <1>5, <1>6, <1>7
  <1>9. Budget \in Int
    BY PipelineAssumption DEF Budget
  <1>10. Waiting' = Waiting /\ CP!Open' = CP!Open /\ msg' = msg /\ sent' = sent
    BY <1>3 DEF consumerVars, Waiting, CP!Elements, CP!Open
  <1>11. \A n \in Messages : handleCalls'[n] <= IF n \in PoisonMessages THEN 0 ELSE Budget
    BY <1>4, <1>5, <1>6, <1>8, <1>9 DEF Counted
  <1>12. ASSUME NEW w \in Waiting
         PROVE  handleCalls'[w.id] < CP!ReadAttempt(w.header) /\ handleCalls'[w.id] < Budget
    <2>1. w.id \in Messages /\ w.id # m
      BY <1>4, <1>5, WaitingTyped
    <2>2. QED
      BY <1>8, <2>1 DEF Counted
  <1>13. ASSUME NEW k \in CP!Open
         PROVE  /\ handleCalls'[msg[k].id] <= CP!Attempt(k)
                /\ phase'[k] = "parsed" =>
                     handleCalls'[msg[k].id] < CP!Attempt(k) /\ handleCalls'[msg[k].id] < Budget
    <2>1. CASE k = l
      BY <1>5, <1>6, <1>8, <2>1
    <2>2. CASE k # l
      <3>1. k \in Loops /\ ~settled[k]
        BY DEF CP!Open
      <3>2. msg[k].id \in Messages /\ msg[k].id # m
        BY <1>4, <1>5, <2>2, <3>1, HeldMessage
      <3>3. phase'[k] = phase[k]
        BY <2>2, <3>1, OthersKept
      <3>4. QED
        BY <1>8, <3>2, <3>3 DEF Counted
    <2>3. QED
      BY <2>1, <2>2
  <1>14. CP!Attempt(l)' = CP!Attempt(l) /\ \A k : CP!Attempt(k)' = CP!Attempt(k)
    BY <1>10 DEF CP!Attempt
  <1>15. QED
    BY <1>5, <1>8, <1>10, <1>11, <1>12, <1>13, <1>14 DEF Counted
-----------------------------------------------------------------------------
(***************************************************************************)
(* Where messages come from, in any step.                                  *)
(***************************************************************************)
GivesUp(k) == phase'[k] = "exhausting" /\ phase[k] # "exhausting"

InvocationKept(k) ==
    /\ phase'[k] = "parsed" => phase[k] = "parsed"
    /\ GivesUp(k) \/ (inv'[k].exhausted = "no" <=> inv[k].exhausted = "no")

Flow ==
    /\ sent \subseteq sent'
    /\ \A m \in Waiting' :
          \/ m \in Waiting
          \/ m.id \in Messages \ sent /\ m.header \in Int
          \/ \E l \in CP!Open : m = CP!NextAttempt(msg[l]) /\ Retries(l)
    /\ \A k \in CP!Open' :
          \/ k \in CP!Open /\ msg'[k] = msg[k] /\ InvocationKept(k)
          \/ msg'[k] \in Waiting /\ inv'[k].exhausted = "no"
    /\ \A x \in CP!DlqIds' :
          \/ x \in CP!DlqIds
          \/ \E l \in CP!Open :
                /\ x = msg[l].id
                /\ ~GivesUp(l)
                /\ HandlerMax = MaxAttempts /\ ~ContextFails =>
                      x \in PoisonMessages \/ inv[l].exhausted # "no"
    /\ \A x \in CP!AckedIds' : x \in CP!AckedIds \/ (x \in handled' /\ x \notin PoisonMessages)

\* Nothing is published, settled or taken.
LEMMA NothingFlows ==
    ASSUME UNCHANGED <<msg, settled, sent, dlq, acked>>, Waiting' = Waiting,
           \A k \in Loops : InvocationKept(k)
    PROVE  Flow
  <1>1. CP!Open' = CP!Open /\ CP!DlqIds' = CP!DlqIds /\ CP!AckedIds' = CP!AckedIds
    BY DEF CP!Open, CP!DlqIds, CP!AckedIds
  <1>2. CP!Open \subseteq Loops
    BY DEF CP!Open
  <1>3. QED
    BY <1>1, <1>2 DEF Flow

LEMMA PublishFlows ==
    ASSUME Base, NEW id \in Messages, NEW h \in Headers, CP!Publish(id, h), UNCHANGED handlerVars
    PROVE  Flow
  <1> DEFINE m == [id |-> id, header |-> h]
  <1>1. m \in CP!BrokerMessages /\ m.id = id /\ m.header = h /\ h \in Int
    BY PipelineAssumption DEF CP!BrokerMessages
  <1>2. Waiting' = Waiting \cup {m}
    <2>1. queue \in Seq(CP!BrokerMessages)
      BY DEF Base, CP!Inv, CP!Typed, CP!TypeOK
    <2>2. CP!Elements(Append(queue, m)) = CP!Elements(queue) \cup {m}
      BY <1>1, <2>1, ConsumerAssumed, CP!AppendElements
    <2>3. CASE queue' = Append(queue, m) /\ wire' = wire
      BY <2>2, <2>3 DEF Waiting
    <2>4. CASE queue' = queue /\ wire' = wire \cup {m}
      BY <2>4 DEF Waiting
    <2>5. QED
      BY <2>3, <2>4 DEF CP!Publish, CP!Enqueue
  <1>3. /\ UNCHANGED <<msg, settled, dlq, acked, phase, inv>>
        /\ id \notin sent /\ sent \subseteq sent'
    BY DEF CP!Publish, CP!held, handlerVars
  <1>4. CP!Open' = CP!Open /\ CP!DlqIds' = CP!DlqIds /\ CP!AckedIds' = CP!AckedIds
    BY <1>3 DEF CP!Open, CP!DlqIds, CP!AckedIds
  <1>5. \A k : InvocationKept(k)
    BY <1>3 DEF InvocationKept
  <1>6. QED
    BY <1>1, <1>2, <1>3, <1>4, <1>5 DEF Flow

LEMMA ArriveFlows ==
    ASSUME Base, NEW m \in wire, CP!Arrive(m), UNCHANGED handlerVars
    PROVE  Flow
  <1>1. queue \in Seq(CP!BrokerMessages) /\ m \in CP!BrokerMessages
    BY DEF Base, CP!Inv, CP!Typed, CP!TypeOK
  <1>2. CP!Elements(queue') = CP!Elements(queue) \cup {m} /\ wire' = wire \ {m}
    BY <1>1, ConsumerAssumed, CP!AppendElements DEF CP!Arrive
  <1>3. Waiting' = Waiting
    BY <1>2 DEF Waiting
  <1>4. UNCHANGED <<msg, settled, sent, dlq, acked, phase, inv>>
    BY DEF CP!Arrive, CP!held, handlerVars
  <1>5. \A k : InvocationKept(k)
    BY <1>4 DEF InvocationKept
  <1>6. QED
    BY <1>3, <1>4, <1>5, NothingFlows

LEMMA TurnFlows ==
    ASSUME Base, NEW l \in Loops, Start(l) \/ Continue(l)
    PROVE  Flow
  <1>1. CP!Start(l) \/ CP!Continue(l)
    BY SameConsumer DEF Start, Continue
  <1>2. /\ Waiting' \subseteq Waiting
        /\ UNCHANGED <<dlq, acked, sent>>
        /\ \A k \in CP!Open' :
              \/ k \in CP!Open /\ k # l /\ msg'[k] = msg[k]
              \/ k = l /\ pc'[l] = "handling" /\ msg'[l] \in Waiting
    BY <1>1, TurnPlaces DEF Base
  <1>3. CP!DlqIds' = CP!DlqIds /\ CP!AckedIds' = CP!AckedIds
    BY <1>2 DEF CP!DlqIds, CP!AckedIds
  <1>4. ASSUME NEW k \in CP!Open'
        PROVE  \/ k \in CP!Open /\ msg'[k] = msg[k] /\ InvocationKept(k)
               \/ msg'[k] \in Waiting /\ inv'[k].exhausted = "no"
    <2>1. CASE k \in CP!Open /\ k # l /\ msg'[k] = msg[k]
      <3>1. phase'[k] = phase[k] /\ inv'[k] = inv[k]
        BY <2>1, OthersKept DEF CP!Open
      <3>2. QED
        BY <2>1, <3>1 DEF InvocationKept
    <2>2. CASE k = l /\ pc'[l] = "handling" /\ msg'[l] \in Waiting
      <3>1. \E isValid, n : HP!Become(l, "parsed", HP!Invocation(isValid, n))
        BY <2>2, SameHandler DEF Start, Continue, Invoke, HP!Begin
      <3>2. PICK isValid, n : HP!Become(l, "parsed", HP!Invocation(isValid, n))
        BY <3>1
      <3>3. inv'[l] = HP!Invocation(isValid, n)
        BY <3>2, BecomeOne DEF Base, HP!Inv
      <3>4. QED
        BY <2>2, <3>3 DEF HP!Invocation
    <2>3. QED
      BY <1>2, <2>1, <2>2
  <1>5. QED
    BY <1>2, <1>3, <1>4 DEF Flow

\* settle, of the handler or of the consumer itself.
LEMMA SettleFlows ==
    ASSUME Base, NEW l \in Loops, ~settled[l], NEW action, SettledPlaces(l, action),
           msg' = msg, sent' = sent,
           \A k \in Loops : InvocationKept(k), ~GivesUp(l),
           action = "ack" => msg[l].id \in handled' /\ msg[l].id \notin PoisonMessages,
           HandlerMax = MaxAttempts /\ ~ContextFails
              => (action = "dlq" \/ (action = "retry" /\ DeadLetters(l))
                     => msg[l].id \in PoisonMessages \/ inv[l].exhausted # "no")
    PROVE  Flow
  <1>1. l \in CP!Open /\ CP!Open \subseteq Loops
    BY DEF CP!Open
  <1>2. \A k \in CP!Open' : k \in CP!Open /\ msg'[k] = msg[k] /\ InvocationKept(k)
    BY <1>1 DEF SettledPlaces
  <1>3. \A m \in Waiting' :
           m \in Waiting \/ \E k \in CP!Open : m = CP!NextAttempt(msg[k]) /\ Retries(k)
    BY <1>1 DEF SettledPlaces
  <1>4. \A x \in CP!AckedIds' : x \in CP!AckedIds \/ (x \in handled' /\ x \notin PoisonMessages)
    BY DEF SettledPlaces
  <1>5. ASSUME NEW x \in CP!DlqIds', x \notin CP!DlqIds
        PROVE  /\ x = msg[l].id
               /\ HandlerMax = MaxAttempts /\ ~ContextFails =>
                     x \in PoisonMessages \/ inv[l].exhausted # "no"
    BY <1>5 DEF SettledPlaces
  <1>6. QED
    BY <1>1, <1>2, <1>3, <1>4, <1>5 DEF Flow

LEMMA HandlerStepFlows ==
    ASSUME Base, NEW l \in Loops, HandlerStep(l)
    PROVE  Flow
  <1>1. PICK ok \in BOOLEAN : /\ Moves(phase[l], inv[l], phase'[l], inv'[l], ok)
                              /\ Serves(l, ok)
    BY HandlerStepServes
  <1>2. JoinedAt(l) /\ pc[l] = "handling" /\ CP!Inv
    BY DEF Base, Joined, HandlerStep
  <1>3. /\ inv[l].valid <=> msg[l].id \notin PoisonMessages
        /\ inv[l].attempt = CP!Attempt(l)
        /\ settled[l] <=> inv[l].asked # <<>>
    BY <1>2 DEF JoinedAt
  <1>4. ASSUME NEW k \in Loops  PROVE InvocationKept(k)
    <2>1. CASE k = l
      BY <1>1, <2>1 DEF Moves, InvocationKept, GivesUp
    <2>2. CASE k # l
      BY <2>2, OthersKept DEF InvocationKept
    <2>3. QED
      BY <2>1, <2>2
  <1>5. CASE UNCHANGED consumerVars
    <2>1. UNCHANGED <<msg, settled, sent, dlq, acked>> /\ Waiting' = Waiting
      BY <1>5 DEF consumerVars, Waiting, CP!Elements
    <2>2. QED
      BY <1>4, <2>1, NothingFlows
  <1>6. ASSUME NEW op, inv'[l].asked = <<Call(op, ok)>>  PROVE ~GivesUp(l)
    <2>1. inv'[l].asked # <<>>
      BY <1>6
    <2>2. QED
      BY <1>1, <2>1 DEF Moves, GivesUp
  <1>7. ASSUME NEW action, CP!HandlerSettles(l, action, ok)
        PROVE  ~settled[l] /\ msg' = msg /\ sent' = sent /\ SettledPlaces(l, action)
    BY <1>2, <1>7, SettlePlaces DEF CP!HandlerSettles
  <1>8. CASE /\ inv[l].asked = <<>> /\ inv'[l].asked = <<Call("ack", ok)>>
             /\ CP!HandlerSettles(l, "ack", ok)
             /\ ok /\ inv[l].valid /\ inv'[l].handled
    <2>1. msg[l].id \in handled' /\ msg[l].id \notin PoisonMessages
      BY <1>3, <1>8 DEF HandlerStep, Record
    <2>2. QED
      BY <1>4, <1>6, <1>7, <1>8, <2>1, SettleFlows
  <1>9. CASE /\ inv[l].asked = <<>> /\ inv'[l].asked = <<Call("retry", ok)>>
             /\ CP!HandlerSettles(l, "retry", ok)
             /\ inv[l].valid /\ inv[l].attempt < HandlerMax /\ inv'[l].exhausted = "no"
    <2>1. HandlerMax = MaxAttempts => ~DeadLetters(l)
      <3>1. CP!Attempt(l) \in Int /\ CP!Attempt(l) >= 1
        BY <1>2, <1>7, <1>9, HeldMessage
      <3>2. QED
        BY <1>3, <1>9, <3>1, PipelineAssumption DEF DeadLetters, CP!DecideRetry
    <2>2. QED
      BY <1>4, <1>6, <1>7, <1>9, <2>1, SettleFlows
  <1>10. CASE /\ inv[l].asked = <<>> /\ inv'[l].asked = <<Call("deadLetter", ok)>>
              /\ CP!HandlerSettles(l, "dlq", ok)
              /\ inv[l].valid => inv'[l].exhausted = "resolved"
    <2>1. ~GivesUp(l) /\ InvocationKept(l)
      BY <1>4, <1>6, <1>10
    <2>2. msg[l].id \in PoisonMessages \/ inv[l].exhausted # "no"
      BY <1>3, <1>10, <2>1 DEF InvocationKept
    <2>3. QED
      BY <1>4, <1>7, <1>10, <2>1, <2>2, SettleFlows
  <1>11. QED
    BY <1>1, <1>5, <1>8, <1>9, <1>10 DEF Serves

\* A handler that returned has settled its message; one that threw may have
\* left it, and then the consumer retries it (lines 63-75 of consumer.ts).
LEMMA EndFlows ==
    ASSUME Base, NEW l \in Loops, Return(l) \/ Throw(l)
    PROVE  Flow
  <1>1. UNCHANGED <<phase, inv, handled>>
    BY DEF Return, Throw, handlerVars, history
  <1>2. \A k : InvocationKept(k) /\ ~GivesUp(k)
    BY <1>1 DEF InvocationKept, GivesUp
  <1>3. CP!Inv /\ JoinedAt(l) /\ HP!Good(phase[l], inv[l])
    BY DEF Base, Joined, HP!Inv
  <1>4. CASE UNCHANGED <<queue, wire, dlq, settled, acked, msg, sent>>
    <2>1. Waiting' = Waiting
      BY <1>4 DEF Waiting, CP!Elements
    <2>2. QED
      BY <1>2, <1>4, <2>1, NothingFlows
  <1>5. CASE Return(l)
    <2>1. CP!Resolve(l) /\ phase[l] = "returned"
      BY <1>5, SameConsumer DEF Return
    <2>2. settled[l]
      BY <1>3, <2>1 DEF CP!Resolve, JoinedAt, HP!Good, HP!Told
    <2>3. QED
      BY <1>4, <2>1, <2>2 DEF CP!Resolve
  <1>6. CASE Throw(l)
    <2>1. PICK ok \in BOOLEAN : CP!Reject(l, ok)
      BY <1>6, SameConsumer DEF Throw
    <2>2. phase[l] = "threw" /\ pc[l] = "handling" /\ msg' = msg /\ sent' = sent
      BY <1>6, <2>1 DEF Throw, CP!Reject
    <2>3. CASE settled[l]
      BY <1>4, <2>1, <2>3 DEF CP!Reject
    <2>4. CASE ~settled[l] /\ CP!Settle(l, "retry", ok)
      <3>1. SettledPlaces(l, "retry")
        BY <1>3, <2>2, <2>4, SettlePlaces
      <3>2. CP!Attempt(l) \in Int /\ CP!Attempt(l) >= 1
        BY <1>3, <2>4, HeldMessage
      <3>3. HandlerMax = MaxAttempts /\ ~ContextFails /\ DeadLetters(l)
              => msg[l].id \in PoisonMessages \/ inv[l].exhausted # "no"
        BY <1>3, <2>2, <2>4, <3>2, PipelineAssumption
        DEF JoinedAt, Fit, DeadLetters, CP!DecideRetry
      <3>4. QED
        BY <1>2, <2>2, <2>4, <3>1, <3>3, SettleFlows
    <2>5. QED
      BY <2>1, <2>3, <2>4 DEF CP!Reject
  <1>7. QED
    BY <1>5, <1>6

LEMMA FlowStep ==
    ASSUME Base, [Next]_vars
    PROVE  Flow
  <1>1. ASSUME NEW m \in Messages, NEW h \in Headers, C!Publish(m, h), UNCHANGED handlerVars
        PROVE  Flow
    BY <1>1, SameConsumer, PublishFlows
  <1>2. ASSUME NEW m \in wire, C!Arrive(m), UNCHANGED handlerVars  PROVE Flow
    BY <1>2, SameConsumer, ArriveFlows
  <1>3. ASSUME UNCHANGED <<queue, wire, msg, settled, sent, dlq, acked, phase, inv>>  PROVE Flow
    <2>1. Waiting' = Waiting /\ \A k : InvocationKept(k)
      BY <1>3 DEF Waiting, CP!Elements, InvocationKept
    <2>2. QED
      BY <1>3, <2>1, NothingFlows
  <1>4. CASE Stop \/ UNCHANGED vars
    BY <1>3, <1>4 DEF Stop, C!Stop, C!held, handlerVars, vars, consumerVars
  <1>5. ASSUME NEW l \in Loops, Start(l) \/ Continue(l)  PROVE Flow
    BY <1>5, TurnFlows
  <1>6. ASSUME NEW l \in Loops, HandlerStep(l)  PROVE Flow
    BY <1>6, HandlerStepFlows
  <1>7. ASSUME NEW l \in Loops, Return(l) \/ Throw(l)  PROVE Flow
    BY <1>7, EndFlows
  <1>8. QED
    BY <1>1, <1>2, <1>4, <1>5, <1>6, <1>7 DEF Next, Publish, Arrive

\* Who counts: only a step of a handler writes the history, and of its own message.
LEMMA HistoryWritten ==
    ASSUME Base, [Next]_vars,
           handleCalls \in [Messages -> Nat], giveUps \in [Messages -> {0, 1}]
    PROVE  /\ \/ handleCalls' = handleCalls
              \/ \E l \in Loops : HandlerStep(l) /\ phase'[l] = "handling"
           /\ \/ giveUps' = giveUps /\ \A l \in Loops : ~GivesUp(l)
              \/ \E l \in Loops : HandlerStep(l) /\ GivesUp(l)
  <1>1. CASE UNCHANGED history /\ \A l \in Loops : ~GivesUp(l)
    BY <1>1 DEF history
  <1>2. ASSUME NEW l \in Loops, HandlerStep(l)
        PROVE  /\ phase'[l] = "handling" \/ handleCalls' = handleCalls
               /\ \/ GivesUp(l)
                  \/ giveUps' = giveUps /\ \A k \in Loops : ~GivesUp(k)
    <2>1. \A k \in Loops : k # l => ~GivesUp(k)
      BY <1>2, OthersKept DEF GivesUp
    <2>2. phase'[l] = "handling" \/ handleCalls' = handleCalls
      BY <1>2 DEF HandlerStep, Record
    <2>3. GivesUp(l) \/ giveUps' = giveUps
      BY <1>2 DEF HandlerStep, Record, GivesUp
    <2>4. QED
      BY <2>1, <2>2, <2>3
  <1>3. ASSUME NEW l \in Loops, Start(l) \/ Continue(l)
        PROVE  UNCHANGED history /\ \A k \in Loops : ~GivesUp(k)
    <2>1. ~GivesUp(l)
      <3>1. UNCHANGED phase \/ \E isValid, n : HP!Become(l, "parsed", HP!Invocation(isValid, n))
        BY <1>3, SameHandler DEF Start, Continue, Invoke, HP!Begin
      <3>2. QED
        BY <3>1, BecomeOne DEF GivesUp, Base, HP!Inv
    <2>2. \A k \in Loops : k # l => ~GivesUp(k)
      BY <1>3, OthersKept DEF GivesUp
    <2>3. QED
      BY <1>3, <2>1, <2>2 DEF Start, Continue
  <1>4. UNCHANGED handlerVars => UNCHANGED history /\ \A k \in Loops : ~GivesUp(k)
    BY DEF handlerVars, GivesUp
  <1>5. QED
    BY <1>1, <1>2, <1>3, <1>4 DEF Next, Publish, Arrive, Stop, Return, Throw, vars

LEMMA CountedStep ==
    ASSUME Base, Counted, giveUps \in [Messages -> {0, 1}], [Next]_vars
    PROVE  Counted'
  <1>1. CP!Inv /\ Flow /\ handleCalls \in [Messages -> Nat]
    BY FlowStep DEF Base, Counted
  <1>2. Budget \in Int /\ Budget >= 1 /\ (MaxAttempts > 1 => Budget = MaxAttempts)
    BY PipelineAssumption DEF Budget
  <1>3. CASE handleCalls' = handleCalls
    <2>1. ASSUME NEW m \in Waiting', m \notin Waiting
          PROVE  handleCalls[m.id] < CP!ReadAttempt(m.header) /\ handleCalls[m.id] < Budget
      <3>1. CASE m.id \in Messages \ sent /\ m.header \in Int
        BY <1>2, <3>1 DEF Counted, CP!ReadAttempt
      <3>2. ASSUME NEW l \in CP!Open, m = CP!NextAttempt(msg[l]), Retries(l)
            PROVE  handleCalls[m.id] < CP!ReadAttempt(m.header) /\ handleCalls[m.id] < Budget
        <4>1. /\ msg[l] \in CP!BrokerMessages /\ msg[l].id \in Messages
              /\ CP!Attempt(l) \in Int /\ CP!Attempt(l) >= 1
          BY <1>1, HeldMessage DEF CP!Open
        <4>2. /\ m.id = msg[l].id
              /\ CP!ReadAttempt(m.header) = CP!Attempt(l) + 1
              /\ CP!Attempt(l) < MaxAttempts
          BY <3>2, <4>1, ConsumerAssumed, CP!NextAttemptProperties DEF Retries, CP!Attempt
        <4>3. handleCalls[m.id] \in Nat /\ handleCalls[m.id] <= CP!Attempt(l)
          BY <1>1, <4>1, <4>2 DEF Counted
        <4>4. MaxAttempts \in Int
          BY PipelineAssumption
        <4>5. QED
          BY <1>2, <4>1, <4>2, <4>3, <4>4
      <3>3. QED
        BY <1>1, <2>1, <3>1, <3>2 DEF Flow
    <2>2. \A k \in CP!Open' :
             \/ k \in CP!Open /\ msg'[k] = msg[k] /\ (phase'[k] = "parsed" => phase[k] = "parsed")
             \/ msg'[k] \in Waiting
      BY <1>1 DEF Flow, InvocationKept
    <2>3. QED
      BY <1>1, <1>3, <2>1, <2>2, CountedKept DEF Flow
  <1>4. ASSUME NEW l \in Loops, HandlerStep(l), phase'[l] = "handling"  PROVE Counted'
    BY <1>4, CallCounts
  <1>5. QED
    BY <1>1, <1>3, <1>4, HistoryWritten
-----------------------------------------------------------------------------
(***************************************************************************)
(* The calls of onExhausted, where the handler's limit is no lower than    *)
(* the consumer's.                                                         *)
(***************************************************************************)

\* define-message-handler.ts:78: the last attempt of the message it holds fails.
LEMMA GiveUpCounts ==
    ASSUME Base, GivenUp, NEW l \in Loops, HandlerStep(l), GivesUp(l)
    PROVE  GivenUp'
  <1>1. PICK ok \in BOOLEAN : /\ Moves(phase[l], inv[l], phase'[l], inv'[l], ok)
                              /\ Serves(l, ok)
    BY HandlerStepServes
  <1>2. /\ inv[l].exhausted = "no" /\ inv'[l].exhausted = "running"
        /\ inv[l].asked = <<>> /\ inv'[l].asked = <<>>
    BY <1>1 DEF Moves, GivesUp
  <1>3. UNCHANGED consumerVars
    <2>1. \A op : <<Call(op, ok)>> # <<>>
      OBVIOUS
    <2>2. QED
      BY <1>1, <1>2, <2>1 DEF Serves
  <1> DEFINE m == msg[l].id
  <1>4. CP!Inv /\ ~settled[l]
    BY <1>2 DEF Base, Joined, JoinedAt, HandlerStep
  <1>5. /\ m \in Messages /\ l \in CP!Open /\ m \in sent
        /\ \A w \in Waiting : w.id # m
        /\ \A k \in CP!Open : k # l => msg[k].id # m
    BY <1>4, HeldMessage, HeldAlone
  <1>6. giveUps \in [Messages -> {0, 1}] /\ giveUps[m] = 0
    BY <1>2, <1>5 DEF GivenUp
  <1>7. giveUps' = [giveUps EXCEPT ![m] = @ + 1]
    BY <1>5, <1>6 DEF HandlerStep, Record, GivesUp
  <1>8. /\ giveUps' \in [Messages -> {0, 1}]
        /\ giveUps'[m] = 1
        /\ \A n \in Messages : n # m => giveUps'[n] = giveUps[n]
    BY <1>5, <1>6, <1>7
  <1>9. Waiting' = Waiting /\ CP!Open' = CP!Open /\ msg' = msg /\ sent' = sent
    BY <1>3 DEF consumerVars, Waiting, CP!Elements, CP!Open
  <1>10. ASSUME NEW w \in Waiting  PROVE giveUps'[w.id] = 0
    <2>1. w.id \in Messages /\ w.id # m
      BY <1>4, <1>5, WaitingTyped
    <2>2. QED
      BY <1>8, <2>1 DEF GivenUp
  <1>11. ASSUME NEW k \in CP!Open
         PROVE  giveUps'[msg[k].id] = IF inv'[k].exhausted = "no" THEN 0 ELSE 1
    <2>1. CASE k = l
      BY <1>2, <1>8, <2>1
    <2>2. CASE k # l
      <3>1. k \in Loops /\ ~settled[k]
        BY DEF CP!Open
      <3>2. msg[k].id \in Messages /\ msg[k].id # m
        BY <1>4, <1>5, <2>2, <3>1, HeldMessage
      <3>3. inv'[k] = inv[k]
        BY <2>2, <3>1, OthersKept
      <3>4. QED
        BY <1>8, <3>2, <3>3 DEF GivenUp
    <2>3. QED
      BY <2>1, <2>2
  <1>12. QED
    BY <1>5, <1>8, <1>9, <1>10, <1>11 DEF GivenUp

LEMMA GivenUpStep ==
    ASSUME MaxAttempts <= HandlerMax, Base, GivenUp, handleCalls \in [Messages -> Nat], [Next]_vars
    PROVE  GivenUp'
  <1>1. CP!Inv /\ Flow /\ giveUps \in [Messages -> {0, 1}]
    BY FlowStep DEF Base, GivenUp
  <1>2. CASE giveUps' = giveUps /\ \A l \in Loops : ~GivesUp(l)
    <2>1. ASSUME NEW m \in Waiting'  PROVE giveUps[m.id] = 0
      <3>1. CASE m \in Waiting \/ m.id \in Messages \ sent
        BY <3>1 DEF GivenUp
      <3>2. ASSUME NEW l \in CP!Open, m = CP!NextAttempt(msg[l]), Retries(l)
            PROVE  giveUps[m.id] = 0
        <4>1. /\ l \in Loops /\ msg[l] \in CP!BrokerMessages /\ msg[l].id \in Messages
              /\ CP!Attempt(l) \in Int /\ pc[l] = "handling"
          BY <1>1, HeldMessage DEF CP!Open
        <4>2. m.id = msg[l].id /\ CP!Attempt(l) < MaxAttempts
          BY <3>2, <4>1, ConsumerAssumed, CP!NextAttemptProperties DEF Retries, CP!Attempt
        <4>3. inv[l].attempt = CP!Attempt(l) /\ Fit(phase[l], inv[l])
          BY <4>1 DEF Base, Joined, JoinedAt
        <4>4. inv[l].exhausted = "no"
          BY <4>1, <4>2, <4>3, PipelineAssumption DEF Fit
        <4>5. QED
          BY <4>2, <4>4 DEF GivenUp
      <3>3. QED
        BY <1>1, <3>1, <3>2 DEF Flow
    <2>2. ASSUME NEW k \in CP!Open'
          PROVE  giveUps[msg'[k].id] = IF inv'[k].exhausted = "no" THEN 0 ELSE 1
      <3>1. CASE k \in CP!Open /\ msg'[k] = msg[k] /\ InvocationKept(k)
        BY <1>2, <3>1 DEF GivenUp, InvocationKept, CP!Open
      <3>2. CASE msg'[k] \in Waiting /\ inv'[k].exhausted = "no"
        BY <3>2 DEF GivenUp
      <3>3. QED
        BY <1>1, <2>2, <3>1, <3>2 DEF Flow
    <2>3. QED
      BY <1>1, <1>2, <2>1, <2>2 DEF GivenUp, Flow
  <1>3. ASSUME NEW l \in Loops, HandlerStep(l), GivesUp(l)  PROVE GivenUp'
    BY <1>3, GiveUpCounts
  <1>4. QED
    BY <1>1, <1>2, <1>3, HistoryWritten

LEMMA HistoryInit == Init => Counted /\ GivenUp
  <1> SUFFICES ASSUME Init  PROVE Counted /\ GivenUp
    OBVIOUS
  <1>1. CP!Init
    BY SameConsumer DEF Init
  <1>2. Waiting = {} /\ CP!Open = {}
    BY <1>1 DEF CP!Init, Waiting, CP!Elements, CP!Open
  <1>3. Budget \in Int /\ Budget >= 1
    BY PipelineAssumption DEF Budget
  <1>4. QED
    BY <1>2, <1>3 DEF Init, Counted, GivenUp

LEMMA HistoryInvariant ==
    MaxAttempts <= HandlerMax => (Spec => [](Base /\ Counted /\ GivenUp))
  <1> SUFFICES ASSUME MaxAttempts <= HandlerMax
               PROVE  Spec => [](Base /\ Counted /\ GivenUp)
    OBVIOUS
  <1>1. Init => Base /\ Counted /\ GivenUp
    BY BaseInit, HistoryInit
  <1>2. Base /\ Counted /\ GivenUp /\ [Next]_vars => (Base /\ Counted /\ GivenUp)'
    <2> SUFFICES ASSUME Base, Counted, GivenUp, [Next]_vars  PROVE Base' /\ Counted' /\ GivenUp'
      OBVIOUS
    <2>1. handleCalls \in [Messages -> Nat] /\ giveUps \in [Messages -> {0, 1}]
      BY DEF Counted, GivenUp
    <2>2. QED
      BY <2>1, BaseStep, CountedStep, GivenUpStep
  <1>3. QED
    BY <1>1, <1>2, PTL DEF Spec

\* define-message-handler.ts:40 and 74: handle runs no more often than the
\* budget allows and never for poison, and onExhausted runs once at most, with
\* every loop, header and failure, if the handler's limit is not the lower one.
THEOREM CallsBounded == MaxAttempts <= HandlerMax => (Spec => []CallsWithinBudget)
  <1>1. Counted /\ GivenUp => CallsWithinBudget
    <2> SUFFICES ASSUME Counted, GivenUp, NEW m \in Messages
                 PROVE  /\ handleCalls[m] <= IF m \in PoisonMessages THEN 0
                                             ELSE IF MaxAttempts > 1 THEN MaxAttempts ELSE 1
                        /\ giveUps[m] <= 1
      BY DEF CallsWithinBudget
    <2>1. handleCalls[m] <= IF m \in PoisonMessages THEN 0 ELSE Budget
      BY DEF Counted
    <2>2. giveUps[m] \in {0, 1}
      BY DEF GivenUp
    <2>3. QED
      BY <2>1, <2>2 DEF Budget
  <1>2. QED
    BY <1>1, HistoryInvariant, PTL
-----------------------------------------------------------------------------
(***************************************************************************)
(* Outcomes.                                                               *)
(***************************************************************************)

\* README:53: an acknowledgement is earned, whatever throws: the consumer's own
\* ack never covers a message that handle did not resolve for.
THEOREM AcksAreEarned == Spec => []AckedIsHandled
  <1>1. Init => AckedIsHandled
    BY SameConsumer DEF Init, CP!Init, AckedIsHandled, CP!AckedIds
  <1>2. Base /\ AckedIsHandled /\ [Next]_vars => AckedIsHandled'
    BY FlowStep, HandledStays DEF Flow, AckedIsHandled
  <1>3. QED
    BY <1>1, <1>2, BaseInvariant, PTL DEF Spec

\* A message that handle resolved for is acknowledged: never waiting again, nor dead.
HandledIsOver == \A m \in handled : m \in C!AckedIds

\* README:54: where onOutcome does not throw, a message that handle resolved
\* for is acknowledged at once, so it is never delivered again nor dead.
THEOREM HandledStaysHandled == ~ObserverFails => (Spec => []HandledIsOver)
  <1> SUFFICES ASSUME ~ObserverFails  PROVE Spec => []HandledIsOver
    OBVIOUS
  <1>1. Init => HandledIsOver
    BY DEF Init, HandledIsOver
  <1>2. Base /\ Base' /\ HandledIsOver /\ [Next]_vars => HandledIsOver'
    <2> SUFFICES ASSUME Base, Base', HandledIsOver, [Next]_vars, NEW m \in handled'
                 PROVE  m \in CP!AckedIds'
      BY SameConsumer DEF HandledIsOver, C!AckedIds, CP!AckedIds
    <2>1. CP!AckedIds \subseteq CP!AckedIds'
      BY ConsumerStep, AckedStays
    <2>2. CASE m \in handled
      BY <2>1, <2>2, SameConsumer DEF HandledIsOver
    <2>3. ASSUME NEW l \in Loops, HandlerStep(l), m \notin handled
          PROVE  m \in CP!AckedIds'
      <3>1. m = msg[l].id /\ inv'[l].handled
        BY <2>3 DEF HandlerStep, Record
      <3>2. pc' = pc /\ msg' = msg /\ pc[l] = "handling"
        <4>1. PICK ok \in BOOLEAN : Serves(l, ok)
          BY <2>3, HandlerStepServes
        <4>2. QED
          BY <2>3, <4>1 DEF Serves, consumerVars, CP!HandlerSettles, HandlerStep
      <3>3. JoinedAt(l)'
        BY DEF Base, Joined
      <3>4. QED
        BY <3>1, <3>2, <3>3 DEF JoinedAt
    <2>4. QED
      BY <2>2, <2>3 DEF Next, Publish, Arrive, Stop, Start, Continue, Return, Throw,
         vars, handlerVars, history
  <1>3. QED
    BY <1>1, <1>2, BaseInvariant, PTL DEF Spec

LEMMA DeadStep ==
    ASSUME HandlerMax = MaxAttempts, ~ContextFails,
           Base, Counted, GivenUp, GivenUp', DeadIsGivenUp, [Next]_vars
    PROVE  DeadIsGivenUp'
  <1> SUFFICES ASSUME NEW x \in CP!DlqIds', x \notin PoisonMessages  PROVE giveUps'[x] = 1
    BY DEF DeadIsGivenUp
  <1>1. CP!Inv /\ Flow /\ giveUps \in [Messages -> {0, 1}] /\ giveUps' \in [Messages -> {0, 1}]
    BY FlowStep DEF Base, GivenUp
  <1>2. x \in Messages /\ giveUps[x] = 1
    <2>1. CASE x \in CP!DlqIds
      <3>1. dlq \in Seq(CP!BrokerMessages)
        BY <1>1 DEF CP!Inv, CP!Typed, CP!TypeOK
      <3>2. PICK i \in DOMAIN dlq : x = dlq[i].id
        BY <2>1 DEF CP!DlqIds, CP!IdsOf
      <3>3. dlq[i] \in CP!BrokerMessages
        BY <3>1
      <3>4. x \in Messages
        BY <3>2, <3>3 DEF CP!BrokerMessages
      <3>5. QED
        BY <2>1, <3>4 DEF DeadIsGivenUp
    <2>2. ASSUME NEW l \in CP!Open, x = msg[l].id, inv[l].exhausted # "no"
          PROVE  x \in Messages /\ giveUps[x] = 1
      BY <1>1, <2>2, HeldMessage DEF GivenUp, CP!Open
    <2>3. \/ x \in CP!DlqIds
          \/ \E l \in CP!Open : x = msg[l].id /\ inv[l].exhausted # "no"
      BY <1>1 DEF Flow
    <2>4. QED
      BY <2>1, <2>2, <2>3
  <1>3. giveUps'[x] >= giveUps[x]
    <2>1. CASE giveUps' = giveUps
      BY <1>1, <1>2, <2>1
    <2>2. ASSUME NEW l \in Loops, HandlerStep(l)  PROVE giveUps'[x] >= giveUps[x]
      BY <1>1, <1>2, <2>2 DEF HandlerStep, Record
    <2>3. QED
      BY <1>1, <2>1, <2>2, HistoryWritten DEF Counted
  <1>4. QED
    BY <1>1, <1>2, <1>3

\* README:53-56, where both sides have one limit and runInContext does not
\* reject by itself: an acknowledged message was handled, and a dead one is
\* poison or was given to onExhausted, once.
THEOREM OutcomesEarned ==
    HandlerMax = MaxAttempts /\ ~ContextFails => (Spec => []OutcomesAreEarned)
  <1> SUFFICES ASSUME HandlerMax = MaxAttempts, ~ContextFails
               PROVE  Spec => []OutcomesAreEarned
    OBVIOUS
  <1>1. Spec => [](Base /\ Counted /\ GivenUp)
    <2>1. MaxAttempts <= HandlerMax
      BY PipelineAssumption
    <2>2. QED
      BY <2>1, HistoryInvariant
  <1>2. Init => DeadIsGivenUp
    BY SameConsumer DEF Init, CP!Init, DeadIsGivenUp, CP!DlqIds, CP!IdsOf
  <1>3. /\ Base /\ Counted /\ GivenUp
        /\ (Base /\ Counted /\ GivenUp)'
        /\ DeadIsGivenUp /\ [Next]_vars
        => DeadIsGivenUp'
    BY DeadStep
  <1>4. AckedIsHandled /\ DeadIsGivenUp => OutcomesAreEarned
    BY SameConsumer DEF AckedIsHandled, DeadIsGivenUp, OutcomesAreEarned
  <1>5. QED
    BY <1>1, <1>2, <1>3, <1>4, AcksAreEarned, PTL DEF Spec
=============================================================================
