------------------------ MODULE MessageHandlerProofs ------------------------
(***************************************************************************)
(* Theorems about MessageHandler, for any slots, any attempts, any limit   *)
(* and every failure of the callbacks and of the context.                  *)
(***************************************************************************)
EXTENDS MessageHandler, TLAPS

Unsettled(i) == \A k \in DOMAIN i.asked : ~i.asked[k].ok

\* Only the operation asked for last may have been accepted.
AcceptedIsLast(i) == \A k \in DOMAIN i.asked : i.asked[k].ok => k = Len(i.asked)

\* The operation that follows each report.
OperationOf == [poison |-> "deadLetter", handled |-> "ack",
                retry |-> "retry", exhausted |-> "deadLetter"]

\* The last report told of the last operation.
Told(i) ==
    /\ i.reports # <<>>
    /\ i.asked # <<>>
    /\ i.asked[Len(i.asked)].op = OperationOf[i.reports[Len(i.reports)]]

\* What DeadLetterIsEarned says of the operations accepted, of all asked for.
Earned(i) ==
    /\ i.valid => \A k \in DOMAIN i.asked :
          i.asked[k].op = "deadLetter" => i.attempt >= HandlerMax /\ i.exhausted = "resolved"
    /\ i.exhausted = "rejected" => Unsettled(i)
    /\ ~i.valid => ~i.handled /\ \A k \in DOMAIN i.asked : i.asked[k].op = "deadLetter"

\* What is true of the data of an invocation at each point of the code.
Good(ph, i) ==
    /\ ph \in Phases
    /\ i \in Invocations
    /\ AcceptedIsLast(i)
    /\ Earned(i)
    /\ ph \in {"idle", "parsed", "handling", "acking"} => i.exhausted = "no"
    /\ ph \in {"idle", "parsed"} => i.asked = <<>> /\ ~i.handled
    /\ ph \in {"handling", "acking", "exhausting"} => i.valid
    /\ ph \in {"handling", "exhausting"} => Unsettled(i)
    /\ ph = "exhausting" => i.exhausted = "running" /\ i.attempt >= HandlerMax
    /\ ph \in {"acking", "settling", "returned"} => Told(i)
    /\ ph = "returned" => LastOk(i)

Inv ==
    /\ TypeOK
    /\ \A s \in Slots : Good(phase[s], inv[s])

(***************************************************************************)
(* One step of an invocation.                                              *)
(***************************************************************************)

\* A step that leaves one invocation good leaves all of them good.
LEMMA BecomeKeepsInv ==
    ASSUME Inv, NEW s \in Slots, NEW ph, NEW i, Good(ph, i), Become(s, ph, i)
    PROVE  Inv'
  <1>1. TypeOK'
    BY DEF Inv, TypeOK, Good, Become
  <1>2. ASSUME NEW r \in Slots  PROVE Good(phase[r], inv[r])'
    <2>1. CASE r = s
      <3>1. phase'[r] = ph /\ inv'[r] = i
        BY <2>1 DEF Inv, TypeOK, Become
      <3>2. QED
        BY <3>1 DEF Good, Unsettled, AcceptedIsLast, Earned, Told, LastOk
    <2>2. CASE r # s
      <3>1. phase'[r] = phase[r] /\ inv'[r] = inv[r]
        BY <2>2 DEF Inv, TypeOK, Become
      <3>2. Good(phase[r], inv[r])
        BY DEF Inv
      <3>3. QED
        BY <3>1, <3>2 DEF Good, Unsettled, AcceptedIsLast, Earned, Told, LastOk
    <2>3. QED
      BY <2>1, <2>2
  <1>3. QED
    BY <1>1, <1>2 DEF Inv

\* define-message-handler.ts:57: an onOutcome that throws leaves what it was
\* told, and no operation is asked for.
LEMMA ReportOnly ==
    ASSUME NEW i \in Invocations, Earned(i), AcceptedIsLast(i),
           NEW kind \in DOMAIN OperationOf
    PROVE  /\ Report(i, kind) \in Invocations
           /\ Report(i, kind).reports # <<>>
           /\ Report(i, kind).reports[Len(Report(i, kind).reports)] = kind
           /\ Earned(Report(i, kind))
           /\ AcceptedIsLast(Report(i, kind))
           /\ Report(i, kind).valid = i.valid
           /\ Report(i, kind).attempt = i.attempt
           /\ Report(i, kind).handled = i.handled
           /\ Report(i, kind).exhausted = i.exhausted
           /\ Report(i, kind).asked = i.asked
  <1> DEFINE j == Report(i, kind)
  <1>1. kind \in {"poison", "handled", "retry", "exhausted"}
    BY DEF OperationOf
  <1>2. i.reports \in Seq({"poison", "handled", "retry", "exhausted"})
    BY DEF Invocations
  <1>3. Append(i.reports, kind) \in Seq({"poison", "handled", "retry", "exhausted"})
    BY <1>1, <1>2
  <1>4. j \in Invocations
    BY <1>3 DEF Report, Invocations
  <1>5. /\ j.valid = i.valid /\ j.attempt = i.attempt /\ j.handled = i.handled
        /\ j.exhausted = i.exhausted /\ j.asked = i.asked
        /\ j.reports = Append(i.reports, kind)
    BY DEF Report, Invocations
  <1>6. j.reports # <<>> /\ j.reports[Len(j.reports)] = kind
    <2> DEFINE kinds == Append(i.reports, kind)
    <2>1. Len(kinds) = Len(i.reports) + 1 /\ Len(i.reports) \in Nat
      BY <1>1, <1>2
    <2>2. kinds[Len(i.reports) + 1] = kind
      BY <1>1, <1>2
    <2>3. kinds # <<>>
      BY <1>3, <2>1
    <2>4. QED
      BY <1>5, <2>1, <2>2, <2>3
  <1>7. Earned(j) /\ AcceptedIsLast(j)
    BY <1>5 DEF Earned, AcceptedIsLast, Unsettled
  <1>8. QED
    BY <1>4, <1>5, <1>6, <1>7

\* An operation asked for while none was accepted leaves the invocation good,
\* whether the context accepts it or not.
LEMMA AskedIsGood ==
    ASSUME NEW i \in Invocations, Earned(i), Unsettled(i),
           NEW kind \in DOMAIN OperationOf, NEW ok \in BOOLEAN,
           i.exhausted # "rejected",
           kind = "exhausted" => i.attempt >= HandlerMax /\ i.exhausted = "resolved",
           kind = "poison" <=> ~i.valid,
           kind = "handled" => i.exhausted = "no"
    PROVE  Good(IF kind = "handled" THEN "acking" ELSE "settling",
                [Report(i, kind) EXCEPT !.asked = Append(@, [op |-> OperationOf[kind], ok |-> ok])])
  <1> DEFINE call == [op |-> OperationOf[kind], ok |-> ok]
             r == Report(i, kind)
             j == [r EXCEPT !.asked = Append(@, call)]
             n == Len(i.asked)
  <1>1. AcceptedIsLast(i)
    BY DEF AcceptedIsLast, Unsettled
  <1>2. /\ r \in Invocations
        /\ r.reports # <<>> /\ r.reports[Len(r.reports)] = kind
        /\ r.valid = i.valid /\ r.attempt = i.attempt /\ r.handled = i.handled
        /\ r.exhausted = i.exhausted /\ r.asked = i.asked
    BY <1>1, ReportOnly
  <1>3. call \in [op : {"ack", "retry", "deadLetter"}, ok : BOOLEAN]
    BY DEF OperationOf
  <1>4. j \in Invocations
    <2>1. i.asked \in Seq([op : {"ack", "retry", "deadLetter"}, ok : BOOLEAN])
      BY DEF Invocations
    <2>2. Append(i.asked, call) \in Seq([op : {"ack", "retry", "deadLetter"}, ok : BOOLEAN])
      BY <1>3, <2>1
    <2>3. Append(r.asked, call) = Append(i.asked, call)
      BY <1>2
    <2>4. QED
      BY <1>2, <2>2, <2>3 DEF Invocations
  <1>5. /\ j.reports = r.reports /\ j.valid = i.valid /\ j.attempt = i.attempt
        /\ j.handled = i.handled /\ j.exhausted = i.exhausted
        /\ j.asked = Append(i.asked, call)
    BY <1>2 DEF Invocations
  <1>6. i.asked \in Seq([op : {"ack", "retry", "deadLetter"}, ok : BOOLEAN])
    BY DEF Invocations
  <1>7. /\ n \in Nat
        /\ DOMAIN i.asked = 1..n
        /\ Len(j.asked) = n + 1
        /\ DOMAIN j.asked = 1..(n + 1)
        /\ j.asked # <<>>
        /\ j.asked[n + 1] = call
        /\ \A k \in 1..n : j.asked[k] = i.asked[k]
    BY <1>3, <1>5, <1>6
  <1>8. AcceptedIsLast(j)
    BY <1>7 DEF AcceptedIsLast, Unsettled
  <1>9. Told(j)
    BY <1>2, <1>5, <1>7 DEF Told
  <1>10. Earned(j)
    <2>1. kind \in {"poison", "handled", "retry", "exhausted"}
      BY DEF OperationOf
    <2>2. ASSUME i.valid, NEW k \in 1..(n + 1), j.asked[k].op = "deadLetter"
          PROVE  i.attempt >= HandlerMax /\ i.exhausted = "resolved"
      <3>1. CASE k \in 1..n
        BY <2>2, <3>1, <1>7 DEF Earned
      <3>2. CASE k = n + 1
        BY <2>1, <2>2, <3>2, <1>7 DEF OperationOf
      <3>3. QED
        BY <1>7, <3>1, <3>2
    <2>3. ASSUME ~i.valid, NEW k \in 1..(n + 1)  PROVE j.asked[k].op = "deadLetter"
      <3>1. CASE k \in 1..n
        BY <2>3, <3>1, <1>7 DEF Earned
      <3>2. CASE k = n + 1
        BY <2>3, <3>2, <1>7 DEF OperationOf
      <3>3. QED
        BY <1>7, <3>1, <3>2
    <2>4. ~i.valid => ~i.handled
      BY DEF Earned
    <2>5. QED
      BY <1>5, <1>7, <2>2, <2>3, <2>4 DEF Earned
  <1>11. kind = "handled" => j.valid /\ j.exhausted = "no"
    BY <1>5
  <1>12. QED
    BY <1>4, <1>8, <1>9, <1>10, <1>11 DEF Good, Phases

\* Lines 75, 80 and 62: report, then the operation it tells of.
LEMMA ReportThenAskKeepsInv ==
    ASSUME Inv, NEW s \in Slots,
           NEW i \in Invocations, Earned(i), Unsettled(i),
           NEW kind \in {"poison", "retry", "exhausted"}, NEW ok \in BOOLEAN,
           i.exhausted # "rejected",
           kind = "exhausted" => i.attempt >= HandlerMax /\ i.exhausted = "resolved",
           kind = "poison" <=> ~i.valid,
           ReportThenAsk(s, i, kind, OperationOf[kind], ok)
    PROVE  Inv'
  <1>1. kind \in DOMAIN OperationOf /\ kind # "handled"
    BY DEF OperationOf
  <1>2. CASE Ask(s, "settling", Report(i, kind), OperationOf[kind], ok)
    <2> DEFINE j == [Report(i, kind) EXCEPT !.asked = Append(@, [op |-> OperationOf[kind], ok |-> ok])]
    <2>1. Good("settling", j)
      <3>1. Good(IF kind = "handled" THEN "acking" ELSE "settling", j)
        BY <1>1, AskedIsGood
      <3>2. QED
        BY <1>1, <3>1
    <2>2. Become(s, "settling", j)
      BY <1>2 DEF Ask
    <2>3. QED
      BY <2>1, <2>2, BecomeKeepsInv
  <1>3. CASE Become(s, "threw", Report(i, kind))
    <2>1. AcceptedIsLast(i)
      BY DEF AcceptedIsLast, Unsettled
    <2>2. Good("threw", Report(i, kind))
      BY <1>1, <2>1, ReportOnly DEF Good, Phases
    <2>3. QED
      BY <1>3, <2>2, BecomeKeepsInv
  <1>4. QED
    BY <1>2, <1>3 DEF ReportThenAsk

\* The catch block, lines 73-82, entered with no operation accepted so far.
LEMMA CatchKeepsInv ==
    ASSUME Inv, NEW s \in Slots,
           NEW i \in Invocations, i.valid, i.exhausted = "no", Earned(i), Unsettled(i),
           NEW ok \in BOOLEAN, Catch(s, i, ok)
    PROVE  Inv'
  <1>1. CASE ReportThenAsk(s, i, "retry", "retry", ok)
    <2>1. OperationOf["retry"] = "retry"
      BY DEF OperationOf
    <2>2. QED
      BY <1>1, <2>1, ReportThenAskKeepsInv
  <1>2. CASE /\ DecideRetry(i.attempt, HandlerMax) = "dlq"
             /\ Become(s, "exhausting", [i EXCEPT !.exhausted = "running"])
    <2> DEFINE j == [i EXCEPT !.exhausted = "running"]
    <2>1. i.attempt >= HandlerMax
      <3>1. i.attempt \in Nat \ {0}
        BY DEF Invocations
      <3>2. QED
        BY <1>2, <3>1, MessageHandlerAssumption DEF DecideRetry
    <2>2. /\ j \in Invocations
          /\ j.exhausted = "running" /\ j.asked = i.asked /\ j.valid = i.valid
          /\ j.attempt = i.attempt /\ j.handled = i.handled
      BY DEF Invocations
    <2>3. Unsettled(j) /\ AcceptedIsLast(j)
      BY <2>2 DEF Unsettled, AcceptedIsLast
    <2>4. Earned(j)
      BY <2>2 DEF Earned
    <2>5. Good("exhausting", j)
      BY <2>1, <2>2, <2>3, <2>4 DEF Good, Phases
    <2>6. QED
      BY <1>2, <2>5, BecomeKeepsInv
  <1>3. QED
    BY <1>1, <1>2 DEF Catch

(***************************************************************************)
(* The actions.                                                            *)
(***************************************************************************)

LEMMA BeginKeepsInv ==
    ASSUME Inv, NEW s \in Slots, NEW isValid \in BOOLEAN, NEW n \in Attempts,
           Begin(s, isValid, n)
    PROVE  Inv'
  <1> DEFINE i == Invocation(isValid, n)
  <1>1. n \in Nat \ {0}
    BY MessageHandlerAssumption
  <1>2. i \in Invocations
    BY <1>1 DEF Invocation, Invocations
  <1>3. i.exhausted = "no" /\ i.asked = <<>> /\ ~i.handled
    BY DEF Invocation
  <1>4. Good("parsed", i)
    BY <1>2, <1>3 DEF Good, Phases, AcceptedIsLast, Earned, Unsettled
  <1>5. QED
    BY <1>4, BecomeKeepsInv DEF Begin

LEMMA PoisonKeepsInv ==
    ASSUME Inv, NEW s \in Slots, NEW ok \in BOOLEAN, Poison(s, ok)
    PROVE  Inv'
  <1>1. Good("parsed", inv[s])
    BY DEF Inv, Poison
  <1>2. /\ inv[s] \in Invocations /\ Earned(inv[s])
        /\ inv[s].exhausted = "no" /\ inv[s].asked = <<>>
    BY <1>1 DEF Good
  <1>3. Unsettled(inv[s])
    BY <1>2 DEF Unsettled
  <1>4. OperationOf["poison"] = "deadLetter"
    BY DEF OperationOf
  <1>5. QED
    BY <1>2, <1>3, <1>4, ReportThenAskKeepsInv DEF Poison

LEMMA CallHandleKeepsInv ==
    ASSUME Inv, NEW s \in Slots, CallHandle(s)
    PROVE  Inv'
  <1>1. Good("parsed", inv[s]) /\ inv[s].valid
    BY DEF Inv, CallHandle
  <1>2. Good("handling", inv[s]) /\ Good("threw", inv[s])
    BY <1>1 DEF Good, Phases, Unsettled
  <1>3. QED
    BY <1>2, BecomeKeepsInv DEF CallHandle

LEMMA HandleResolvesKeepsInv ==
    ASSUME Inv, NEW s \in Slots, NEW ok \in BOOLEAN, HandleResolves(s, ok)
    PROVE  Inv'
  <1> DEFINE i == [inv[s] EXCEPT !.handled = TRUE]
             j == [Report(i, "handled") EXCEPT !.asked = Append(@, [op |-> "ack", ok |-> ok])]
  <1>1. Good("handling", inv[s])
    BY DEF Inv, HandleResolves
  <1>2. inv[s] \in Invocations /\ inv[s].valid /\ inv[s].exhausted = "no"
    BY <1>1 DEF Good
  <1>3. /\ i \in Invocations /\ i.valid /\ i.exhausted = "no"
        /\ i.asked = inv[s].asked /\ i.attempt = inv[s].attempt
    BY <1>2 DEF Invocations
  <1>4. Unsettled(i) /\ AcceptedIsLast(i) /\ Earned(i)
    BY <1>1, <1>3 DEF Good, Unsettled, AcceptedIsLast, Earned
  <1>5. "handled" \in DOMAIN OperationOf /\ OperationOf["handled"] = "ack"
    BY DEF OperationOf
  <1>6. CASE Ask(s, "acking", Report(i, "handled"), "ack", ok)
    <2>1. Good("acking", j)
      <3>1. Good(IF "handled" = "handled" THEN "acking" ELSE "settling",
                 [Report(i, "handled") EXCEPT
                     !.asked = Append(@, [op |-> OperationOf["handled"], ok |-> ok])])
        BY <1>3, <1>4, <1>5, AskedIsGood
      <3>2. QED
        BY <1>5, <3>1
    <2>2. Become(s, "acking", j)
      BY <1>6 DEF Ask
    <2>3. QED
      BY <2>1, <2>2, BecomeKeepsInv
  <1>7. CASE Catch(s, Report(i, "handled"), ok)
    <2> DEFINE r == Report(i, "handled")
    <2>1. /\ r \in Invocations /\ r.valid /\ r.exhausted = "no" /\ Earned(r)
          /\ r.asked = i.asked
      BY <1>3, <1>4, <1>5, ReportOnly
    <2>2. Unsettled(r)
      BY <1>4, <2>1 DEF Unsettled
    <2>3. QED
      BY <1>7, <2>1, <2>2, CatchKeepsInv
  <1>8. QED
    BY <1>6, <1>7 DEF HandleResolves

LEMMA HandleRejectsKeepsInv ==
    ASSUME Inv, NEW s \in Slots, NEW ok \in BOOLEAN, HandleRejects(s, ok)
    PROVE  Inv'
  <1>1. Good("handling", inv[s])
    BY DEF Inv, HandleRejects
  <1>2. QED
    BY <1>1, CatchKeepsInv DEF HandleRejects, Good

LEMMA AckEndsKeepsInv ==
    ASSUME Inv, NEW s \in Slots, NEW ok \in BOOLEAN, AckEnds(s, ok)
    PROVE  Inv'
  <1>1. Good("acking", inv[s])
    BY DEF Inv, AckEnds
  <1>2. CASE LastOk(inv[s]) /\ Become(s, "returned", inv[s])
    <2>1. Good("returned", inv[s])
      BY <1>1, <1>2 DEF Good, Phases
    <2>2. QED
      BY <1>2, <2>1, BecomeKeepsInv
  <1>3. CASE Become(s, "threw", inv[s])
    <2>1. Good("threw", inv[s])
      BY <1>1 DEF Good, Phases
    <2>2. QED
      BY <1>3, <2>1, BecomeKeepsInv
  <1>4. CASE ~LastOk(inv[s]) /\ Catch(s, inv[s], ok)
    <2>1. Unsettled(inv[s])
      BY <1>1, <1>4 DEF Good, AcceptedIsLast, Unsettled, LastOk
    <2>2. QED
      BY <1>1, <1>4, <2>1, CatchKeepsInv DEF Good
  <1>5. QED
    BY <1>2, <1>3, <1>4 DEF AckEnds

LEMMA ExhaustedEndsKeepsInv ==
    ASSUME Inv, NEW s \in Slots, NEW ok \in BOOLEAN,
           ExhaustedResolves(s, ok) \/ ExhaustedRejects(s, ok)
    PROVE  Inv'
  <1>1. Good("exhausting", inv[s])
    BY DEF Inv, ExhaustedResolves, ExhaustedRejects
  <1>2. inv[s] \in Invocations /\ inv[s].valid /\ inv[s].attempt >= HandlerMax
    BY <1>1 DEF Good
  <1>3. ASSUME NEW how \in {"resolved", "rejected"}
        PROVE  /\ [inv[s] EXCEPT !.exhausted = how] \in Invocations
               /\ [inv[s] EXCEPT !.exhausted = how].exhausted = how
               /\ [inv[s] EXCEPT !.exhausted = how].valid
               /\ [inv[s] EXCEPT !.exhausted = how].attempt >= HandlerMax
               /\ [inv[s] EXCEPT !.exhausted = how].asked = inv[s].asked
    BY <1>2 DEF Invocations
  <1>4. ASSUME NEW i \in Invocations, i.valid, i.asked = inv[s].asked, i.attempt >= HandlerMax
        PROVE  Unsettled(i) /\ AcceptedIsLast(i) /\ Earned(i)
    BY <1>1, <1>4 DEF Good, Unsettled, AcceptedIsLast, Earned
  <1>5. CASE ExhaustedResolves(s, ok)
    <2> DEFINE i == [inv[s] EXCEPT !.exhausted = "resolved"]
    <2>1. /\ i \in Invocations /\ i.exhausted = "resolved" /\ i.valid
          /\ i.attempt >= HandlerMax /\ i.asked = inv[s].asked
      BY <1>3
    <2>2. Unsettled(i) /\ Earned(i)
      BY <1>4, <2>1
    <2>3. OperationOf["exhausted"] = "deadLetter"
      BY DEF OperationOf
    <2>4. QED
      BY <1>5, <2>1, <2>2, <2>3, ReportThenAskKeepsInv DEF ExhaustedResolves
  <1>6. CASE ExhaustedRejects(s, ok)
    <2> DEFINE i == [inv[s] EXCEPT !.exhausted = "rejected"]
    <2>1. /\ i \in Invocations /\ i.valid
          /\ i.attempt >= HandlerMax /\ i.asked = inv[s].asked
      BY <1>3
    <2>2. AcceptedIsLast(i) /\ Earned(i)
      BY <1>4, <2>1
    <2>3. Good("threw", i)
      BY <2>1, <2>2 DEF Good, Phases
    <2>4. QED
      BY <1>6, <2>3, BecomeKeepsInv DEF ExhaustedRejects
  <1>7. QED
    BY <1>5, <1>6

LEMMA SettlingEndsKeepsInv ==
    ASSUME Inv, NEW s \in Slots, SettlingEnds(s)
    PROVE  Inv'
  <1>1. Good("settling", inv[s])
    BY DEF Inv, SettlingEnds
  <1>2. LastOk(inv[s]) => Good("returned", inv[s])
    BY <1>1 DEF Good, Phases
  <1>3. Good("threw", inv[s])
    BY <1>1 DEF Good, Phases
  <1>4. QED
    BY <1>2, <1>3, BecomeKeepsInv DEF SettlingEnds

(***************************************************************************)
(* The theorems.                                                           *)
(***************************************************************************)

LEMMA InitHasInv ==
    ASSUME Init
    PROVE  Inv
  <1> DEFINE i == Invocation(FALSE, 1)
  <1>1. i \in Invocations /\ i.exhausted = "no" /\ i.asked = <<>> /\ ~i.handled
    BY DEF Invocation, Invocations
  <1>2. Good("idle", i)
    <2> HIDE DEF i
    <2>1. AcceptedIsLast(i) /\ Earned(i)
      BY <1>1 DEF AcceptedIsLast, Earned, Unsettled
    <2>2. QED
      BY <1>1, <2>1 DEF Good, Phases
  <1>3. TypeOK
    BY <1>1 DEF Init, TypeOK, Phases
  <1>4. QED
    BY <1>2, <1>3 DEF Init, Inv

LEMMA NextKeepsInv ==
    ASSUME Inv, [Next]_vars
    PROVE  Inv'
  <1>1. ASSUME NEW s \in Slots, NEW isValid \in BOOLEAN, NEW n \in Attempts, Begin(s, isValid, n)
        PROVE  Inv'
    BY <1>1, BeginKeepsInv
  <1>2. ASSUME NEW s \in Slots, NEW ok \in BOOLEAN, Step(s, ok)
        PROVE  Inv'
    <2>1. CASE Poison(s, ok)
      BY <2>1, PoisonKeepsInv
    <2>2. CASE CallHandle(s)
      BY <2>2, CallHandleKeepsInv
    <2>3. CASE HandleResolves(s, ok)
      BY <2>3, HandleResolvesKeepsInv
    <2>4. CASE HandleRejects(s, ok)
      BY <2>4, HandleRejectsKeepsInv
    <2>5. CASE AckEnds(s, ok)
      BY <2>5, AckEndsKeepsInv
    <2>6. CASE ExhaustedResolves(s, ok) \/ ExhaustedRejects(s, ok)
      BY <2>6, ExhaustedEndsKeepsInv
    <2>7. CASE SettlingEnds(s)
      BY <2>7, SettlingEndsKeepsInv
    <2>8. QED
      BY <1>2, <2>1, <2>2, <2>3, <2>4, <2>5, <2>6, <2>7 DEF Step
  <1>3. CASE UNCHANGED vars
    BY <1>3 DEF vars, Inv, TypeOK, Good, Unsettled, AcceptedIsLast, Earned, Told, LastOk
  <1>4. QED
    BY <1>1, <1>2, <1>3 DEF Next

\* Every state of an invocation is one its point in the code allows.
LEMMA HandlerInvariant == Spec => []Inv
  <1>1. Init => Inv
    BY InitHasInv
  <1>2. Inv /\ [Next]_vars => Inv'
    BY NextKeepsInv
  <1>3. QED
    BY <1>1, <1>2, PTL DEF Spec

\* The phases, inputs, reports and operations of every invocation have their
\* types, so decideRetry is never called with an attempt below 1.
THEOREM HandlerTypeCorrect == Spec => []TypeOK
  <1>1. Inv => TypeOK
    BY DEF Inv
  <1>2. QED
    BY <1>1, HandlerInvariant, PTL

\* Lines 61-82: no invocation has two operations accepted by its context,
\* whatever callbacks throw and operations refuse.
THEOREM HandlerSettlesOnce == Spec => []SettledAtMostOnce
  <1>1. Inv => SettledAtMostOnce
    <2>1. ASSUME NEW i, AcceptedIsLast(i)
          PROVE  \A j, k \in DOMAIN i.asked : i.asked[j].ok /\ i.asked[k].ok => j = k
      BY <2>1 DEF AcceptedIsLast
    <2>2. QED
      BY <2>1 DEF Inv, Good, SettledAtMostOnce
  <1>2. QED
    BY <1>1, HandlerInvariant, PTL

\* Lines 40 and 79: a dead letter is poison, or failed for the last time with
\* onExhausted done; where onExhausted rejects, nothing is settled.
THEOREM DeadLettersEarned == Spec => []DeadLetterIsEarned
  <1>1. Inv => DeadLetterIsEarned
    <2> SUFFICES ASSUME Inv, NEW s \in Slots
                 PROVE  LET i == inv[s] IN
                        /\ i.valid /\ "deadLetter" \in Done(i) =>
                              i.attempt >= HandlerMax /\ i.exhausted = "resolved"
                        /\ i.exhausted = "rejected" => Done(i) = {}
                        /\ ~i.valid => Done(i) \subseteq {"deadLetter"} /\ ~i.handled
      BY DEF DeadLetterIsEarned
    <2>1. Earned(inv[s])
      BY DEF Inv, Good
    <2>2. QED
      BY <2>1 DEF Earned, Done, Unsettled
  <1>2. QED
    BY <1>1, HandlerInvariant, PTL

\* Lines 57-81: a handler that returned told onOutcome, last of all, what its
\* context then did, and the context did nothing else.
THEOREM OutcomesAgree == Spec => []OutcomeAgrees
  <1>1. Inv => OutcomeAgrees
    <2> SUFFICES ASSUME Inv, NEW s \in Slots, phase[s] = "returned"
                 PROVE  LET i == inv[s]  last == i.reports[Len(i.reports)] IN
                        Done(i) = IF last = "handled" THEN {"ack"}
                                  ELSE IF last = "retry" THEN {"retry"} ELSE {"deadLetter"}
      BY DEF OutcomeAgrees
    <2> DEFINE i == inv[s]
               last == i.reports[Len(i.reports)]
               n == Len(i.asked)
    <2>1. i \in Invocations /\ AcceptedIsLast(i) /\ Told(i) /\ LastOk(i)
      BY DEF Inv, Good
    <2>2. /\ i.asked \in Seq([op : {"ack", "retry", "deadLetter"}, ok : BOOLEAN])
          /\ i.reports \in Seq({"poison", "handled", "retry", "exhausted"})
      BY <2>1 DEF Invocations
    <2>3. n \in DOMAIN i.asked /\ i.asked[n].ok
      BY <2>1, <2>2 DEF Told, LastOk
    <2>4. last \in {"poison", "handled", "retry", "exhausted"}
      BY <2>1, <2>2 DEF Told
    <2>5. Done(i) = {i.asked[n].op}
      BY <2>1, <2>3 DEF AcceptedIsLast, Done
    <2>6. QED
      BY <2>1, <2>4, <2>5 DEF Told, OperationOf
  <1>2. QED
    BY <1>1, HandlerInvariant, PTL
=============================================================================
