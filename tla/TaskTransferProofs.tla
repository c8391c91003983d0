------------------------- MODULE TaskTransferProofs -------------------------
(* Theorems about TaskTransfer for every set of transfers and pushes, every    *)
(* attempt budget, reservation bound and number and kind of failures.          *)
EXTENDS TaskTransfer, TLAPS

Shape ==
  /\ status \in [Work -> Statuses]
  /\ pc \in [Work -> Steps]
  /\ receipt \in [Transfers -> {"none", "unapplied", "applied"}]
  /\ outRow \in [Transfers -> {"none", "pending", "completed", "failed"}]
  /\ inRow \in [Transfers -> {"none", "pending", "claimed", "importing", "awaiting"} \cup Terminal]
  /\ typed \in [Transfers -> [{"wrap-up", "quit"} -> Nat]]

\* Whatever makes the source close its task is evidence of a copy.
Evidence(t) ==
  \/ receipt[t] # "none"
  \/ <<"committed", t>> \in chan
  \/ status[<<"committed", t>>] # "none"
  \/ pc[<<"committed", t>>] # "idle"
  \/ pc[<<"import", t>>] \in {"mark", "register", "ack"}
  \/ t \in localTask
Backed == \A t \in Transfers : Evidence(t) => t \in destTask

\* A message is typed by the one step that has just taken its claim.
WriteStep(m) == IF m = "wrap-up" THEN "wrap" ELSE "quit"
Once == \A t \in Transfers, m \in {"wrap-up", "quit"} :
  /\ typed[t][m] <= 1
  /\ typed[t][m] = 1 => HasClaim(<<"finalize", t>>, m)
  /\ pc[<<"finalize", t>>] = WriteStep(m) => HasClaim(<<"finalize", t>>, m) /\ typed[t][m] = 0

\* No server dies between a claim and the effect it is for.
Windowless == "phaseCrash" \notin Faults

\* A claim that its item is not about to use stands for a finished effect.
ToldAt(t) == Windowless =>
  /\ inRow[t] = "completed" \/ pc[<<"import", t>>] = "complete" => receipt[t] # "none"
  /\ HasClaim(<<"import", t>>, "ack") /\ pc[<<"import", t>>] # "ack" => receipt[t] # "none"
  /\ outRow[t] = "completed" \/ pc[<<"committed", t>>] = "mark" => sourceClosed
  /\ HasClaim(<<"committed", t>>, "close") /\ pc[<<"committed", t>>] # "close" => sourceClosed
Told == \A t \in Transfers : ToldAt(t)

LEMMA WorkItems ==
  /\ \A p \in Pushes : <<"push", p>> \in Work
  /\ \A t \in Transfers :
       /\ <<"finalize", t>> \in Work /\ <<"committed", t>> \in Work
       /\ <<"incoming", t>> \in Work /\ <<"import", t>> \in Work
       /\ <<"reject", t>> \in Work /\ <<"cleanup", t>> \in Work
  BY DEF Work, SourceWork, DestWork, PushWork

LEMMA Homes == \A t \in Transfers :
  /\ Home(<<"finalize", t>>) = "S" /\ Home(<<"committed", t>>) = "S"
  /\ Home(<<"incoming", t>>) = "D" /\ Home(<<"import", t>>) = "D"
  BY DEF Home, SourceWork, PushWork

LEMMA InitInv == Init => Shape /\ Backed /\ Once /\ Told
<1> SUFFICES ASSUME Init PROVE Shape /\ Backed /\ Once /\ Told
  OBVIOUS
<1>1. Shape BY DEF Init, Shape, Statuses, Steps, Terminal
<1>2. Backed BY WorkItems DEF Init, Backed, Evidence
<1>3. Once
  <2>1. \A t \in Transfers, m \in {"wrap-up", "quit"} : typed[t][m] = 0 BY DEF Init
  <2>2. \A t \in Transfers : pc[<<"finalize", t>>] = "idle" BY WorkItems DEF Init
  <2> QED BY <2>1, <2>2 DEF Once, WriteStep
<1>4. Told BY WorkItems DEF Init, Told, ToldAt, HasClaim
<1> QED BY <1>1, <1>2, <1>3, <1>4
-----------------------------------------------------------------------------
\* A step of item w that leaves the other items of the queue alone.
OnlyItem(w) ==
  /\ status' \in [Work -> Statuses]
  /\ pc' \in [Work -> Steps]
  /\ \A v \in Work \ {w} : status'[v] = status[v] /\ pc'[v] = pc[v]
OnlyClaims(w) == \A v \in Work \ {w} : \A m : HasClaim(v, m)' <=> HasClaim(v, m)

LEMMA QueueOps ==
  ASSUME Shape, NEW w \in Work
  PROVE  /\ Done(w) => OnlyItem(w) /\ pc'[w] = "idle"
         /\ Fail(w) => OnlyItem(w) /\ pc'[w] \in {"idle", "exhausted"}
         /\ \A step \in Steps : Go(w, step) /\ UNCHANGED status => OnlyItem(w) /\ pc'[w] = step
<1> USE DEF Shape, OnlyItem, Go, Statuses
<1>1. Done(w) => OnlyItem(w) /\ pc'[w] = "idle" BY DEF Done, Steps
<1>2. Fail(w) => OnlyItem(w) /\ pc'[w] \in {"idle", "exhausted"} BY DEF Fail, Steps
<1>3. \A step \in Steps : Go(w, step) /\ UNCHANGED status => OnlyItem(w) /\ pc'[w] = step OBVIOUS
<1> QED BY <1>1, <1>2, <1>3

LEMMA EnqueueOps ==
  ASSUME Shape, NEW ws
  PROVE  /\ Enqueued(ws) \in [Work -> Statuses]
         /\ \A v \in Work \ ws : Enqueued(ws)[v] = status[v]
  BY DEF Shape, Enqueued, Statuses

\* One item of the queue ends as another is put on it.
LEMMA HandOver ==
  ASSUME Shape, NEW i \in Work, NEW w \in Work,
         status' = [Enqueued({w}) EXCEPT ![i] = "done"], Go(i, "idle")
  PROVE  /\ status' \in [Work -> Statuses] /\ pc' \in [Work -> Steps]
         /\ \A v \in Work \ {i, w} : status'[v] = status[v] /\ pc'[v] = pc[v]
<1>1. Enqueued({w}) \in [Work -> Statuses] /\ \A v \in Work \ {w} : Enqueued({w})[v] = status[v]
  BY EnqueueOps
<1>2. "done" \in Statuses /\ "idle" \in Steps BY DEF Statuses, Steps
<1>3. pc' \in [Work -> Steps] /\ \A v \in Work \ {i} : pc'[v] = pc[v] BY <1>2 DEF Go, Shape
<1>4. status' \in [Work -> Statuses] /\ \A v \in Work \ {i} : status'[v] = Enqueued({w})[v]
  BY <1>1, <1>2
<1> QED BY <1>1, <1>3, <1>4

LEMMA ClaimOps ==
  ASSUME NEW w \in Work, NEW m
  PROVE  /\ TakeClaim(w, m) => OnlyClaims(w) /\ \A n : HasClaim(w, n)' <=> n = m \/ HasClaim(w, n)
         /\ ReleaseClaim(w, m) => OnlyClaims(w) /\ \A n : HasClaim(w, n)' <=> n # m /\ HasClaim(w, n)
         /\ UNCHANGED phases => OnlyClaims(w) /\ \A n : HasClaim(w, n)' <=> HasClaim(w, n)
  BY DEF TakeClaim, ReleaseClaim, OnlyClaims, HasClaim

\* No row becomes completed.
NoRowCompletes == \A t \in Transfers :
  /\ outRow'[t] = "completed" => outRow[t] = "completed"
  /\ inRow'[t] = "completed" => inRow[t] = "completed"

\* A push touches its own item, and nothing the invariants read otherwise.
LEMMA PushEffect ==
  ASSUME Shape, NEW p \in Pushes,
         PushEligible(p) \/ PushPreflight(p) \/ PushInsert(p) \/ PushCommit(p) \/ PushAbandon(p)
  PROVE  /\ OnlyItem(<<"push", p>>)
         /\ UNCHANGED <<receipt, localTask, destTask, phases, typed, sourceClosed>>
         /\ \A t \in Transfers : <<"committed", t>> \in chan' => <<"committed", t>> \in chan
         /\ NoRowCompletes /\ Shape'
<1> DEFINE w == <<"push", p>>
<1>1. w \in Work BY WorkItems
<1>2. OnlyItem(w)
  <2> USE <1>1, QueueOps DEF Steps
  <2>1. PushEligible(p) => OnlyItem(w) BY DEF PushEligible
  <2>2. PushPreflight(p) => OnlyItem(w) BY DEF PushPreflight
  <2>3. PushInsert(p) => OnlyItem(w) BY DEF PushInsert
  <2>4. PushCommit(p) => OnlyItem(w) BY DEF PushCommit
  <2>5. PushAbandon(p) => OnlyItem(w) BY DEF PushAbandon
  <2> QED BY <2>1, <2>2, <2>3, <2>4, <2>5
<1>3. UNCHANGED <<receipt, localTask, destTask, phases, typed, sourceClosed, inRow>>
  BY DEF PushEligible, PushPreflight, PushInsert, PushCommit, PushAbandon, srcCarVars, dstDbVars,
         srcDbVars, agentVars
<1>4. \A t \in Transfers : <<"committed", t>> \in chan' => <<"committed", t>> \in chan
  BY DEF PushEligible, PushPreflight, PushInsert, PushCommit, PushAbandon, Submitted
<1>5. UNCHANGED outRow \/ \E t : outRow' = [outRow EXCEPT ![t] = "pending"]
  BY DEF PushEligible, PushPreflight, PushInsert, PushCommit, PushAbandon, srcDbVars
<1>6. NoRowCompletes BY <1>3, <1>5 DEF NoRowCompletes, Shape
<1>7. Shape' BY <1>2, <1>3, <1>5 DEF Shape, OnlyItem
<1> QED BY <1>2, <1>3, <1>4, <1>6, <1>7

\* A finalization touches its own item and its own claims.
LEMMA FinalizeEffect ==
  ASSUME Shape, NEW t \in Transfers,
         \/ FinPlan(t) \/ FinAttach(t) \/ FinWrite(t) \/ FinIdle(t) \/ FinExit(t)
         \/ FinVerdict(t) \/ FinStage(t) \/ FinError(t) \/ FinAnswerError(t)
  PROVE  /\ OnlyItem(<<"finalize", t>>) /\ OnlyClaims(<<"finalize", t>>)
         /\ UNCHANGED <<receipt, localTask, destTask, sourceClosed, chan>>
         /\ NoRowCompletes /\ Shape'
<1> DEFINE w == <<"finalize", t>>
<1>1. w \in Work BY WorkItems
<1>2. OnlyItem(w)
  <2> USE <1>1, QueueOps DEF Steps
  <2>1. FinPlan(t) => OnlyItem(w) BY DEF FinPlan
  <2>2. FinAttach(t) => OnlyItem(w) BY DEF FinAttach, InjectClaim
  <2>3. FinWrite(t) => OnlyItem(w) BY DEF FinWrite, Inject
  <2>4. FinIdle(t) => OnlyItem(w) BY DEF FinIdle, InjectClaim
  <2>5. FinExit(t) => OnlyItem(w) BY DEF FinExit
  <2>6. FinVerdict(t) => OnlyItem(w) BY DEF FinVerdict
  <2>7. FinStage(t) => OnlyItem(w) BY DEF FinStage, FinAnswered
  <2>8. FinError(t) => OnlyItem(w) BY DEF FinError
  <2>9. FinAnswerError(t) => OnlyItem(w) BY DEF FinAnswerError
  <2> QED BY <2>1, <2>2, <2>3, <2>4, <2>5, <2>6, <2>7, <2>8, <2>9
<1>3. OnlyClaims(w)
  <2> USE <1>1, ClaimOps
  <2>1. FinAttach(t) \/ FinIdle(t) => OnlyClaims(w) BY DEF FinAttach, FinIdle, InjectClaim
  <2>2. FinWrite(t) => OnlyClaims(w) BY DEF FinWrite, Inject
  <2>3. FinPlan(t) \/ FinExit(t) \/ FinVerdict(t) \/ FinStage(t) \/ FinError(t) \/ FinAnswerError(t)
        => OnlyClaims(w)
    BY DEF FinPlan, FinExit, FinVerdict, FinStage, FinError, FinAnswerError
  <2> QED BY <2>1, <2>2, <2>3
<1>4. UNCHANGED <<receipt, localTask, destTask, sourceClosed, chan, inRow>>
  BY DEF FinPlan, FinAttach, FinWrite, FinIdle, FinExit, FinVerdict, FinStage, FinError,
         FinAnswerError, srcCarVars, dstDbVars, srcDbVars
<1>5. UNCHANGED outRow \/ outRow' = FailedOutgoing(t)
  BY DEF FinPlan, FinAttach, FinWrite, FinIdle, FinExit, FinVerdict, FinStage, FinError,
         FinAnswerError, srcDbVars
<1>6. NoRowCompletes BY <1>4, <1>5 DEF NoRowCompletes, Shape, FailedOutgoing
<1>7. typed' \in [Transfers -> [{"wrap-up", "quit"} -> Nat]]
  <2>1. \A m \in {"wrap-up", "quit"} : Typed(t, m) => typed' \in [Transfers -> [{"wrap-up", "quit"} -> Nat]]
    BY DEF Shape, Typed
  <2>2. UNCHANGED typed \/ \E m \in {"wrap-up", "quit"} : Typed(t, m)
    BY DEF FinPlan, FinAttach, FinWrite, FinIdle, FinExit, FinVerdict, FinStage, FinError,
           FinAnswerError, agentVars, Inject
  <2> QED BY <2>1, <2>2 DEF Shape
<1>8. Shape' BY <1>2, <1>4, <1>5, <1>7 DEF Shape, OnlyItem, FailedOutgoing
<1> QED BY <1>2, <1>3, <1>4, <1>6, <1>8

\* The one place where messages are typed.
LEMMA FinalizeOnce ==
  ASSUME Shape, Once, NEW t \in Transfers,
         \/ FinPlan(t) \/ FinAttach(t) \/ FinWrite(t) \/ FinIdle(t) \/ FinExit(t)
         \/ FinVerdict(t) \/ FinStage(t) \/ FinError(t) \/ FinAnswerError(t)
  PROVE  Once'
<1> DEFINE w == <<"finalize", t>>
           Same(u, m) == typed'[u][m] = typed[u][m] /\ (HasClaim(<<"finalize", u>>, m)' <=> HasClaim(<<"finalize", u>>, m))
<1>1. w \in Work BY WorkItems
<1>2. OnlyItem(w) /\ OnlyClaims(w) BY FinalizeEffect
<1>3. ASSUME NEW u \in Transfers \ {t}, NEW m \in {"wrap-up", "quit"}
      PROVE  Same(u, m) /\ pc'[<<"finalize", u>>] = pc[<<"finalize", u>>]
  <2>1. typed'[u][m] = typed[u][m]
    BY DEF FinPlan, FinAttach, FinWrite, FinIdle, FinExit, FinVerdict, FinStage, FinError,
           FinAnswerError, agentVars, Inject, Typed, Shape
  <2> QED BY <1>2, <2>1, WorkItems DEF OnlyItem, OnlyClaims
<1>4. ASSUME NEW m \in {"wrap-up", "quit"}
      PROVE  /\ typed'[t][m] <= 1
             /\ typed'[t][m] = 1 => HasClaim(w, m)'
             /\ pc'[w] = WriteStep(m) => HasClaim(w, m)' /\ typed'[t][m] = 0
  <2>1. CASE FinPlan(t) \/ FinExit(t) \/ FinVerdict(t) \/ FinStage(t) \/ FinError(t) \/ FinAnswerError(t)
    <3>1. Same(t, m)
      BY <1>1, <2>1, ClaimOps DEF FinPlan, FinExit, FinVerdict, FinStage, FinError, FinAnswerError, agentVars
    <3>2. pc'[w] \notin {"wrap", "quit"}
      <4> USE <1>1, QueueOps DEF Steps
      <4>1. FinPlan(t) => pc'[w] \notin {"wrap", "quit"} BY DEF FinPlan
      <4>2. FinExit(t) \/ FinVerdict(t) \/ FinError(t) => pc'[w] \notin {"wrap", "quit"}
        BY DEF FinExit, FinVerdict, FinError
      <4>3. FinStage(t) => pc'[w] \notin {"wrap", "quit"} BY DEF FinStage, FinAnswered
      <4>4. FinAnswerError(t) => pc'[w] \notin {"wrap", "quit"} BY DEF FinAnswerError
      <4> QED BY <2>1, <4>1, <4>2, <4>3, <4>4
    <3> QED BY <3>1, <3>2 DEF Once, WriteStep
  <2>2. ASSUME NEW n \in {"wrap-up", "quit"}, NEW after \in Steps \ {"wrap", "quit"},
               InjectClaim(w, n, WriteStep(n), after), UNCHANGED <<status, typed>>
        PROVE  /\ typed'[t][m] <= 1
               /\ typed'[t][m] = 1 => HasClaim(w, m)'
               /\ pc'[w] = WriteStep(m) => HasClaim(w, m)' /\ typed'[t][m] = 0
    <3>0. WriteStep(n) \in Steps /\ (WriteStep(m) = WriteStep(n) => m = n) BY DEF WriteStep, Steps
    <3>1. CASE HasClaim(w, n)
      BY <1>1, <2>2, <3>0, <3>1, QueueOps, ClaimOps DEF InjectClaim, Once, WriteStep
    <3>2. CASE ~HasClaim(w, n)
      <4>1. pc'[w] = WriteStep(n) /\ (HasClaim(w, m)' <=> m = n \/ HasClaim(w, m))
        BY <1>1, <2>2, <3>0, <3>2, QueueOps, ClaimOps DEF InjectClaim
      <4>2. typed[t][n] = 0
        <5>1. typed[t][n] \in Nat BY DEF Shape
        <5>2. typed[t][n] <= 1 /\ typed[t][n] # 1 BY <3>2 DEF Once
        <5> QED BY <5>1, <5>2
      <4> QED BY <2>2, <3>0, <4>1, <4>2 DEF Once
    <3> QED BY <3>1, <3>2
  <2>3. CASE FinAttach(t)
    <3>1. CASE InjectClaim(w, "wrap-up", "wrap", "idleWait")
      BY <2>2, <2>3, <3>1 DEF FinAttach, WriteStep, Steps, agentVars
    <3>2. CASE \E step \in {"clean", "degraded"} : Go(w, step) /\ UNCHANGED phases
      BY <1>1, <2>3, <3>2, QueueOps, ClaimOps DEF FinAttach, Once, WriteStep, Steps, agentVars
    <3> QED BY <2>3, <3>1, <3>2 DEF FinAttach
  <2>4. CASE FinIdle(t)
    <3>1. CASE InjectClaim(w, "quit", "quit", "exitWait")
      BY <2>2, <2>4, <3>1 DEF FinIdle, WriteStep, Steps, agentVars
    <3>2. CASE \E step \in {"clean", "degraded"} : Go(w, step) /\ UNCHANGED phases
      BY <1>1, <2>4, <3>2, QueueOps, ClaimOps DEF FinIdle, Once, WriteStep, Steps, agentVars
    <3> QED BY <2>4, <3>1, <3>2 DEF FinIdle
  <2>5. CASE FinWrite(t)
    <3>1. PICK n \in {"wrap-up", "quit"}, after \in {"idleWait", "exitWait"} :
               pc[w] = WriteStep(n) /\ Inject(t, n, after)
      BY <2>5 DEF FinWrite, WriteStep
    <3>2. HasClaim(w, n) /\ typed[t][n] = 0 BY <3>1 DEF Once
    <3>3. UNCHANGED status BY <2>5 DEF FinWrite
    <3>4. pc'[w] \notin {"wrap", "quit"}
      BY <1>1, <3>1, <3>3, QueueOps DEF Inject, Steps
    <3>5. CASE Typed(t, n) /\ UNCHANGED phases
      <4>1. typed'[t][m] = IF m = n THEN 1 ELSE typed[t][m] BY <3>2, <3>5 DEF Typed, Shape
      <4>2. HasClaim(w, m)' <=> HasClaim(w, m) BY <1>1, <3>5, ClaimOps
      <4> QED BY <3>2, <3>4, <4>1, <4>2 DEF Once, WriteStep
    <3>6. CASE UNCHANGED typed /\ ReleaseClaim(w, n)
      <4>1. HasClaim(w, m)' <=> m # n /\ HasClaim(w, m) BY <1>1, <3>6, ClaimOps
      <4> QED BY <3>2, <3>4, <3>6, <4>1 DEF Once, WriteStep
    <3>7. CASE UNCHANGED <<typed, phases>>
      <4>1. HasClaim(w, m)' <=> HasClaim(w, m) BY <1>1, <3>7, ClaimOps
      <4> QED BY <3>4, <3>7, <4>1 DEF Once, WriteStep
    <3> QED BY <3>1, <3>5, <3>6, <3>7 DEF Inject
  <2> QED BY <2>1, <2>3, <2>4, <2>5
<1> QED BY <1>3, <1>4 DEF Once
-----------------------------------------------------------------------------
\* What a step leaves of item v.
Untouched(v) ==
  /\ status'[v] = status[v] /\ pc'[v] = pc[v]
  /\ \A m : HasClaim(v, m)' <=> HasClaim(v, m)

ImportAction(t) ==
  \/ RecordIncoming(t) \/ MarkRecorded(t) \/ ImportStart(t) \/ ImportAnswer(t)
  \/ ImportMaterialize(t) \/ ImportRefuse(t) \/ ImportCreate(t) \/ ImportMark(t) \/ ImportRegister(t)
  \/ ImportAck(t) \/ ImportComplete(t) \/ Reject(t)

\* The items of D touch only items of D, and nothing of S but its sidecar.
LEMMA ImportEffect ==
  ASSUME Shape, NEW t \in Transfers, ImportAction(t)
  PROVE  /\ status' \in [Work -> Statuses] /\ pc' \in [Work -> Steps]
         /\ \A u \in Transfers : Untouched(<<"finalize", u>>) /\ Untouched(<<"committed", u>>)
         /\ \A u \in Transfers \ {t} : Untouched(<<"import", u>>)
         /\ UNCHANGED <<typed, sourceClosed, outRow>>
<1> DEFINE i == <<"incoming", t>>
           w == <<"import", t>>
           r == <<"reject", t>>
           Items == /\ status' \in [Work -> Statuses] /\ pc' \in [Work -> Steps]
                    /\ \A v \in Work \ {i, w, r} : status'[v] = status[v] /\ pc'[v] = pc[v]
           Claims == \A v \in Work \ {w} : \A m : HasClaim(v, m)' <=> HasClaim(v, m)
<1>1. i \in Work /\ w \in Work /\ r \in Work BY WorkItems
<1>2. Items
  <2>0. \A v \in {i, w, r} : OnlyItem(v) => Items BY DEF OnlyItem
  <2> HIDE DEF Items
  <2> USE <1>1, <2>0, QueueOps DEF Steps
  <2>1. RecordIncoming(t) => Items BY DEF RecordIncoming
  <2>2. MarkRecorded(t) => Items
    <3>0. ASSUME status' = [Enqueued({w}) EXCEPT ![i] = "done"], Go(i, "idle")
          PROVE  /\ status' \in [Work -> Statuses] /\ pc' \in [Work -> Steps]
                 /\ \A v \in Work \ {i, w} : status'[v] = status[v] /\ pc'[v] = pc[v]
      BY <3>0, HandOver
    <3>1. status' = [Enqueued({w}) EXCEPT ![i] = "done"] /\ Go(i, "idle") => Items
      BY <3>0 DEF Items
    <3> QED BY <3>1 DEF MarkRecorded
  <2>3. ImportStart(t) => Items BY DEF ImportStart
  <2>4. ImportAnswer(t) => Items BY DEF ImportAnswer
  <2>5. ImportMaterialize(t) => Items BY DEF ImportMaterialize
  <2>6. ImportRefuse(t) \/ ImportCreate(t) \/ ImportMark(t) => Items
    BY DEF ImportRefuse, ImportCreate, ImportMark
  <2>7. ImportRegister(t) => Items BY DEF ImportRegister
  <2>8. ImportAck(t) => Items BY DEF ImportAck, AckFailed
  <2>9. ImportComplete(t) \/ Reject(t) => Items BY DEF ImportComplete, Reject
  <2> QED BY <2>1, <2>2, <2>3, <2>4, <2>5, <2>6, <2>7, <2>8, <2>9 DEF ImportAction
<1>3. Claims
  <2>0. OnlyClaims(w) => Claims BY DEF OnlyClaims
  <2> HIDE DEF Claims
  <2> USE <1>1, <2>0, ClaimOps
  <2>1. ImportMaterialize(t) \/ ImportRegister(t) \/ ImportAck(t) => Claims
    BY DEF ImportMaterialize, ImportRegister, ImportAck, AckFailed
  <2>2. RecordIncoming(t) \/ MarkRecorded(t) \/ ImportStart(t) \/ ImportAnswer(t) \/ ImportRefuse(t)
        \/ ImportCreate(t) \/ ImportMark(t) \/ ImportComplete(t) \/ Reject(t) => Claims
    BY DEF RecordIncoming, MarkRecorded, ImportStart, ImportAnswer, ImportRefuse, ImportCreate,
           ImportMark, ImportComplete, Reject
  <2> QED BY <2>1, <2>2 DEF ImportAction
<1>4. UNCHANGED <<typed, sourceClosed, outRow>>
  BY DEF ImportAction, RecordIncoming, MarkRecorded, ImportStart, ImportAnswer, ImportMaterialize,
         ImportRefuse, ImportCreate, ImportMark, ImportRegister, ImportAck, ImportComplete, Reject,
         srcDbVars, agentVars
<1> QED BY <1>2, <1>3, <1>4, WorkItems DEF Untouched

\* What an import step may add, and what it then owes.
Advance(t) ==
  LET w == <<"import", t>> IN
  /\ receipt' \in [Transfers -> {"none", "unapplied", "applied"}]
  /\ inRow' \in [Transfers -> {"none", "pending", "claimed", "importing", "awaiting"} \cup Terminal]
  /\ destTask \subseteq destTask'
  /\ receipt[t] # "none" => receipt'[t] # "none"
  /\ \A u \in Transfers \ {t} :
       /\ receipt'[u] = receipt[u] /\ inRow'[u] = inRow[u]
       /\ u \in localTask' => u \in localTask
       /\ <<"committed", u>> \in chan' => <<"committed", u>> \in chan
  /\ receipt'[t] # "none" \/ <<"committed", t>> \in chan' \/ t \in localTask' => t \in destTask'
  /\ pc'[w] \in {"mark", "register", "ack"} => t \in destTask'
  /\ Windowless =>
       /\ inRow'[t] = "completed" \/ pc'[w] = "complete" => receipt'[t] # "none"
       /\ HasClaim(w, "ack")' /\ pc'[w] # "ack" => receipt'[t] # "none"

LEMMA ImportAdvances ==
  ASSUME Shape, Backed, Told, NEW t \in Transfers, ImportAction(t)
  PROVE  Advance(t)
<1> DEFINE w == <<"import", t>>
           Rows == inRow' \in [Transfers -> {"none", "pending", "claimed", "importing", "awaiting"} \cup Terminal]
           OtherRows == \A u \in Transfers \ {t} : inRow'[u] = inRow[u]
           NotCompleted == inRow'[t] = "completed" => inRow[t] = "completed"
           Kept == HasClaim(w, "ack")' <=> HasClaim(w, "ack")
<1>1. w \in Work /\ <<"incoming", t>> \in Work /\ <<"reject", t>> \in Work BY WorkItems
<1>2. /\ receipt[t] # "none" \/ <<"committed", t>> \in chan \/ t \in localTask => t \in destTask
      /\ pc[w] \in {"mark", "register", "ack"} => t \in destTask
      /\ Windowless =>
           /\ inRow[t] = "completed" \/ pc[w] = "complete" => receipt[t] # "none"
           /\ HasClaim(w, "ack") /\ pc[w] # "ack" => receipt[t] # "none"
  BY DEF Backed, Evidence, Told, ToldAt
<1>3. receipt \in [Transfers -> {"none", "unapplied", "applied"}] BY DEF Shape
<1>4. CASE RecordIncoming(t) \/ MarkRecorded(t) \/ Reject(t)
  <2>1. pc'[w] = pc[w]
    BY <1>1, <1>4, QueueOps DEF RecordIncoming, MarkRecorded, Reject, OnlyItem, Go, Steps, Shape
  <2>2. Kept BY <1>1, <1>4, ClaimOps DEF RecordIncoming, MarkRecorded, Reject
  <2>3. UNCHANGED <<receipt, localTask, destTask, chan>>
    BY <1>4 DEF RecordIncoming, MarkRecorded, Reject, srcCarVars, dstDbVars
  <2>4. Rows /\ OtherRows /\ NotCompleted
    BY <1>4 DEF RecordIncoming, MarkRecorded, Reject, Shape, dstDbVars, Terminal
  <2> QED BY <1>2, <1>3, <2>1, <2>2, <2>3, <2>4 DEF Advance
<1>5. CASE ImportStart(t)
  <2>1. Kept BY <1>1, <1>5, ClaimOps DEF ImportStart
  <2>2. /\ pc[w] = "start"
        /\ pc'[w] \notin {"mark", "ack", "complete"}
        /\ pc'[w] = "register" => t \in localTask
    BY <1>1, <1>5, QueueOps DEF ImportStart, Steps
  <2>3. UNCHANGED <<receipt, localTask, destTask>> BY <1>5 DEF ImportStart, srcDbVars
  <2>4. \A u \in Transfers : <<"committed", u>> \in chan' => <<"committed", u>> \in chan
    BY <1>5 DEF ImportStart, FinalizeRequested
  <2>5. Rows /\ OtherRows /\ NotCompleted BY <1>5 DEF ImportStart, Shape
  <2> QED BY <1>2, <1>3, <2>1, <2>2, <2>3, <2>4, <2>5 DEF Advance
<1>6. CASE ImportAnswer(t) \/ ImportMaterialize(t) \/ ImportRefuse(t)
  <2>1. Kept BY <1>1, <1>6, ClaimOps DEF ImportAnswer, ImportMaterialize, ImportRefuse
  <2>2. pc[w] # "ack" /\ pc'[w] \notin {"mark", "register", "ack", "complete"}
    BY <1>1, <1>6, QueueOps DEF ImportAnswer, ImportMaterialize, ImportRefuse, Steps
  <2>3. UNCHANGED <<receipt, localTask, destTask, chan>>
    BY <1>6 DEF ImportAnswer, ImportMaterialize, ImportRefuse, srcCarVars, dstDbVars
  <2>4. Rows /\ OtherRows /\ NotCompleted
    BY <1>6 DEF ImportAnswer, ImportMaterialize, ImportRefuse, FailedIncoming, Shape, dstDbVars, Terminal
  <2> QED BY <1>2, <1>3, <2>1, <2>2, <2>3, <2>4 DEF Advance
<1>7. CASE ImportCreate(t)
  <2>1. Kept BY <1>1, <1>7, ClaimOps DEF ImportCreate
  <2>2. /\ pc[w] = "create" /\ destTask \subseteq destTask'
        /\ pc'[w] \in {"mark", "idle", "exhausted"} /\ (pc'[w] = "mark" => t \in destTask')
    BY <1>1, <1>7, QueueOps DEF ImportCreate, Steps
  <2>3. UNCHANGED <<receipt, localTask, chan, inRow>> BY <1>7 DEF ImportCreate, srcCarVars
  <2> QED BY <1>2, <1>3, <2>1, <2>2, <2>3 DEF Advance, Shape
<1>8. CASE ImportMark(t)
  <2>1. Kept BY <1>1, <1>8, ClaimOps DEF ImportMark
  <2>2. pc[w] = "mark" /\ pc'[w] \in {"register", "idle", "exhausted"}
    BY <1>1, <1>8, QueueOps DEF ImportMark, Steps
  <2>3. UNCHANGED <<receipt, chan, destTask>> BY <1>8 DEF ImportMark, srcCarVars
  <2>4. localTask' \subseteq localTask \cup {t} BY <1>8 DEF ImportMark
  <2>5. Rows /\ OtherRows /\ NotCompleted BY <1>8 DEF ImportMark, Shape
  <2> QED BY <1>2, <1>3, <2>1, <2>2, <2>3, <2>4, <2>5 DEF Advance
<1>9. CASE ImportRegister(t)
  <2>1. /\ pc[w] = "register" /\ UNCHANGED <<receipt, localTask, destTask, chan>>
        /\ pc'[w] \in {"ack", "complete", "idle", "exhausted"}
        /\ pc'[w] = "complete" => HasClaim(w, "ack")
        /\ pc'[w] # "ack" => Kept
    <3> USE <1>1, <1>9 DEF ImportRegister
    <3>1. CASE Fail(w) /\ UNCHANGED phases BY <3>1, QueueOps, ClaimOps DEF srcCarVars
    <3>2. CASE HasClaim(w, "ack") /\ Go(w, "complete") /\ UNCHANGED <<phases, status>>
      BY <3>2, QueueOps, ClaimOps DEF srcCarVars, Steps
    <3>3. CASE Go(w, "ack") /\ UNCHANGED status
      BY <3>3, QueueOps DEF srcCarVars, Steps
    <3> QED BY <3>1, <3>2, <3>3
  <2>2. Rows /\ OtherRows /\ NotCompleted BY <1>9 DEF ImportRegister, Shape
  <2> QED BY <1>2, <1>3, <2>1, <2>2 DEF Advance
<1>10. CASE ImportAck(t)
  <2>1. pc[w] = "ack" /\ UNCHANGED <<localTask, destTask, inRow>> BY <1>10 DEF ImportAck, dstDbVars
  <2>2. CASE ReceiptSaved(t)
    <3>1. /\ receipt' \in [Transfers -> {"none", "unapplied", "applied"}]
          /\ receipt'[t] # "none" /\ \A u \in Transfers \ {t} : receipt'[u] = receipt[u]
          /\ \A u \in Transfers \ {t} : <<"committed", u>> \in chan' => <<"committed", u>> \in chan
      BY <2>2 DEF ReceiptSaved, Shape
    <3> QED BY <1>2, <2>1, <3>1 DEF Advance, Shape
  <2>3. CASE AckFailed(w) /\ UNCHANGED <<receipt, chan>>
    <3>1. ~HasClaim(w, "ack")' /\ pc'[w] \in {"idle", "exhausted"}
      BY <1>1, <2>3, QueueOps, ClaimOps DEF AckFailed
    <3> QED BY <1>2, <1>3, <2>1, <2>3, <3>1 DEF Advance, Shape
  <2> QED BY <1>10, <2>2, <2>3 DEF ImportAck
<1>11. CASE ImportComplete(t)
  <2>1. pc[w] = "complete" /\ UNCHANGED <<receipt, localTask, destTask, chan>>
    BY <1>11 DEF ImportComplete, srcCarVars
  <2>2. pc'[w] \in {"release", "idle", "exhausted"} /\ Kept
    BY <1>1, <1>11, QueueOps, ClaimOps DEF ImportComplete, Steps
  <2>3. Rows /\ OtherRows BY <1>11 DEF ImportComplete, Shape, Terminal
  <2> QED BY <1>2, <1>3, <2>1, <2>2, <2>3 DEF Advance
<1> QED BY <1>4, <1>5, <1>6, <1>7, <1>8, <1>9, <1>10, <1>11 DEF ImportAction

LEMMA ImportInv ==
  ASSUME Shape, Backed, Told, NEW t \in Transfers, ImportAction(t)
  PROVE  Shape' /\ Backed' /\ Told'
<1>1. /\ status' \in [Work -> Statuses] /\ pc' \in [Work -> Steps]
      /\ \A u \in Transfers : Untouched(<<"committed", u>>)
      /\ \A u \in Transfers \ {t} : Untouched(<<"import", u>>)
      /\ UNCHANGED <<typed, sourceClosed, outRow>>
  BY ImportEffect
<1>2. Advance(t) BY ImportAdvances
<1>3. Shape' BY <1>1, <1>2 DEF Shape, Advance
<1>4. ASSUME NEW u \in Transfers PROVE Evidence(u)' => u \in destTask'
  BY <1>1, <1>2 DEF Backed, Evidence, Advance, Untouched
<1>5. ASSUME NEW u \in Transfers PROVE ToldAt(u)'
  BY <1>1, <1>2 DEF Told, ToldAt, Advance, Untouched
<1> QED BY <1>3, <1>4, <1>5 DEF Backed, Told

LEMMA CommitInv ==
  ASSUME Shape, Backed, Told, NEW t \in Transfers,
         CommitStart(t) \/ CommitClose(t) \/ CommitMark(t) \/ CommitApply(t)
  PROVE  /\ Shape' /\ Backed' /\ Told'
         /\ UNCHANGED <<typed, destTask>> /\ t \in destTask
         /\ OnlyItem(<<"committed", t>>) /\ OnlyClaims(<<"committed", t>>)
<1> DEFINE w == <<"committed", t>>
<1>1. w \in Work BY WorkItems
<1>2. t \in destTask BY DEF CommitStart, CommitClose, CommitMark, CommitApply, Backed, Evidence
<1>3. UNCHANGED <<typed, destTask, localTask, inRow, chan>>
  BY DEF CommitStart, CommitClose, CommitMark, CommitApply, dstDbVars, agentVars
<1>4. OnlyItem(w)
  <2> USE <1>1, QueueOps DEF Steps
  <2>1. CommitStart(t) => OnlyItem(w) BY DEF CommitStart
  <2>2. CommitClose(t) => OnlyItem(w) BY DEF CommitClose, CloseFailed
  <2>3. CommitMark(t) => OnlyItem(w) BY DEF CommitMark
  <2>4. CommitApply(t) => OnlyItem(w) BY DEF CommitApply
  <2> QED BY <2>1, <2>2, <2>3, <2>4
<1>5. OnlyClaims(w)
  BY <1>1, ClaimOps DEF CommitStart, CommitClose, CommitMark, CommitApply, CloseFailed
<1>6. /\ receipt' \in [Transfers -> {"none", "unapplied", "applied"}]
      /\ \A u \in Transfers : receipt[u] # "none" => receipt'[u] # "none"
      /\ \A u \in Transfers \ {t} : receipt'[u] = receipt[u]
  BY DEF CommitStart, CommitClose, CommitMark, CommitApply, srcCarVars, Shape
<1>7. /\ outRow' \in [Transfers -> {"none", "pending", "completed", "failed"}]
      /\ \A u \in Transfers \ {t} : outRow'[u] = outRow[u]
      /\ sourceClosed => sourceClosed'
  BY DEF CommitStart, CommitClose, CommitMark, CommitApply, srcDbVars, Shape
<1>8. ASSUME Windowless
      PROVE  /\ outRow'[t] = "completed" \/ pc'[w] = "mark" => sourceClosed'
             /\ HasClaim(w, "close")' /\ pc'[w] # "close" => sourceClosed'
  <2>0. /\ outRow[t] = "completed" \/ pc[w] = "mark" => sourceClosed
        /\ HasClaim(w, "close") /\ pc[w] # "close" => sourceClosed
    BY <1>8 DEF Told, ToldAt
  <2>1. CASE CommitStart(t)
    <3>1. UNCHANGED <<outRow, sourceClosed, status>> /\ pc[w] = "start" BY <2>1 DEF CommitStart, srcDbVars
    <3>2. CASE TakeClaim(w, "close") /\ Go(w, "close") BY <1>1, <2>0, <3>1, <3>2, QueueOps DEF Steps
    <3>3. CASE UNCHANGED phases /\ Go(w, "apply")
      BY <1>1, <2>0, <3>1, <3>3, QueueOps, ClaimOps DEF Steps
    <3>4. CASE HasClaim(w, "close") /\ UNCHANGED phases
      BY <1>1, <2>0, <3>1, <3>4, ClaimOps
    <3> QED BY <2>1, <3>2, <3>3, <3>4 DEF CommitStart
  <2>2. CASE CommitClose(t)
    <3>1. CASE sourceClosed' = TRUE BY <3>1
    <3>2. CASE CloseFailed(w) /\ UNCHANGED sourceClosed
      <4>1. ~HasClaim(w, "close")' /\ pc'[w] \in {"idle", "exhausted"}
        BY <1>1, <3>2, QueueOps, ClaimOps DEF CloseFailed
      <4> QED BY <2>0, <2>2, <3>2, <4>1 DEF CommitClose
    <3> QED BY <2>2, <3>1, <3>2 DEF CommitClose
  <2>3. CASE CommitMark(t)
    BY <2>0, <2>3 DEF CommitMark
  <2>4. CASE CommitApply(t)
    <3>1. UNCHANGED <<outRow, sourceClosed, phases>> /\ pc[w] = "apply" BY <2>4 DEF CommitApply, srcDbVars
    <3>2. pc'[w] # "mark" BY <1>1, <2>4, QueueOps DEF CommitApply
    <3>3. HasClaim(w, "close")' <=> HasClaim(w, "close") BY <1>1, <3>1, ClaimOps
    <3> QED BY <2>0, <3>1, <3>2, <3>3
  <2> QED BY <2>1, <2>2, <2>3, <2>4
<1>9. Shape' BY <1>3, <1>4, <1>6, <1>7 DEF Shape, OnlyItem
<1>10. Backed'
  BY <1>2, <1>3, <1>4, <1>6, WorkItems DEF Backed, Evidence, OnlyItem
<1>11. ASSUME NEW u \in Transfers PROVE ToldAt(u)'
  <2>1. /\ pc'[<<"import", u>>] = pc[<<"import", u>>]
        /\ HasClaim(<<"import", u>>, "ack")' <=> HasClaim(<<"import", u>>, "ack")
        /\ u # t => /\ pc'[<<"committed", u>>] = pc[<<"committed", u>>]
                    /\ HasClaim(<<"committed", u>>, "close")' <=> HasClaim(<<"committed", u>>, "close")
    BY <1>4, <1>5, WorkItems DEF OnlyItem, OnlyClaims
  <2> QED BY <1>3, <1>6, <1>7, <1>8, <2>1 DEF Told, ToldAt
<1> QED BY <1>2, <1>3, <1>4, <1>5, <1>9, <1>10, <1>11 DEF Told

\* A step of one item that takes no claim, completes no row, and neither
\* starts nor ends a step the invariants speak of.
PlainStep(w) ==
  /\ OnlyItem(w)
  /\ UNCHANGED <<receipt, localTask, destTask, typed, sourceClosed, phases>>
  /\ \A t \in Transfers : <<"committed", t>> \in chan' => <<"committed", t>> \in chan
  /\ NoRowCompletes
  /\ outRow' \in [Transfers -> {"none", "pending", "completed", "failed"}]
  /\ inRow' \in [Transfers -> {"none", "pending", "claimed", "importing", "awaiting"} \cup Terminal]
  /\ \/ w \in PushWork
     \/ pc'[w] = pc[w]
     \/ /\ pc[w] \notin {"ack", "close"}
        /\ pc'[w] \notin {"wrap", "quit", "mark", "register", "ack", "complete", "close"}
  /\ status'[w] # "none" \/ pc'[w] # "idle" => status[w] # "none" \/ pc[w] # "idle" \/ w \in chan
     \/ \A t \in Transfers : w # <<"committed", t>>

LEMMA PlainInv ==
  ASSUME Shape, Backed, Once, Told, NEW w \in Work, PlainStep(w)
  PROVE  Shape' /\ Backed' /\ Once' /\ Told'
<1>0. \A t \in Transfers :
        /\ <<"import", t>> \in Work \ PushWork
        /\ <<"committed", t>> \in Work \ PushWork
        /\ <<"finalize", t>> \in Work \ PushWork
  BY WorkItems DEF PushWork
<1>1. Shape' BY DEF PlainStep, OnlyItem, Shape
<1>2. \A v \in Work : \A m : HasClaim(v, m)' <=> HasClaim(v, m) BY DEF PlainStep, HasClaim
<1>3. \A v \in Work \ {w} : status'[v] = status[v] /\ pc'[v] = pc[v] BY DEF PlainStep, OnlyItem
<1>4. ASSUME NEW t \in Transfers PROVE Evidence(t)' => t \in destTask'
  <2>1. CASE w = <<"committed", t>>
    BY <1>3, <2>1, WorkItems DEF PlainStep, Backed, Evidence
  <2>2. CASE w # <<"committed", t>>
    <3>1. pc'[<<"import", t>>] \in {"mark", "register", "ack"} => pc'[<<"import", t>>] = pc[<<"import", t>>]
      BY <1>0, <1>3 DEF PlainStep
    <3> QED BY <1>0, <1>3, <2>2, <3>1 DEF PlainStep, Backed, Evidence
  <2> QED BY <2>1, <2>2
<1>5. ASSUME NEW t \in Transfers PROVE ToldAt(t)'
  <2>0. \A v \in Work \ PushWork :
          \/ pc'[v] = pc[v]
          \/ pc[v] \notin {"ack", "close"} /\ pc'[v] \notin {"complete", "mark"}
    BY <1>3 DEF PlainStep
  <2>1. UNCHANGED <<receipt, sourceClosed>> /\ NoRowCompletes BY DEF PlainStep
  <2>2. Windowless =>
        /\ inRow'[t] = "completed" \/ pc'[<<"import", t>>] = "complete" => receipt'[t] # "none"
        /\ HasClaim(<<"import", t>>, "ack")' /\ pc'[<<"import", t>>] # "ack" => receipt'[t] # "none"
    <3> DEFINE v == <<"import", t>>
    <3>1. v \in Work \ PushWork BY <1>0
    <3>2. HasClaim(v, "ack")' <=> HasClaim(v, "ack") BY <1>2, <3>1
    <3>3. \/ pc'[v] = pc[v]
          \/ pc[v] \notin {"ack", "close"} /\ pc'[v] \notin {"complete", "mark"} BY <2>0, <3>1
    <3>4. ToldAt(t) BY DEF Told
    <3> QED BY <2>1, <3>2, <3>3, <3>4 DEF ToldAt, NoRowCompletes
  <2>3. Windowless =>
        /\ outRow'[t] = "completed" \/ pc'[<<"committed", t>>] = "mark" => sourceClosed'
        /\ HasClaim(<<"committed", t>>, "close")' /\ pc'[<<"committed", t>>] # "close" => sourceClosed'
    <3> DEFINE v == <<"committed", t>>
    <3>1. v \in Work \ PushWork BY <1>0
    <3>2. HasClaim(v, "close")' <=> HasClaim(v, "close") BY <1>2, <3>1
    <3>3. \/ pc'[v] = pc[v]
          \/ pc[v] \notin {"ack", "close"} /\ pc'[v] \notin {"complete", "mark"} BY <2>0, <3>1
    <3>4. ToldAt(t) BY DEF Told
    <3> QED BY <2>1, <3>2, <3>3, <3>4 DEF ToldAt, NoRowCompletes
  <2> QED BY <2>2, <2>3 DEF ToldAt
<1>6. ASSUME NEW t \in Transfers, NEW m \in {"wrap-up", "quit"}
      PROVE  /\ typed'[t][m] <= 1
             /\ typed'[t][m] = 1 => HasClaim(<<"finalize", t>>, m)'
             /\ pc'[<<"finalize", t>>] = WriteStep(m) => HasClaim(<<"finalize", t>>, m)' /\ typed'[t][m] = 0
  <2>1. pc'[<<"finalize", t>>] = pc[<<"finalize", t>>] \/ pc'[<<"finalize", t>>] \notin {"wrap", "quit"}
    BY <1>0, <1>3 DEF PlainStep
  <2>2. UNCHANGED typed BY DEF PlainStep
  <2> QED BY <1>2, <2>1, <2>2, WorkItems DEF Once, WriteStep
<1> QED BY <1>1, <1>4, <1>5, <1>6 DEF Backed, Told, Once
-----------------------------------------------------------------------------
LEMMA EnginePlain ==
  ASSUME Shape, NEW w \in Work,
         Claim(w) \/ ReportExhausted(w) \/ ReleaseReservation(w) \/ Deliver(w)
  PROVE  PlainStep(w)
<1> USE DEF Shape
<1>1. CASE Claim(w)
  <2>1. w \in PushWork \/ pc[w] = "idle" BY <1>1 DEF Claim, Available, Busy
  <2>2. OnlyItem(w) /\ pc'[w] = "start" /\ status[w] = "pending"
    BY <1>1 DEF Claim, OnlyItem, Go, Statuses, Steps
  <2>3. UNCHANGED <<receipt, localTask, destTask, typed, sourceClosed, phases, chan, outRow, inRow>>
    BY <1>1 DEF Claim, srcDbVars, srcCarVars, dstDbVars, agentVars
  <2> QED BY <2>1, <2>2, <2>3 DEF PlainStep, NoRowCompletes
<1>2. CASE ReportExhausted(w)
  <2>1. OnlyItem(w) /\ pc[w] = "exhausted" /\ pc'[w] = "idle"
    BY <1>2, QueueOps DEF ReportExhausted, Steps
  <2>2. UNCHANGED <<receipt, localTask, destTask, typed, sourceClosed, phases, chan, status>>
    BY <1>2 DEF ReportExhausted, srcCarVars, agentVars
  <2>3. (UNCHANGED outRow \/ outRow' = FailedOutgoing(w[2])) /\ (UNCHANGED inRow \/ inRow' = FailedIncoming(w[2]))
    BY <1>2 DEF ReportExhausted
  <2>4. /\ NoRowCompletes
        /\ outRow' \in [Transfers -> {"none", "pending", "completed", "failed"}]
        /\ inRow' \in [Transfers -> {"none", "pending", "claimed", "importing", "awaiting"} \cup Terminal]
    BY <2>3 DEF NoRowCompletes, FailedOutgoing, FailedIncoming, Terminal
  <2> QED BY <2>1, <2>2, <2>4 DEF PlainStep
<1>3. CASE ReleaseReservation(w)
  <2>1. OnlyItem(w) /\ pc[w] \in {"release", "start"} /\ pc'[w] \in {"idle", "exhausted"}
    BY <1>3, QueueOps DEF ReleaseReservation, Release
  <2>2. UNCHANGED <<receipt, localTask, destTask, typed, sourceClosed, phases, chan, outRow, inRow>>
    BY <1>3 DEF ReleaseReservation, srcDbVars, srcCarVars, agentVars
  <2>3. \A t \in Transfers : w # <<"committed", t>> BY <1>3 DEF ReleaseReservation, DestWork
  <2> QED BY <2>1, <2>2, <2>3 DEF PlainStep, NoRowCompletes
<1>4. CASE Deliver(w)
  <2>1. OnlyItem(w) /\ UNCHANGED pc
    <3>1. status' = Enqueued({w}) /\ UNCHANGED pc BY <1>4 DEF Deliver
    <3> QED BY <3>1, EnqueueOps DEF OnlyItem
  <2>2. UNCHANGED <<receipt, localTask, destTask, typed, sourceClosed, phases, outRow, inRow>>
    BY <1>4 DEF Deliver, srcDbVars, srcCarVars, dstDbVars, agentVars
  <2>3. w \in chan /\ chan' \subseteq chan BY <1>4 DEF Deliver
  <2> QED BY <2>1, <2>2, <2>3 DEF PlainStep, NoRowCompletes
<1> QED BY <1>1, <1>2, <1>3, <1>4

LEMMA RequestPlain ==
  ASSUME Shape, NEW w \in Work,
         \/ \E p \in Pushes : w = <<"push", p>> /\ RequestPush(p)
         \/ \E t \in Transfers : w = <<"import", t>> /\ RequestImport(t)
         \/ \E t \in Transfers : w = <<"reject", t>> /\ RequestReject(t)
  PROVE  PlainStep(w)
<1>1. status' = Enqueued({w}) /\ UNCHANGED <<pc, phases, receipt, localTask, destTask, typed, sourceClosed,
                                            chan, outRow, inRow>>
  BY DEF RequestPush, RequestImport, RequestReject, srcDbVars, srcCarVars, dstDbVars, agentVars
<1>2. OnlyItem(w)
  <2>1. pc' \in [Work -> Steps] /\ \A v \in Work : pc'[v] = pc[v] BY <1>1 DEF Shape
  <2> QED BY <1>1, <2>1, EnqueueOps DEF OnlyItem
<1>3. \A t \in Transfers : w # <<"committed", t>> OBVIOUS
<1> QED BY <1>1, <1>2, <1>3 DEF PlainStep, NoRowCompletes, Shape

LEMMA PushPlain ==
  ASSUME Shape, NEW p \in Pushes,
         PushEligible(p) \/ PushPreflight(p) \/ PushInsert(p) \/ PushCommit(p) \/ PushAbandon(p)
  PROVE  PlainStep(<<"push", p>>)
<1>1. <<"push", p>> \in PushWork /\ \A t \in Transfers : <<"push", p>> # <<"committed", t>>
  BY DEF PushWork
<1> QED BY <1>1, PushEffect DEF PlainStep, Shape

\* A step that types nothing and leaves the finalizations alone.
LEMMA OnceKept ==
  ASSUME Once, UNCHANGED typed,
         \A t \in Transfers : Untouched(<<"finalize", t>>)
  PROVE  Once'
  BY DEF Once, Untouched, WriteStep

LEMMA FinalizeInv ==
  ASSUME Shape, Backed, Once, Told, NEW t \in Transfers,
         \/ FinPlan(t) \/ FinAttach(t) \/ FinWrite(t) \/ FinIdle(t) \/ FinExit(t)
         \/ FinVerdict(t) \/ FinStage(t) \/ FinError(t) \/ FinAnswerError(t)
  PROVE  Shape' /\ Backed' /\ Once' /\ Told'
<1>1. /\ OnlyItem(<<"finalize", t>>) /\ OnlyClaims(<<"finalize", t>>)
      /\ UNCHANGED <<receipt, localTask, destTask, sourceClosed, chan>>
      /\ NoRowCompletes /\ Shape'
  BY FinalizeEffect
<1>2. \A u \in Transfers : Untouched(<<"import", u>>) /\ Untouched(<<"committed", u>>)
  BY <1>1, WorkItems DEF OnlyItem, OnlyClaims, Untouched
<1>3. Backed' BY <1>1, <1>2 DEF Backed, Evidence, Untouched
<1>4. Told' BY <1>1, <1>2 DEF Told, ToldAt, Untouched, NoRowCompletes
<1>5. Once' BY FinalizeOnce
<1> QED BY <1>1, <1>3, <1>4, <1>5

LEMMA RestartInv ==
  ASSUME Shape, Backed, Once, Told, NEW m \in Machines,
         SidecarRestart(m) \/ ServerCrash(m) \/ ServerRestart(m)
  PROVE  Shape' /\ Backed' /\ Once' /\ Told'
<1>1. UNCHANGED <<receipt, localTask, destTask, typed, sourceClosed, phases, outRow, inRow>>
  BY DEF SidecarRestart, ServerCrash, ServerRestart, queueVars, srcDbVars, srcCarVars, dstDbVars, agentVars
<1>2. \A v, n : HasClaim(v, n)' <=> HasClaim(v, n) BY <1>1 DEF HasClaim
<1>3. \A t \in Transfers : <<"committed", t>> \in chan' => <<"committed", t>> \in chan \/ receipt[t] # "none"
  BY DEF SidecarRestart, ServerCrash, ServerRestart, SidecarLost, Reemitted
<1>4. /\ pc' \in [Work -> Steps]
      /\ \A v \in Work : pc'[v] = pc[v] \/ pc'[v] = "idle"
      /\ Windowless => \A v \in Work : pc'[v] = pc[v] \/ pc[v] \notin {"ack", "close"}
  BY DEF SidecarRestart, ServerCrash, ServerRestart, queueVars, Shape, Steps, Windowless, InWindow
<1>5. /\ status' \in [Work -> Statuses]
      /\ \A t \in Transfers : status'[<<"committed", t>>] # "none" => status[<<"committed", t>>] # "none"
  <2>1. CASE SidecarRestart(m) \/ ServerCrash(m)
    BY <2>1 DEF SidecarRestart, ServerCrash, queueVars, Shape
  <2>2. CASE ServerRestart(m)
    <3>1. PICK ws : /\ \A t \in Transfers : <<"committed", t>> \notin ws
                    /\ status' = [w \in Work |-> IF Home(w) = m /\ status[w] = "running" THEN "pending"
                                                                                        ELSE Enqueued(ws)[w]]
      <4> DEFINE swept == IF m = "S" THEN {} ELSE
             {<<"import", t>> : t \in {u \in Transfers : inRow[u] \notin Terminal \cup {"none"}}}
             \cup {<<"cleanup", t>> : t \in {u \in Transfers : inRow[u] \in Terminal /\ u \notin cleaned}}
      <4>1. \A t \in Transfers : <<"committed", t>> \notin swept OBVIOUS
      <4>2. status' = [w \in Work |-> IF Home(w) = m /\ status[w] = "running" THEN "pending"
                                                                             ELSE Enqueued(swept)[w]]
        BY <2>2 DEF ServerRestart
      <4> HIDE DEF swept
      <4> QED BY <4>1, <4>2
    <3> QED BY <3>1, EnqueueOps, WorkItems DEF Statuses, Shape
  <2> QED BY <2>1, <2>2
<1>6. Shape' BY <1>1, <1>4, <1>5 DEF Shape
<1>7. Backed' BY <1>1, <1>3, <1>4, <1>5, WorkItems DEF Backed, Evidence
<1>8. Once' BY <1>1, <1>2, <1>4, WorkItems DEF Once, WriteStep
<1>9. ASSUME NEW t \in Transfers PROVE ToldAt(t)'
  <2>1. ToldAt(t) /\ <<"import", t>> \in Work /\ <<"committed", t>> \in Work BY WorkItems DEF Told
  <2> QED BY <1>1, <1>2, <1>4, <2>1 DEF ToldAt
<1> QED BY <1>6, <1>7, <1>8, <1>9 DEF Told

Inv == Shape /\ Backed /\ Once /\ Told

\* Every step keeps the invariant and is a step of TaskMove or changes nothing of it.
LEMMA StepInv ==
  ASSUME Inv, [Next]_vars
  PROVE  Inv' /\ [Move!Next]_(Move!moveVars)
<1> USE DEF Inv
<1>1. ASSUME NEW w \in Work, PlainStep(w) PROVE Inv' /\ UNCHANGED Move!moveVars
  BY <1>1, PlainInv DEF PlainStep, Move!moveVars
<1> HIDE DEF Inv
<1>2. CASE PushStep
  <2>1. PICK p \in Pushes : PlainStep(<<"push", p>>) BY <1>2, PushPlain DEF PushStep, Inv
  <2> QED BY <1>1, <2>1, WorkItems
<1>3. CASE FinalizeStep
  <2>1. PICK t \in Transfers :
          \/ FinPlan(t) \/ FinAttach(t) \/ FinWrite(t) \/ FinIdle(t) \/ FinExit(t)
          \/ FinVerdict(t) \/ FinStage(t) \/ FinError(t) \/ FinAnswerError(t)
    BY <1>3 DEF FinalizeStep
  <2>2. Inv' BY <2>1, FinalizeInv DEF Inv
  <2>3. UNCHANGED Move!moveVars BY <2>1, FinalizeEffect DEF Inv, Move!moveVars
  <2> QED BY <2>2, <2>3
<1>4. CASE ImportStep
  <2>1. PICK t \in Transfers : ImportAction(t) BY <1>4 DEF ImportStep, ImportAction
  <2>2. Shape' /\ Backed' /\ Told' BY <2>1, ImportInv DEF Inv
  <2>3. Once'
    <3>1. UNCHANGED typed /\ \A u \in Transfers : Untouched(<<"finalize", u>>)
      BY <2>1, ImportEffect DEF Inv
    <3> QED BY <3>1, OnceKept DEF Inv
  <2>4. UNCHANGED sourceClosed /\ (destTask' = destTask \/ destTask' = destTask \cup {t})
    BY <2>1 DEF ImportAction, RecordIncoming, MarkRecorded, ImportStart, ImportAnswer,
         ImportMaterialize, ImportRefuse, ImportCreate, ImportMark, ImportRegister, ImportAck,
         ImportComplete, Reject, srcDbVars, dstDbVars
  <2>5. Move!Arrive(t) \/ UNCHANGED Move!moveVars BY <2>4 DEF Move!Arrive, Move!moveVars
  <2> QED BY <2>2, <2>3, <2>5 DEF Inv, Move!Next
<1>5. CASE CommitStep
  <2>1. PICK t \in Transfers : CommitStart(t) \/ CommitClose(t) \/ CommitMark(t) \/ CommitApply(t)
    BY <1>5 DEF CommitStep
  <2>2. /\ Shape' /\ Backed' /\ Told'
        /\ UNCHANGED <<typed, destTask>> /\ t \in destTask
        /\ OnlyItem(<<"committed", t>>) /\ OnlyClaims(<<"committed", t>>)
    BY <2>1, CommitInv DEF Inv
  <2>3. Once'
    <3>1. \A u \in Transfers : Untouched(<<"finalize", u>>)
      BY <2>2, WorkItems DEF OnlyItem, OnlyClaims, Untouched
    <3> QED BY <2>2, <3>1, OnceKept DEF Inv
  <2>4. sourceClosed' = sourceClosed \/ sourceClosed' = TRUE
    BY <2>1 DEF CommitStart, CommitClose, CommitMark, CommitApply, srcDbVars
  <2>5. Move!Leave \/ UNCHANGED Move!moveVars BY <2>2, <2>4 DEF Move!Leave, Move!moveVars
  <2> QED BY <2>2, <2>3, <2>5 DEF Inv, Move!Next
<1>6. CASE EngineStep
  <2>1. PICK w \in Work : PlainStep(w) BY <1>6, EnginePlain DEF EngineStep, Inv
  <2> QED BY <1>1, <2>1
<1>7. CASE \/ \E p \in Pushes : RequestPush(p)
           \/ \E t \in Transfers : RequestImport(t) \/ RequestReject(t)
  <2>1. PICK w \in Work : PlainStep(w) BY <1>7, RequestPlain, WorkItems DEF Inv
  <2> QED BY <1>1, <2>1
<1>8. CASE \E m \in Machines : SidecarRestart(m) \/ ServerCrash(m) \/ ServerRestart(m)
  <2>1. Inv' BY <1>8, RestartInv DEF Inv
  <2>2. UNCHANGED Move!moveVars
    BY <1>8 DEF SidecarRestart, ServerCrash, ServerRestart, srcDbVars, dstDbVars, Move!moveVars
  <2> QED BY <2>1, <2>2
<1>9. CASE AgentExits \/ UNCHANGED vars
  <2>1. UNCHANGED <<queueVars, srcDbVars, srcCarVars, dstDbVars, chan, typed>>
    BY <1>9 DEF AgentExits, vars, agentVars
  <2>2. UNCHANGED Move!moveVars BY <2>1 DEF srcDbVars, dstDbVars, Move!moveVars
  <2>3. Shape' /\ Backed' /\ Once' /\ Told'
    BY <2>1 DEF Inv, Shape, Backed, Evidence, Once, Told, ToldAt, HasClaim, queueVars, srcDbVars,
         srcCarVars, dstDbVars
  <2> QED BY <2>2, <2>3 DEF Inv
<1> QED BY <1>2, <1>3, <1>4, <1>5, <1>6, <1>7, <1>8, <1>9 DEF Next, Program, Environment

(* The queue, the claims, the sidecars' receipts and both databases stay within *)
(* the inductive invariant through every handler, crash, restart and lost reply. *)
THEOREM Invariance == Spec => []Inv
<1>1. Init => Inv BY InitInv DEF Inv
<1>2. Inv /\ [Next]_vars => Inv' BY StepInv
<1> QED BY <1>1, <1>2, PTL DEF Spec

(* However often items are retried, servers and sidecars restart and messages  *)
(* are lost, the engines' databases do what TaskMove allows: the destination's  *)
(* task appears once per transfer and stays, and outgoing_committed closes the  *)
(* source's only when a copy exists.                                            *)
THEOREM MovedOnce == Spec => TaskMoved
<1>1. Init => Move!Init BY DEF Init, Move!Init
<1>2. Inv /\ [Next]_vars => [Move!Next]_(Move!moveVars) BY StepInv
<1> QED BY <1>1, <1>2, Invariance, PTL DEF Spec, TaskMoved, Move!Spec

(* finalize::inject never types the wrap-up or the quit command at the source   *)
(* agent a second time for the same transfer.                                   *)
THEOREM TypedAtMostOnce == Spec => []TypedOnce
<1>1. Inv => TypedOnce BY DEF Inv, Once, TypedOnce
<1> QED BY <1>1, Invariance, PTL

(* While no server dies between a claim and the call it is for, a row marked    *)
(* completed tells the truth: the source's sidecar holds the receipt, and the   *)
(* source's task is closed.                                                     *)
THEOREM ConclusionsHonest == "phaseCrash" \notin Faults => (Spec => []ConclusionHonest)
<1> SUFFICES ASSUME "phaseCrash" \notin Faults PROVE Spec => []ConclusionHonest
  OBVIOUS
<1>1. Inv => ConclusionHonest BY DEF Inv, Told, ToldAt, Windowless, ConclusionHonest
<1> QED BY <1>1, Invariance, PTL
-----------------------------------------------------------------------------
(* What the destination is told about the source's agent and conversation.    *)

\* A payload p of transfer t that tells the truth. The agent does not come
\* back and the first sight of the session is kept, so it stays true.
Honest(t, p) ==
  /\ p.clean => agent = "gone"
  /\ ~p.session => before[t] = "nothing"

\* From FinPlan's look at the session to the answer.
Finalizing == {"attach", "wrap", "idleWait", "quit", "exitWait", "clean", "degraded", "stage"}

HonestAt(t) ==
  /\ pc[<<"finalize", t>>] = "clean" => agent = "gone"
  /\ verdict[t] = "clean" => agent = "gone"
  /\ pc[<<"finalize", t>>] \in Finalizing => before[t] # "unseen"
  /\ fin[t] = "ok" => Honest(t, answer[t])
  /\ t \in destTask \/ pc[<<"import", t>>] \in {"materialize", "create"} => Honest(t, payload[t])

DataShape ==
  /\ agent \in {"running", "gone"}
  /\ before \in [Transfers -> {"unseen", "session", "nothing"}]
  /\ verdict \in [Transfers -> {"none", "clean", "degraded"}]
  /\ fin \in [Transfers -> {"none", "waiting", "ok", "error"}]
  /\ answer = [t \in Transfers |-> answer[t]]
  /\ payload = [t \in Transfers |-> payload[t]]
  /\ destTask \subseteq Transfers

HonestInv == DataShape /\ \A t \in Transfers : HonestAt(t)

\* A step that tells transfer t nothing new.
AsBefore(t) ==
  /\ agent = "gone" => agent' = "gone"
  /\ before'[t] = before[t] /\ verdict'[t] = verdict[t]
  /\ fin'[t] = "ok" => fin[t] = "ok" /\ answer'[t] = answer[t]
  /\ payload'[t] = payload[t]
  /\ t \in destTask' => t \in destTask
  /\ pc'[<<"finalize", t>>] = pc[<<"finalize", t>>] \/ pc'[<<"finalize", t>>] \notin Finalizing
  /\ \/ pc'[<<"import", t>>] = pc[<<"import", t>>]
     \/ pc'[<<"import", t>>] \notin {"materialize", "create"}

LEMMA HonestKept ==
  ASSUME NEW t \in Transfers, HonestAt(t), AsBefore(t)
  PROVE  HonestAt(t)'
<1>1. \A p : Honest(t, p) => Honest(t, p)' BY DEF Honest, AsBefore
<1>2. "clean" \in Finalizing BY DEF Finalizing
<1>3. /\ pc'[<<"finalize", t>>] = "clean" => agent' = "gone"
      /\ verdict'[t] = "clean" => agent' = "gone"
      /\ pc'[<<"finalize", t>>] \in Finalizing => before'[t] # "unseen"
  BY <1>2 DEF HonestAt, AsBefore
<1>4. fin'[t] = "ok" => Honest(t, answer[t])' /\ answer'[t] = answer[t]
  BY <1>1 DEF HonestAt, AsBefore, Honest
<1>5. t \in destTask' \/ pc'[<<"import", t>>] \in {"materialize", "create"} => Honest(t, payload[t])
  BY DEF HonestAt, AsBefore
<1>6. Honest(t, payload[t]) => Honest(t, payload[t])'
  BY DEF Honest, AsBefore
<1> QED BY <1>3, <1>4, <1>5, <1>6 DEF HonestAt, Honest

dataVars == <<agent, before, verdict, fin, answer, payload, destTask>>

\* The steps that touch none of the data.
LEMMA BystandersData ==
  ASSUME \/ PushStep \/ EngineStep
         \/ \E p \in Pushes : RequestPush(p)
         \/ \E t \in Transfers : RequestImport(t) \/ RequestReject(t)
         \/ \E t \in Transfers : CommitStart(t) \/ CommitMark(t) \/ CommitApply(t)
         \/ \E m \in Machines : ServerRestart(m)
         \/ UNCHANGED vars
  PROVE  UNCHANGED dataVars
<1> USE DEF dataVars, srcDbVars, srcCarVars, dstDbVars, agentVars
<1>1. CASE PushStep
  BY <1>1 DEF PushStep, PushEligible, PushPreflight, PushInsert, PushCommit, PushAbandon
<1>2. CASE EngineStep
  BY <1>2 DEF EngineStep, Claim, ReportExhausted, ReleaseReservation, Deliver
<1>3. CASE \/ \E p \in Pushes : RequestPush(p)
           \/ \E t \in Transfers : RequestImport(t) \/ RequestReject(t)
           \/ \E t \in Transfers : CommitStart(t) \/ CommitMark(t) \/ CommitApply(t)
           \/ \E m \in Machines : ServerRestart(m)
  BY <1>3 DEF RequestPush, RequestImport, RequestReject, CommitStart, CommitMark, CommitApply, ServerRestart
<1>4. CASE UNCHANGED vars
  BY <1>4 DEF vars
<1> QED BY <1>1, <1>2, <1>3, <1>4

\* What they do to the items that carry a payload.
LEMMA BystandersItems ==
  ASSUME Shape,
         \/ PushStep \/ EngineStep \/ CommitStep
         \/ \E p \in Pushes : RequestPush(p)
         \/ \E t \in Transfers : RequestImport(t) \/ RequestReject(t)
         \/ \E m \in Machines : SidecarRestart(m) \/ ServerCrash(m) \/ ServerRestart(m)
         \/ AgentExits \/ UNCHANGED vars,
         NEW v \in Work \ PushWork,
         \A t \in Transfers : v # <<"committed", t>>
  PROVE  pc'[v] = pc[v] \/ pc'[v] \in {"idle", "start", "exhausted"}
<1>1. CASE PushStep
  <2>1. PICK p \in Pushes : OnlyItem(<<"push", p>>) BY <1>1, PushEffect DEF PushStep
  <2>2. v # <<"push", p>> BY DEF PushWork
  <2> QED BY <2>1, <2>2 DEF OnlyItem
<1>2. CASE EngineStep
  <2>1. PICK w \in Work : Claim(w) \/ ReportExhausted(w) \/ ReleaseReservation(w) \/ Deliver(w)
    BY <1>2 DEF EngineStep
  <2>2. CASE Claim(w) BY <2>2 DEF Claim, Go, Shape
  <2>3. CASE ReportExhausted(w) BY <2>3 DEF ReportExhausted, Go, Shape
  <2>4. CASE ReleaseReservation(w)
    <3>1. Done(w) \/ Fail(w) BY <2>4 DEF ReleaseReservation, Release
    <3> QED BY <3>1, QueueOps DEF OnlyItem
  <2>5. CASE Deliver(w) BY <2>5 DEF Deliver
  <2> QED BY <2>1, <2>2, <2>3, <2>4, <2>5
<1>3. CASE CommitStep
  <2>1. PICK t \in Transfers : CommitStart(t) \/ CommitClose(t) \/ CommitMark(t) \/ CommitApply(t)
    BY <1>3 DEF CommitStep
  <2>2. <<"committed", t>> \in Work /\ v # <<"committed", t>> BY WorkItems
  <2>3. OnlyItem(<<"committed", t>>)
    <3> USE <2>2, QueueOps DEF Steps
    <3>1. CommitStart(t) => OnlyItem(<<"committed", t>>) BY DEF CommitStart
    <3>2. CommitClose(t) => OnlyItem(<<"committed", t>>) BY DEF CommitClose, CloseFailed
    <3>3. CommitMark(t) => OnlyItem(<<"committed", t>>) BY DEF CommitMark
    <3>4. CommitApply(t) => OnlyItem(<<"committed", t>>) BY DEF CommitApply
    <3> QED BY <2>1, <3>1, <3>2, <3>3, <3>4
  <2> QED BY <2>2, <2>3 DEF OnlyItem
<1>4. CASE \/ \E p \in Pushes : RequestPush(p)
           \/ \E t \in Transfers : RequestImport(t) \/ RequestReject(t)
           \/ \E m \in Machines : SidecarRestart(m) \/ ServerRestart(m)
           \/ AgentExits \/ UNCHANGED vars
  BY <1>4 DEF RequestPush, RequestImport, RequestReject, SidecarRestart, ServerRestart, AgentExits,
     vars, queueVars
<1>5. CASE \E m \in Machines : ServerCrash(m)
  BY <1>5 DEF ServerCrash
<1> QED BY <1>1, <1>2, <1>3, <1>4, <1>5

LEMMA BystandersHonest ==
  ASSUME Shape, HonestInv,
         \/ PushStep \/ EngineStep \/ CommitStep
         \/ \E p \in Pushes : RequestPush(p)
         \/ \E t \in Transfers : RequestImport(t) \/ RequestReject(t)
         \/ \E m \in Machines : SidecarRestart(m) \/ ServerCrash(m) \/ ServerRestart(m)
         \/ AgentExits \/ UNCHANGED vars
  PROVE  HonestInv'
<1>1. /\ UNCHANGED <<before, verdict, answer, payload, destTask>>
      /\ agent' = agent \/ agent' = "gone"
      /\ fin' = fin \/ fin' = [t \in Transfers |-> "none"]
  <2>1. CASE UNCHANGED dataVars BY <2>1 DEF dataVars
  <2>2. CASE \E t \in Transfers : CommitClose(t)
    BY <2>2 DEF CommitClose, srcCarVars, dstDbVars
  <2>3. CASE AgentExits
    BY <2>3 DEF AgentExits, srcDbVars, srcCarVars, dstDbVars
  <2>4. CASE \E m \in Machines : SidecarRestart(m) \/ ServerCrash(m)
    BY <2>4 DEF SidecarRestart, ServerCrash, SidecarLost, srcDbVars, dstDbVars, agentVars
  <2> QED BY <2>1, <2>2, <2>3, <2>4, BystandersData DEF CommitStep
<1>2. DataShape' BY <1>1 DEF HonestInv, DataShape
<1>3. ASSUME NEW t \in Transfers PROVE AsBefore(t)
  <2>1. /\ <<"finalize", t>> \in Work \ PushWork /\ <<"import", t>> \in Work \ PushWork
        /\ \A u \in Transfers : <<"finalize", t>> # <<"committed", u>> /\ <<"import", t>> # <<"committed", u>>
    BY WorkItems DEF PushWork
  <2>2. \A v \in {<<"finalize", t>>, <<"import", t>>} :
          pc'[v] = pc[v] \/ pc'[v] \in {"idle", "start", "exhausted"}
    BY <2>1, BystandersItems
  <2>3. fin'[t] = "ok" => fin[t] = "ok" BY <1>1
  <2> QED BY <1>1, <2>2, <2>3 DEF AsBefore, Finalizing
<1> QED BY <1>2, <1>3, HonestKept DEF HonestInv

\* The finalization of t answers with what it has seen.
LEMMA FinalizeHonest ==
  ASSUME Shape, HonestInv, NEW t \in Transfers,
         \/ FinPlan(t) \/ FinAttach(t) \/ FinWrite(t) \/ FinIdle(t) \/ FinExit(t)
         \/ FinVerdict(t) \/ FinStage(t) \/ FinError(t) \/ FinAnswerError(t)
  PROVE  HonestInv'
<1> DEFINE w == <<"finalize", t>>
<1>0. w \in Work /\ HonestAt(t) /\ DataShape BY WorkItems DEF HonestInv
<1>1. OnlyItem(w) BY FinalizeEffect
<1>2. /\ UNCHANGED <<agent, payload, destTask>>
      /\ \A u \in Transfers : pc'[<<"import", u>>] = pc[<<"import", u>>]
  <2>1. UNCHANGED <<agent, payload, destTask>>
    BY DEF FinPlan, FinAttach, FinWrite, FinIdle, FinExit, FinVerdict, FinStage, FinError,
           FinAnswerError, dstDbVars, agentVars
  <2> QED BY <1>1, <2>1, WorkItems DEF OnlyItem
<1>3. /\ DataShape'
      /\ \A u \in Transfers \ {t} : /\ before'[u] = before[u] /\ verdict'[u] = verdict[u]
                                    /\ fin'[u] = fin[u] /\ answer'[u] = answer[u]
  <2>1. CASE FinPlan(t) BY <1>0, <1>2, <2>1 DEF FinPlan, DataShape, srcCarVars
  <2>2. CASE FinVerdict(t) BY <1>0, <1>2, <2>2 DEF FinVerdict, DataShape, srcCarVars
  <2>3. CASE FinStage(t)
    <3>1. UNCHANGED <<before, verdict>> BY <2>3 DEF FinStage, srcDbVars
    <3>2. \/ UNCHANGED <<fin, answer>>
          \/ \E a : fin' = [fin EXCEPT ![t] = "ok"] /\ answer' = [answer EXCEPT ![t] = a]
      BY <2>3 DEF FinStage, FinAnswered
    <3> QED BY <1>0, <1>2, <3>1, <3>2 DEF DataShape
  <2>4. CASE FinAnswerError(t) BY <1>0, <1>2, <2>4 DEF FinAnswerError, DataShape, srcDbVars
  <2>5. CASE FinAttach(t) \/ FinWrite(t) \/ FinIdle(t) \/ FinExit(t) \/ FinError(t)
    BY <1>0, <1>2, <2>5 DEF FinAttach, FinWrite, FinIdle, FinExit, FinError, DataShape, srcDbVars, srcCarVars
  <2> QED BY <2>1, <2>2, <2>3, <2>4, <2>5
<1>4. ASSUME NEW u \in Transfers \ {t} PROVE HonestAt(u)'
  <2>1. pc'[<<"finalize", u>>] = pc[<<"finalize", u>>] BY <1>1, WorkItems DEF OnlyItem
  <2>2. AsBefore(u) BY <1>2, <1>3, <2>1 DEF AsBefore
  <2> QED BY <2>2, HonestKept DEF HonestInv
<1>5. HonestAt(t)'
  <2>0. "clean" \in Finalizing /\ "stage" \in Finalizing BY DEF Finalizing
  <2>q. /\ Done(w) => pc'[w] = "idle"
        /\ Fail(w) => pc'[w] \in {"idle", "exhausted"}
        /\ \A step \in Steps : Go(w, step) /\ UNCHANGED status => pc'[w] = step
    BY <1>0, QueueOps
  <2>i. \A step \in {"idle", "exhausted", "error", "answerError"} : step \notin Finalizing
    BY DEF Finalizing
  \* The waits: nothing is decided but where the item goes next.
  <2>1. CASE FinAttach(t) \/ FinWrite(t) \/ FinIdle(t) \/ FinExit(t)
    <3>1. UNCHANGED <<before, verdict, fin, answer, status>>
      BY <2>1 DEF FinAttach, FinWrite, FinIdle, FinExit, srcDbVars, srcCarVars
    <3>2. pc[w] \in Finalizing
      BY <2>1 DEF FinAttach, FinWrite, FinIdle, FinExit, Finalizing
    <3>3. \E step \in Steps : Go(w, step) /\ (step = "clean" => agent = "gone")
      <4> USE DEF Steps
      <4>1. CASE FinAttach(t) BY <4>1 DEF FinAttach, InjectClaim
      <4>2. CASE FinWrite(t) BY <4>2 DEF FinWrite, Inject
      <4>3. CASE FinIdle(t) BY <4>3 DEF FinIdle, InjectClaim
      <4>4. CASE FinExit(t) BY <1>0, <4>4 DEF FinExit, DataShape
      <4> QED BY <2>1, <4>1, <4>2, <4>3, <4>4
    <3>4. pc'[w] = "clean" => agent = "gone" BY <2>q, <3>1, <3>3
    <3> QED BY <1>0, <1>2, <3>1, <3>2, <3>4 DEF HonestAt, Honest
  <2>2. CASE FinPlan(t)
    <3>1. UNCHANGED <<verdict, fin, answer, status>> BY <2>2 DEF FinPlan, srcCarVars
    <3>2. CASE Go(w, "error") /\ UNCHANGED before
      <4>1. pc'[w] = "error" BY <2>q, <3>1, <3>2 DEF Steps
      <4> QED BY <1>0, <1>2, <2>i, <3>1, <3>2, <4>1 DEF HonestAt, Honest
    <3>3. CASE \E seen \in {"session", "nothing"} :
                 before' = [before EXCEPT ![t] = IF @ = "unseen" THEN seen ELSE @]
      <4>1. /\ before'[t] # "unseen"
            /\ before[t] = "nothing" => before'[t] = "nothing"
        BY <1>0, <3>3 DEF DataShape
      <4>2. pc'[w] \in {"attach", "stage", "error"}
        <5>1. \E step \in {"attach", "stage", "error"} : Go(w, step) BY <2>2 DEF FinPlan
        <5> QED BY <2>q, <3>1, <5>1 DEF Steps
      <4> QED BY <1>0, <1>2, <3>1, <4>1, <4>2 DEF HonestAt, Honest
    <3> QED BY <2>2, <3>2, <3>3 DEF FinPlan
  <2>3. CASE FinVerdict(t)
    <3>1. /\ UNCHANGED <<before, fin, answer, status>> /\ pc[w] \in {"clean", "degraded"}
          /\ verdict'[t] = pc[w] /\ Go(w, "stage")
      BY <1>0, <2>3 DEF FinVerdict, srcCarVars, DataShape
    <3>2. pc'[w] = "stage" BY <2>q, <3>1 DEF Steps
    <3>3. pc[w] \in Finalizing BY <3>1 DEF Finalizing
    <3> QED BY <1>0, <1>2, <3>1, <3>2, <3>3 DEF HonestAt, Honest
  <2>4. CASE FinError(t)
    <3>1. UNCHANGED <<before, verdict, fin, answer, status>> /\ Go(w, "answerError")
      BY <2>4 DEF FinError, srcCarVars
    <3>2. pc'[w] = "answerError" BY <2>q, <3>1 DEF Steps
    <3> QED BY <1>0, <1>2, <2>i, <3>1, <3>2 DEF HonestAt, Honest
  <2>5. CASE FinAnswerError(t)
    <3>1. UNCHANGED <<before, verdict, answer>> /\ Fail(w) BY <2>5 DEF FinAnswerError, srcDbVars
    <3>2. fin'[t] = "ok" => fin[t] = "ok" BY <1>0, <2>5 DEF FinAnswerError, DataShape
    <3> QED BY <1>0, <1>2, <2>i, <2>q, <3>1, <3>2 DEF HonestAt, Honest
  <2>6. CASE FinStage(t)
    <3>1. UNCHANGED <<before, verdict>> /\ pc[w] = "stage" BY <2>6 DEF FinStage, srcDbVars
    <3>2. pc'[w] \in {"idle", "exhausted", "error"}
      <4>1. Done(w) \/ Fail(w) \/ (Go(w, "error") /\ UNCHANGED status)
        BY <2>6 DEF FinStage, FinAnswered
      <4> QED BY <2>q, <4>1 DEF Steps
    <3>3. CASE UNCHANGED <<fin, answer>>
      BY <1>0, <1>2, <2>i, <3>1, <3>2, <3>3 DEF HonestAt, Honest
    <3>4. CASE ~(UNCHANGED <<fin, answer>>)
      <4>1. PICK session \in BOOLEAN :
              /\ ~Downgrade(t, session)
              /\ answer' = [answer EXCEPT ![t] = [clean |-> verdict[t] = "clean", session |-> session]]
        BY <2>6, <3>4 DEF FinStage, FinAnswered
      <4>2. PICK clean \in BOOLEAN :
              (clean => verdict[t] = "clean") /\ answer'[t] = [clean |-> clean, session |-> session]
        <5> DEFINE clean == verdict[t] = "clean"
        <5>1. answer'[t] = [clean |-> clean, session |-> session] BY <1>0, <4>1 DEF DataShape
        <5>2. clean \in BOOLEAN /\ (clean => verdict[t] = "clean") OBVIOUS
        <5> HIDE DEF clean
        <5> QED BY <5>1, <5>2
      <4>3. answer'[t].clean => verdict[t] = "clean" BY <4>2
      <4>4. ~answer'[t].session => ~session BY <4>2
      <4>5. ~session => before[t] = "nothing"
        <5>1. before[t] # "unseen" BY <1>0, <2>0, <3>1 DEF HonestAt
        <5> QED BY <1>0, <4>1, <5>1 DEF Downgrade, DataShape
      <4> QED BY <1>0, <1>2, <2>i, <3>1, <3>2, <4>3, <4>4, <4>5 DEF HonestAt, Honest
    <3> QED BY <3>3, <3>4
  <2> QED BY <2>1, <2>2, <2>3, <2>4, <2>5, <2>6
<1> QED BY <1>3, <1>4, <1>5 DEF HonestInv

\* The import of t takes the answer and creates its task from it.
LEMMA ImportHonest ==
  ASSUME Shape, HonestInv, NEW t \in Transfers, ImportAction(t)
  PROVE  HonestInv'
<1> DEFINE w == <<"import", t>>
<1>0. w \in Work /\ HonestAt(t) /\ DataShape BY WorkItems DEF HonestInv
<1>1. \A u \in Transfers : pc'[<<"finalize", u>>] = pc[<<"finalize", u>>]
                           /\ (u # t => pc'[<<"import", u>>] = pc[<<"import", u>>])
  BY ImportEffect DEF Untouched
<1>2. UNCHANGED <<agent, before, verdict, answer>>
  BY DEF ImportAction, RecordIncoming, MarkRecorded, ImportStart, ImportAnswer,
         ImportMaterialize, ImportRefuse, ImportCreate, ImportMark, ImportRegister, ImportAck,
         ImportComplete, Reject, srcDbVars, srcCarVars, agentVars
<1>3. fin' \in [Transfers -> {"none", "waiting", "ok", "error"}]
      /\ \A u \in Transfers : fin'[u] = "ok" => fin[u] = "ok"
  <2>1. CASE ImportStart(t)
    <3>1. UNCHANGED fin \/ fin' = [fin EXCEPT ![t] = "waiting"]
      BY <2>1 DEF ImportStart, FinalizeRequested
    <3> QED BY <1>0, <3>1 DEF DataShape
  <2>2. CASE ImportAck(t)
    <3>1. UNCHANGED fin \/ fin' = [fin EXCEPT ![t] = IF receipt[t] = "none" THEN "none" ELSE @]
      BY <2>2 DEF ImportAck, ReceiptSaved
    <3> QED BY <1>0, <3>1 DEF DataShape
  <2>3. CASE ~ImportStart(t) /\ ~ImportAck(t)
    BY <1>0, <2>3 DEF ImportAction, RecordIncoming, MarkRecorded, ImportAnswer, ImportMaterialize,
       ImportRefuse, ImportCreate, ImportMark, ImportRegister, ImportComplete, Reject, srcCarVars, DataShape
  <2> QED BY <2>1, <2>2, <2>3
<1>4. /\ payload' = [u \in Transfers |-> payload'[u]] /\ destTask' \subseteq Transfers
      /\ \A u \in Transfers \ {t} : payload'[u] = payload[u] /\ (u \in destTask' => u \in destTask)
  <2>1. CASE ImportAnswer(t)
    <3>1. UNCHANGED destTask /\ (UNCHANGED payload \/ payload' = [payload EXCEPT ![t] = answer[t]])
      BY <2>1 DEF ImportAnswer
    <3> QED BY <1>0, <3>1 DEF DataShape
  <2>2. CASE ~ImportAnswer(t)
    <3>1. UNCHANGED payload /\ (UNCHANGED destTask \/ destTask' = destTask \cup {t})
      BY <2>2 DEF ImportAction, RecordIncoming, MarkRecorded, ImportStart, ImportMaterialize,
         ImportRefuse, ImportCreate, ImportMark, ImportRegister, ImportAck, ImportComplete, Reject, dstDbVars
    <3> QED BY <1>0, <3>1 DEF DataShape
  <2> QED BY <2>1, <2>2
<1>5. ASSUME NEW u \in Transfers \ {t} PROVE HonestAt(u)'
  <2>1. AsBefore(u) BY <1>1, <1>2, <1>3, <1>4 DEF AsBefore
  <2> QED BY <2>1, HonestKept DEF HonestInv
<1>6. t \in destTask' \/ pc'[w] \in {"materialize", "create"} => Honest(t, payload'[t])
  <2>q. /\ Done(w) => pc'[w] = "idle"
        /\ Fail(w) => pc'[w] \in {"idle", "exhausted"}
        /\ \A step \in Steps : Go(w, step) /\ UNCHANGED status => pc'[w] = step
    BY <1>0, QueueOps
  <2>1. CASE ImportAnswer(t)
    <3>1. CASE fin[t] = "ok" /\ payload' = [payload EXCEPT ![t] = answer[t]]
      <4>1. payload'[t] = answer[t] BY <1>0, <3>1 DEF DataShape
      <4> QED BY <1>0, <3>1, <4>1 DEF HonestAt
    <3>2. CASE UNCHANGED payload /\ Fail(w)
      <4>1. UNCHANGED destTask BY <2>1 DEF ImportAnswer
      <4> QED BY <1>0, <2>q, <3>2, <4>1 DEF HonestAt
    <3> QED BY <2>1, <3>1, <3>2 DEF ImportAnswer
  <2>2. CASE ImportMaterialize(t)
    BY <1>0, <2>2 DEF ImportMaterialize, HonestAt, dstDbVars
  <2>3. CASE ImportCreate(t)
    BY <1>0, <2>3 DEF ImportCreate, HonestAt
  <2>4. CASE ~ImportAnswer(t) /\ ~ImportMaterialize(t) /\ ~ImportCreate(t)
    <3>1. UNCHANGED <<payload, destTask>>
      BY <2>4 DEF ImportAction, RecordIncoming, MarkRecorded, ImportStart, ImportRefuse, ImportMark,
         ImportRegister, ImportAck, ImportComplete, Reject, dstDbVars
    <3>2. pc'[w] = pc[w] \/ pc'[w] \notin {"materialize", "create"}
      <4> USE <1>0, <2>q DEF Steps
      <4>1. CASE RecordIncoming(t) \/ MarkRecorded(t) \/ Reject(t)
        <5>1. \E v \in {<<"incoming", t>>, <<"reject", t>>} : \E step : Go(v, step)
          BY <4>1 DEF RecordIncoming, MarkRecorded, Reject, Fail
        <5> QED BY <5>1 DEF Go, Shape
      <4>2. CASE ImportStart(t) BY <4>2 DEF ImportStart
      <4>3. CASE ImportRefuse(t) \/ ImportMark(t) BY <4>3 DEF ImportRefuse, ImportMark
      <4>4. CASE ImportRegister(t) BY <4>4 DEF ImportRegister
      <4>5. CASE ImportAck(t) BY <4>5 DEF ImportAck, AckFailed
      <4>6. CASE ImportComplete(t) BY <4>6 DEF ImportComplete
      <4> QED BY <2>4, <4>1, <4>2, <4>3, <4>4, <4>5, <4>6 DEF ImportAction
    <3> QED BY <1>0, <3>1, <3>2 DEF HonestAt
  <2> QED BY <2>1, <2>2, <2>3, <2>4
<1>7. HonestAt(t)' BY <1>0, <1>1, <1>2, <1>3, <1>6 DEF HonestAt, Honest
<1>8. DataShape' BY <1>0, <1>2, <1>3, <1>4 DEF DataShape
<1> QED BY <1>5, <1>7, <1>8 DEF HonestInv

(* What the destination creates its task from is what happened at the source,   *)
(* through every retry, crash, restart and lost reply: a payload reported as    *)
(* cleanly finalized was taken after the agent stopped, and one without a       *)
(* session comes from a source that showed none while its agent was alive.      *)
THEOREM PayloadsHonest == Spec => []PayloadHonest
<1>1. Init => HonestInv
  <2> SUFFICES ASSUME Init PROVE HonestInv
    OBVIOUS
  <2>1. DataShape BY DEF Init, DataShape
  <2>2. \A t \in Transfers : pc[<<"finalize", t>>] = "idle" /\ pc[<<"import", t>>] = "idle"
    BY WorkItems DEF Init
  <2>3. \A t \in Transfers : fin[t] = "none" /\ verdict[t] = "none" /\ t \notin destTask BY DEF Init
  <2>4. "idle" \notin Finalizing BY DEF Finalizing
  <2> QED BY <2>1, <2>2, <2>3, <2>4 DEF HonestInv, HonestAt
<1>2. Inv /\ HonestInv /\ [Next]_vars => HonestInv'
  <2> SUFFICES ASSUME Shape, HonestInv, [Next]_vars PROVE HonestInv'
    BY DEF Inv
  <2>1. CASE FinalizeStep BY <2>1, FinalizeHonest DEF FinalizeStep
  <2>2. CASE ImportStep
    <3>1. \E t \in Transfers : ImportAction(t) BY <2>2 DEF ImportStep, ImportAction
    <3> QED BY <3>1, ImportHonest
  <2>3. CASE \/ PushStep \/ EngineStep \/ CommitStep \/ Environment \/ UNCHANGED vars
             \/ \E m \in Machines : ServerRestart(m)
    BY <2>3, BystandersHonest DEF Environment
  <2> QED BY <2>1, <2>2, <2>3 DEF Next, Program
<1>3. HonestInv => PayloadHonest
  <2> SUFFICES ASSUME HonestInv, NEW t \in destTask
               PROVE  Honest(t, payload[t])
    BY DEF PayloadHonest, Honest
  <2> QED BY DEF HonestInv, HonestAt, DataShape
<1> QED BY <1>1, <1>2, <1>3, Invariance, PTL DEF Spec
=============================================================================
