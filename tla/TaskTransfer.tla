---------------------------- MODULE TaskTransfer ----------------------------
(* Moving a task from a source machine S to a destination machine D.        *)
(* Each machine runs a kanna-server, whose database and transfer work queue *)
(* are durable, and a task-transfer sidecar, which keeps reservations and   *)
(* receipts on disk and everything else in memory. The engine of a server   *)
(* runs queued work items step by step (pc), retries a failed item up to    *)
(* MaxAttempts times and resumes interrupted ones after a restart.          *)
EXTENDS Naturals, FiniteSets

CONSTANTS
  Transfers,       \* transfer ids the destination may mint
  NoTransfer,
  Pushes,          \* push intents of the source's operator, or pulls by the peer
  MaxAttempts,     \* MAX_TRANSFER_WORK_ATTEMPTS (8 in the code)
  MaxReservations, \* bound on incoming reservations held by D's sidecar
  MaxFaults,       \* bound: failures of the environment in one behaviour
  Faults           \* which kinds of failure may happen

AllFaults == {"rpcFails", "rpcLost", "serverCrash", "sidecarRestart",
              "phaseCrash", "localFails", "controlFails", "reject"}

ASSUME TransferAssumption ==
  /\ NoTransfer \notin Transfers
  /\ MaxAttempts \in Nat \ {0}
  /\ MaxReservations \in Nat
  /\ MaxFaults \in Nat
  /\ Faults \subseteq AllFaults

PushWork == {"push"} \X Pushes
SourceWork == PushWork \cup ({"finalize", "committed"} \X Transfers)
DestWork == {"incoming", "import", "reject", "cleanup"} \X Transfers
Work == SourceWork \cup DestWork
Kind(w) == w[1]
Machines == {"S", "D"}
Home(w) == IF w \in SourceWork THEN "S" ELSE "D"

Payloads == [clean : BOOLEAN, session : BOOLEAN]
Active == {"pending"}                      \* ACTIVE_OUTGOING_TRANSFER_STATUSES
Terminal == {"completed", "rejected", "failed"}

VARIABLES
  status, attempts, phases,   \* transfer_work and transfer_work_phase rows
  pc, pre,                    \* what the running items are about to do
  sourceClosed, outRow, before, verdict,        \* S: server
  outRes, fin, answer, staged, receipt,                \* S: sidecar
  inRow, localTask, payload, destTask, cleaned,        \* D: server
  inRes,                                               \* D: sidecar
  chan,                       \* events on a sidecar's stdout, by the work they become
  agent, typed,               \* the agent of the source task, what was typed at it
  up, faults

queueVars == <<status, attempts, phases, pc, pre>>
srcDbVars == <<sourceClosed, outRow, before, verdict>>
srcCarVars == <<outRes, fin, answer, staged, receipt>>
dstDbVars == <<inRow, localTask, payload, destTask, cleaned>>
agentVars == <<agent, typed>>
vars == <<queueVars, srcDbVars, srcCarVars, dstDbVars, inRes, chan, agentVars, up, faults>>

Statuses == {"none", "pending", "running", "done", "failed"}
Steps == {"idle", "start", "preflight", "insert", "commit", "abandon",
          "attach", "wrap", "idleWait", "quit", "exitWait", "clean", "degraded",
          "stage", "error", "answerError", "close", "mark", "apply",
          "await", "materialize", "refuse", "create", "register", "ack",
          "complete", "release", "record", "exhausted"}

QueueTypeOK ==
  /\ status \in [Work -> Statuses]
  /\ attempts \in [Work -> 0..MaxAttempts]
  /\ phases \subseteq Work \X {"wrap-up", "quit", "close", "ack", "materialized"}
  /\ pc \in [Work -> Steps]
  /\ pre \in [Pushes -> Transfers \cup {NoTransfer}]

SrcTypeOK ==
  /\ sourceClosed \in BOOLEAN
  /\ outRow \in [Transfers -> {"none", "pending", "completed", "failed"}]
  /\ before \in [Transfers -> {"unseen", "session", "nothing"}]
  /\ verdict \in [Transfers -> {"none", "clean", "degraded"}]

CarTypeOK ==
  /\ outRes \subseteq Transfers
  /\ fin \in [Transfers -> {"none", "waiting", "ok", "error"}]
  /\ answer \in [Transfers -> Payloads]
  /\ staged \subseteq Transfers
  /\ receipt \in [Transfers -> {"none", "unapplied", "applied"}]

DstTypeOK ==
  /\ inRow \in [Transfers -> {"none", "pending", "claimed", "importing", "awaiting"} \cup Terminal]
  /\ localTask \subseteq Transfers
  /\ payload \in [Transfers -> Payloads]
  /\ destTask \subseteq Transfers
  /\ cleaned \subseteq Transfers

NetTypeOK ==
  /\ inRes \in [Transfers -> {"unused", "prepared", "committed", "recorded", "gone"}]
  /\ chan \subseteq ({"finalize", "committed", "incoming"} \X Transfers)
  /\ agent \in {"running", "gone"}
  /\ typed \in [Transfers -> [{"wrap-up", "quit"} -> Nat]]
  /\ up \in [Machines -> BOOLEAN]
  /\ faults \in 0..MaxFaults

TypeOK == QueueTypeOK /\ SrcTypeOK /\ CarTypeOK /\ DstTypeOK /\ NetTypeOK

Placeholder == [clean |-> TRUE, session |-> TRUE]

Init ==
  /\ status = [w \in Work |-> "none"]
  /\ attempts = [w \in Work |-> 0]
  /\ phases = {}
  /\ pc = [w \in Work |-> "idle"]
  /\ pre = [p \in Pushes |-> NoTransfer]
  /\ sourceClosed = FALSE
  /\ outRow = [t \in Transfers |-> "none"]
  /\ before = [t \in Transfers |-> "unseen"]
  /\ verdict = [t \in Transfers |-> "none"]
  /\ outRes = {}
  /\ fin = [t \in Transfers |-> "none"]
  /\ answer = [t \in Transfers |-> Placeholder]
  /\ staged = {}
  /\ receipt = [t \in Transfers |-> "none"]
  /\ inRow = [t \in Transfers |-> "none"]
  /\ localTask = {}
  /\ payload = [t \in Transfers |-> Placeholder]
  /\ destTask = {}
  /\ cleaned = {}
  /\ inRes = [t \in Transfers |-> "unused"]
  /\ chan = {}
  /\ agent = "running"
  /\ typed = [t \in Transfers |-> [m \in {"wrap-up", "quit"} |-> 0]]
  /\ up = [m \in Machines |-> TRUE]
  /\ faults = 0
-----------------------------------------------------------------------------
(* The work queue and the engine that drains it.                           *)

\* enqueue_transfer_work: a row that exists, in whatever state, is left alone.
Enqueued(ws) == [w \in Work |-> IF w \in ws /\ status[w] = "none" THEN "pending" ELSE status[w]]

Go(w, step) == pc' = [pc EXCEPT ![w] = step]

\* One failure of the environment, of a kind the instance allows.
Fault(kind) == kind \in Faults /\ faults < MaxFaults /\ faults' = faults + 1
NoFault == UNCHANGED faults

\* A call to machine m does not get through.
Unreachable(m) == Fault("rpcFails") \/ (~up[m] /\ NoFault)

\* busy_transfer_ids: transfers with an item of this server in flight.
Busy(m) == {w[2] : w \in {v \in Work \ PushWork : Home(v) = m /\ pc[v] # "idle"}}
Available(w) == w \in PushWork \/ w[2] \notin Busy(Home(w))

Claim(w) ==
  /\ up[Home(w)]
  /\ status[w] = "pending"
  /\ Available(w)
  /\ status' = [status EXCEPT ![w] = "running"]
  /\ attempts' = [attempts EXCEPT ![w] = IF @ < MaxAttempts THEN @ + 1 ELSE @]
  /\ Go(w, "start")
  /\ UNCHANGED <<phases, pre, srcDbVars, srcCarVars, dstDbVars, inRes, chan, agentVars, up, faults>>

\* settle_item, for an item that returned Ok.
Done(w) ==
  /\ status' = [status EXCEPT ![w] = "done"]
  /\ Go(w, "idle")

\* settle_item, for an item that returned Err: another attempt, or the report
\* of an item that has none left.
Fail(w) ==
  IF attempts[w] < MaxAttempts
    THEN status' = [status EXCEPT ![w] = "pending"] /\ Go(w, "idle")
    ELSE status' = [status EXCEPT ![w] = "failed"] /\ Go(w, "exhausted")

HasClaim(w, phase) == <<w, phase>> \in phases
TakeClaim(w, phase) == phases' = phases \cup {<<w, phase>>}
ReleaseClaim(w, phase) == phases' = phases \ {<<w, phase>>}

FailedOutgoing(t) == [outRow EXCEPT ![t] = IF @ \in Active THEN "failed" ELSE @]
FailedIncoming(t) == [inRow EXCEPT ![t] = IF @ \in Terminal \cup {"none"} THEN @ ELSE "failed"]

\* report_exhausted_work. The release of the reservation is best effort.
ReportExhausted(w) ==
  /\ pc[w] = "exhausted"
  /\ Go(w, "idle")
  /\ \/ /\ Kind(w) = "push"
        /\ UNCHANGED <<outRow, inRow, inRes, cleaned, faults>>
     \/ /\ Kind(w) \in {"finalize", "committed"}
        /\ outRow' = FailedOutgoing(w[2])
        /\ UNCHANGED <<inRow, inRes, cleaned, faults>>
     \/ /\ w \in DestWork
        /\ inRow[w[2]] # "none"
        /\ inRow' = FailedIncoming(w[2])
        /\ \/ inRes' = [inRes EXCEPT ![w[2]] = "gone"] /\ NoFault
           \/ Fault("controlFails") /\ UNCHANGED inRes
        /\ cleaned' = cleaned \cup {w[2]}
        /\ UNCHANGED outRow
     \/ /\ w \in DestWork
        /\ inRow[w[2]] = "none"
        /\ UNCHANGED <<outRow, inRow, inRes, cleaned, faults>>
  /\ UNCHANGED <<status, attempts, phases, pre, sourceClosed, before, verdict, srcCarVars,
                 localTask, payload, destTask, chan, agentVars, up>>
-----------------------------------------------------------------------------
(* Push: S ships the task (push.rs, and the sidecars' preflight and commit). *)

ActiveOutgoing == \E t \in Transfers : outRow[t] \in Active

\* push_task_to_peer, or a pull requested by the peer.
RequestPush(p) ==
  /\ up["S"]
  /\ status[<<"push", p>>] = "none"
  /\ ~ActiveOutgoing
  /\ status' = Enqueued({<<"push", p>>})
  /\ UNCHANGED <<attempts, phases, pc, pre, srcDbVars, srcCarVars, dstDbVars, inRes, chan,
                 agentVars, up, faults>>

\* run_push up to the preflight: a closed task or one that is already moving
\* is skipped, one whose conversation cannot be shipped is refused for good.
PushEligible(p) ==
  LET w == <<"push", p>> IN
  /\ pc[w] = "start"
  /\ \/ (sourceClosed \/ ActiveOutgoing) /\ Done(w) /\ NoFault
     \/ ~sourceClosed /\ ~ActiveOutgoing /\ Go(w, "preflight") /\ UNCHANGED status /\ NoFault
     \/ ~sourceClosed /\ ~ActiveOutgoing /\ Done(w) /\ Fault("localFails")
  /\ UNCHANGED <<attempts, phases, pre, srcDbVars, srcCarVars, dstDbVars, inRes, chan, agentVars, up>>

Reserved == {t \in Transfers : inRes[t] \notin {"unused", "gone"}}

\* D's PrepareTransfer mints an id and writes its reservation.
Prepared(t) ==
  /\ up["D"]
  /\ inRes[t] = "unused"
  /\ Cardinality(Reserved) < MaxReservations
  /\ inRes' = [inRes EXCEPT ![t] = "prepared"]

\* prepare_transfer_preflight: S writes its own when the response arrives.
PushPreflight(p) ==
  LET w == <<"push", p>> IN
  /\ pc[w] = "preflight"
  /\ \/ \E t \in Transfers :
          /\ Prepared(t)
          /\ \/ /\ outRes' = outRes \cup {t}
                /\ pre' = [pre EXCEPT ![p] = t]
                /\ Go(w, "insert")
                /\ UNCHANGED status
                /\ NoFault
             \/ Fault("rpcLost") /\ Fail(w) /\ UNCHANGED <<outRes, pre>>
     \/ /\ Unreachable("D") \/ (Cardinality(Reserved) >= MaxReservations /\ NoFault)
        /\ Fail(w)
        /\ UNCHANGED <<inRes, outRes, pre>>
  /\ UNCHANGED <<attempts, phases, srcDbVars, fin, answer, staged, receipt, dstDbVars, chan,
                 agentVars, up>>

\* stage_and_commit up to the insert: the artifacts are staged, and the row
\* must not collide with another active transfer of the task.
InsertRefused == ActiveOutgoing

PushInsert(p) ==
  LET w == <<"push", p>>
      t == pre[p] IN
  /\ pc[w] = "insert"
  /\ \/ /\ staged' = staged \cup {t}
        /\ IF InsertRefused
             THEN Go(w, "abandon") /\ UNCHANGED outRow
             ELSE Go(w, "commit") /\ outRow' = [outRow EXCEPT ![t] = "pending"]
        /\ NoFault
     \/ Fault("localFails") /\ Go(w, "abandon") /\ UNCHANGED <<staged, outRow>>
  /\ UNCHANGED <<status, attempts, phases, pre, sourceClosed, before, verdict, outRes, fin,
                 answer, receipt, dstDbVars, inRes, chan, agentVars, up>>

\* D's SubmitTransferPayload: a reservation that is committed already is
\* answered without a second event.
Submitted(t) ==
  /\ up["D"]
  /\ inRes[t] \notin {"unused", "gone"}
  /\ IF inRes[t] = "prepared"
       THEN /\ inRes' = [inRes EXCEPT ![t] = "committed"]
            /\ chan' = chan \cup {<<"incoming", t>>}
       ELSE UNCHANGED <<inRes, chan>>

PushCommit(p) ==
  LET w == <<"push", p>>
      t == pre[p] IN
  /\ pc[w] = "commit"
  /\ \/ t \in outRes /\ Submitted(t) /\ Done(w) /\ NoFault
     \/ t \in outRes /\ Submitted(t) /\ Fault("rpcLost") /\ Go(w, "abandon") /\ UNCHANGED status
     \/ /\ Unreachable("D") \/ ((t \notin outRes \/ inRes[t] = "gone") /\ NoFault)
        /\ Go(w, "abandon")
        /\ UNCHANGED <<status, inRes, chan>>
  /\ UNCHANGED <<attempts, phases, pre, srcDbVars, srcCarVars, dstDbVars, agentVars, up>>

\* D's AbandonTransfer: refused once the payload has been committed.
Abandoned(t) ==
  /\ up["D"]
  /\ inRes[t] \in {"prepared", "gone"}
  /\ inRes' = [inRes EXCEPT ![t] = "gone"]

\* release_reservation: the peer's half first; when the peer refuses, nothing
\* is dropped here either.
PushAbandon(p) ==
  LET w == <<"push", p>>
      t == pre[p] IN
  /\ pc[w] = "abandon"
  /\ \/ /\ Abandoned(t)
        /\ outRes' = outRes \ {t}
        /\ staged' = staged \ {t}
        /\ NoFault
     \/ /\ Unreachable("D") \/ (inRes[t] \in {"committed", "recorded"} /\ NoFault)
        /\ UNCHANGED <<inRes, outRes, staged>>
  /\ Fail(w)
  /\ UNCHANGED <<attempts, phases, pre, srcDbVars, fin, answer, receipt, dstDbVars, chan,
                 agentVars, up>>
-----------------------------------------------------------------------------
(* Finalization: D asks S for the final payload; S stops its agent first   *)
(* (finalize.rs and push.rs finalize).                                      *)

FinPlan(t) ==
  LET w == <<"finalize", t>> IN
  /\ pc[w] = "start"
  /\ \/ /\ outRow[t] # "none"
        /\ \E seen \in {"session", "nothing"} :
             before' = [before EXCEPT ![t] = IF @ = "unseen" THEN seen ELSE @]
        /\ Go(w, IF verdict[t] = "none" THEN "attach" ELSE "stage")
        /\ NoFault
     \/ /\ (outRow[t] = "none" /\ NoFault) \/ Fault("localFails")
        /\ Go(w, "error")
        /\ UNCHANGED before
  /\ UNCHANGED <<status, attempts, phases, pre, sourceClosed, outRow, verdict, srcCarVars,
                 dstDbVars, inRes, chan, agentVars, up>>

\* Mutant: types whether or not an earlier attempt has.
InjectAgain(w, phase, write, after) == Go(w, write) /\ TakeClaim(w, phase)

\* The claim inject takes before it types, unless an earlier attempt has it.
InjectClaim(w, phase, write, after) ==
  IF HasClaim(w, phase)
    THEN Go(w, after) /\ UNCHANGED phases
    ELSE Go(w, write) /\ TakeClaim(w, phase)

\* run_sequence: attach; the agent is gone already, parked on a prompt,
\* cannot be observed, or is asked to wrap up.
FinAttach(t) ==
  LET w == <<"finalize", t>> IN
  /\ pc[w] = "attach"
  /\ \/ agent = "gone" /\ Go(w, "clean") /\ UNCHANGED phases
     \/ agent = "running" /\ Go(w, "degraded") /\ UNCHANGED phases
     \/ agent = "running" /\ InjectClaim(w, "wrap-up", "wrap", "idleWait")
  /\ UNCHANGED <<status, attempts, pre, srcDbVars, srcCarVars, dstDbVars, inRes, chan, agentVars, up, faults>>

Typed(t, phase) == typed' = [typed EXCEPT ![t][phase] = @ + 1]

\* inject after its claim: the session is gone, the message landed (or may
\* have), or it definitely did not and the claim is given back.
Inject(t, phase, after) ==
  LET w == <<"finalize", t>> IN
  \/ agent = "gone" /\ Go(w, "clean") /\ UNCHANGED <<typed, phases, faults>>
  \/ agent = "running" /\ Typed(t, phase) /\ Go(w, after) /\ UNCHANGED <<phases, faults>>
  \/ /\ Fault("localFails")
     /\ ReleaseClaim(w, phase)
     /\ Go(w, "degraded")
     /\ UNCHANGED typed

FinWrite(t) ==
  /\ \/ pc[<<"finalize", t>>] = "wrap" /\ Inject(t, "wrap-up", "idleWait")
     \/ pc[<<"finalize", t>>] = "quit" /\ Inject(t, "quit", "exitWait")
  /\ UNCHANGED <<status, attempts, pre, srcDbVars, srcCarVars, dstDbVars, inRes, chan, agent, up>>

\* wait_for_idle: the agent settles and is told to quit, has exited by
\* itself, or is still working (or parked) when the time is up.
FinIdle(t) ==
  LET w == <<"finalize", t>> IN
  /\ pc[w] = "idleWait"
  /\ \/ agent = "gone" /\ Go(w, "clean") /\ UNCHANGED phases
     \/ agent = "running" /\ InjectClaim(w, "quit", "quit", "exitWait")
     \/ agent = "running" /\ Go(w, "degraded") /\ UNCHANGED phases
  /\ UNCHANGED <<status, attempts, pre, srcDbVars, srcCarVars, dstDbVars, inRes, chan, agentVars, up, faults>>

FinExit(t) ==
  LET w == <<"finalize", t>> IN
  /\ pc[w] = "exitWait"
  /\ Go(w, IF agent = "gone" THEN "clean" ELSE "degraded")
  /\ UNCHANGED <<status, attempts, phases, pre, srcDbVars, srcCarVars, dstDbVars, inRes, chan,
                 agentVars, up, faults>>

\* finalize_source_session records the verdict every later attempt reuses.
FinVerdict(t) ==
  LET w == <<"finalize", t>> IN
  /\ pc[w] \in {"clean", "degraded"}
  /\ verdict' = [verdict EXCEPT ![t] = pc[w]]
  /\ Go(w, "stage")
  /\ UNCHANGED <<status, attempts, phases, pre, sourceClosed, outRow, before, srcCarVars,
                 dstDbVars, inRes, chan, agentVars, up, faults>>

\* Mutant: ships whatever the last attempt found.
AllowDowngrade(t, session) == FALSE

\* refuse_session_downgrade.
Downgrade(t, session) == before[t] = "session" /\ ~session

\* complete_outgoing_transfer_finalization: only a pending entry takes the
\* result, a completed one keeps its own, a missing one is an error.
FinAnswered(t, session) ==
  LET w == <<"finalize", t>> IN
  \/ /\ fin[t] = "waiting"
     /\ fin' = [fin EXCEPT ![t] = "ok"]
     /\ answer' = [answer EXCEPT ![t] = [clean |-> verdict[t] = "clean", session |-> session]]
     /\ Done(w) /\ NoFault
  \/ fin[t] \in {"ok", "error"} /\ Done(w) /\ UNCHANGED <<fin, answer, faults>>
  \/ /\ (fin[t] = "none" /\ NoFault) \/ Fault("controlFails")
     /\ Fail(w) /\ UNCHANGED <<fin, answer>>

\* run_finalization after the agent has stopped: restage, and refuse a payload
\* that lost its session.
FinStage(t) ==
  LET w == <<"finalize", t>> IN
  /\ pc[w] = "stage"
  /\ \/ \E session \in BOOLEAN :
          /\ ~Downgrade(t, session)
          /\ staged' = staged \cup {t}
          /\ FinAnswered(t, session)
     \/ /\ (Downgrade(t, FALSE) /\ NoFault) \/ Fault("localFails")
        /\ Go(w, "error")
        /\ UNCHANGED <<status, fin, answer, staged>>
  /\ UNCHANGED <<attempts, phases, pre, srcDbVars, outRes, receipt, dstDbVars, inRes, chan, agentVars, up>>

\* finalize, when run_finalization failed: the row, then the answer.
FinError(t) ==
  LET w == <<"finalize", t>> IN
  /\ pc[w] = "error"
  /\ outRow' = FailedOutgoing(t)
  /\ Go(w, "answerError")
  /\ UNCHANGED <<status, attempts, phases, pre, sourceClosed, before, verdict, srcCarVars,
                 dstDbVars, inRes, chan, agentVars, up, faults>>

FinAnswerError(t) ==
  LET w == <<"finalize", t>> IN
  /\ pc[w] = "answerError"
  /\ \/ /\ fin[t] = "waiting"
        /\ fin' = [fin EXCEPT ![t] = "error"]
        /\ staged' = staged \ {t}
        /\ NoFault
     \/ fin[t] # "waiting" /\ UNCHANGED <<fin, staged, faults>>
     \/ Fault("controlFails") /\ UNCHANGED <<fin, staged>>
  /\ Fail(w)
  /\ UNCHANGED <<attempts, phases, pre, srcDbVars, outRes, answer, receipt, dstDbVars, inRes, chan,
                 agentVars, up>>
-----------------------------------------------------------------------------
(* Import: D records the request, fetches the final payload, creates its   *)
(* task and tells S (import.rs and the sidecars' finalize and ack).         *)

\* record_incoming: the row, then the sidecar's mark, then the import item.
RecordIncoming(t) ==
  LET w == <<"incoming", t>> IN
  /\ pc[w] = "start"
  /\ inRow' = [inRow EXCEPT ![t] = IF @ = "none" THEN "pending" ELSE @]
  /\ Go(w, "record")
  /\ UNCHANGED <<status, attempts, phases, pre, srcDbVars, srcCarVars, localTask, payload, destTask,
                 cleaned, inRes, chan, agentVars, up, faults>>

MarkRecorded(t) ==
  LET w == <<"incoming", t>> IN
  /\ pc[w] = "record"
  /\ \/ /\ inRes[t] \in {"committed", "recorded"}
        /\ inRes' = [inRes EXCEPT ![t] = "recorded"]
        /\ status' = [Enqueued({<<"import", t>>}) EXCEPT ![w] = "done"]
        /\ Go(w, "idle") /\ NoFault
     \/ /\ (inRes[t] = "gone" /\ NoFault) \/ Fault("controlFails")
        /\ Fail(w) /\ UNCHANGED inRes
  /\ UNCHANGED <<attempts, phases, pre, srcDbVars, srcCarVars, dstDbVars, chan, agentVars, up>>

\* S's FinalizeTransfer: the first request becomes an event for S's server,
\* later ones join it or are answered from the cached result.
FinalizeRequested(t) ==
  /\ up["S"] /\ t \in outRes /\ inRes[t] # "gone"
  /\ IF fin[t] = "none"
       THEN fin' = [fin EXCEPT ![t] = "waiting"] /\ chan' = chan \cup {<<"finalize", t>>}
       ELSE UNCHANGED <<fin, chan>>

\* run_import up to the finalization request: a settled row is done, one
\* whose task exists goes straight to registering it.
ImportStart(t) ==
  LET w == <<"import", t>> IN
  /\ pc[w] = "start"
  /\ \/ inRow[t] \in Terminal /\ Done(w) /\ UNCHANGED <<inRow, fin, chan, faults>>
     \/ inRow[t] = "none" /\ Fail(w) /\ UNCHANGED <<inRow, fin, chan, faults>>
     \/ /\ inRow[t] \notin Terminal \cup {"none"}
        /\ inRow' = [inRow EXCEPT ![t] = IF @ = "pending" THEN "claimed" ELSE @]
        /\ \/ t \in localTask /\ Go(w, "register") /\ UNCHANGED <<status, fin, chan, faults>>
           \/ t \notin localTask /\ FinalizeRequested(t) /\ Go(w, "await") /\ UNCHANGED <<status, faults>>
           \/ /\ t \notin localTask
              /\ Unreachable("S") \/ ((t \notin outRes \/ inRes[t] = "gone") /\ NoFault)
              /\ Fail(w) /\ UNCHANGED <<fin, chan>>
  /\ UNCHANGED <<attempts, phases, pre, srcDbVars, outRes, answer, staged, receipt, localTask,
                 payload, destTask, cleaned, inRes, agentVars, up>>

\* Nobody at S is going to answer the request D waits for.
Unanswered(t) ==
  \/ fin[t] = "none"
  \/ ~up["S"]
  \/ /\ <<"finalize", t>> \notin chan
     /\ status[<<"finalize", t>>] \in {"none", "done", "failed"}

ImportAnswer(t) ==
  LET w == <<"import", t>> IN
  /\ pc[w] = "await"
  /\ \/ /\ up["S"] /\ fin[t] = "ok"
        /\ payload' = [payload EXCEPT ![t] = answer[t]]
        /\ Go(w, "materialize") /\ UNCHANGED <<status, faults>>
     \/ up["S"] /\ fin[t] = "error" /\ Fail(w) /\ UNCHANGED <<payload, faults>>
     \/ (fin[t] \in {"none", "waiting"} \/ ~up["S"]) /\ (Fault("rpcLost") \/ (Unanswered(t) /\ NoFault))
        /\ Fail(w) /\ UNCHANGED payload
  /\ UNCHANGED <<attempts, phases, pre, srcDbVars, srcCarVars, inRow, localTask, destTask, cleaned,
                 inRes, chan, agentVars, up>>

\* S's FetchTransferArtifact.
Fetchable(t) == up["S"] /\ t \in outRes /\ t \in staged

\* assert_importable, acquire_repo and materialize_resume_state: what an
\* earlier attempt materialized is reused, artifacts come from S's sidecar.
ImportMaterialize(t) ==
  LET w == <<"import", t>> IN
  /\ pc[w] = "materialize"
  /\ \/ /\ HasClaim(w, "materialized") \/ ~payload[t].session \/ Fetchable(t)
        /\ Go(w, "create") /\ TakeClaim(w, "materialized") /\ UNCHANGED <<status, faults>>
     \/ /\ ~HasClaim(w, "materialized") /\ payload[t].session
        /\ Unreachable("S") \/ (~Fetchable(t) /\ NoFault)
        /\ Fail(w) /\ UNCHANGED phases
     \/ Fault("localFails") /\ Go(w, "refuse") /\ UNCHANGED <<status, phases>>
  /\ UNCHANGED <<attempts, pre, srcDbVars, srcCarVars, dstDbVars, inRes, chan, agentVars, up>>

\* release_incoming_reservation, as the last step of an item.
Release(w) ==
  LET t == w[2] IN
  \/ /\ inRes' = [inRes EXCEPT ![t] = "gone"]
     /\ cleaned' = IF inRow[t] \in Terminal THEN cleaned \cup {t} ELSE cleaned
     /\ Done(w) /\ NoFault
  \/ Fault("controlFails") /\ Fail(w) /\ UNCHANGED <<inRes, cleaned>>

\* import_transfer, for a payload this machine will refuse every time.
ImportRefuse(t) ==
  LET w == <<"import", t>> IN
  /\ pc[w] = "refuse"
  /\ inRow' = FailedIncoming(t)
  /\ Go(w, "release")
  /\ UNCHANGED <<status, attempts, phases, pre, srcDbVars, srcCarVars, localTask, payload, destTask,
                 cleaned, inRes, chan, agentVars, up, faults>>

\* create_task_in_process under the id derived from the transfer's: an
\* existing task is returned, not created again.
ImportCreate(t) ==
  LET w == <<"import", t>> IN
  /\ pc[w] = "create"
  /\ \/ destTask' = destTask \cup {t} /\ Go(w, "mark") /\ UNCHANGED <<status, faults>>
     \/ Fault("localFails") /\ Fail(w) /\ UNCHANGED destTask
  /\ UNCHANGED <<attempts, phases, pre, srcDbVars, srcCarVars, inRow, localTask, payload, cleaned,
                 inRes, chan, agentVars, up>>

ImportMark(t) ==
  LET w == <<"import", t>> IN
  /\ pc[w] = "mark"
  /\ IF inRow[t] \in {"claimed", "importing"}
       THEN /\ inRow' = [inRow EXCEPT ![t] = "importing"]
            /\ localTask' = localTask \cup {t}
            /\ Go(w, "register") /\ UNCHANGED status
       ELSE Fail(w) /\ UNCHANGED <<inRow, localTask>>
  /\ UNCHANGED <<attempts, phases, pre, srcDbVars, srcCarVars, payload, destTask, cleaned, inRes,
                 chan, agentVars, up, faults>>

\* mark_incoming_transfer_awaiting_acknowledgment, then the claim on the ack.
ImportRegister(t) ==
  LET w == <<"import", t>> IN
  /\ pc[w] = "register"
  /\ IF inRow[t] \in {"importing", "awaiting"}
       THEN /\ inRow' = [inRow EXCEPT ![t] = "awaiting"]
            /\ IF HasClaim(w, "ack")
                 THEN Go(w, "complete") /\ UNCHANGED phases
                 ELSE Go(w, "ack") /\ TakeClaim(w, "ack")
            /\ UNCHANGED status
       ELSE Fail(w) /\ UNCHANGED <<inRow, phases>>
  /\ UNCHANGED <<attempts, pre, srcDbVars, srcCarVars, localTask, payload, destTask, cleaned, inRes,
                 chan, agentVars, up, faults>>

\* S's ImportCommitted: the receipt is durable before the reservation, the
\* finalization and the artifacts go; a duplicate only queues its event again.
ReceiptSaved(t) ==
  /\ up["S"] /\ inRes[t] # "gone" /\ (t \in outRes \/ receipt[t] # "none")
  /\ receipt' = [receipt EXCEPT ![t] = IF @ = "none" THEN "unapplied" ELSE @]
  /\ outRes' = outRes \ {t}
  /\ fin' = [fin EXCEPT ![t] = IF receipt[t] = "none" THEN "none" ELSE @]
  /\ staged' = IF receipt[t] = "none" THEN staged \ {t} ELSE staged
  /\ chan' = IF receipt[t] = "applied" THEN chan ELSE chan \cup {<<"committed", t>>}

\* Mutant: the claim outlives the failure.
AckKeepsClaim(w) == Fail(w) /\ UNCHANGED phases

\* A failed acknowledgement gives its claim back.
AckFailed(w) == ReleaseClaim(w, "ack") /\ Fail(w)

ImportAck(t) ==
  LET w == <<"import", t>> IN
  /\ pc[w] = "ack"
  /\ \/ ReceiptSaved(t) /\ Go(w, "complete") /\ UNCHANGED <<status, phases, faults>>
     \/ ReceiptSaved(t) /\ Fault("rpcLost") /\ AckFailed(w)
     \/ /\ \/ Unreachable("S")
           \/ inRes[t] = "gone" /\ NoFault
           \/ t \notin outRes /\ receipt[t] = "none" /\ NoFault
        /\ AckFailed(w)
        /\ UNCHANGED <<outRes, fin, staged, receipt, chan>>
  /\ UNCHANGED <<attempts, pre, srcDbVars, answer, dstDbVars, inRes, agentVars, up>>

ImportComplete(t) ==
  LET w == <<"import", t>> IN
  /\ pc[w] = "complete"
  /\ IF inRow[t] \in {"awaiting", "completed"}
       THEN inRow' = [inRow EXCEPT ![t] = "completed"] /\ Go(w, "release") /\ UNCHANGED status
       ELSE Fail(w) /\ UNCHANGED inRow
  /\ UNCHANGED <<attempts, phases, pre, srcDbVars, srcCarVars, localTask, payload, destTask, cleaned,
                 inRes, chan, agentVars, up, faults>>

\* The operator of D approves a transfer before the engine has queued its
\* import itself.
RequestImport(t) ==
  /\ up["D"] /\ inRow[t] # "none" /\ status[<<"import", t>>] = "none"
  /\ status' = Enqueued({<<"import", t>>})
  /\ UNCHANGED <<attempts, phases, pc, pre, srcDbVars, srcCarVars, dstDbVars, inRes, chan,
                 agentVars, up, faults>>

\* The operator of D rejects a transfer (schedule_incoming_intent).
RequestReject(t) ==
  /\ up["D"] /\ inRow[t] # "none" /\ status[<<"reject", t>>] = "none"
  /\ Fault("reject")
  /\ status' = Enqueued({<<"reject", t>>})
  /\ UNCHANGED <<attempts, phases, pc, pre, srcDbVars, srcCarVars, dstDbVars, inRes, chan,
                 agentVars, up>>

\* reject_transfer: whatever the row had come to.
Reject(t) ==
  LET w == <<"reject", t>> IN
  /\ pc[w] = "start"
  /\ inRow' = [inRow EXCEPT ![t] = "rejected"]
  /\ Go(w, "release")
  /\ UNCHANGED <<status, attempts, phases, pre, srcDbVars, srcCarVars, localTask, payload, destTask,
                 cleaned, inRes, chan, agentVars, up, faults>>

\* The release at the end of an import or a reject, and release_settled_reservation.
ReleaseReservation(w) ==
  /\ w \in DestWork
  /\ pc[w] = "release" \/ (Kind(w) = "cleanup" /\ pc[w] = "start")
  /\ Release(w)
  /\ UNCHANGED <<attempts, phases, pre, srcDbVars, srcCarVars, inRow, localTask, payload, destTask,
                 chan, agentVars, up>>
-----------------------------------------------------------------------------
(* Commit: S learns that the import is durable and closes its task.        *)

\* outgoing_committed: closing is claimed once per item.
CommitStart(t) ==
  LET w == <<"committed", t>> IN
  /\ pc[w] = "start"
  /\ \/ outRow[t] = "none" /\ Go(w, "apply") /\ UNCHANGED phases
     \/ outRow[t] # "none" /\ HasClaim(w, "close") /\ Go(w, "mark") /\ UNCHANGED phases
     \/ outRow[t] # "none" /\ ~HasClaim(w, "close") /\ Go(w, "close") /\ TakeClaim(w, "close")
  /\ UNCHANGED <<status, attempts, pre, srcDbVars, srcCarVars, dstDbVars, inRes, chan, agentVars, up, faults>>

\* A failed close of a task that is still open gives its claim back.
CloseFailed(w) == ReleaseClaim(w, "close") /\ Fail(w)

CommitClose(t) ==
  LET w == <<"committed", t>> IN
  /\ pc[w] = "close"
  /\ \/ /\ sourceClosed' = TRUE
        /\ agent' = "gone"
        /\ Go(w, "mark") /\ UNCHANGED <<status, phases, faults>>
     \/ ~sourceClosed /\ Fault("localFails") /\ CloseFailed(w) /\ UNCHANGED <<sourceClosed, agent>>
  /\ UNCHANGED <<attempts, pre, outRow, before, verdict, srcCarVars, dstDbVars, inRes, chan,
                 typed, up>>

CommitMark(t) ==
  LET w == <<"committed", t>> IN
  /\ pc[w] = "mark"
  /\ IF outRow[t] \in {"pending", "completed"}
       THEN outRow' = [outRow EXCEPT ![t] = "completed"] /\ Go(w, "apply") /\ UNCHANGED status
       ELSE Fail(w) /\ UNCHANGED outRow
  /\ UNCHANGED <<attempts, phases, pre, sourceClosed, before, verdict, srcCarVars, dstDbVars,
                 inRes, chan, agentVars, up, faults>>

\* mark_import_commit_applied.
CommitApply(t) ==
  LET w == <<"committed", t>> IN
  /\ pc[w] = "apply"
  /\ \/ receipt' = [receipt EXCEPT ![t] = "applied"] /\ Done(w) /\ NoFault
     \/ Fault("controlFails") /\ Fail(w) /\ UNCHANGED receipt
  /\ UNCHANGED <<attempts, phases, pre, srcDbVars, outRes, fin, answer, staged, dstDbVars, inRes,
                 chan, agentVars, up>>
-----------------------------------------------------------------------------
(* Events, crashes and restarts.                                            *)

\* spawn_reader and enqueue_durable_event: an event becomes work, or nothing
\* when its row exists.
Deliver(w) ==
  /\ w \in chan /\ up[Home(w)]
  /\ status' = Enqueued({w})
  /\ chan' = chan \ {w}
  /\ UNCHANGED <<attempts, phases, pc, pre, srcDbVars, srcCarVars, dstDbVars, inRes, agentVars, up, faults>>

\* Mutants: reservations taken for receipts; nothing replayed.
ReemitReservations(m) == IF m = "S" THEN {"committed"} \X outRes ELSE {}
ReemitNothing(m) == {}

\* What a sidecar's next process finds on disk and emits again.
Reemitted(m) ==
  IF m = "S" THEN {<<"committed", t>> : t \in {u \in Transfers : receipt[u] = "unapplied"}}
             ELSE {<<"incoming", t>> : t \in {u \in Transfers : inRes[u] = "committed"}}

\* The in-memory half of a sidecar is lost: finalizations, artifacts, events.
SidecarLost(m) ==
  /\ IF m = "S" THEN fin' = [t \in Transfers |-> "none"] /\ staged' = {}
                ELSE UNCHANGED <<fin, staged>>
  /\ chan' = {w \in chan : Home(w) # m} \cup Reemitted(m)

SidecarRestart(m) ==
  /\ up[m] /\ Fault("sidecarRestart")
  /\ SidecarLost(m)
  /\ UNCHANGED <<queueVars, srcDbVars, outRes, answer, receipt, dstDbVars, inRes, agentVars, up>>

\* An item between a claim, or its last failed attempt, and what must follow.
InWindow(m) == \E w \in Work : Home(w) = m /\ pc[w] \in {"ack", "close", "exhausted"}

\* A server dies with its sidecar, whose control pipe closes.
ServerCrash(m) ==
  /\ up[m] /\ Fault("serverCrash")
  /\ InWindow(m) => "phaseCrash" \in Faults
  /\ up' = [up EXCEPT ![m] = FALSE]
  /\ pc' = [w \in Work |-> IF Home(w) = m THEN "idle" ELSE pc[w]]
  /\ SidecarLost(m)
  /\ UNCHANGED <<status, attempts, phases, pre, srcDbVars, outRes, answer, receipt, dstDbVars, inRes, agentVars>>

\* recover_interrupted_work.
ServerRestart(m) ==
  /\ ~up[m]
  /\ up' = [up EXCEPT ![m] = TRUE]
  /\ LET swept == IF m = "S" THEN {} ELSE
           {<<"import", t>> : t \in {u \in Transfers : inRow[u] \notin Terminal \cup {"none"}}}
           \cup {<<"cleanup", t>> : t \in {u \in Transfers : inRow[u] \in Terminal /\ u \notin cleaned}}
     IN  status' = [w \in Work |-> IF Home(w) = m /\ status[w] = "running" THEN "pending"
                                                                          ELSE Enqueued(swept)[w]]
  /\ UNCHANGED <<attempts, phases, pc, pre, srcDbVars, srcCarVars, dstDbVars, inRes, chan,
                 agentVars, faults>>

\* The agent of the source task exits, told to or not, at the latest while
\* somebody looks at it.
AgentExits ==
  /\ agent = "running"
  /\ \E t \in Transfers :
       pc[<<"finalize", t>>] \in {"attach", "wrap", "idleWait", "quit", "exitWait"}
  /\ agent' = "gone"
  /\ UNCHANGED <<queueVars, srcDbVars, srcCarVars, dstDbVars, inRes, chan, typed, up, faults>>
-----------------------------------------------------------------------------
PushStep == \E p \in Pushes :
  PushEligible(p) \/ PushPreflight(p) \/ PushInsert(p) \/ PushCommit(p) \/ PushAbandon(p)

FinalizeStep == \E t \in Transfers :
  \/ FinPlan(t) \/ FinAttach(t) \/ FinWrite(t) \/ FinIdle(t) \/ FinExit(t) \/ FinVerdict(t)
  \/ FinStage(t) \/ FinError(t) \/ FinAnswerError(t)

ImportStep == \E t \in Transfers :
  \/ RecordIncoming(t) \/ MarkRecorded(t) \/ ImportStart(t) \/ ImportAnswer(t)
  \/ ImportMaterialize(t) \/ ImportRefuse(t) \/ ImportCreate(t) \/ ImportMark(t) \/ ImportRegister(t)
  \/ ImportAck(t) \/ ImportComplete(t) \/ Reject(t)

CommitStep == \E t \in Transfers :
  CommitStart(t) \/ CommitClose(t) \/ CommitMark(t) \/ CommitApply(t)

EngineStep == \E w \in Work : Claim(w) \/ ReportExhausted(w) \/ ReleaseReservation(w) \/ Deliver(w)

Program == PushStep \/ FinalizeStep \/ ImportStep \/ CommitStep \/ EngineStep
           \/ \E m \in Machines : ServerRestart(m)

Environment ==
  \/ \E p \in Pushes : RequestPush(p)
  \/ \E t \in Transfers : RequestImport(t) \/ RequestReject(t)
  \/ \E m \in Machines : SidecarRestart(m) \/ ServerCrash(m)
  \/ AgentExits

Next == Program \/ Environment
Spec == Init /\ [][Next]_vars
FairSpec == Spec /\ WF_vars(Program)
-----------------------------------------------------------------------------
Move == INSTANCE TaskMove WITH copies <- destTask

(* However often items are retried, servers crash and responses are lost, the *)
(* two databases together only ever do what TaskMove allows: the destination's *)
(* task appears once per transfer and stays, and outgoing_committed closes the *)
(* source only when it exists.                                                 *)
TaskMoved == Move!Spec

(* finalize::inject types the wrap-up and the quit command at the source agent *)
(* at most once per transfer, also when the item is resumed after a crash       *)
(* between its claim, the write and the verdict.                                *)
TypedOnce == \A t \in Transfers, m \in {"wrap-up", "quit"} : typed[t][m] <= 1

(* What the destination created its task from is what happened at the source:  *)
(* a payload reported as cleanly finalized was taken after the agent stopped,   *)
(* and one without a session comes from a source that never showed one, on the  *)
(* first attempt, while the agent was alive (refuse_session_downgrade).         *)
PayloadHonest == \A t \in destTask :
  /\ payload[t].clean => agent = "gone"
  /\ ~payload[t].session => before[t] = "nothing"

(* A row marked completed tells the truth about the other step it stands for:  *)
(* the destination's, that the source's sidecar holds the receipt; the source's,*)
(* that its task is closed. Failed acknowledgements and closes are retried, not *)
(* skipped (import.rs run_import, push.rs outgoing_committed).                  *)
ConclusionHonest == \A t \in Transfers :
  /\ inRow[t] = "completed" => receipt[t] # "none"
  /\ outRow[t] = "completed" => sourceClosed

(* Every transfer the destination has recorded ends in a terminal row, and every *)
(* receipt the source holds ends with its task closed or its row failed: the      *)
(* attempt budget, the startup sweep and the replayed events leave nothing hanging. *)
Concludes == \A t \in Transfers :
  /\ (inRow[t] = "pending") ~> (inRow[t] \in Terminal)
  /\ (receipt[t] # "none") ~> (sourceClosed \/ outRow[t] = "failed")
=============================================================================
