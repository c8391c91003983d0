------------------------------ MODULE Recovery ------------------------------
(***************************************************************************)
(* The daemon's recovery manager and the terminal-recovery sidecar.        *)
(*                                                                         *)
(* The daemon mirrors the output of every session into a helper process    *)
(* that keeps a terminal per session and saves it to a snapshot file, so   *)
(* that the screen of a session can be shown again after the daemon is     *)
(* replaced.  Commands go down one pipe and answers come up another, one   *)
(* line each, with no tag that says which command a line answers.  A       *)
(* worker task owns the pipes: it takes messages from a bounded queue,     *)
(* forwards each to the sidecar and, for a request, waits for the next     *)
(* line.  The sidecar may crash or stop answering; any caller may then     *)
(* cancel the worker, wait until its sidecar is reaped, start another one  *)
(* under restart_guard and replay the sessions the manager tracks.         *)
(*                                                                         *)
(* A chunk of output is its number in its session, a screen or a file the  *)
(* chunks it was built from; chunk 0 is a screen that a client or a        *)
(* handoff put there.  Geometry, cursors and sequence numbers are left     *)
(* out.                                                                    *)
(***************************************************************************)
EXTENDS Naturals, Sequences, FiniteSets, TLC

CONSTANTS
    Sessions,      \* session ids
    MaxWorkers,    \* bound: sidecars ever started
    Saved,         \* sessions whose screen is already in the directory
    QueueCap,      \* RECOVERY_QUEUE_CAPACITY
    MaxChunks,     \* bound: chunks of output of one session
    MaxStarts,     \* bound: times one id is started
    MaxViews,      \* bound: resizes, seeds and requests for the screen of a session
    Faults         \* what may go wrong: subset of FaultKinds

FaultKinds == {"crash", "slow", "spawn", "disk"}

ASSUME RecoveryAssumption ==
    /\ MaxWorkers \in Nat \ {0} /\ QueueCap \in Nat \ {0}
    /\ MaxChunks \in Nat /\ MaxStarts \in Nat /\ MaxViews \in Nat
    /\ Faults \subseteq FaultKinds /\ Saved \subseteq Sessions
    /\ Sessions \cap {"viewer", "stop", "nobody"} = {}

Workers == 1..MaxWorkers
Callers == Sessions \cup {"viewer", "stop"}

VARIABLES
    \* RecoveryState and the manager's other shared fields.
    sender,     \* the installed worker, 0 when there is none
    shutdown,   \* shutdown_requested
    tracked,    \* tracked_sessions
    backoff,    \* a failed restart is being waited out
    guard,      \* who holds restart_guard
    seeded,     \* seeded_for_next_start
    \* The daemon's callers.
    live,       \* sessions whose stream the daemon runs
    starts, made, \* counted per session: starts and chunks of output
    views,      \* what viewers have asked for
    ctl,        \* where each caller is in the manager's code
    reply,      \* the oneshot each caller waits on
    \* One worker task and one sidecar per start.
    spawned, task, cancelled, queue, current,
    pipe, lines, child, mirrors, dirty,
    hurt,       \* sidecars that could not save a screen when told to stop
    disk        \* the snapshot directory: file contents by session

manager == <<sender, shutdown, tracked, backoff, guard, seeded>>
daemon  == <<live, starts, made, views>>
worker  == <<spawned, task, cancelled, queue, current>>
sidecar == <<child, mirrors, dirty, hurt>>
vars == <<manager, daemon, ctl, reply, worker, pipe, lines, sidecar, disk>>

Idle == [pc |-> "idle", op |-> "none", s |-> "nobody", arg |-> 0, again |-> FALSE,
         w |-> 0, todo |-> {}, due |-> TRUE]

\* The file of a session as another than the sidecar wrote it.
Seed == <<0>>

Init ==
    /\ sender = 0 /\ shutdown = FALSE /\ tracked = {} /\ backoff = FALSE
    /\ guard = "nobody" /\ seeded = {} /\ live = {} /\ views = 0
    /\ starts = [s \in Sessions |-> 0]
    /\ made = [s \in Sessions |-> 0]
    /\ ctl = [p \in Callers |-> Idle]
    /\ reply = [p \in Callers |-> "none"]
    /\ spawned = 0
    /\ task = [w \in Workers |-> "unborn"]
    /\ cancelled = {}
    /\ queue = [w \in Workers |-> <<>>]
    /\ current = [w \in Workers |-> "nobody"]
    /\ pipe = [w \in Workers |-> <<>>]
    /\ lines = [w \in Workers |-> <<>>]
    /\ child = [w \in Workers |-> "unborn"]
    /\ mirrors = [w \in Workers |-> <<>>]
    /\ dirty = [w \in Workers |-> {}]
    /\ hurt = {}
    /\ disk = [s \in Saved |-> Seed]

Without(f, s) == [x \in DOMAIN f \ {s} |-> f[x]]
Put(f, s, v) == [x \in DOMAIN f \cup {s} |-> IF x = s THEN v ELSE f[x]]

(***************************************************************************)
(* What the daemon asks of the manager                                     *)
(***************************************************************************)

Call(p, op, s, arg) ==
    ctl' = [ctl EXCEPT ![p] = [Idle EXCEPT !.pc = "ensure", !.op = op, !.s = s, !.arg = arg]]

\* SeedSnapshot: before a Spawn a client puts a screen into the file of its id,
\* once the session that had the id is gone.  The daemon writes the file itself.
SeedSnapshot(s) ==
    /\ ctl[s].pc = "idle" /\ s \notin live
    /\ views < MaxViews
    /\ views' = views + 1
    /\ disk' = Put(disk, s, Seed)
    /\ seeded' = seeded \cup {s}
    /\ UNCHANGED <<sender, shutdown, tracked, backoff, guard, live, starts, made, ctl, reply,
                   worker, pipe, lines, sidecar>>

\* A Spawn: it consumes the seed, and resumes from the file only if there is one.
SpawnSession(s) ==
    /\ ctl[s].pc = "idle" /\ s \notin live /\ starts[s] < MaxStarts
    /\ live' = live \cup {s}
    /\ starts' = [starts EXCEPT ![s] = @ + 1]
    /\ seeded' = seeded \ {s}
    /\ Call(s, "start", s, IF s \in seeded /\ s \in DOMAIN disk THEN 1 ELSE 0)
    /\ UNCHANGED <<sender, shutdown, tracked, backoff, guard, made, views, reply, worker,
                   pipe, lines, sidecar, disk>>

\* A successor daemon starts what it adopted before it serves anybody.
AdoptSession(s) ==
    /\ ctl[s].pc = "idle" /\ s \notin live \cup seeded /\ starts[s] = 0
    /\ live' = live \cup {s}
    /\ starts' = [starts EXCEPT ![s] = @ + 1]
    /\ Call(s, "start", s, IF s \in DOMAIN disk THEN 1 ELSE 0)
    /\ UNCHANGED <<manager, made, views, reply, worker, pipe, lines, sidecar, disk>>

\* handle_output_chunk mirrors a chunk, whether or not start_session succeeded.
Output(s) ==
    /\ ctl[s].pc = "idle" /\ s \in live /\ made[s] < MaxChunks
    /\ made' = [made EXCEPT ![s] = @ + 1]
    /\ Call(s, "write", s, made[s] + 1)
    /\ UNCHANGED <<manager, live, starts, views, reply, worker, pipe, lines, sidecar, disk>>

\* The exit or the kill of a session, after its reader has stopped and under the
\* session's lifecycle lock.
EndSession(s) ==
    /\ ctl[s].pc = "idle" /\ s \in live
    /\ ctl["viewer"].op = "resize" => ctl["viewer"].s # s
    /\ live' = live \ {s}
    /\ tracked' = tracked \ {s}
    /\ Call(s, "end", s, 0)
    /\ UNCHANGED <<sender, shutdown, backoff, guard, seeded, starts, made, views, reply,
                   worker, pipe, lines, sidecar, disk>>

\* A client asks for the screen of a session that is not live.
GetSnapshot(s) ==
    /\ ctl["viewer"].pc = "idle" /\ s \notin live
    /\ views < MaxViews
    /\ views' = views + 1
    /\ Call("viewer", "get", s, 0)
    /\ UNCHANGED <<manager, live, starts, made, reply, worker, pipe, lines, sidecar, disk>>

\* A client resizes the terminal of a live session, under the same lock. The
\* session is tracked from then on, also if it could not be started.
ResizeSession(s) ==
    /\ ctl["viewer"].pc = "idle" /\ s \in live /\ ctl[s].op # "start"
    /\ views < MaxViews
    /\ views' = views + 1
    /\ tracked' = tracked \cup {s}
    /\ Call("viewer", "resize", s, 0)
    /\ UNCHANGED <<sender, shutdown, backoff, guard, seeded, live, starts, made, reply,
                   worker, pipe, lines, sidecar, disk>>

(***************************************************************************)
(* Worker handles                                                          *)
(***************************************************************************)

\* Mutant: a mirrored chunk that is acknowledged, and so retried.
AcknowledgedWrites == {"start", "get", "flush", "write"}

\* The commands the daemon waits for an answer to.
Requests == {"start", "get", "flush"}
Closed(w) == task[w] \in {"killing", "leaving", "stopped"}
Usable(w) == w # 0 /\ ~Closed(w) /\ w \notin cancelled
\* Mutant: the stale worker is cancelled and not waited for.
CancelledOnly(w) == w # 0 => w \in cancelled

\* wait_stopped: this exact worker has reaped its sidecar.
Stopped(w) == w # 0 => task[w] = "stopped"

Room(w) == Len(queue[w]) < QueueCap

\* The message p queues on w, with its own reply slot when it is a request.
Enqueue(w, m) ==
    /\ queue' = [queue EXCEPT ![w] = Append(@, m)]
    /\ reply' = IF m.op \in Requests THEN [reply EXCEPT ![m.by] = "none"] ELSE reply

Message(p) == [op |-> ctl[p].op, s |-> ctl[p].s, arg |-> ctl[p].arg, by |-> p]

Goto(p, pc) == ctl' = [ctl EXCEPT ![p].pc = pc]
GiveUp(p) == ctl' = [ctl EXCEPT ![p] = Idle]

(***************************************************************************)
(* ensure_sender                                                           *)
(***************************************************************************)

\* The fast path: no restart_guard, only the state lock.
Ensure(p) ==
    /\ ctl[p].pc = "ensure"
    /\ IF shutdown THEN GiveUp(p)
       ELSE IF Usable(sender) THEN ctl' = [ctl EXCEPT ![p].pc = "send", ![p].w = sender]
       ELSE Goto(p, "gate")
    /\ UNCHANGED <<manager, daemon, reply, worker, pipe, lines, sidecar, disk>>

\* Under restart_guard the state is read again; the stale worker is taken out.
Gate(p) ==
    /\ ctl[p].pc = "gate" /\ guard = "nobody"
    /\ IF shutdown THEN GiveUp(p) /\ UNCHANGED <<sender, guard, cancelled>>
       ELSE IF Usable(sender)
       THEN /\ ctl' = [ctl EXCEPT ![p].pc = "send", ![p].w = sender]
            /\ UNCHANGED <<sender, guard, cancelled>>
       ELSE /\ ctl' = [ctl EXCEPT ![p].pc = "reap", ![p].w = sender,
                                  ![p].todo = tracked, ![p].due = ~backoff]
            /\ guard' = p
            /\ sender' = 0
            /\ cancelled' = cancelled \cup ({sender} \ {0})
    /\ UNCHANGED <<shutdown, tracked, backoff, seeded, daemon, reply, spawned, task,
                   queue, current, pipe, lines, sidecar, disk>>

\* The stale worker has reaped its sidecar, and the last failure is long enough ago.
SpawnWorker(p) ==
    /\ ctl[p].pc = "reap" /\ Stopped(ctl[p].w) /\ ctl[p].due /\ spawned < MaxWorkers
    /\ spawned' = spawned + 1
    /\ task' = [task EXCEPT ![spawned + 1] = "recv"]
    /\ child' = [child EXCEPT ![spawned + 1] = "up"]
    /\ ctl' = [ctl EXCEPT ![p].pc = "replay", ![p].w = spawned + 1]
    /\ UNCHANGED <<manager, daemon, reply, cancelled, queue, current, pipe, lines,
                   mirrors, dirty, hurt, disk>>

\* No sidecar is started: too early, or it cannot be (or the bound is reached).
NoWorker(p) ==
    /\ ctl[p].pc = "reap" /\ Stopped(ctl[p].w)
    /\ ~ctl[p].due \/ "spawn" \in Faults \/ spawned = MaxWorkers
    /\ GiveUp(p)
    /\ guard' = "nobody"
    /\ backoff' = (backoff \/ ctl[p].due)
    /\ UNCHANGED <<sender, shutdown, tracked, seeded, daemon, reply, worker, pipe,
                   lines, sidecar, disk>>

\* The tracked sessions are started again one by one, before anybody else can
\* reach the new worker.
Replay(p) ==
    /\ ctl[p].pc = "replay"
    /\ LET w == ctl[p].w IN
       \/ /\ ctl[p].todo # {} /\ Closed(w)
          /\ cancelled' = cancelled \cup {w}
          /\ Goto(p, "abandon")
          /\ UNCHANGED <<reply, queue>>
       \/ \E s \in ctl[p].todo :
            /\ ~Closed(w) /\ Room(w)
            /\ Enqueue(w, [op |-> "start", s |-> s, by |-> p,
                           arg |-> IF s \in DOMAIN disk THEN 1 ELSE 0])
            /\ ctl' = [ctl EXCEPT ![p].pc = "replayed", ![p].todo = @ \ {s}]
            /\ UNCHANGED cancelled
    /\ UNCHANGED <<manager, daemon, spawned, task, current, pipe, lines, sidecar, disk>>

Replayed(p) ==
    /\ ctl[p].pc = "replayed"
    /\ \/ reply[p] = "ok" /\ Goto(p, "replay") /\ UNCHANGED cancelled
       \/ /\ reply[p] \notin {"none", "ok"} \/ "slow" \in Faults
          /\ Goto(p, "abandon")
          /\ cancelled' = cancelled \cup {ctl[p].w}
    /\ reply' = [reply EXCEPT ![p] = "none"]
    /\ UNCHANGED <<manager, daemon, spawned, task, queue, current, pipe, lines,
                   sidecar, disk>>

\* A new worker that could not be brought up, or came up too late, is reaped.
Abandon(p) ==
    /\ ctl[p].pc \in {"abandon", "discard"} /\ Stopped(ctl[p].w)
    /\ GiveUp(p)
    /\ guard' = "nobody"
    /\ backoff' = (backoff \/ ctl[p].pc = "abandon")
    /\ UNCHANGED <<sender, shutdown, tracked, seeded, daemon, reply, worker, pipe,
                   lines, sidecar, disk>>

Install(p) ==
    /\ ctl[p].pc = "replay" /\ ctl[p].todo = {}
    /\ IF shutdown
       THEN /\ Goto(p, "discard")
            /\ cancelled' = cancelled \cup {ctl[p].w}
            /\ UNCHANGED <<sender, backoff, guard>>
       ELSE /\ Goto(p, "send")
            /\ sender' = ctl[p].w
            /\ backoff' = FALSE
            /\ guard' = "nobody"
            /\ UNCHANGED cancelled
    /\ UNCHANGED <<shutdown, tracked, seeded, daemon, reply, spawned, task, queue,
                   current, pipe, lines, sidecar, disk>>

BackoffElapses ==
    /\ backoff
    /\ backoff' = FALSE
    /\ UNCHANGED <<sender, shutdown, tracked, guard, seeded, daemon, ctl, reply,
                   worker, pipe, lines, sidecar, disk>>

(***************************************************************************)
(* request, fire_and_forget and invalidate_worker                          *)
(***************************************************************************)

\* The worker p used failed it: cancel it first, then wait for restart_guard.
Invalidate(p) ==
    /\ cancelled' = cancelled \cup {ctl[p].w}
    /\ Goto(p, "invalid")

Send(p) ==
    /\ ctl[p].pc = "send"
    /\ LET w == ctl[p].w
           request == ctl[p].op \in Requests IN
       \/ Closed(w) /\ Invalidate(p) /\ UNCHANGED <<queue, reply>>
       \/ /\ ~Closed(w) /\ Room(w)
          /\ Enqueue(w, Message(p))
          /\ IF request THEN Goto(p, "await") ELSE GiveUp(p)
          /\ UNCHANGED cancelled
       \* try_send: a full queue drops the command.
       \/ /\ ~Closed(w) /\ ~Room(w) /\ ~request
          /\ GiveUp(p)
          /\ UNCHANGED <<queue, reply, cancelled>>
    /\ UNCHANGED <<manager, daemon, spawned, task, current, pipe, lines, sidecar, disk>>

\* The reply, its loss, or recovery_caller_timeout.
Await(p) ==
    /\ ctl[p].pc = "await"
    /\ \/ /\ reply[p] \notin {"none", "failed"}
          /\ IF ctl[p].op = "start" /\ reply[p] = "ok" THEN Goto(p, "track") ELSE GiveUp(p)
          /\ UNCHANGED cancelled
       \/ reply[p] = "failed" /\ Invalidate(p)
       \/ "slow" \in Faults /\ Invalidate(p)
    /\ reply' = [reply EXCEPT ![p] = "none"]
    /\ UNCHANGED <<manager, daemon, spawned, task, queue, current, pipe, lines,
                   sidecar, disk>>

\* start_session takes the state lock again to record the session.
Track(p) ==
    /\ ctl[p].pc = "track"
    /\ tracked' = tracked \cup {ctl[p].s}
    /\ GiveUp(p)
    /\ UNCHANGED <<sender, shutdown, backoff, guard, seeded, daemon, reply, worker,
                   pipe, lines, sidecar, disk>>

\* invalidate_worker clears the installed worker only if it is the one that failed.
Uninstall(p) ==
    /\ ctl[p].pc = "invalid" /\ guard = "nobody"
    /\ guard' = p
    /\ sender' = IF sender = ctl[p].w THEN 0 ELSE sender
    /\ Goto(p, "drain")
    /\ UNCHANGED <<shutdown, tracked, backoff, seeded, daemon, reply, worker, pipe,
                   lines, sidecar, disk>>

\* A second attempt after the first failure, and none after the second.
Drain(p) ==
    /\ ctl[p].pc = "drain" /\ Stopped(ctl[p].w)
    /\ guard' = "nobody"
    /\ IF ctl[p].again THEN GiveUp(p)
       ELSE ctl' = [ctl EXCEPT ![p].pc = "ensure", ![p].again = TRUE]
    /\ UNCHANGED <<sender, shutdown, tracked, backoff, seeded, daemon, reply, worker,
                   pipe, lines, sidecar, disk>>

(***************************************************************************)
(* flush_and_shutdown                                                      *)
(***************************************************************************)

\* It does not take restart_guard: a restart under way finds shutdown set.
Shutdown ==
    /\ ctl["stop"].pc = "idle"
    /\ shutdown' = TRUE
    /\ sender' = 0
    /\ ctl' = [ctl EXCEPT !["stop"] =
                   [Idle EXCEPT !.pc = IF sender = 0 THEN "clear" ELSE "ask",
                                !.op = "flush", !.w = sender]]
    /\ UNCHANGED <<tracked, backoff, guard, seeded, daemon, reply, worker, pipe, lines,
                   sidecar, disk>>

AskFlush ==
    /\ ctl["stop"].pc = "ask"
    /\ LET w == ctl["stop"].w IN
       \/ /\ Closed(w)
          /\ cancelled' = cancelled \cup {w}
          /\ Goto("stop", "clear")
          /\ UNCHANGED <<queue, reply>>
       \/ /\ ~Closed(w) /\ Room(w)
          /\ Enqueue(w, Message("stop"))
          /\ Goto("stop", "flushing")
          /\ UNCHANGED cancelled
    /\ UNCHANGED <<manager, daemon, spawned, task, current, pipe, lines, sidecar, disk>>

\* Any answer counts as graceful; a failure or the timeout cancels the worker.
Flushed ==
    /\ ctl["stop"].pc = "flushing"
    /\ \/ reply["stop"] \notin {"none", "failed"} /\ UNCHANGED cancelled
       \/ /\ reply["stop"] = "failed" \/ "slow" \in Faults
          /\ cancelled' = cancelled \cup {ctl["stop"].w}
    /\ Goto("stop", "clear")
    /\ reply' = [reply EXCEPT !["stop"] = "none"]
    /\ UNCHANGED <<manager, daemon, spawned, task, queue, current, pipe, lines,
                   sidecar, disk>>

ShutdownDone ==
    /\ ctl["stop"].pc = "clear"
    /\ Stopped(ctl["stop"].w)
    /\ tracked' = {}
    /\ Goto("stop", "done")
    /\ UNCHANGED <<sender, shutdown, backoff, guard, seeded, daemon, reply, worker,
                   pipe, lines, sidecar, disk>>

(***************************************************************************)
(* recovery_worker                                                         *)
(***************************************************************************)

\* Mutant: whoever is still queued is not told.
CloseForgets(w, how, answered) ==
    LET lost == {p \in Callers : ~answered /\ p = current[w]} IN
    /\ task' = [task EXCEPT ![w] = how]
    /\ queue' = [queue EXCEPT ![w] = <<>>]
    /\ current' = [current EXCEPT ![w] = "nobody"]
    /\ cancelled' = cancelled \cup {w}   \* a closed worker is as good as cancelled
    /\ reply' = [p \in Callers |->
                    IF answered /\ p = current[w] THEN Head(lines[w]).v
                    ELSE IF p \in lost THEN "failed" ELSE reply[p]]

\* The receiver is closed: everything queued is dropped, and whoever waits for
\* a reply learns that it will not come.
Close(w, how, answered) ==
    LET lost == {p \in Callers :
                    \/ \E i \in DOMAIN queue[w] :
                          queue[w][i].by = p /\ queue[w][i].op \in Requests
                    \/ ~answered /\ p = current[w]} IN
    /\ task' = [task EXCEPT ![w] = how]
    /\ queue' = [queue EXCEPT ![w] = <<>>]
    /\ current' = [current EXCEPT ![w] = "nobody"]
    /\ cancelled' = cancelled \cup {w}   \* a closed worker is as good as cancelled
    /\ reply' = [p \in Callers |->
                    IF answered /\ p = current[w] THEN Head(lines[w]).v
                    ELSE IF p \in lost THEN "failed" ELSE reply[p]]

Receive(w) ==
    /\ task[w] = "recv" /\ w \notin cancelled /\ queue[w] # <<>>
    /\ LET m == Head(queue[w]) IN
       /\ m.op \in Requests \/ child[w] = "up"
       /\ queue' = [queue EXCEPT ![w] = Tail(@)]
       /\ pipe' = [pipe EXCEPT ![w] = Append(@, m)]
       /\ IF m.op \in Requests
          THEN /\ task' = [task EXCEPT ![w] = "await"]
               /\ current' = [current EXCEPT ![w] = m.by]
          ELSE UNCHANGED <<task, current>>
    /\ UNCHANGED <<manager, daemon, ctl, reply, spawned, cancelled, lines, sidecar, disk>>

\* A mirrored command cannot be written: the sidecar is gone or stopped reading.
WriteFails(w) ==
    /\ task[w] = "recv" /\ w \notin cancelled /\ queue[w] # <<>>
    /\ Head(queue[w]).op \notin Requests
    /\ child[w] # "up" \/ "slow" \in Faults
    /\ Close(w, "killing", FALSE)
    /\ UNCHANGED <<manager, daemon, ctl, spawned, pipe, lines, sidecar, disk>>

\* The next line of stdout is taken for the answer, whatever it answers.
Answer(w) ==
    /\ task[w] = "await" /\ w \notin cancelled /\ lines[w] # <<>>
    /\ lines' = [lines EXCEPT ![w] = Tail(@)]
    /\ IF current[w] = "stop"
       THEN Close(w, "leaving", TRUE)
       ELSE /\ reply' = [reply EXCEPT ![current[w]] = Head(lines[w]).v]
            /\ task' = [task EXCEPT ![w] = "recv"]
            /\ current' = [current EXCEPT ![w] = "nobody"]
            /\ UNCHANGED <<queue, cancelled>>
    /\ UNCHANGED <<manager, daemon, ctl, spawned, pipe, sidecar, disk>>

\* recovery_request_timeout, or the end of stdout.
NoAnswer(w) ==
    /\ task[w] = "await" /\ w \notin cancelled
    /\ "slow" \in Faults \/ (child[w] # "up" /\ lines[w] = <<>>)
    /\ Close(w, "killing", FALSE)
    /\ UNCHANGED <<manager, daemon, ctl, spawned, pipe, lines, sidecar, disk>>

Cancelled(w) ==
    /\ task[w] \in {"recv", "await"} /\ w \in cancelled
    /\ Close(w, "killing", FALSE)
    /\ UNCHANGED <<manager, daemon, ctl, spawned, pipe, lines, sidecar, disk>>

\* A killed or crashed sidecar takes its screens with it.
Dies(w) ==
    /\ child' = [child EXCEPT ![w] = "dead"]
    /\ mirrors' = [mirrors EXCEPT ![w] = <<>>]
    /\ dirty' = [dirty EXCEPT ![w] = {}]
    /\ UNCHANGED hurt

\* kill_and_reap_child at once, wait_for_child_exit with a timeout.
StopWorker(w) ==
    /\ \/ task[w] = "killing"
       \/ task[w] = "leaving" /\ (child[w] # "up" \/ "slow" \in Faults)
    /\ task' = [task EXCEPT ![w] = "stopped"]
    /\ lines' = [lines EXCEPT ![w] = <<>>]
    /\ IF child[w] = "exited" THEN UNCHANGED <<sidecar, pipe>>
       ELSE Dies(w) /\ pipe' = [pipe EXCEPT ![w] = <<>>]
    /\ UNCHANGED <<manager, daemon, ctl, reply, spawned, cancelled, queue, current, disk>>

(***************************************************************************)
(* The sidecar: one command a step                                         *)
(***************************************************************************)

\* A line for every request, and for every command that fails.
Emit(w, m, v) ==
    lines' = IF m.op \in Requests \/ v = "error"
             THEN [lines EXCEPT ![w] = Append(@, [by |-> m.by, op |-> m.op, v |-> v])]
             ELSE lines

Persisted(w, ss) ==
    [s \in DOMAIN disk \cup ss |-> IF s \in ss THEN mirrors[w][s] ELSE disk[s]]

Take(w, op) ==
    /\ child[w] = "up" /\ pipe[w] # <<>> /\ Head(pipe[w]).op = op
    /\ pipe' = [pipe EXCEPT ![w] = Tail(@)]
    /\ UNCHANGED <<manager, daemon, ctl, reply, worker>>

\* Whether the file or the terminal operation of a command succeeds.
DiskOutcomes == IF "disk" \in Faults THEN BOOLEAN ELSE {TRUE}

HandleStart(w) ==
    /\ Take(w, "start")
    /\ \E ok \in DiskOutcomes :
       LET m == Head(pipe[w])
           resume == m.arg = 1
           fine == ok /\ m.s \notin DOMAIN mirrors[w] /\ (resume => m.s \in DOMAIN disk) IN
       /\ mirrors' = IF ~fine THEN mirrors ELSE
             [mirrors EXCEPT ![w] = Put(@, m.s, IF resume THEN disk[m.s] ELSE <<>>)]
       /\ disk' = IF fine /\ ~resume THEN Without(disk, m.s) ELSE disk
       /\ Emit(w, m, IF fine THEN "ok" ELSE "error")
    /\ UNCHANGED <<child, dirty, hurt>>

HandleWrite(w) ==
    /\ Take(w, "write")
    /\ LET m == Head(pipe[w]) IN
       IF m.s \notin DOMAIN mirrors[w]
       THEN Emit(w, m, "error") /\ UNCHANGED <<mirrors, dirty>>
       ELSE /\ mirrors' = [mirrors EXCEPT ![w][m.s] = Append(@, m.arg)]
            /\ dirty' = [dirty EXCEPT ![w] = @ \cup {m.s}]
            /\ Emit(w, m, "ok")
    /\ UNCHANGED <<child, hurt, disk>>

HandleResize(w) ==
    /\ Take(w, "resize")
    /\ \E ok \in DiskOutcomes :
       LET m == Head(pipe[w])
           fine == ok /\ m.s \in DOMAIN mirrors[w] IN
       /\ dirty' = IF fine THEN [dirty EXCEPT ![w] = @ \cup {m.s}] ELSE dirty
       /\ Emit(w, m, IF fine THEN "ok" ELSE "error")
    /\ UNCHANGED <<child, mirrors, hurt, disk>>

HandleEnd(w) ==
    /\ Take(w, "end")
    /\ \E ok \in DiskOutcomes :
       LET m == Head(pipe[w]) IN
       /\ mirrors' = [mirrors EXCEPT ![w] = Without(@, m.s)]
       /\ dirty' = [dirty EXCEPT ![w] = @ \ {m.s}]
       /\ disk' = IF ok THEN Without(disk, m.s) ELSE disk
       /\ Emit(w, m, IF ok THEN "ok" ELSE "error")
    /\ UNCHANGED <<child, hurt>>

HandleGet(w) ==
    /\ Take(w, "get")
    /\ \E ok \in DiskOutcomes :
       LET m == Head(pipe[w]) IN
       Emit(w, m, IF ~ok THEN "error"
                  ELSE IF m.s \in DOMAIN mirrors[w] \cup DOMAIN disk THEN "snapshot"
                  ELSE "notfound")
    /\ UNCHANGED <<sidecar, disk>>

\* What is saved when every dirty screen is to be: all of it, unless a file fails.
SavedSets(w) == IF "disk" \in Faults THEN SUBSET dirty[w] ELSE {dirty[w]}

SaveAll(w, saved) ==
    /\ disk' = Persisted(w, saved)
    /\ dirty' = [dirty EXCEPT ![w] = @ \ saved]
    /\ hurt' = IF saved = dirty[w] THEN hurt ELSE hurt \cup {w}

\* It stops at the first file it cannot write, and then does not exit.
HandleFlush(w) ==
    /\ Take(w, "flush")
    /\ \E saved \in SavedSets(w) :
       LET ok == saved = dirty[w] IN
       /\ SaveAll(w, saved)
       /\ child' = [child EXCEPT ![w] = IF ok THEN "exited" ELSE @]
       /\ Emit(w, Head(pipe[w]), IF ok THEN "ok" ELSE "error")
    /\ UNCHANGED mirrors

\* The debounced save of one session.
FlushDue(w) ==
    /\ child[w] = "up"
    /\ \E s \in dirty[w] :
        /\ disk' = Persisted(w, {s})
        /\ dirty' = [dirty EXCEPT ![w] = @ \ {s}]
    /\ UNCHANGED <<manager, daemon, ctl, reply, worker, pipe, lines, child, mirrors, hurt>>

\* Mutant: the end of input is an exit like any other.
ExitAtOnce(w) ==
    /\ child[w] = "up" /\ Closed(w) /\ pipe[w] = <<>>
    /\ child' = [child EXCEPT ![w] = "exited"]
    /\ UNCHANGED <<manager, daemon, ctl, reply, worker, pipe, lines, mirrors, dirty, hurt, disk>>

\* The daemon's end of the pipe is closed: save what is dirty and exit.
EndOfInput(w) ==
    /\ child[w] = "up" /\ Closed(w) /\ pipe[w] = <<>>
    /\ \E saved \in SavedSets(w) : SaveAll(w, saved)
    /\ child' = [child EXCEPT ![w] = "exited"]
    /\ UNCHANGED <<manager, daemon, ctl, reply, worker, pipe, lines, mirrors>>

Crash(w) ==
    /\ "crash" \in Faults /\ child[w] = "up"
    /\ Dies(w)
    /\ UNCHANGED <<manager, daemon, ctl, reply, worker, pipe, lines, disk>>

(***************************************************************************)
(* Specification                                                           *)
(***************************************************************************)

Ask ==
    \E s \in Sessions :
        \/ SeedSnapshot(s) \/ SpawnSession(s) \/ AdoptSession(s) \/ Output(s)
        \/ EndSession(s) \/ ResizeSession(s) \/ GetSnapshot(s)

Manage(p) ==
    \/ Ensure(p) \/ Gate(p) \/ SpawnWorker(p) \/ NoWorker(p)
    \/ Replay(p) \/ Replayed(p) \/ Abandon(p) \/ Install(p)
    \/ Send(p) \/ Await(p) \/ Track(p) \/ Uninstall(p) \/ Drain(p)

Work(w) ==
    \/ Receive(w) \/ WriteFails(w) \/ Answer(w) \/ NoAnswer(w) \/ Cancelled(w)
    \/ StopWorker(w)

Serve(w) ==
    \/ HandleStart(w) \/ HandleWrite(w) \/ HandleResize(w) \/ HandleEnd(w)
    \/ HandleGet(w) \/ HandleFlush(w) \/ EndOfInput(w)

Next ==
    \/ Ask
    \/ \E p \in Callers : Manage(p)
    \/ BackoffElapses
    \/ Shutdown \/ AskFlush \/ Flushed \/ ShutdownDone
    \/ \E w \in Workers : Work(w) \/ Serve(w) \/ FlushDue(w) \/ Crash(w)

Spec == Init /\ [][Next]_vars

(***************************************************************************)
(* Properties                                                              *)
(***************************************************************************)

Contents == UNION {[1..n -> 0..MaxChunks] : n \in 0..(MaxChunks + 1)}
Files == UNION {[ss -> Contents] : ss \in SUBSET Sessions}

\* The types of the manager's, the workers' and the sidecars' state.
TypeOK ==
    /\ sender \in 0..spawned /\ spawned \in 0..MaxWorkers
    /\ shutdown \in BOOLEAN /\ backoff \in BOOLEAN
    /\ tracked \subseteq Sessions /\ seeded \subseteq Sessions /\ live \subseteq Sessions
    /\ guard \in Callers \cup {"nobody"}
    /\ \A p \in Callers : ctl[p].w \in 0..spawned /\ ctl[p].todo \subseteq Sessions
    /\ \A p \in Callers :
         reply[p] \in {"none", "ok", "error", "snapshot", "notfound", "failed"}
    /\ \A w \in Workers :
         /\ task[w] \in {"unborn", "recv", "await", "killing", "leaving", "stopped"}
         /\ child[w] \in {"unborn", "up", "exited", "dead"}
         /\ Len(queue[w]) <= QueueCap
         /\ current[w] # "nobody" <=> task[w] = "await"
         /\ mirrors[w] \in Files
         /\ dirty[w] \subseteq DOMAIN mirrors[w]
    /\ cancelled \subseteq 1..spawned /\ hurt \subseteq 1..spawned
    /\ disk \in Files

\* The snapshot directory has one writer: whatever callers time out, cancel,
\* restart and shut down at once, a sidecar is started only when every earlier
\* one is dead (restart_guard, cancel_and_wait, the reread under the guard).
OneSidecar == Cardinality({w \in Workers : child[w] = "up"}) <= 1

\* A mirror or a file holds each chunk of output at most once and in the order
\* the session produced them, through retries, restarts and resumed files.
InOrder ==
    \A f \in {disk} \cup {mirrors[w] : w \in Workers} : \A s \in DOMAIN f :
        \A i, j \in DOMAIN f[s] : i < j => f[s][i] < f[s][j]

\* When flush_and_shutdown returns and the sidecar it stopped was not killed,
\* that one has handled everything it was sent and saved every screen it held;
\* only a seed for the next session of the id may have replaced it since.
FlushSaves ==
    LET w == ctl["stop"].w IN
    ctl["stop"].pc = "done" /\ w # 0 /\ child[w] = "exited" /\ w \notin hurt =>
        /\ pipe[w] = <<>> /\ dirty[w] = {}
        /\ \A s \in DOMAIN mirrors[w] : mirrors[w][s] # <<>> =>
             s \in DOMAIN disk /\ disk[s] \in {mirrors[w][s], Seed}

\* Nobody waits for something that cannot come.  A caller that waits for a
\* worker to reap its sidecar, restart_guard in hand or not, waits for one that
\* has been told to stop; a caller that waits for a reply has its request queued
\* or with the sidecar, or the reply is there; restart_guard is held only by a
\* caller in the middle of a restart or of an invalidation.
NobodyStranded ==
    /\ \A p \in Callers :
         /\ ctl[p].pc \in {"reap", "abandon", "discard", "drain", "clear"} /\ ctl[p].w # 0 =>
              ctl[p].w \in cancelled
         /\ ctl[p].pc \in {"await", "replayed", "flushing"} /\ reply[p] = "none" =>
              \/ current[ctl[p].w] = p
              \/ \E i \in DOMAIN queue[ctl[p].w] :
                   queue[ctl[p].w][i].by = p /\ queue[ctl[p].w][i].op \in Requests
    /\ \A p \in Callers :
         guard = p <=> ctl[p].pc \in {"reap", "replay", "replayed", "abandon", "discard", "drain"}

\* A line the worker takes for the answer to a request answers that request:
\* "write output should not emit a response".
RepliesMatch ==
    \A w \in Workers :
        task[w] = "await" /\ lines[w] # <<>> => Head(lines[w]).by = current[w]

\* A seed that was accepted is there when its Spawn takes it: "The kill above
\* deleted the session's persisted recovery snapshot, so the seed must land
\* after it".
SeedSurvives == seeded \subseteq DOMAIN disk
=============================================================================
