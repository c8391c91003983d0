--------------------------- MODULE RecoveryProofs ---------------------------
(***************************************************************************)
(* At most one sidecar is ever alive, and nobody waits for something that  *)
(* cannot come, for every number of sessions, restarts, queue slots and    *)
(* faults.                                                                 *)
(*                                                                         *)
(* A worker whose sidecar may still run is always in somebody's hands: it  *)
(* is the installed one, or the holder of restart_guard started or drains  *)
(* it, or flush_and_shutdown has taken it.  A restart can start a new one  *)
(* because it has emptied the first place, waits for the worker in the     *)
(* second to stop, and the third is empty: a shutdown that comes during a  *)
(* restart finds nothing to take, and a restart after a shutdown gives up. *)
(*                                                                         *)
(* A caller that awaits a reply has its request with the worker it holds   *)
(* (Asked), and one that awaits the end of a worker has told it to stop    *)
(* (Told).                                                                 *)
(***************************************************************************)
EXTENDS Recovery, FiniteSetTheorems, TLAPS

Restarting == {"reap", "replay", "replayed", "abandon", "discard"}
Guarding == Restarting \cup {"drain"}
CallerPcs == Guarding \cup {"idle", "ensure", "gate", "send", "await", "track", "invalid"}
StopPcs == {"idle", "ask", "flushing", "clear", "done"}
Alive == {"recv", "await", "killing", "leaving"}

Ops == {"none", "start", "write", "end", "get", "resize", "flush"}
Owners == Sessions \cup {"nobody"}
Frames == [pc : CallerPcs \cup StopPcs, op : Ops, s : Owners, arg : Nat,
           again : BOOLEAN, w : Nat, todo : SUBSET Owners, due : BOOLEAN]

\* What the proof needs to know of types.
Types ==
    /\ sender \in Nat /\ spawned \in Nat
    /\ shutdown \in BOOLEAN /\ backoff \in BOOLEAN
    /\ tracked \in SUBSET Owners
    /\ made \in [Sessions -> Nat]
    /\ ctl \in [Callers -> Frames]
    /\ task \in [Workers -> Alive \cup {"unborn", "stopped"}]
    /\ child \in [Workers -> {"unborn", "up", "exited", "dead"}]

\* A running sidecar has a worker task that has not reaped it.
Owned == \A w \in Workers : child[w] = "up" => task[w] \in Alive

\* Only the holder of restart_guard restarts or drains; the shutdown has its own way.
Roles ==
    /\ \A p \in Callers : ctl[p].pc \in Guarding => guard = p
    /\ ctl["stop"].pc \in StopPcs
    /\ ctl["stop"].pc = "idle" => shutdown = FALSE
    /\ shutdown = FALSE => ctl["stop"].w = 0

\* During a restart no worker is installed and the shutdown has taken none.
Quiet ==
    \A p \in Callers : ctl[p].pc \in Restarting => sender = 0 /\ ctl["stop"].w = 0

\* Whoever has not stopped is in somebody's hands.
Held ==
    \A w \in Workers : task[w] \in Alive =>
        \/ w = sender
        \/ w = ctl["stop"].w
        \/ \E p \in Callers : guard = p /\ ctl[p].w = w /\ ctl[p].pc \in Guarding

Unique == \A v, w \in Workers : task[v] \in Alive /\ task[w] \in Alive => v = w

SidecarInv == Types /\ Owned /\ Roles /\ Quiet /\ Held /\ Unique

\* Who the callers are.
LEMMA CallerFacts ==
    /\ "stop" \in Callers /\ "viewer" \in Callers /\ "nobody" \notin Callers
    /\ Sessions \subseteq Callers \ {"stop", "viewer"}
    /\ \A w \in Workers : w \in Nat /\ w # 0
BY RecoveryAssumption DEF Callers, Workers

\* A step of the worker tasks or the sidecars: a stopped worker stays stopped.
LEMMA WorkerMoves ==
    ASSUME SidecarInv, UNCHANGED <<manager, daemon, ctl, spawned>>,
           task' \in [Workers -> Alive \cup {"unborn", "stopped"}],
           child' \in [Workers -> {"unborn", "up", "exited", "dead"}],
           \A w \in Workers : task'[w] \in Alive => task[w] \in Alive,
           Owned'
    PROVE  SidecarInv'
<1>1. Types' BY DEF SidecarInv, Types, manager, daemon
<1>2. Roles' /\ Quiet' BY DEF SidecarInv, Roles, Quiet, manager
<1>3. Held' BY DEF SidecarInv, Held, manager
<1>4. Unique' BY DEF SidecarInv, Unique
<1> QED BY <1>1, <1>2, <1>3, <1>4 DEF SidecarInv

\* Caller p is at pc afterwards, with worker w in hand; nobody else has moved.
Moved(p, pc, w) ==
    /\ ctl' \in [Callers -> Frames]
    /\ ctl'[p].pc = pc /\ ctl'[p].w = w
    /\ \A q \in Callers : q # p => ctl'[q] = ctl[q]

\* A caller that goes on keeps its worker.
LEMMA GotoMoves ==
    ASSUME ctl \in [Callers -> Frames], NEW p \in Callers,
           NEW pc \in CallerPcs \cup StopPcs, Goto(p, pc)
    PROVE  Moved(p, pc, ctl[p].w)
BY DEF Goto, Moved, Frames

\* A call that returns leaves nothing behind.
LEMMA GiveUpMoves ==
    ASSUME ctl \in [Callers -> Frames], NEW p \in Callers, GiveUp(p)
    PROVE  Moved(p, "idle", 0)
<1>1. Idle \in Frames /\ Idle.pc = "idle" /\ Idle.w = 0 BY DEF Idle, Frames, CallerPcs, Ops, Owners
<1> QED BY <1>1 DEF GiveUp, Moved

\* A call starts without a worker.
LEMMA CallMoves ==
    ASSUME ctl \in [Callers -> Frames], NEW p \in Callers, NEW op \in Ops,
           NEW s \in Sessions, NEW arg \in Nat, Call(p, op, s, arg)
    PROVE  Moved(p, "ensure", 0)
<1> DEFINE f == [Idle EXCEPT !.pc = "ensure", !.op = op, !.s = s, !.arg = arg]
<1>1. f \in Frames /\ f.pc = "ensure" /\ f.w = 0 BY DEF Idle, Frames, CallerPcs, Ops, Owners
<1>2. ctl' = [ctl EXCEPT ![p] = f] BY DEF Call
<1> HIDE DEF f
<1> QED BY <1>1, <1>2 DEF Moved

\* A caller takes a worker in hand.
LEMMA HandMoves ==
    ASSUME ctl \in [Callers -> Frames], NEW p \in Callers,
           NEW pc \in CallerPcs, NEW w \in Nat,
           ctl' = [ctl EXCEPT ![p].pc = pc, ![p].w = w]
    PROVE  Moved(p, pc, w)
<1> DEFINE f == [ctl[p] EXCEPT !.pc = pc, !.w = w]
<1>1. f \in Frames /\ f.pc = pc /\ f.w = w BY DEF Frames
<1>2. ctl' = [ctl EXCEPT ![p] = f] OBVIOUS
<1> HIDE DEF f
<1> QED BY <1>1, <1>2 DEF Moved

\* A step of one caller in its own frame, neither entering nor leaving restart_guard.
LEMMA CallerMoves ==
    ASSUME SidecarInv, NEW p \in Callers, p # "stop", NEW pc, NEW w, Moved(p, pc, w),
           ctl[p].pc \in Guarding => pc \in Guarding,
           pc \in Guarding => ctl[p].pc \in Guarding /\ w = ctl[p].w,
           pc \in Restarting => ctl[p].pc \in Restarting,
           UNCHANGED <<sender, shutdown, backoff, guard, spawned, task, child>>,
           tracked' \in SUBSET Owners, made' \in [Sessions -> Nat]
    PROVE  SidecarInv'
<1>0. ctl'["stop"] = ctl["stop"] BY CallerFacts DEF Moved
<1>1. Types' BY DEF SidecarInv, Types, Moved
<1>2. Roles' BY <1>0 DEF SidecarInv, Roles, Moved
<1>3. Quiet' BY <1>0 DEF SidecarInv, Quiet, Moved
<1>4. Held' BY <1>0 DEF SidecarInv, Held, Moved
<1>5. Owned' /\ Unique' BY DEF SidecarInv, Owned, Unique
<1> QED BY <1>1, <1>2, <1>3, <1>4, <1>5 DEF SidecarInv

\* What the daemon asks for starts from an idle caller.
LEMMA AskSafe ==
    ASSUME SidecarInv, Ask
    PROVE  SidecarInv'
<1> PICK s \in Sessions :
      \/ SeedSnapshot(s) \/ SpawnSession(s) \/ AdoptSession(s) \/ Output(s)
      \/ EndSession(s) \/ ResizeSession(s) \/ GetSnapshot(s)
  BY DEF Ask
<1>0. ctl \in [Callers -> Frames] /\ made[s] + 1 \in Nat BY DEF SidecarInv, Types
<1>k. CASE SeedSnapshot(s)
  <2>1. UNCHANGED <<sender, shutdown, backoff, guard, tracked, made, ctl, spawned, task, child>>
    BY <1>k DEF SeedSnapshot, worker, sidecar
  <2> QED BY <2>1 DEF SidecarInv, Types, Owned, Roles, Quiet, Held, Unique
<1> SUFFICES ASSUME ~SeedSnapshot(s) PROVE SidecarInv' BY <1>k
<1>1. \E p \in {s, "viewer"} : ctl[p].pc = "idle" /\ Moved(p, "ensure", 0)
  <2>1. s \in Callers /\ "viewer" \in Callers BY CallerFacts
  <2>c. \A p \in {s, "viewer"}, op \in Ops, arg \in Nat :
          Call(p, op, s, arg) => Moved(p, "ensure", 0)
    BY <1>0, <2>1, CallMoves
  <2>o. {"start", "write", "end", "get", "resize"} \subseteq Ops /\ {0, 1} \subseteq Nat BY DEF Ops
  <2>2. CASE SpawnSession(s) BY <2>c, <2>o, <2>2 DEF SpawnSession
  <2>3. CASE AdoptSession(s) BY <2>c, <2>o, <2>3 DEF AdoptSession
  <2>4. CASE Output(s) BY <1>0, <2>c, <2>o, <2>4 DEF Output
  <2>5. CASE EndSession(s) BY <2>c, <2>o, <2>5 DEF EndSession
  <2>6. CASE ResizeSession(s) BY <2>c, <2>o, <2>6 DEF ResizeSession
  <2>7. CASE GetSnapshot(s) BY <2>c, <2>o, <2>7 DEF GetSnapshot
  <2> QED BY <2>2, <2>3, <2>4, <2>5, <2>6, <2>7
<1>2. /\ UNCHANGED <<sender, shutdown, backoff, guard, spawned, task, child>>
      /\ tracked' \in SUBSET Owners /\ made' \in [Sessions -> Nat]
  BY DEF SidecarInv, Types, Owners, SpawnSession, AdoptSession, Output, EndSession, ResizeSession,
         GetSnapshot, manager, daemon, worker, sidecar
<1> QED BY <1>1, <1>2, CallerFacts, CallerMoves DEF Guarding, Restarting

\* Callers outside a restart.
LEMMA CallSafe ==
    ASSUME SidecarInv, NEW p \in Callers, Ensure(p) \/ Send(p) \/ Await(p) \/ Track(p)
    PROVE  SidecarInv'
<1>0. ctl \in [Callers -> Frames] /\ sender \in Nat BY DEF SidecarInv, Types
<1>s. p # "stop" /\ ctl[p].pc \notin Guarding
  BY DEF SidecarInv, Roles, StopPcs, Guarding, Restarting, Ensure, Send, Await, Track
<1>1. \E pc \in CallerPcs \ Guarding, w \in Nat : Moved(p, pc, w)
  <2>1. {"send", "gate", "await", "track", "invalid", "idle"} \subseteq CallerPcs \ Guarding
    BY DEF CallerPcs, Guarding, Restarting
  <2>w. ctl[p].w \in Nat BY <1>0 DEF Frames
  <2>2. \A pc \in CallerPcs : Goto(p, pc) => Moved(p, pc, ctl[p].w) BY <1>0, GotoMoves
  <2>3. GiveUp(p) => Moved(p, "idle", 0) BY <1>0, GiveUpMoves
  <2>4. ctl' = [ctl EXCEPT ![p].pc = "send", ![p].w = sender] => Moved(p, "send", sender)
    BY <1>0, <2>1, HandMoves
  <2>5. CASE Ensure(p) BY <1>0, <2>1, <2>w, <2>2, <2>3, <2>4, <2>5 DEF Ensure
  <2>6. CASE Send(p) BY <2>1, <2>w, <2>2, <2>3, <2>6 DEF Send, Invalidate
  <2>7. CASE Await(p) BY <2>1, <2>w, <2>2, <2>3, <2>7 DEF Await, Invalidate
  <2>8. CASE Track(p) BY <2>1, <2>3, <2>8 DEF Track
  <2> QED BY <2>5, <2>6, <2>7, <2>8
<1>2. UNCHANGED <<sender, shutdown, backoff, guard, spawned, task, child, made>>
  BY DEF Ensure, Send, Await, Track, manager, daemon, worker, sidecar
<1>3. tracked' \in SUBSET Owners
  <2>1. CASE Track(p)
    <3>1. ctl[p].s \in Owners BY <1>0 DEF Frames
    <3> QED BY <2>1, <3>1 DEF SidecarInv, Types, Track
  <2> QED BY <2>1 DEF SidecarInv, Types, Ensure, Send, Await, manager
<1>4. made' \in [Sessions -> Nat] BY <1>2 DEF SidecarInv, Types
<1> QED BY <1>s, <1>1, <1>2, <1>3, <1>4, CallerMoves DEF Guarding

\* Taking restart_guard: what was installed is now in the holder's hand.
LEMMA EnterSafe ==
    ASSUME SidecarInv, NEW p \in Callers, Gate(p) \/ Uninstall(p)
    PROVE  SidecarInv'
<1>0. ctl \in [Callers -> Frames] /\ sender \in Nat BY DEF SidecarInv, Types
<1>s. /\ p # "stop" /\ ctl[p].pc \notin Guarding /\ guard = "nobody"
      /\ \A q \in Callers : ctl[q].pc \notin Guarding
  BY CallerFacts DEF SidecarInv, Roles, StopPcs, Guarding, Restarting, Gate, Uninstall
<1>u. UNCHANGED <<shutdown, backoff, spawned, task, child, tracked, made>>
  BY DEF Gate, Uninstall, daemon, worker, sidecar
<1>1. CASE UNCHANGED guard
  <2>1. Gate(p) /\ UNCHANGED sender BY <1>s, <1>1, CallerFacts DEF Gate, Uninstall
  <2>2. \E pc \in {"idle", "send"}, w \in Nat : Moved(p, pc, w)
    <3>1. GiveUp(p) => Moved(p, "idle", 0) BY <1>0, GiveUpMoves
    <3>2. ctl' = [ctl EXCEPT ![p].pc = "send", ![p].w = sender] => Moved(p, "send", sender)
      <4>1. "send" \in CallerPcs BY DEF CallerPcs
      <4> QED BY <1>0, <4>1, HandMoves
    <3> QED BY <1>0, <1>s, <1>1, <2>1, <3>1, <3>2, CallerFacts DEF Gate
  <2> QED BY <1>s, <1>u, <1>1, <2>1, <2>2, CallerMoves
             DEF Guarding, Restarting, SidecarInv, Types
<1>2. CASE ~UNCHANGED guard
  <2>1. guard' = p BY <1>2 DEF Gate, Uninstall
  <2>2. \/ /\ sender' = 0 /\ shutdown = FALSE
           /\ Moved(p, "reap", sender)
        \/ /\ sender' = IF sender = ctl[p].w THEN 0 ELSE sender
           /\ Moved(p, "drain", ctl[p].w)
    <3>1. CASE Gate(p)
      <4> DEFINE f == [ctl[p] EXCEPT !.pc = "reap", !.w = sender, !.todo = tracked, !.due = ~backoff]
      <4>1. ctl' = [ctl EXCEPT ![p] = f] /\ sender' = 0 /\ ~shutdown BY <1>2, <3>1 DEF Gate
      <4>2. f \in Frames /\ f.pc = "reap" /\ f.w = sender
        <5>1. ctl[p] \in Frames /\ tracked \in SUBSET Owners /\ backoff \in BOOLEAN /\ sender \in Nat
          BY <1>0 DEF SidecarInv, Types
        <5>2. "reap" \in CallerPcs BY DEF CallerPcs, Guarding, Restarting
        <5> QED BY <5>1, <5>2 DEF Frames
      <4> HIDE DEF f
      <4> QED BY <1>0, <4>1, <4>2 DEF Moved, SidecarInv, Types
    <3>2. CASE Uninstall(p)
      <4>1. "drain" \in CallerPcs BY DEF CallerPcs, Guarding
      <4> QED BY <1>0, <3>2, <4>1, GotoMoves DEF Uninstall
    <3> QED BY <3>1, <3>2
  <2>3. ctl'["stop"] = ctl["stop"] BY <1>s, <2>2, CallerFacts DEF Moved
  <2>4. sender' \in Nat BY <1>0, <2>2
  <2>5. Types' BY <1>u, <2>2, <2>4 DEF SidecarInv, Types, Moved
  <2>6. Roles' BY <1>s, <1>u, <2>1, <2>2, <2>3 DEF SidecarInv, Roles, Moved
  <2>7. Quiet'
    <3>1. \A q \in Callers : q # p => ctl'[q].pc \notin Restarting
      BY <1>s, <2>2 DEF Moved, Guarding
    <3>2. ctl'[p].pc \in Restarting => sender' = 0 /\ ctl["stop"].w = 0
      BY <2>2 DEF Moved, Restarting, SidecarInv, Roles
    <3> QED BY <2>3, <3>1, <3>2 DEF Quiet
  <2>8. Held'
    <3> SUFFICES ASSUME NEW w \in Workers, task[w] \in Alive, w # sender', w # ctl["stop"].w
                 PROVE  ctl'[p].w = w /\ ctl'[p].pc \in Guarding
      BY <1>u, <2>1, <2>3 DEF Held
    <3>1. w = sender BY <1>s DEF SidecarInv, Held
    <3> QED BY <2>2, <3>1 DEF Moved, Guarding, Restarting
  <2>9. Owned' /\ Unique' BY <1>u DEF SidecarInv, Owned, Unique
  <2> QED BY <2>5, <2>6, <2>7, <2>8, <2>9 DEF SidecarInv
<1> QED BY <1>1, <1>2

\* Giving up restart_guard: the worker in hand has stopped.
LEMMA LeaveSafe ==
    ASSUME SidecarInv, NEW p \in Callers, NoWorker(p) \/ Abandon(p) \/ Drain(p)
    PROVE  SidecarInv'
<1>0. ctl \in [Callers -> Frames] BY DEF SidecarInv, Types
<1>s. p # "stop" /\ guard = p /\ ctl[p].pc \in Guarding
  BY DEF SidecarInv, Roles, StopPcs, Guarding, Restarting, NoWorker, Abandon, Drain
<1>u. /\ UNCHANGED <<sender, shutdown, spawned, task, child, tracked, made>>
      /\ guard' = "nobody" /\ backoff' \in BOOLEAN /\ Stopped(ctl[p].w)
  BY <1>0 DEF NoWorker, Abandon, Drain, daemon, worker, sidecar, SidecarInv, Types, Frames
<1>1. \E pc \in {"idle", "ensure"}, w \in Nat : Moved(p, pc, w)
  <2>1. GiveUp(p) => Moved(p, "idle", 0) BY <1>0, GiveUpMoves
  <2>2. ctl' = [ctl EXCEPT ![p].pc = "ensure", ![p].again = TRUE]
          => Moved(p, "ensure", ctl[p].w)
    <3> DEFINE f == [ctl[p] EXCEPT !.pc = "ensure", !.again = TRUE]
    <3>1. f \in Frames /\ f.pc = "ensure" /\ f.w = ctl[p].w BY <1>0 DEF Frames, CallerPcs
    <3> HIDE DEF f
    <3>2. ctl' = [ctl EXCEPT ![p] = f] => Moved(p, "ensure", ctl[p].w) BY <1>0, <3>1 DEF Moved
    <3> QED BY <3>2 DEF f
  <2>3. ctl[p].w \in Nat BY <1>0 DEF Frames
  <2> QED BY <2>1, <2>2, <2>3 DEF NoWorker, Abandon, Drain
<1>2. ctl'["stop"] = ctl["stop"] BY <1>s, <1>1, CallerFacts DEF Moved
<1>3. \A q \in Callers : ctl'[q].pc \notin Guarding
  BY <1>s, <1>1 DEF Moved, SidecarInv, Roles, Guarding, Restarting
<1>4. Types' BY <1>u, <1>1 DEF SidecarInv, Types, Moved
<1>5. Roles' /\ Quiet' BY <1>u, <1>2, <1>3 DEF SidecarInv, Roles, Quiet, Guarding
<1>6. Held'
  <2> SUFFICES ASSUME NEW w \in Workers, task[w] \in Alive
               PROVE  w = sender \/ w = ctl["stop"].w
    BY <1>u, <1>2 DEF Held
  <2>1. w # ctl[p].w BY <1>u, CallerFacts DEF Stopped, Alive
  <2> QED BY <1>s, <2>1 DEF SidecarInv, Held
<1>7. Owned' /\ Unique' BY <1>u DEF SidecarInv, Owned, Unique
<1> QED BY <1>4, <1>5, <1>6, <1>7 DEF SidecarInv

\* Between the two: the new worker is started when every other has stopped,
\* replayed into, and installed unless the shutdown came first.
LEMMA RestartSafe ==
    ASSUME SidecarInv, NEW p \in Callers,
           SpawnWorker(p) \/ Replay(p) \/ Replayed(p) \/ Install(p)
    PROVE  SidecarInv'
<1>0. ctl \in [Callers -> Frames] /\ ctl[p].w \in Nat BY DEF SidecarInv, Types, Frames
<1>s. /\ p # "stop" /\ guard = p /\ ctl[p].pc \in Restarting
      /\ sender = 0 /\ ctl["stop"].w = 0
      /\ \A q \in Callers : q # p => ctl[q].pc \notin Guarding
  BY DEF SidecarInv, Roles, Quiet, StopPcs, Guarding, Restarting, SpawnWorker, Replay, Replayed, Install
<1>g. \A pc \in Restarting : Goto(p, pc) => Moved(p, pc, ctl[p].w)
  BY <1>0, GotoMoves DEF CallerPcs, Guarding
<1>1. CASE SpawnWorker(p)
  <2>1. spawned \in Nat /\ spawned + 1 \in Workers /\ spawned + 1 \in Nat
    BY <1>1, RecoveryAssumption DEF SpawnWorker, Workers, SidecarInv, Types
  <2>2. Moved(p, "replay", spawned + 1)
    BY <1>0, <1>1, <2>1, HandMoves DEF SpawnWorker, CallerPcs, Guarding, Restarting
  <2>3. \A w \in Workers : task[w] \notin Alive
    BY <1>s, <1>1, CallerFacts DEF SpawnWorker, Stopped, Alive, SidecarInv, Held
  <2>4. /\ UNCHANGED <<sender, shutdown, backoff, guard, tracked, made>>
        /\ spawned' = spawned + 1
        /\ task' = [task EXCEPT ![spawned + 1] = "recv"]
        /\ child' = [child EXCEPT ![spawned + 1] = "up"]
    BY <1>1 DEF SpawnWorker, manager, daemon
  <2>5. \A w \in Workers : task'[w] \in Alive => w = spawned + 1
    BY <2>3, <2>4 DEF SidecarInv, Types
  <2>6. ctl'["stop"] = ctl["stop"] BY <1>s, <2>2, CallerFacts DEF Moved
  <2>7. Types' BY <2>1, <2>2, <2>4 DEF SidecarInv, Types, Moved, Alive
  <2>8. Roles' BY <1>s, <2>2, <2>4, <2>6 DEF SidecarInv, Roles, Moved
  <2>9. Quiet' BY <1>s, <2>2, <2>4, <2>6 DEF Quiet
  <2>10. Held' BY <1>s, <2>2, <2>4, <2>5 DEF Held, Moved, Guarding, Restarting
  <2>11. Unique' BY <2>5 DEF Unique
  <2>12. Owned' BY <2>1, <2>4 DEF SidecarInv, Owned, Types, Alive
  <2> QED BY <2>7, <2>8, <2>9, <2>10, <2>11, <2>12 DEF SidecarInv
<1>2. CASE Replay(p) \/ Replayed(p) \/ (Install(p) /\ shutdown)
  <2>1. \E pc \in Restarting : Moved(p, pc, ctl[p].w)
    <3>1. {"replay", "replayed", "abandon", "discard"} \subseteq Restarting BY DEF Restarting
    <3>2. CASE Replay(p)
      <4>1. CASE Goto(p, "abandon") BY <1>g, <3>1, <4>1
      <4>2. CASE ~Goto(p, "abandon")
        <5>1. PICK s \in ctl[p].todo :
                ctl' = [ctl EXCEPT ![p].pc = "replayed", ![p].todo = @ \ {s}]
          BY <3>2, <4>2 DEF Replay
        <5> DEFINE f == [ctl[p] EXCEPT !.pc = "replayed", !.todo = @ \ {s}]
        <5>2. f \in Frames /\ f.pc = "replayed" /\ f.w = ctl[p].w
          BY <1>0 DEF Frames, CallerPcs, Guarding, Restarting
        <5>3. ctl' = [ctl EXCEPT ![p] = f] BY <1>0, <5>1
        <5> HIDE DEF f
        <5> QED BY <1>0, <3>1, <5>2, <5>3 DEF Moved
      <4> QED BY <4>1, <4>2
    <3>3. CASE Replayed(p) BY <1>g, <3>1, <3>3 DEF Replayed
    <3>4. CASE Install(p) /\ shutdown BY <1>g, <3>1, <3>4 DEF Install
    <3> QED BY <1>2, <3>2, <3>3, <3>4
  <2>2. UNCHANGED <<sender, shutdown, backoff, guard, spawned, task, child, tracked, made>>
    BY <1>2 DEF Replay, Replayed, Install, manager, daemon, worker, sidecar
  <2> QED BY <1>s, <2>1, <2>2, CallerMoves DEF Guarding, SidecarInv, Types
<1>3. CASE Install(p) /\ ~shutdown
  <2>1. /\ sender' = ctl[p].w /\ guard' = "nobody" /\ backoff' = FALSE
        /\ UNCHANGED <<shutdown, spawned, task, child, tracked, made>>
    BY <1>3 DEF Install, daemon, sidecar
  <2>2. Moved(p, "send", ctl[p].w)
    <3>1. "send" \in CallerPcs BY DEF CallerPcs
    <3> QED BY <1>0, <1>3, <3>1, GotoMoves DEF Install
  <2>3. ctl'["stop"] = ctl["stop"] BY <1>s, <2>2, CallerFacts DEF Moved
  <2>4. \A q \in Callers : ctl'[q].pc \notin Guarding
    BY <1>s, <2>2 DEF Moved, Guarding, Restarting
  <2>5. Types' BY <1>0, <2>1, <2>2 DEF SidecarInv, Types, Moved
  <2>6. Roles' /\ Quiet' BY <2>1, <2>3, <2>4 DEF SidecarInv, Roles, Quiet, Guarding
  <2>7. Held' BY <1>s, <2>1, CallerFacts DEF SidecarInv, Held
  <2>8. Owned' /\ Unique' BY <2>1 DEF SidecarInv, Owned, Unique
  <2> QED BY <2>5, <2>6, <2>7, <2>8 DEF SidecarInv
<1> QED BY <1>1, <1>2, <1>3

\* flush_and_shutdown takes the installed worker, and never another.
LEMMA ShutdownSafe ==
    ASSUME SidecarInv, Shutdown \/ AskFlush \/ Flushed \/ ShutdownDone
    PROVE  SidecarInv'
<1>0. ctl \in [Callers -> Frames] /\ "stop" \in Callers BY CallerFacts DEF SidecarInv, Types
<1>u. /\ UNCHANGED <<backoff, guard, spawned, task, child, made>>
      /\ tracked' \in SUBSET Owners
  BY DEF Shutdown, AskFlush, Flushed, ShutdownDone, manager, daemon, worker, sidecar,
         SidecarInv, Types
<1>1. \E pc \in StopPcs \ {"idle"} : Moved("stop", pc, IF Shutdown THEN sender ELSE ctl["stop"].w)
  <2>1. CASE Shutdown
    <3> DEFINE f == [Idle EXCEPT !.pc = IF sender = 0 THEN "clear" ELSE "ask",
                                 !.op = "flush", !.w = sender]
    <3>1. f \in Frames /\ f.pc \in StopPcs \ {"idle"} /\ f.w = sender
      BY DEF Idle, Frames, StopPcs, Ops, Owners, SidecarInv, Types
    <3>2. ctl' = [ctl EXCEPT !["stop"] = f] BY <2>1 DEF Shutdown
    <3> HIDE DEF f
    <3> QED BY <1>0, <2>1, <3>1, <3>2 DEF Moved
  <2>2. CASE ~Shutdown
    <3>1. {"flushing", "clear", "done"} \subseteq StopPcs \ {"idle"} BY DEF StopPcs
    <3>2. \A pc \in StopPcs : Goto("stop", pc) => Moved("stop", pc, ctl["stop"].w)
      BY <1>0, GotoMoves
    <3> QED BY <2>2, <3>1, <3>2 DEF AskFlush, Flushed, ShutdownDone
  <2> QED BY <2>1, <2>2
<1>2. \/ Shutdown /\ sender' = 0 /\ shutdown' = TRUE /\ ctl["stop"].w = 0
      \/ ~Shutdown /\ UNCHANGED <<sender, shutdown>>
  BY DEF Shutdown, AskFlush, Flushed, ShutdownDone, manager, SidecarInv, Roles
<1>p. ctl'["stop"].pc \notin Guarding /\ ctl["stop"].pc \notin Guarding
  BY <1>1 DEF Moved, SidecarInv, Roles, StopPcs, Guarding, Restarting
<1>3. Types'
  <2>1. ctl' \in [Callers -> Frames] BY <1>1 DEF Moved
  <2>2. sender' \in Nat BY <1>2 DEF SidecarInv, Types
  <2>3. shutdown' = TRUE \/ shutdown' = shutdown BY <1>2
  <2>4. shutdown' \in BOOLEAN BY <2>3, Zenon DEF SidecarInv, Types
  <2> QED BY <1>u, <2>1, <2>2, <2>4 DEF SidecarInv, Types
<1>4. Roles'
  <2>1. shutdown' = FALSE => ctl'["stop"].w = 0
    BY <1>1, <1>2 DEF Moved, SidecarInv, Roles
  <2>2. \A q \in Callers : ctl'[q].pc \in Guarding => guard' = q
    BY <1>u, <1>1, <1>p DEF Moved, SidecarInv, Roles
  <2> QED BY <1>1, <2>1, <2>2 DEF Moved, Roles
<1>5. Quiet'
  <2> SUFFICES ASSUME NEW q \in Callers, ctl'[q].pc \in Restarting
               PROVE  sender' = 0 /\ ctl'["stop"].w = 0
    BY DEF Quiet
  <2>1. q # "stop" /\ ctl[q].pc \in Restarting BY <1>1, <1>p DEF Moved, Guarding
  <2>2. sender = 0 /\ ctl["stop"].w = 0 BY <2>1 DEF SidecarInv, Quiet
  <2> QED BY <1>1, <1>2, <2>2 DEF Moved
<1>6. Held'
  <2> SUFFICES ASSUME NEW w \in Workers, task[w] \in Alive
               PROVE  \/ w = sender' \/ w = ctl'["stop"].w
                      \/ \E p \in Callers : guard = p /\ ctl'[p].w = w /\ ctl'[p].pc \in Guarding
    BY <1>u DEF Held
  <2>1. CASE w = sender \/ w = ctl["stop"].w BY <1>1, <1>2, <2>1, CallerFacts DEF Moved
  <2>2. CASE \E p \in Callers : guard = p /\ ctl[p].w = w /\ ctl[p].pc \in Guarding
    BY <1>1, <1>p, <2>2 DEF Moved
  <2> QED BY <2>1, <2>2 DEF SidecarInv, Held
<1>7. Owned' /\ Unique' BY <1>u DEF SidecarInv, Owned, Unique
<1> QED BY <1>3, <1>4, <1>5, <1>6, <1>7 DEF SidecarInv

\* The worker tasks and the sidecars.
LEMMA WorkSafe ==
    ASSUME SidecarInv, NEW w \in Workers, Work(w) \/ Serve(w) \/ FlushDue(w) \/ Crash(w)
    PROVE  SidecarInv'
<1>0. /\ task \in [Workers -> Alive \cup {"unborn", "stopped"}]
      /\ child \in [Workers -> {"unborn", "up", "exited", "dead"}]
      /\ Owned
  BY DEF SidecarInv, Types
<1>1. CASE Work(w)
  <2>1. UNCHANGED <<manager, daemon, ctl, spawned>>
    BY <1>1 DEF Work, Receive, WriteFails, Answer, NoAnswer, Cancelled, StopWorker
  <2>2. CASE ~StopWorker(w)
    <3>1. UNCHANGED child
      BY <1>1, <2>2 DEF Work, Receive, WriteFails, Answer, NoAnswer, Cancelled, sidecar
    <3>2. \/ UNCHANGED task
          \/ task[w] \in Alive /\ \E t \in Alive : task' = [task EXCEPT ![w] = t]
      BY <1>1, <2>2 DEF Work, Receive, WriteFails, Answer, NoAnswer, Cancelled, Close, Alive
    <3> QED BY <1>0, <2>1, <3>1, <3>2, WorkerMoves DEF Owned
  <2>3. CASE StopWorker(w)
    <3>1. task' = [task EXCEPT ![w] = "stopped"] BY <2>3 DEF StopWorker
    <3>2. \/ child[w] = "exited" /\ UNCHANGED child
          \/ child' = [child EXCEPT ![w] = "dead"]
      BY <2>3 DEF StopWorker, Dies, sidecar
    <3>3. Owned' BY <1>0, <3>1, <3>2 DEF Owned, Alive
    <3>4. \A v \in Workers : task'[v] \in Alive => task[v] \in Alive
      BY <1>0, <3>1 DEF Alive
    <3> QED BY <1>0, <2>1, <3>1, <3>2, <3>3, <3>4, WorkerMoves
  <2> QED BY <2>2, <2>3
<1>2. CASE Serve(w) \/ FlushDue(w) \/ Crash(w)
  <2>1. UNCHANGED <<manager, daemon, ctl, spawned, task>>
    BY <1>2 DEF Serve, HandleStart, HandleWrite, HandleResize, HandleEnd, HandleGet,
                HandleFlush, EndOfInput, FlushDue, Crash, Take, worker
  <2>2. \/ UNCHANGED child
        \/ \E c \in {"exited", "dead"} : child' = [child EXCEPT ![w] = c]
    <3>1. CASE HandleStart(w) \/ HandleWrite(w) \/ HandleResize(w) \/ HandleEnd(w)
               \/ HandleGet(w) \/ FlushDue(w)
      BY <3>1 DEF HandleStart, HandleWrite, HandleResize, HandleEnd, HandleGet, FlushDue,
                  sidecar
    <3>2. CASE HandleFlush(w)
      <4>1. PICK ok \in BOOLEAN : child' = [child EXCEPT ![w] = IF ok THEN "exited" ELSE @]
        BY <3>2 DEF HandleFlush
      <4> QED BY <1>0, <4>1
    <3>3. CASE EndOfInput(w) BY <3>3 DEF EndOfInput
    <3>4. CASE Crash(w) BY <3>4 DEF Crash, Dies
    <3> QED BY <1>2, <3>1, <3>2, <3>3, <3>4 DEF Serve
  <2> QED BY <1>0, <2>1, <2>2, WorkerMoves DEF Owned
<1> QED BY <1>1, <1>2

\* Every step of the manager, its callers, workers and sidecars keeps SidecarInv.
LEMMA SidecarStep ==
    ASSUME SidecarInv, [Next]_vars
    PROVE  SidecarInv'
<1>1. CASE Ask BY <1>1, AskSafe
<1>2. ASSUME NEW p \in Callers, Manage(p) PROVE SidecarInv'
  BY <1>2, CallSafe, EnterSafe, LeaveSafe, RestartSafe DEF Manage
<1>3. CASE BackoffElapses
  <2>1. /\ UNCHANGED <<sender, shutdown, guard, tracked, made, ctl, spawned, task, child>>
        /\ backoff' \in BOOLEAN
    BY <1>3 DEF BackoffElapses, daemon, worker, sidecar
  <2> QED BY <2>1 DEF SidecarInv, Types, Owned, Roles, Quiet, Held, Unique
<1>4. CASE Shutdown \/ AskFlush \/ Flushed \/ ShutdownDone BY <1>4, ShutdownSafe
<1>5. ASSUME NEW w \in Workers, Work(w) \/ Serve(w) \/ FlushDue(w) \/ Crash(w)
      PROVE  SidecarInv'
  BY <1>5, WorkSafe
<1>6. CASE UNCHANGED vars
  BY <1>6 DEF vars, manager, daemon, worker, sidecar, SidecarInv, Types, Owned, Roles,
              Quiet, Held, Unique
<1> QED BY <1>1, <1>2, <1>3, <1>4, <1>5, <1>6 DEF Next

\* A manager starts without a sidecar.
LEMMA SidecarInit ==
    ASSUME Init
    PROVE  SidecarInv
<1>1. Idle \in Frames /\ Idle.pc = "idle" /\ Idle.w = 0
  BY DEF Idle, Frames, CallerPcs, Ops, Owners
<1>2. \A p \in Callers : ctl[p] = Idle BY DEF Init
<1>3. Types BY <1>1 DEF Init, Types
<1>4. Owned /\ Held /\ Unique BY DEF Init, Owned, Held, Unique, Alive
<1>5. Roles /\ Quiet
  BY <1>1, <1>2, CallerFacts DEF Init, Roles, Quiet, Guarding, Restarting, StopPcs
<1> QED BY <1>3, <1>4, <1>5 DEF SidecarInv

\* The snapshot directory has one writer: whatever callers time out, cancel,
\* restart and shut down at once, at most one sidecar of the manager runs, for
\* any number of sessions, restarts and queue slots and under every fault.
THEOREM SingleSidecar == Spec => []OneSidecar
<1>1. Init => SidecarInv BY SidecarInit
<1>2. SidecarInv /\ [Next]_vars => SidecarInv' BY SidecarStep
<1>3. SidecarInv => OneSidecar
  <2> SUFFICES ASSUME SidecarInv PROVE OneSidecar OBVIOUS
  <2> DEFINE Up == {w \in Workers : child[w] = "up"}
  <2>1. \A v, w \in Up : v = w BY DEF SidecarInv, Owned, Unique
  <2>2. CASE Up = {} BY <2>2, FS_EmptySet DEF OneSidecar
  <2>3. CASE Up # {}
    <3>1. PICK w : Up = {w} BY <2>1, <2>3
    <3>2. Cardinality({w}) = 1 BY FS_Singleton
    <3> QED BY <3>1, <3>2 DEF OneSidecar
  <2> QED BY <2>2, <2>3
<1> QED BY <1>1, <1>2, <1>3, PTL DEF Spec
-----------------------------------------------------------------------------
(* Nobody is stranded.                                                        *)

Verdicts == {"ok", "error", "snapshot", "notfound"}
Messages == [op : Ops, s : Owners, arg : Nat, by : Callers]
Answers == [by : Callers, op : Ops, v : Verdicts]

\* What travels between the callers, the worker tasks and the sidecars.
Wires ==
    /\ queue \in [Workers -> Seq(Messages)] /\ pipe \in [Workers -> Seq(Messages)]
    /\ lines \in [Workers -> Seq(Answers)]
    /\ reply \in [Callers -> Verdicts \cup {"none", "failed"}]
    /\ current \in [Workers -> Callers \cup {"nobody"}]
    /\ \A w \in Workers : task[w] # "await" => current[w] = "nobody"

\* Whoever talks to a worker has one in hand.
Handed == {"send", "await", "invalid", "replay", "replayed", "ask", "flushing"}
Hands ==
    /\ sender \in Workers \cup {0}
    /\ \A p \in Callers : ctl[p].w \in Workers \cup {0}
    /\ \A p \in Callers : ctl[p].pc \in Handed => ctl[p].w # 0

\* A worker somebody waits to see stopped has been told to.
Reaping == {"reap", "abandon", "discard", "drain", "clear", "invalid"}
Told == \A p \in Callers : ctl[p].pc \in Reaping /\ ctl[p].w # 0 => ctl[p].w \in cancelled

\* Caller p has a request with the task of w.
Pending(p, w) ==
    \/ current[w] = p
    \/ \E i \in DOMAIN queue[w] : queue[w][i].by = p /\ queue[w][i].op \in Requests

Waiting == {"await", "replayed", "flushing"}
Asked == \A p \in Callers :
    ctl[p].pc \in Waiting /\ reply[p] = "none" => Pending(p, ctl[p].w)

GuardHeld == \A p \in Callers : guard = p => ctl[p].pc \in Guarding

\* The shutdown asks only the worker it took, which closes when it answers.
StopAsks ==
    /\ \A w \in Workers : current[w] = "stop" => w = ctl["stop"].w
    /\ \A w \in Workers : \A i \in DOMAIN queue[w] :
         queue[w][i].by = "stop" => w = ctl["stop"].w
    /\ reply["stop"] \notin {"none", "failed"} =>
         ctl["stop"].w # 0 /\ ctl["stop"].w \in cancelled
    /\ ctl["stop"].pc = "ask" => ctl["stop"].op = "flush"

StrandInv == Wires /\ Hands /\ Told /\ Asked /\ GuardHeld /\ StopAsks

\* A step of one caller: it may queue requests of its own and change its own
\* reply, takes on only what it can wait for, and leaves the tasks at work.
LEMMA CallerStrand ==
    ASSUME SidecarInv, StrandInv, NEW p \in Callers, NEW pc, NEW w \in Workers \cup {0},
           Moved(p, pc, w), UNCHANGED <<current, pipe, lines>>,
           \A v \in Workers : task'[v] # "await" => task[v] # "await",
           sender' \in Workers \cup {0}, cancelled \subseteq cancelled',
           guard' = p => pc \in Guarding,
           \A q \in Callers : q # p /\ guard' = q => guard = q,
           queue' \in [Workers -> Seq(Messages)],
           reply' \in [Callers -> Verdicts \cup {"none", "failed"}],
           \A q \in Callers : q # p => reply'[q] = reply[q],
           \A v \in Workers : \A i \in DOMAIN queue[v] :
             i \in DOMAIN queue'[v] /\ queue'[v][i] = queue[v][i],
           \A v \in Workers : \A i \in DOMAIN queue'[v] :
             i \in DOMAIN queue[v] \/ (queue'[v][i].by = p /\ (p = "stop" => v = w)),
           pc \in Handed => w # 0,
           pc \in Reaping /\ w # 0 => w \in cancelled',
           pc \in Waiting /\ reply'[p] = "none" =>
             \/ current[w] = p
             \/ \E i \in DOMAIN queue'[w] : queue'[w][i].by = p /\ queue'[w][i].op \in Requests,
           p = "stop" => /\ ctl["stop"].w \in {0, w}
                         /\ reply'[p] \in {"none", "failed", reply[p]}
                         /\ pc = "ask" => ctl'[p].op = "flush"
    PROVE  StrandInv'
<1>0. Wires /\ Hands /\ Told /\ Asked /\ GuardHeld /\ StopAsks BY DEF StrandInv
<1>s. "stop" \in Callers /\ 0 \notin Workers BY CallerFacts
<1>1. Wires' BY <1>0 DEF Wires
<1>2. Hands' BY <1>0 DEF Hands, Moved
<1>3. Told' BY <1>0 DEF Told, Moved
<1>4. Asked'
  <2> SUFFICES ASSUME NEW q \in Callers, ctl'[q].pc \in Waiting, reply'[q] = "none"
               PROVE  Pending(q, ctl[q].w)'
    BY DEF Asked
  <2>1. CASE q = p BY <2>1 DEF Moved, Pending
  <2>2. CASE q # p
    <3>1. ctl'[q] = ctl[q] /\ Pending(q, ctl[q].w) BY <1>0, <2>2 DEF Moved, Asked
    <3>2. ctl[q].w \in Workers BY <1>0, <3>1 DEF Hands, Waiting, Handed
    <3> QED BY <3>1, <3>2 DEF Pending
  <2> QED BY <2>1, <2>2
<1>5. GuardHeld' BY <1>0 DEF GuardHeld, Moved
<1>6. StopAsks'
  <2>1. CASE p # "stop"
    <3>1. ctl'["stop"] = ctl["stop"] /\ reply'["stop"] = reply["stop"] BY <1>s, <2>1 DEF Moved
    <3>2. \A v \in Workers : \A i \in DOMAIN queue'[v] : queue'[v][i].by = "stop" =>
            i \in DOMAIN queue[v] /\ queue[v][i].by = "stop"
      BY <2>1
    <3>3. \A v \in Workers : \A i \in DOMAIN queue'[v] : queue'[v][i].by = "stop" =>
            v = ctl["stop"].w
      BY <1>0, <3>2 DEF StopAsks
    <3>4. /\ \A v \in Workers : current'[v] = "stop" => v = ctl["stop"].w
          /\ reply["stop"] \notin {"none", "failed"} =>
               ctl["stop"].w # 0 /\ ctl["stop"].w \in cancelled'
          /\ ctl["stop"].pc = "ask" => ctl["stop"].op = "flush"
      BY <1>0 DEF StopAsks
    <3> QED BY <3>1, <3>3, <3>4 DEF StopAsks
  <2>2. CASE p = "stop"
    <3>1. ctl'["stop"].w = w BY <2>2 DEF Moved
    <3>2. \A v \in Workers : v = ctl["stop"].w => v = w BY <1>s, <2>2
    <3>3. \A v \in Workers : current'[v] = "stop" => v = w BY <1>0, <3>2 DEF StopAsks
    <3>4. \A v \in Workers : \A i \in DOMAIN queue'[v] : queue'[v][i].by = "stop" => v = w
      BY <1>0, <2>2, <3>2 DEF StopAsks
    <3>5. reply'["stop"] \notin {"none", "failed"} => w # 0 /\ w \in cancelled'
      BY <1>0, <2>2 DEF StopAsks
    <3>6. ctl'["stop"].pc = "ask" => ctl'["stop"].op = "flush" BY <2>2 DEF Moved
    <3> QED BY <3>1, <3>3, <3>4, <3>5, <3>6 DEF StopAsks
  <2> QED BY <2>1, <2>2
<1> QED BY <1>1, <1>2, <1>3, <1>4, <1>5, <1>6 DEF StrandInv

\* A step of one caller that asks nothing: it may forget a reply.
LEMMA CallerQuiet ==
    ASSUME SidecarInv, StrandInv, NEW p \in Callers, NEW pc, NEW w \in Workers \cup {0},
           Moved(p, pc, w), UNCHANGED <<queue, current, pipe, lines>>,
           reply' = reply \/ reply' = [reply EXCEPT ![p] = "none"],
           \A v \in Workers : task'[v] # "await" => task[v] # "await",
           sender' \in Workers \cup {0}, cancelled \subseteq cancelled',
           guard' = p => pc \in Guarding,
           \A q \in Callers : q # p /\ guard' = q => guard = q,
           pc \in Handed => w # 0, pc \notin Waiting,
           pc \in Reaping /\ w # 0 => w \in cancelled',
           p = "stop" => ctl["stop"].w \in {0, w} /\ (pc = "ask" => ctl'[p].op = "flush")
    PROVE  StrandInv'
<1>1. queue \in [Workers -> Seq(Messages)] /\ reply \in [Callers -> Verdicts \cup {"none", "failed"}]
  BY DEF StrandInv, Wires
<1>2. /\ reply' \in [Callers -> Verdicts \cup {"none", "failed"}]
      /\ \A q \in Callers : q # p => reply'[q] = reply[q]
      /\ reply'[p] \in {"none", "failed", reply[p]}
  BY <1>1
<1> QED BY <1>1, <1>2, CallerStrand

LEMMA CallerStays ==
    ASSUME SidecarInv, StrandInv, NEW p \in Callers, NEW pc, NEW w \in Workers \cup {0},
           Moved(p, pc, w),
           UNCHANGED <<sender, guard, task, queue, current, pipe, lines>>,
           reply' = reply \/ reply' = [reply EXCEPT ![p] = "none"],
           cancelled \subseteq cancelled', guard = p => pc \in Guarding,
           pc \in Handed => w # 0, pc \notin Waiting,
           pc \in Reaping /\ w # 0 => w \in cancelled', pc # "ask",
           p = "stop" => ctl["stop"].w = w
    PROVE  StrandInv'
<1>1. sender' \in Workers \cup {0} BY DEF StrandInv, Hands
<1>2. /\ \A v \in Workers : task'[v] # "await" => task[v] # "await"
      /\ guard' = p => pc \in Guarding
      /\ \A q \in Callers : q # p /\ guard' = q => guard = q
      /\ p = "stop" => ctl["stop"].w \in {0, w} /\ (pc = "ask" => ctl'[p].op = "flush")
  OBVIOUS
<1> QED BY <1>1, <1>2, CallerQuiet

\* A step of one caller that queues a message on the worker it has in hand.
LEMMA CallerAsks ==
    ASSUME SidecarInv, StrandInv, NEW p \in Callers, NEW pc, NEW w \in Workers \cup {0},
           Moved(p, pc, w), UNCHANGED <<sender, guard, cancelled, task, current, pipe, lines>>,
           NEW v \in Workers, NEW m \in Messages, m.by = p, Enqueue(v, m),
           guard = p => pc \in Guarding,
           pc \in Handed => w # 0, pc \notin Reaping, pc # "ask",
           pc \in Waiting => w = v /\ m.op \in Requests,
           p = "stop" => ctl["stop"].w = w /\ v = w /\ m.op \in Requests
    PROVE  StrandInv'
<1>1. queue \in [Workers -> Seq(Messages)] /\ reply \in [Callers -> Verdicts \cup {"none", "failed"}]
  BY DEF StrandInv, Wires
<1>2. /\ reply' \in [Callers -> Verdicts \cup {"none", "failed"}]
      /\ \A q \in Callers : q # p => reply'[q] = reply[q]
      /\ p = "stop" => reply'[p] = "none"
  BY <1>1 DEF Enqueue
<1>3. /\ queue' \in [Workers -> Seq(Messages)]
      /\ \A u \in Workers : u # v => queue'[u] = queue[u]
      /\ queue'[v] = Append(queue[v], m)
  BY <1>1 DEF Enqueue
<1>4. /\ Len(queue[v]) + 1 \in DOMAIN queue'[v] /\ queue'[v][Len(queue[v]) + 1] = m
      /\ \A i \in DOMAIN queue[v] : i \in DOMAIN queue'[v] /\ queue'[v][i] = queue[v][i]
      /\ \A i \in DOMAIN queue'[v] : i \in DOMAIN queue[v] \/ queue'[v][i] = m
  <2>1. queue[v] \in Seq(Messages) BY <1>1
  <2> QED BY <1>3, <2>1
<1>5. \A u \in Workers : \A i \in DOMAIN queue[u] :
        i \in DOMAIN queue'[u] /\ queue'[u][i] = queue[u][i]
  BY <1>3, <1>4
<1>6. \A u \in Workers : \A i \in DOMAIN queue'[u] :
        i \in DOMAIN queue[u] \/ (queue'[u][i].by = p /\ (p = "stop" => u = w))
  BY <1>3, <1>4
<1>7. pc \in Waiting =>
        \E i \in DOMAIN queue'[w] : queue'[w][i].by = p /\ queue'[w][i].op \in Requests
  BY <1>4
<1>8. sender' \in Workers \cup {0} BY DEF StrandInv, Hands
<1> QED BY <1>2, <1>3, <1>5, <1>6, <1>7, <1>8, CallerStrand

\* What a caller's code can reach, given the worker in its hand.
LEMMA HandTypes ==
    ASSUME SidecarInv, StrandInv, NEW p \in Callers
    PROVE  /\ ctl \in [Callers -> Frames] /\ ctl[p].w \in Workers \cup {0} /\ ctl[p].w \in Nat
           /\ sender \in Workers \cup {0} /\ sender \in Nat
           /\ ctl[p].pc \in Handed => ctl[p].w \in Workers
           /\ ctl[p].pc \in Reaping /\ ctl[p].w # 0 => ctl[p].w \in cancelled
           /\ guard = p <=> ctl[p].pc \in Guarding
           /\ Message(p) \in Messages /\ Message(p).by = p /\ Message(p).op = ctl[p].op
<1>1. ctl \in [Callers -> Frames] /\ sender \in Nat BY DEF SidecarInv, Types
<1>2. ctl[p].w \in Nat BY <1>1 DEF Frames
<1>3. ctl[p].op \in Ops /\ ctl[p].s \in Owners /\ ctl[p].arg \in Nat BY <1>1 DEF Frames
<1>4. Message(p) \in Messages /\ Message(p).by = p /\ Message(p).op = ctl[p].op
  BY <1>3 DEF Message, Messages
<1> QED BY <1>1, <1>2, <1>4
        DEF StrandInv, SidecarInv, Hands, Told, GuardHeld, Roles

LEMMA AskStrand ==
    ASSUME SidecarInv, StrandInv, Ask
    PROVE  StrandInv'
<1> PICK s \in Sessions :
      \/ SeedSnapshot(s) \/ SpawnSession(s) \/ AdoptSession(s) \/ Output(s)
      \/ EndSession(s) \/ ResizeSession(s) \/ GetSnapshot(s)
  BY DEF Ask
<1>0. ctl \in [Callers -> Frames] /\ made[s] + 1 \in Nat BY DEF SidecarInv, Types
<1>1. UNCHANGED <<sender, guard, cancelled, task, current, queue, reply, pipe, lines>>
  BY DEF SeedSnapshot, SpawnSession, AdoptSession, Output, EndSession, ResizeSession,
         GetSnapshot, manager, worker
<1>2. CASE SeedSnapshot(s)
  <2>1. UNCHANGED ctl BY <1>2 DEF SeedSnapshot
  <2> QED BY <1>1, <2>1 DEF StrandInv, Wires, Hands, Told, Asked, Pending, GuardHeld, StopAsks
<1>3. CASE ~SeedSnapshot(s)
  <2>1. s \in Callers /\ "viewer" \in Callers /\ s # "stop" BY CallerFacts
  <2>c. \A p \in {s, "viewer"}, op \in Ops, arg \in Nat :
          Call(p, op, s, arg) => Moved(p, "ensure", 0)
    BY <1>0, <2>1, CallMoves
  <2>o. {"start", "write", "end", "get", "resize"} \subseteq Ops /\ {0, 1} \subseteq Nat BY DEF Ops
  <2>2. \E p \in {s, "viewer"} : ctl[p].pc = "idle" /\ Moved(p, "ensure", 0)
    <3>1. CASE SpawnSession(s) BY <2>c, <2>o, <3>1 DEF SpawnSession
    <3>2. CASE AdoptSession(s) BY <2>c, <2>o, <3>2 DEF AdoptSession
    <3>3. CASE Output(s) BY <1>0, <2>c, <2>o, <3>3 DEF Output
    <3>4. CASE EndSession(s) BY <2>c, <2>o, <3>4 DEF EndSession
    <3>5. CASE ResizeSession(s) BY <2>c, <2>o, <3>5 DEF ResizeSession
    <3>6. CASE GetSnapshot(s) BY <2>c, <2>o, <3>6 DEF GetSnapshot
    <3> QED BY <1>3, <3>1, <3>2, <3>3, <3>4, <3>5, <3>6
  <2>3. PICK p \in {s, "viewer"} : ctl[p].pc = "idle" /\ Moved(p, "ensure", 0) BY <2>2
  <2>4. p \in Callers /\ p # "stop" /\ guard # p
    BY <2>1, <2>3 DEF StrandInv, GuardHeld, Guarding, Restarting
  <2>5. sender \in Workers \cup {0} BY DEF StrandInv, Hands
  <2> QED BY <1>1, <2>3, <2>4, <2>5, CallerQuiet DEF Handed, Waiting, Reaping
<1> QED BY <1>2, <1>3

LEMMA CallStrand ==
    ASSUME SidecarInv, StrandInv, NEW p \in Callers, Ensure(p) \/ Send(p) \/ Await(p) \/ Track(p)
    PROVE  StrandInv'
<1>h. /\ ctl \in [Callers -> Frames] /\ ctl[p].w \in Workers \cup {0} /\ ctl[p].w \in Nat
      /\ sender \in Workers \cup {0} /\ sender \in Nat
      /\ ctl[p].pc \in Handed => ctl[p].w \in Workers
      /\ Message(p) \in Messages /\ Message(p).by = p /\ Message(p).op = ctl[p].op
  BY HandTypes
<1>s. p # "stop" /\ guard # p
  BY HandTypes DEF SidecarInv, Roles, StopPcs, Guarding, Restarting, Ensure, Send, Await, Track
<1>0. 0 \notin Workers BY CallerFacts
<1>m. /\ \A pc \in {"gate", "await", "track", "invalid"} : Goto(p, pc) => Moved(p, pc, ctl[p].w)
      /\ GiveUp(p) => Moved(p, "idle", 0)
      /\ ctl' = [ctl EXCEPT ![p].pc = "send", ![p].w = sender] => Moved(p, "send", sender)
  BY <1>h, GotoMoves, GiveUpMoves, HandMoves DEF CallerPcs
<1>1. CASE Ensure(p)
  <2>1. UNCHANGED <<sender, guard, cancelled, task, current, queue, reply, pipe, lines>>
    BY <1>1 DEF Ensure, manager, worker
  <2>2. \/ Moved(p, "idle", 0) \/ Moved(p, "gate", ctl[p].w)
        \/ Moved(p, "send", sender) /\ sender # 0
    BY <1>1, <1>m DEF Ensure, Usable
  <2> QED BY <1>h, <1>s, <2>1, <2>2, CallerQuiet DEF Handed, Waiting, Reaping
<1>2. CASE Send(p)
  <2>1. UNCHANGED <<sender, guard, task, current, pipe, lines>>
    BY <1>2 DEF Send, manager, worker
  <2>2. ctl[p].w \in Workers BY <1>2, <1>h DEF Send, Handed
  <2>3. CASE Invalidate(p) /\ UNCHANGED <<queue, reply>>
    <3>1. cancelled \subseteq cancelled' /\ ctl[p].w \in cancelled' /\ Moved(p, "invalid", ctl[p].w)
      BY <1>m, <2>3 DEF Invalidate
    <3> QED BY <1>h, <1>s, <1>0, <2>1, <2>2, <2>3, <3>1, CallerQuiet DEF Handed, Waiting
  <2>4. CASE GiveUp(p) /\ UNCHANGED <<queue, reply, cancelled>>
    BY <1>h, <1>s, <1>m, <2>1, <2>4, CallerQuiet DEF Handed, Waiting, Reaping
  <2>5. CASE /\ Enqueue(ctl[p].w, Message(p)) /\ UNCHANGED cancelled
             /\ IF ctl[p].op \in Requests THEN Goto(p, "await") ELSE GiveUp(p)
    <3>1. CASE ctl[p].op \in Requests
      <4>1. Moved(p, "await", ctl[p].w) BY <1>m, <2>5, <3>1
      <4> QED BY <1>h, <1>s, <1>0, <2>1, <2>2, <2>5, <3>1, <4>1, CallerAsks
              DEF Handed, Waiting, Reaping
    <3>2. CASE ctl[p].op \notin Requests
      <4>1. Moved(p, "idle", 0) BY <1>m, <2>5, <3>2
      <4> QED BY <1>h, <1>s, <2>1, <2>2, <2>5, <4>1, CallerAsks DEF Handed, Waiting, Reaping
    <3> QED BY <3>1, <3>2
  <2> QED BY <1>2, <2>3, <2>4, <2>5 DEF Send
<1>3. CASE Await(p)
  <2>1. /\ UNCHANGED <<sender, guard, task, current, queue, pipe, lines>>
        /\ reply' = [reply EXCEPT ![p] = "none"]
    BY <1>3 DEF Await, manager
  <2>2. ctl[p].w \in Workers BY <1>3, <1>h DEF Await, Handed
  <2>3. \/ Moved(p, "track", ctl[p].w) /\ UNCHANGED cancelled
        \/ Moved(p, "idle", 0) /\ UNCHANGED cancelled
        \/ Moved(p, "invalid", ctl[p].w) /\ cancelled' = cancelled \cup {ctl[p].w}
    BY <1>3, <1>m DEF Await, Invalidate
  <2>4. CASE Moved(p, "track", ctl[p].w) /\ UNCHANGED cancelled
    BY <1>h, <1>s, <2>1, <2>4, CallerStays DEF Handed, Waiting, Reaping
  <2>5. CASE Moved(p, "idle", 0) /\ UNCHANGED cancelled
    BY <1>h, <1>s, <2>1, <2>5, CallerStays DEF Handed, Waiting, Reaping
  <2>6. CASE Moved(p, "invalid", ctl[p].w) /\ cancelled' = cancelled \cup {ctl[p].w}
    <3>1. cancelled \subseteq cancelled' /\ ctl[p].w \in cancelled' BY <2>6
    <3>2. "invalid" \notin Waiting /\ "invalid" # "ask" /\ ctl[p].w # 0 BY <1>0, <2>2 DEF Waiting
    <3> QED BY <1>h, <1>s, <2>1, <2>6, <3>1, <3>2, CallerStays
  <2> QED BY <2>3, <2>4, <2>5, <2>6
<1>4. CASE Track(p)
  <2>1. UNCHANGED <<sender, guard, cancelled, task, current, queue, reply, pipe, lines>>
    BY <1>4 DEF Track, worker
  <2> QED BY <1>4, <1>h, <1>s, <1>m, <2>1, CallerQuiet DEF Track, Handed, Waiting, Reaping
<1> QED BY <1>1, <1>2, <1>3, <1>4

LEMMA GuardStrand ==
    ASSUME SidecarInv, StrandInv, NEW p \in Callers,
           Gate(p) \/ Uninstall(p) \/ NoWorker(p) \/ Abandon(p) \/ Drain(p)
    PROVE  StrandInv'
<1>h. /\ ctl \in [Callers -> Frames] /\ ctl[p].w \in Workers \cup {0} /\ ctl[p].w \in Nat
      /\ sender \in Workers \cup {0} /\ sender \in Nat
      /\ ctl[p].pc \in Reaping /\ ctl[p].w # 0 => ctl[p].w \in cancelled
      /\ guard = p <=> ctl[p].pc \in Guarding
  BY HandTypes
<1>s. p # "stop" /\ p # "nobody"
  BY CallerFacts DEF SidecarInv, Roles, StopPcs, Gate, Uninstall, NoWorker, Abandon, Drain
<1>m. GiveUp(p) => Moved(p, "idle", 0) BY <1>h, GiveUpMoves
<1>1. CASE Gate(p)
  <2>1. UNCHANGED <<task, current, queue, reply, pipe, lines>> /\ guard = "nobody"
    BY <1>1 DEF Gate
  <2>2. CASE shutdown
    <3>1. Moved(p, "idle", 0) /\ UNCHANGED <<sender, guard, cancelled>>
      BY <1>1, <1>m, <2>2 DEF Gate
    <3> QED BY <1>h, <1>s, <2>1, <3>1, CallerQuiet DEF Handed, Waiting, Reaping
  <2>3. CASE ~shutdown /\ Usable(sender)
    <3>1. ctl' = [ctl EXCEPT ![p].pc = "send", ![p].w = sender] /\ UNCHANGED <<sender, guard, cancelled>>
      BY <1>1, <2>3 DEF Gate
    <3>2. Moved(p, "send", sender) /\ sender # 0
      BY <1>h, <2>3, <3>1, HandMoves DEF CallerPcs, Usable
    <3> QED BY <1>h, <1>s, <2>1, <3>1, <3>2, CallerQuiet DEF Handed, Waiting, Reaping
  <2>4. CASE ~shutdown /\ ~Usable(sender)
    <3> DEFINE f == [ctl[p] EXCEPT !.pc = "reap", !.w = sender, !.todo = tracked, !.due = ~backoff]
    <3>1. ctl' = [ctl EXCEPT ![p] = f] /\ sender' = 0 /\ guard' = p
          /\ cancelled' = cancelled \cup ({sender} \ {0})
      BY <1>1, <2>4 DEF Gate
    <3>2. f \in Frames /\ f.pc = "reap" /\ f.w = sender
      <4>1. ctl[p] \in Frames /\ tracked \in SUBSET Owners /\ backoff \in BOOLEAN /\ sender \in Nat
        BY <1>h DEF SidecarInv, Types
      <4>2. "reap" \in CallerPcs BY DEF CallerPcs, Guarding, Restarting
      <4> QED BY <4>1, <4>2 DEF Frames
    <3> HIDE DEF f
    <3>3. Moved(p, "reap", sender) BY <1>h, <3>1, <3>2 DEF Moved
    <3> QED BY <1>h, <1>s, <2>1, <3>1, <3>3, CallerQuiet DEF Handed, Waiting, Guarding, Restarting
  <2> QED BY <2>2, <2>3, <2>4
<1>2. CASE Uninstall(p)
  <2>1. /\ UNCHANGED <<cancelled, task, current, queue, reply, pipe, lines>>
        /\ guard' = p /\ sender' \in {0, sender} /\ ctl[p].pc = "invalid"
    BY <1>2 DEF Uninstall, worker
  <2>2. Moved(p, "drain", ctl[p].w)
    BY <1>2, <1>h, GotoMoves DEF Uninstall, CallerPcs, Guarding
  <2> QED BY <1>h, <1>s, <2>1, <2>2, CallerQuiet DEF Handed, Waiting, Reaping, Guarding
<1>3. CASE NoWorker(p) \/ Abandon(p) \/ Drain(p)
  <2>1. UNCHANGED <<sender, cancelled, task, current, queue, reply, pipe, lines>> /\ guard' = "nobody"
    BY <1>3 DEF NoWorker, Abandon, Drain, worker
  <2>2. Moved(p, "idle", 0) \/ Moved(p, "ensure", ctl[p].w)
    <3>1. ctl' = [ctl EXCEPT ![p].pc = "ensure", ![p].again = TRUE] => Moved(p, "ensure", ctl[p].w)
      <4> DEFINE f == [ctl[p] EXCEPT !.pc = "ensure", !.again = TRUE]
      <4>1. f \in Frames /\ f.pc = "ensure" /\ f.w = ctl[p].w BY <1>h DEF Frames, CallerPcs
      <4> HIDE DEF f
      <4>2. ctl' = [ctl EXCEPT ![p] = f] => Moved(p, "ensure", ctl[p].w) BY <1>h, <4>1 DEF Moved
      <4> QED BY <4>2 DEF f
    <3> QED BY <1>3, <1>m, <3>1 DEF NoWorker, Abandon, Drain
  <2>3. \A q \in Callers : guard' # q BY <2>1, CallerFacts
  <2> QED BY <1>h, <1>s, <2>1, <2>2, <2>3, CallerQuiet DEF Handed, Waiting, Reaping
<1> QED BY <1>1, <1>2, <1>3

LEMMA RestartStrand ==
    ASSUME SidecarInv, StrandInv, NEW p \in Callers,
           SpawnWorker(p) \/ Replay(p) \/ Replayed(p) \/ Install(p)
    PROVE  StrandInv'
<1>h. /\ ctl \in [Callers -> Frames] /\ ctl[p].w \in Workers \cup {0} /\ ctl[p].w \in Nat
      /\ sender \in Workers \cup {0} /\ sender \in Nat
      /\ ctl[p].pc \in Handed => ctl[p].w \in Workers
  BY HandTypes
<1>s. p # "stop" /\ p # "nobody" /\ guard = p /\ ctl[p].pc \in Restarting
  BY CallerFacts DEF SidecarInv, Roles, StopPcs, Guarding, Restarting, SpawnWorker, Replay, Replayed, Install
<1>g. \A pc \in {"replay", "abandon", "discard", "send"} : Goto(p, pc) => Moved(p, pc, ctl[p].w)
  BY <1>h, GotoMoves DEF CallerPcs, Guarding, Restarting
<1>0. 0 \notin Workers BY CallerFacts
<1>1. CASE SpawnWorker(p)
  <2>1. spawned \in Nat /\ spawned + 1 \in Workers /\ spawned + 1 \in Nat
    BY <1>1, RecoveryAssumption DEF SpawnWorker, Workers, SidecarInv, Types
  <2>2. Moved(p, "replay", spawned + 1)
    BY <1>h, <1>1, <2>1, HandMoves DEF SpawnWorker, CallerPcs, Guarding, Restarting
  <2>3. /\ UNCHANGED <<sender, guard, cancelled, queue, current, reply, pipe, lines>>
        /\ task' = [task EXCEPT ![spawned + 1] = "recv"]
    BY <1>1 DEF SpawnWorker, manager
  <2>4. \A w \in Workers : task[w] \notin Alive
    BY <1>s, <1>1, CallerFacts DEF SpawnWorker, Stopped, Alive, SidecarInv, Held, Quiet, Roles
  <2>5. \A v \in Workers : task'[v] # "await" => task[v] # "await" BY <2>4 DEF Alive
  <2> QED BY <1>h, <1>s, <1>0, <2>1, <2>2, <2>3, <2>5, CallerQuiet
          DEF Handed, Waiting, Reaping, Guarding, Restarting
<1>2. CASE Replay(p)
  <2>1. UNCHANGED <<sender, guard, task, current, pipe, lines>> BY <1>2 DEF Replay, manager
  <2>w. ctl[p].w \in Workers BY <1>2, <1>h DEF Replay, Handed
  <2>2. CASE Goto(p, "abandon") /\ cancelled' = cancelled \cup {ctl[p].w} /\ UNCHANGED <<reply, queue>>
    BY <1>h, <1>s, <1>g, <2>1, <2>2, CallerQuiet DEF Handed, Waiting, Guarding, Restarting
  <2>3. ASSUME NEW s \in ctl[p].todo, UNCHANGED cancelled,
               Enqueue(ctl[p].w, [op |-> "start", s |-> s, by |-> p,
                                  arg |-> IF s \in DOMAIN disk THEN 1 ELSE 0]),
               ctl' = [ctl EXCEPT ![p].pc = "replayed", ![p].todo = @ \ {s}]
        PROVE  StrandInv'
    <3> DEFINE f == [ctl[p] EXCEPT !.pc = "replayed", !.todo = @ \ {s}]
               m == [op |-> "start", s |-> s, by |-> p, arg |-> IF s \in DOMAIN disk THEN 1 ELSE 0]
    <3>1. f \in Frames /\ f.pc = "replayed" /\ f.w = ctl[p].w
      <4>1. ctl[p] \in Frames /\ "replayed" \in CallerPcs
        BY <1>h DEF CallerPcs, Guarding, Restarting
      <4> QED BY <4>1 DEF Frames
    <3>2. ctl' = [ctl EXCEPT ![p] = f] BY <1>h, <2>3
    <3>3. s \in Owners BY <1>h DEF Frames
    <3>4. m \in Messages /\ m.by = p /\ m.op \in Requests BY <3>3 DEF Messages, Ops, Requests
    <3>5. Enqueue(ctl[p].w, m) BY <2>3
    <3> HIDE DEF f, m
    <3>6. Moved(p, "replayed", ctl[p].w) BY <1>h, <3>1, <3>2 DEF Moved
    <3> QED BY <1>h, <1>s, <1>0, <2>1, <2>3, <2>w, <3>4, <3>5, <3>6, CallerAsks
            DEF Handed, Reaping, Guarding, Restarting
  <2> QED BY <1>2, <2>2, <2>3 DEF Replay
<1>3. CASE Replayed(p)
  <2>1. /\ UNCHANGED <<sender, guard, task, current, queue, pipe, lines>>
        /\ reply' = [reply EXCEPT ![p] = "none"]
    BY <1>3 DEF Replayed, manager
  <2>2. ctl[p].w \in Workers BY <1>3, <1>h DEF Replayed, Handed
  <2>3. \/ Moved(p, "replay", ctl[p].w) /\ UNCHANGED cancelled
        \/ Moved(p, "abandon", ctl[p].w) /\ cancelled' = cancelled \cup {ctl[p].w}
    BY <1>3, <1>g DEF Replayed
  <2>4. CASE Moved(p, "replay", ctl[p].w) /\ UNCHANGED cancelled
    <3>1. "replay" \notin Waiting \cup Reaping /\ "replay" # "ask" /\ "replay" \in Guarding
      BY DEF Waiting, Reaping, Guarding, Restarting
    <3>2. cancelled \subseteq cancelled' /\ ctl[p].w # 0 BY <1>0, <2>2, <2>4
    <3> QED BY <1>h, <1>s, <2>1, <2>4, <3>1, <3>2, CallerStays
  <2>5. CASE Moved(p, "abandon", ctl[p].w) /\ cancelled' = cancelled \cup {ctl[p].w}
    <3>1. "abandon" \notin Waiting /\ "abandon" # "ask" /\ "abandon" \in Guarding
      BY DEF Waiting, Guarding, Restarting
    <3>2. cancelled \subseteq cancelled' /\ ctl[p].w \in cancelled' /\ ctl[p].w # 0
      BY <1>0, <2>2, <2>5
    <3> QED BY <1>h, <1>s, <2>1, <2>5, <3>1, <3>2, CallerStays
  <2> QED BY <2>3, <2>4, <2>5
<1>4. CASE Install(p)
  <2>1. UNCHANGED <<task, current, queue, reply, pipe, lines>> BY <1>4 DEF Install
  <2>2. ctl[p].w \in Workers BY <1>4, <1>h DEF Install, Handed
  <2>3. \/ /\ Moved(p, "discard", ctl[p].w) /\ cancelled' = cancelled \cup {ctl[p].w}
           /\ UNCHANGED <<sender, guard>>
        \/ /\ Moved(p, "send", ctl[p].w) /\ UNCHANGED cancelled
           /\ sender' = ctl[p].w /\ guard' = "nobody"
    BY <1>4, <1>g DEF Install
  <2>4. \A q \in Callers : q # "nobody" BY CallerFacts
  <2> QED BY <1>h, <1>s, <1>0, <2>1, <2>2, <2>3, <2>4, CallerQuiet
          DEF Handed, Waiting, Reaping, Guarding, Restarting
<1> QED BY <1>1, <1>2, <1>3, <1>4

LEMMA ShutdownStrand ==
    ASSUME SidecarInv, StrandInv, Shutdown \/ AskFlush \/ Flushed \/ ShutdownDone
    PROVE  StrandInv'
<1>c. "stop" \in Callers /\ 0 \notin Workers BY CallerFacts
<1>h. /\ ctl \in [Callers -> Frames] /\ ctl["stop"].w \in Workers \cup {0}
      /\ sender \in Workers \cup {0} /\ sender \in Nat
      /\ ctl["stop"].pc \in Handed => ctl["stop"].w \in Workers
      /\ ctl["stop"].pc \in Reaping /\ ctl["stop"].w # 0 => ctl["stop"].w \in cancelled
      /\ Message("stop") \in Messages /\ Message("stop").by = "stop"
      /\ Message("stop").op = ctl["stop"].op
  BY <1>c, HandTypes
<1>s. guard # "stop" BY <1>c, HandTypes DEF SidecarInv, Roles, StopPcs, Guarding, Restarting
<1>g. \A pc \in {"flushing", "clear", "done"} : Goto("stop", pc) => Moved("stop", pc, ctl["stop"].w)
  BY <1>c, <1>h, GotoMoves DEF StopPcs
<1>d. /\ \A pc \in {"clear", "done"} : pc \notin Handed \cup Waiting /\ pc # "ask"
      /\ "done" \notin Reaping
  BY DEF Handed, Waiting, Reaping
<1>1. CASE Shutdown
  <2> DEFINE pc == IF sender = 0 THEN "clear" ELSE "ask"
             f == [Idle EXCEPT !.pc = pc, !.op = "flush", !.w = sender]
  <2>1. f \in Frames /\ f.pc = pc /\ f.w = sender /\ f.op = "flush"
    BY <1>h DEF Idle, Frames, StopPcs, Ops, Owners
  <2>2. ctl' = [ctl EXCEPT !["stop"] = f] /\ sender' = 0 /\ ctl["stop"].pc = "idle"
        /\ UNCHANGED <<guard, cancelled, task, current, queue, reply, pipe, lines>>
    BY <1>1 DEF Shutdown, worker
  <2> HIDE DEF f
  <2>3. Moved("stop", pc, sender) /\ ctl'["stop"].op = "flush" BY <1>c, <1>h, <2>1, <2>2 DEF Moved
  <2>4. ctl["stop"].w = 0 BY <2>2 DEF SidecarInv, Roles
  <2> QED BY <1>c, <1>h, <1>s, <2>2, <2>3, <2>4, CallerQuiet DEF Handed, Waiting, Reaping
<1>2. CASE AskFlush
  <2>1. UNCHANGED <<sender, guard, task, current, pipe, lines>> BY <1>2 DEF AskFlush, manager
  <2>w. ctl["stop"].w \in Workers BY <1>2, <1>h DEF AskFlush, Handed
  <2>2. CASE /\ cancelled' = cancelled \cup {ctl["stop"].w} /\ Goto("stop", "clear")
             /\ UNCHANGED <<queue, reply>>
    <3>1. Moved("stop", "clear", ctl["stop"].w) BY <1>g, <2>2
    <3>2. cancelled \subseteq cancelled' /\ ctl["stop"].w \in cancelled' BY <2>2
    <3> QED BY <1>c, <1>h, <1>s, <1>d, <2>1, <2>2, <3>1, <3>2, CallerStays
  <2>3. CASE /\ Enqueue(ctl["stop"].w, Message("stop")) /\ Goto("stop", "flushing")
             /\ UNCHANGED cancelled
    <3>1. Moved("stop", "flushing", ctl["stop"].w) BY <1>g, <2>3
    <3>2. ctl["stop"].op \in Requests BY <1>2 DEF StrandInv, StopAsks, AskFlush, Requests
    <3>3. "flushing" \notin Reaping /\ "flushing" # "ask" BY DEF Reaping
    <3> QED BY <1>c, <1>h, <1>s, <2>1, <2>w, <2>3, <3>1, <3>2, <3>3, CallerAsks
  <2> QED BY <1>2, <2>2, <2>3 DEF AskFlush
<1>3. CASE Flushed
  <2>1. /\ UNCHANGED <<sender, guard, task, current, queue, pipe, lines>>
        /\ reply' = [reply EXCEPT !["stop"] = "none"] /\ cancelled \subseteq cancelled'
    BY <1>3 DEF Flushed, manager
  <2>2. ctl["stop"].w \in cancelled'
    BY <1>3 DEF Flushed, StrandInv, StopAsks
  <2>3. Moved("stop", "clear", ctl["stop"].w) BY <1>3, <1>g DEF Flushed
  <2> QED BY <1>c, <1>h, <1>s, <1>d, <2>1, <2>2, <2>3, CallerStays
<1>4. CASE ShutdownDone
  <2>1. UNCHANGED <<sender, guard, cancelled, task, current, queue, reply, pipe, lines>>
    BY <1>4 DEF ShutdownDone, worker
  <2>2. Moved("stop", "done", ctl["stop"].w) BY <1>4, <1>g DEF ShutdownDone
  <2> QED BY <1>c, <1>h, <1>s, <1>d, <2>1, <2>2, CallerStays
<1> QED BY <1>1, <1>2, <1>3, <1>4

\* A worker task that closes leaves nobody waiting on it, whoever it answers.
LEMMA CloseStrand ==
    ASSUME SidecarInv, StrandInv, NEW w \in Workers, NEW how, how # "await",
           NEW answered \in BOOLEAN, Close(w, how, answered),
           answered => lines[w] # <<>>,
           answered => current[w] = "stop",
           UNCHANGED <<manager, ctl, pipe>>, lines' \in [Workers -> Seq(Answers)],
           task[w] \in {"recv", "await"}
    PROVE  StrandInv'
<1>0. Wires /\ Hands /\ Told /\ Asked /\ GuardHeld /\ StopAsks BY DEF StrandInv
<1>t. /\ task \in [Workers -> Alive \cup {"unborn", "stopped"}] BY DEF SidecarInv, Types
<1>1. /\ task' = [task EXCEPT ![w] = how] /\ queue' = [queue EXCEPT ![w] = <<>>]
      /\ current' = [current EXCEPT ![w] = "nobody"] /\ cancelled' = cancelled \cup {w}
      /\ reply' \in [Callers -> Verdicts \cup {"none", "failed"}]
      /\ \A q \in Callers : Pending(q, w) => reply'[q] # "none"
      /\ \A q \in Callers : reply'[q] # reply[q] => reply'[q] = "failed" \/ (answered /\ q = current[w])
      /\ \A q \in Callers : reply'[q] = "none" => reply[q] = "none"
  <2>1. answered => Head(lines[w]).v \in Verdicts
    <3>1. lines[w] \in Seq(Answers) BY <1>0 DEF Wires
    <3>2. answered => Head(lines[w]) \in Answers BY <3>1
    <3> QED BY <3>2 DEF Answers
  <2>2. "none" \notin Verdicts BY DEF Verdicts
  <2>3. reply \in [Callers -> Verdicts \cup {"none", "failed"}] BY <1>0 DEF Wires
  <2> DEFINE lost == {p \in Callers :
                    \/ \E i \in DOMAIN queue[w] :
                          queue[w][i].by = p /\ queue[w][i].op \in Requests
                    \/ ~answered /\ p = current[w]}
  <2>4. reply' = [p \in Callers |->
                    IF answered /\ p = current[w] THEN Head(lines[w]).v
                    ELSE IF p \in lost THEN "failed" ELSE reply[p]]
    BY DEF Close
  <2>5. \A q \in Callers : Pending(q, w) => q \in lost \/ (answered /\ q = current[w])
    BY DEF Pending
  <2>6. task' = [task EXCEPT ![w] = how] /\ queue' = [queue EXCEPT ![w] = <<>>]
        /\ current' = [current EXCEPT ![w] = "nobody"] /\ cancelled' = cancelled \cup {w}
    BY DEF Close
  <2> HIDE DEF lost
  <2> QED BY <2>1, <2>2, <2>3, <2>4, <2>5, <2>6
<1>2. Wires'
  <2>1. queue' \in [Workers -> Seq(Messages)] BY <1>0, <1>1 DEF Wires
  <2>2. current' \in [Workers -> Callers \cup {"nobody"}] BY <1>0, <1>1 DEF Wires
  <2>3. \A v \in Workers : task'[v] # "await" => current'[v] = "nobody" BY <1>0, <1>t, <1>1 DEF Wires
  <2> QED BY <1>0, <1>1, <2>1, <2>2, <2>3 DEF Wires
<1>3. Hands' /\ Told' /\ GuardHeld' BY <1>0, <1>1 DEF Hands, Told, GuardHeld, manager
<1>4. Asked'
  <2> SUFFICES ASSUME NEW q \in Callers, ctl[q].pc \in Waiting, reply'[q] = "none"
               PROVE  Pending(q, ctl[q].w)'
    BY DEF Asked
  <2>1. reply[q] = "none" /\ Pending(q, ctl[q].w) BY <1>0, <1>1 DEF Asked
  <2>2. ctl[q].w # w BY <1>1, <2>1
  <2>3. ctl[q].w \in Workers BY <1>0 DEF Hands, Waiting, Handed
  <2> QED BY <1>0, <1>1, <2>1, <2>2, <2>3 DEF Pending, Wires
<1>5. StopAsks'
  <2>1. \A v \in Workers : current'[v] = "stop" => current[v] = "stop" BY <1>0, <1>1 DEF Wires
  <2>2. \A v \in Workers : \A i \in DOMAIN queue'[v] : queue'[v] = queue[v]
    BY <1>0, <1>1 DEF Wires
  <2>3. "stop" \in Callers BY CallerFacts
  <2>4. reply'["stop"] \notin {"none", "failed"} =>
          ctl["stop"].w # 0 /\ ctl["stop"].w \in cancelled'
    <3>1. CASE reply'["stop"] = reply["stop"] BY <1>0, <1>1, <3>1 DEF StopAsks
    <3>2. CASE reply'["stop"] # reply["stop"]
      <4>1. reply'["stop"] # "failed" => w = ctl["stop"].w BY <1>0, <1>1, <2>3, <3>2 DEF StopAsks
      <4> QED BY <1>1, <4>1, CallerFacts
    <3> QED BY <3>1, <3>2
  <2> QED BY <1>0, <2>1, <2>2, <2>4 DEF StopAsks
<1> QED BY <1>2, <1>3, <1>4, <1>5 DEF StrandInv

LEMMA WorkStrand ==
    ASSUME SidecarInv, StrandInv, NEW w \in Workers, Work(w)
    PROVE  StrandInv'
<1>0. Wires /\ Hands /\ Told /\ Asked /\ GuardHeld /\ StopAsks BY DEF StrandInv
<1>t. task \in [Workers -> Alive \cup {"unborn", "stopped"}] BY DEF SidecarInv, Types
<1>l. lines[w] \in Seq(Answers) /\ queue[w] \in Seq(Messages) BY <1>0 DEF Wires
<1>1. CASE Receive(w)
  <2> DEFINE m == Head(queue[w])
  <2>1. /\ queue[w] # <<>> /\ m \in Messages /\ m = queue[w][1] /\ 1 \in DOMAIN queue[w]
        /\ Tail(queue[w]) \in Seq(Messages)
        /\ \A i \in DOMAIN queue[w] : i # 1 =>
             i - 1 \in DOMAIN Tail(queue[w]) /\ Tail(queue[w])[i - 1] = queue[w][i]
        /\ \A i \in DOMAIN Tail(queue[w]) :
             i + 1 \in DOMAIN queue[w] /\ Tail(queue[w])[i] = queue[w][i + 1]
    <3>1. queue[w] # <<>> BY <1>1 DEF Receive
    <3> QED BY <1>l, <3>1
  <2>2. /\ UNCHANGED <<sender, guard, ctl, reply, cancelled, lines>>
        /\ queue' = [queue EXCEPT ![w] = Tail(queue[w])]
        /\ pipe' = [pipe EXCEPT ![w] = Append(pipe[w], m)]
        /\ task[w] = "recv"
        /\ IF m.op \in Requests
             THEN /\ task' = [task EXCEPT ![w] = "await"]
                  /\ current' = [current EXCEPT ![w] = m.by]
             ELSE UNCHANGED <<task, current>>
    BY <1>1 DEF Receive, manager
  <2> HIDE DEF m
  <2>3. m.by \in Callers BY <2>1 DEF Messages
  <2>4. Wires'
    <3>1. queue' \in [Workers -> Seq(Messages)] BY <1>0, <2>1, <2>2 DEF Wires
    <3>2. pipe' \in [Workers -> Seq(Messages)]
      <4>1. Append(pipe[w], m) \in Seq(Messages) BY <1>0, <2>1 DEF Wires
      <4> QED BY <1>0, <2>2, <4>1 DEF Wires
    <3>3. current' \in [Workers -> Callers \cup {"nobody"}] BY <1>0, <2>2, <2>3 DEF Wires
    <3>4. \A v \in Workers : task'[v] # "await" => current'[v] = "nobody"
      BY <1>0, <1>t, <2>2 DEF Wires
    <3> QED BY <1>0, <2>2, <3>1, <3>2, <3>3, <3>4 DEF Wires
  <2>5. Hands' /\ Told' /\ GuardHeld' BY <1>0, <2>2 DEF Hands, Told, GuardHeld
  <2>6. \A v \in Workers, q \in Callers : Pending(q, v) => Pending(q, v)'
    <3> SUFFICES ASSUME NEW v \in Workers, NEW q \in Callers, Pending(q, v)
                 PROVE  current'[v] = q \/ \E i \in DOMAIN queue'[v] :
                          queue'[v][i].by = q /\ queue'[v][i].op \in Requests
      BY DEF Pending
    <3>1. CASE v # w
      <4>1. queue'[v] = queue[v] /\ current'[v] = current[v] BY <1>0, <2>2, <3>1 DEF Wires
      <4> QED BY <4>1 DEF Pending
    <3>2. CASE v = w
      <4>1. queue'[w] = Tail(queue[w]) BY <1>0, <2>2 DEF Wires
      <4>2. current[w] # q BY <1>0, <2>2, CallerFacts DEF Wires
      <4>3. PICK i \in DOMAIN queue[w] : queue[w][i].by = q /\ queue[w][i].op \in Requests
        BY <3>2, <4>2 DEF Pending
      <4>4. CASE i = 1
        <5>1. m.op \in Requests /\ m.by = q BY <2>1, <4>3, <4>4
        <5>2. current'[w] = q BY <1>0, <2>2, <5>1 DEF Wires
        <5> QED BY <3>2, <5>2
      <4>5. CASE i # 1
        <5>1. i - 1 \in DOMAIN Tail(queue[w]) /\ Tail(queue[w])[i - 1] = queue[w][i]
          BY <2>1, <4>3, <4>5
        <5> QED BY <3>2, <4>1, <4>3, <5>1
      <4> QED BY <4>4, <4>5
    <3> QED BY <3>1, <3>2
  <2>7. Asked'
    <3> SUFFICES ASSUME NEW q \in Callers, ctl[q].pc \in Waiting, reply[q] = "none"
                 PROVE  Pending(q, ctl[q].w)'
      BY <2>2 DEF Asked
    <3>1. Pending(q, ctl[q].w) /\ ctl[q].w \in Workers
      BY <1>0 DEF Asked, Hands, Waiting, Handed
    <3>2. ctl' = ctl BY <2>2
    <3> QED BY <2>6, <3>1, <3>2 DEF Pending
  <2>8. StopAsks'
    <3>1. \A v \in Workers : v # w => queue'[v] = queue[v] /\ current'[v] = current[v]
      BY <1>0, <2>2 DEF Wires
    <3>2. queue'[w] = Tail(queue[w]) BY <1>0, <2>2 DEF Wires
    <3>3. \A v \in Workers : \A i \in DOMAIN queue'[v] :
            queue'[v][i].by = "stop" => v = ctl["stop"].w
      <4> SUFFICES ASSUME NEW v \in Workers, NEW i \in DOMAIN queue'[v], queue'[v][i].by = "stop"
                   PROVE  v = ctl["stop"].w
        OBVIOUS
      <4>1. \E j \in DOMAIN queue[v] : queue[v][j].by = "stop"
        <5>1. CASE v # w BY <3>1, <5>1
        <5>2. CASE v = w
          <6>1. i \in DOMAIN Tail(queue[w]) /\ Tail(queue[w])[i].by = "stop" BY <3>2, <5>2
          <6> QED BY <2>1, <5>2, <6>1
        <5> QED BY <5>1, <5>2
      <4> QED BY <1>0, <4>1 DEF StopAsks
    <3>4. current'[w] = "stop" => w = ctl["stop"].w
      <4>1. CASE m.op \in Requests
        <5>1. current'[w] = queue[w][1].by BY <1>0, <2>1, <2>2, <4>1 DEF Wires
        <5> QED BY <1>0, <2>1, <5>1 DEF StopAsks
      <4>2. CASE m.op \notin Requests BY <1>0, <2>2, <4>2 DEF StopAsks
      <4> QED BY <4>1, <4>2
    <3> QED BY <1>0, <2>2, <3>1, <3>3, <3>4 DEF StopAsks
  <2> QED BY <2>4, <2>5, <2>7, <2>8 DEF StrandInv
<1>2. CASE WriteFails(w) \/ NoAnswer(w) \/ Cancelled(w)
  <2>1. /\ Close(w, "killing", FALSE) /\ UNCHANGED <<manager, ctl, pipe, lines>>
        /\ task[w] \in {"recv", "await"}
    BY <1>2 DEF WriteFails, NoAnswer, Cancelled
  <2>2. lines' \in [Workers -> Seq(Answers)] BY <1>0, <2>1 DEF Wires
  <2> QED BY <2>1, <2>2, CloseStrand
<1>3. CASE Answer(w)
  <2>1. /\ lines[w] # <<>> /\ lines' = [lines EXCEPT ![w] = Tail(lines[w])]
        /\ UNCHANGED <<manager, ctl, pipe>> /\ task[w] = "await"
    BY <1>3 DEF Answer
  <2>2. lines' \in [Workers -> Seq(Answers)]
    <3>1. Tail(lines[w]) \in Seq(Answers) BY <1>l, <2>1
    <3> QED BY <1>0, <2>1, <3>1 DEF Wires
  <2>3. CASE current[w] = "stop"
    <3>1. Close(w, "leaving", TRUE) BY <1>3, <2>3 DEF Answer
    <3> QED BY <2>1, <2>2, <2>3, <3>1, CloseStrand
  <2>4. CASE current[w] # "stop"
    <3> DEFINE v == Head(lines[w]).v
    <3>1. v \in Verdicts
      <4>1. Head(lines[w]) \in Answers BY <1>l, <2>1
      <4> QED BY <4>1 DEF Answers
    <3>2. /\ reply' = [reply EXCEPT ![current[w]] = v]
          /\ task' = [task EXCEPT ![w] = "recv"]
          /\ current' = [current EXCEPT ![w] = "nobody"]
          /\ UNCHANGED <<queue, cancelled, sender, guard, ctl, pipe>>
      BY <1>3, <2>1, <2>4 DEF Answer, manager
    <3> HIDE DEF v
    <3>3. /\ reply' \in [Callers -> Verdicts \cup {"none", "failed"}]
          /\ \A q \in Callers : q # current[w] => reply'[q] = reply[q]
          /\ \A q \in Callers : q = current[w] => reply'[q] # "none"
      BY <1>0, <3>1, <3>2 DEF Wires, Verdicts
    <3>4. current' \in [Workers -> Callers \cup {"nobody"}] BY <1>0, <3>2 DEF Wires
    <3>5. \A u \in Workers : task'[u] # "await" => current'[u] = "nobody"
      BY <1>0, <1>t, <3>2 DEF Wires
    <3>6. Wires' BY <1>0, <2>2, <3>2, <3>3, <3>4, <3>5 DEF Wires
    <3>7. Hands' /\ Told' /\ GuardHeld' BY <1>0, <3>2 DEF Hands, Told, GuardHeld
    <3>8. Asked'
      <4> SUFFICES ASSUME NEW q \in Callers, ctl[q].pc \in Waiting, reply'[q] = "none"
                   PROVE  Pending(q, ctl[q].w)'
        BY <3>2 DEF Asked
      <4>1. q # current[w] /\ reply[q] = "none" BY <3>3
      <4>2. Pending(q, ctl[q].w) /\ ctl[q].w \in Workers
        BY <1>0, <4>1 DEF Asked, Hands, Waiting, Handed
      <4>3. ctl[q].w # w => current'[ctl[q].w] = current[ctl[q].w]
        BY <1>0, <3>2, <4>2 DEF Wires
      <4> QED BY <3>2, <4>1, <4>2, <4>3 DEF Pending
    <3>9. StopAsks'
      <4>1. reply'["stop"] = reply["stop"] BY <2>4, <3>3, CallerFacts
      <4>2. \A u \in Workers : current'[u] = "stop" => current[u] = "stop" BY <1>0, <3>2 DEF Wires
      <4> QED BY <1>0, <3>2, <4>1, <4>2 DEF StopAsks
    <3> QED BY <3>6, <3>7, <3>8, <3>9 DEF StrandInv
  <2> QED BY <2>3, <2>4
<1>4. CASE StopWorker(w)
  <2>1. /\ UNCHANGED <<sender, guard, ctl, reply, cancelled, queue, current>>
        /\ task' = [task EXCEPT ![w] = "stopped"]
        /\ lines' = [lines EXCEPT ![w] = <<>>]
        /\ pipe' = pipe \/ pipe' = [pipe EXCEPT ![w] = <<>>]
        /\ task[w] # "await"
    BY <1>4 DEF StopWorker, manager
  <2>2. \A v \in Workers : task'[v] # "await" => task[v] # "await" BY <1>t, <2>1
  <2>3. pipe' \in [Workers -> Seq(Messages)] /\ lines' \in [Workers -> Seq(Answers)]
    <3>1. <<>> \in Seq(Messages) /\ <<>> \in Seq(Answers) OBVIOUS
    <3>2. pipe \in [Workers -> Seq(Messages)] /\ lines \in [Workers -> Seq(Answers)]
      BY <1>0 DEF Wires
    <3>3. lines' \in [Workers -> Seq(Answers)] BY <2>1, <3>1, <3>2
    <3>4. CASE pipe' = pipe BY <3>2, <3>3, <3>4
    <3>5. CASE pipe' = [pipe EXCEPT ![w] = <<>>] BY <3>1, <3>2, <3>3, <3>5
    <3> QED BY <2>1, <3>4, <3>5
  <2>4. Wires' BY <1>0, <2>1, <2>2, <2>3 DEF Wires
  <2> QED BY <1>0, <2>1, <2>4 DEF StrandInv, Hands, Told, Asked, Pending, GuardHeld, StopAsks
<1> QED BY <1>1, <1>2, <1>3, <1>4 DEF Work

LEMMA ServeStrand ==
    ASSUME SidecarInv, StrandInv, NEW w \in Workers, Serve(w) \/ FlushDue(w) \/ Crash(w)
    PROVE  StrandInv'
<1>0. Wires /\ Hands /\ Told /\ Asked /\ GuardHeld /\ StopAsks BY DEF StrandInv
<1>1. UNCHANGED <<sender, guard, ctl, reply, cancelled, task, queue, current>>
  BY DEF Serve, HandleStart, HandleWrite, HandleResize, HandleEnd, HandleGet, HandleFlush,
         EndOfInput, FlushDue, Crash, Take, worker, manager
<1>2. pipe' \in [Workers -> Seq(Messages)] /\ lines' \in [Workers -> Seq(Answers)]
  <2>1. CASE EndOfInput(w) \/ FlushDue(w) \/ Crash(w)
    <3>1. UNCHANGED <<pipe, lines>> BY <2>1 DEF EndOfInput, FlushDue, Crash
    <3> QED BY <1>0, <3>1 DEF Wires
  <2>2. CASE ~(EndOfInput(w) \/ FlushDue(w) \/ Crash(w))
    <3> DEFINE m == Head(pipe[w])
    <3>1. pipe[w] # <<>> /\ pipe' = [pipe EXCEPT ![w] = Tail(pipe[w])]
      BY <2>2 DEF Serve, HandleStart, HandleWrite, HandleResize, HandleEnd, HandleGet, HandleFlush, Take
    <3>2. pipe[w] \in Seq(Messages) BY <1>0 DEF Wires
    <3>3. Tail(pipe[w]) \in Seq(Messages) /\ m \in Messages BY <3>1, <3>2
    <3>4. pipe' \in [Workers -> Seq(Messages)] BY <1>0, <3>1, <3>3 DEF Wires
    <3>5. \E v \in Verdicts : Emit(w, m, v)
      <4>v. {"ok", "error", "snapshot", "notfound"} \subseteq Verdicts BY DEF Verdicts
      <4>1. CASE HandleStart(w) BY <4>1, <4>v DEF HandleStart
      <4>2. CASE HandleWrite(w) BY <4>2, <4>v DEF HandleWrite
      <4>3. CASE HandleResize(w) BY <4>3, <4>v DEF HandleResize
      <4>4. CASE HandleEnd(w) BY <4>4, <4>v DEF HandleEnd
      <4>5. CASE HandleGet(w) BY <4>5, <4>v DEF HandleGet
      <4>6. CASE HandleFlush(w) BY <4>6, <4>v DEF HandleFlush
      <4> QED BY <2>2, <4>1, <4>2, <4>3, <4>4, <4>5, <4>6 DEF Serve
    <3>6. PICK v \in Verdicts : Emit(w, m, v) BY <3>5
    <3> HIDE DEF m
    <3>7. [by |-> m.by, op |-> m.op, v |-> v] \in Answers BY <3>3 DEF Messages, Answers
    <3>8. lines[w] \in Seq(Answers) BY <1>0 DEF Wires
    <3>9. Append(lines[w], [by |-> m.by, op |-> m.op, v |-> v]) \in Seq(Answers) BY <3>7, <3>8
    <3>10. lines' \in [Workers -> Seq(Answers)] BY <1>0, <3>6, <3>9 DEF Emit, Wires
    <3> QED BY <3>4, <3>10
  <2> QED BY <2>1, <2>2
<1>3. Wires' BY <1>0, <1>1, <1>2 DEF Wires
<1> QED BY <1>0, <1>1, <1>3 DEF StrandInv, Hands, Told, Asked, Pending, GuardHeld, StopAsks

LEMMA StrandInit ==
    ASSUME Init
    PROVE  StrandInv
<1>1. \A p \in Callers : ctl[p] = Idle /\ p # "nobody" BY CallerFacts DEF Init
<1>2. "stop" \in Callers BY CallerFacts
<1>3. Wires BY DEF Init, Wires
<1>4. Hands /\ Told /\ Asked /\ GuardHeld
  BY <1>1 DEF Init, Idle, Hands, Handed, Told, Reaping, Asked, Waiting, GuardHeld
<1>5. StopAsks
  <2>1. \A w \in Workers : current[w] = "nobody" /\ queue[w] = <<>> BY DEF Init
  <2>2. ctl["stop"].pc = "idle" /\ reply["stop"] = "none" BY <1>1, <1>2 DEF Init, Idle
  <2> QED BY <2>1, <2>2 DEF StopAsks
<1> QED BY <1>3, <1>4, <1>5 DEF StrandInv

LEMMA StrandStep ==
    ASSUME SidecarInv, StrandInv, [Next]_vars
    PROVE  StrandInv'
<1>1. CASE Ask BY <1>1, AskStrand
<1>2. ASSUME NEW p \in Callers, Manage(p) PROVE StrandInv'
  BY <1>2, CallStrand, GuardStrand, RestartStrand DEF Manage
<1>3. CASE BackoffElapses \/ UNCHANGED vars
  <2>1. UNCHANGED <<sender, guard, ctl, reply, cancelled, task, queue, current, pipe, lines>>
    BY <1>3 DEF BackoffElapses, vars, manager, worker
  <2> QED BY <2>1 DEF StrandInv, Wires, Hands, Told, Asked, Pending, GuardHeld, StopAsks
<1>4. CASE Shutdown \/ AskFlush \/ Flushed \/ ShutdownDone BY <1>4, ShutdownStrand
<1>5. ASSUME NEW w \in Workers, Work(w) \/ Serve(w) \/ FlushDue(w) \/ Crash(w)
      PROVE  StrandInv'
  BY <1>5, WorkStrand, ServeStrand
<1> QED BY <1>1, <1>2, <1>3, <1>4, <1>5 DEF Next

\* Nobody waits for something that cannot come: for any number of sessions, restarts
\* and queue slots and under every fault, a caller waiting to see a worker stopped has
\* cancelled it, a caller waiting for a reply has a request that is still to be
\* answered or failed, and restart_guard is never left behind.
THEOREM NoCallerStranded == Spec => []NobodyStranded
<1>1. Init => SidecarInv /\ StrandInv BY SidecarInit, StrandInit
<1>2. SidecarInv /\ StrandInv /\ [Next]_vars => (SidecarInv /\ StrandInv)'
  BY SidecarStep, StrandStep
<1>3. SidecarInv /\ StrandInv => NobodyStranded
  BY DEF SidecarInv, Roles, StrandInv, NobodyStranded, Told, Reaping, Asked, Waiting, Pending,
         GuardHeld, Guarding, Restarting
<1> QED BY <1>1, <1>2, <1>3, PTL DEF Spec
=============================================================================
