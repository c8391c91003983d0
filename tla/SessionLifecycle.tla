-------------------------- MODULE SessionLifecycle --------------------------
(***************************************************************************)
(* One session id of kanna-daemon and the tasks that compete for it:       *)
(* connection handlers running Spawn, Kill and Input (connection.rs), the  *)
(* stream_output reader of every incarnation (output.rs) and the handoff   *)
(* handler (handoff.rs).  They meet on three locks, taken in this order:   *)
(*   daemon_lifecycle   an RwLock whose waiters are served first come,     *)
(*                      first served, so a reader arriving after a waiting *)
(*                      writer waits behind it (tokio::sync::RwLock);      *)
(*   lifecycle_lock(id) a mutex per session id;                            *)
(*   sessions           the SessionManager mutex, held for single steps    *)
(*                      and therefore not modelled as a lock.              *)
(* Other ids share only daemon_lifecycle.  The steps of the transfer       *)
(* itself are the subject of Handoff.                                      *)
(***************************************************************************)
EXTENDS Naturals, Sequences

CONSTANTS
  Clients,    \* connections that issue commands for the id
  Handler,    \* the connection of a daemon that asks for a handoff
  None,       \* no incarnation, no task
  Ops,        \* the commands clients issue: subset of {"Spawn", "Kill", "Input"}
  Env,        \* what the environment does: subset of AllEnv
  MaxInc,     \* bound on the incarnations of the id
  MaxCmds     \* bound on the commands of one client, and on handoff requests

(* exits      a child may exit by itself                                       *)
(* stuck      a child may never read its terminal, so a write never completes  *)
(* handoff    a successor may ask for a handoff                                *)
(* killFails  ending the process may fail (PtyKillPlan::execute returns Err)   *)
(* ioError    the reader may fail to register, or meet a PTY error other than  *)
(*            the hangup: it then leaves its loop as if the child had exited   *)
AllEnv == {"exits", "stuck", "handoff", "killFails", "ioError"}

Incs == 1..MaxInc
Tasks == Clients \cup Incs \cup {Handler}

ASSUME LifecycleConstants ==
  /\ MaxInc \in Nat /\ MaxCmds \in Nat
  /\ Ops \subseteq {"Spawn", "Kill", "Input"} /\ Env \subseteq AllEnv
  /\ Handler \notin Clients \cup Incs /\ None \notin Tasks
  /\ Clients \cap Incs = {}

VARIABLES
  lifecycle, sealed,  \* DaemonLifecycleState, SessionManager::sealed_for_handoff
  rwq,                \* tasks waiting for daemon_lifecycle, in order of arrival
  rdHold, wrHold,     \* tasks holding its read half; the handler holds the write half
  lock,               \* holder of lifecycle_lock(id)
  reg,                \* SessionManager::sessions[id]
  tomb,               \* the id is in teardown_tombstones
  slot,               \* the incarnation the id-keyed registries describe:
                      \* fanouts, terminal_emulator_clients, session_sizes, recovery
  born,               \* incarnations so far
  child,              \* unborn / running / exited, or left behind by a failed Kill
  stop, retired,      \* StreamControl::stop_requested, SessionHandle::retired
  inbox,              \* inputs queued for the reader and not yet acknowledged
  rd,                 \* where the reader stands; "done" once mark_stopped ran
  created, exits,     \* SessionCreated and Exit broadcasts per incarnation
  at, op, tgt,        \* a client's step, its command, the incarnation it claimed
  left,               \* commands a client may still issue, handoffs still to come
  ho                  \* the handoff handler: idle / queued / held / committed

lockVars == <<lifecycle, sealed, rwq, rdHold, wrHold, lock>>
regVars  == <<reg, tomb, slot, born, created, exits>>
incVars  == <<child, stop, retired, inbox, rd>>
cmdVars  == <<at, op, tgt, left, ho>>
vars == <<lockVars, regVars, incVars, cmdVars>>

Claimed == {"claimed", "waitStop", "announce"}
ReaderSteps == {"none", "select", "eof", "queued", "guarded", "locked", "clearing", "done"}
ClientSteps == {"idle", "queued", "guarded", "locked", "inserted", "awaiting", "clearing"}
               \cup Claimed

\* Type invariant; a Kill past its claim has an incarnation to tear down.
TypeOK ==
  /\ lifecycle \in {"Running", "HandoffCommitted"} /\ sealed \in BOOLEAN
  /\ rwq \in Seq(Tasks) /\ rdHold \subseteq Tasks /\ wrHold \in BOOLEAN
  /\ lock \in Tasks \cup {None}
  /\ reg \in Incs \cup {None} /\ slot \in Incs \cup {None}
  /\ tomb \in BOOLEAN /\ born \in 0..MaxInc
  /\ child \in [Incs -> {"unborn", "running", "exited", "unkilled"}]
  /\ stop \in [Incs -> BOOLEAN] /\ retired \in [Incs -> BOOLEAN]
  /\ inbox \in [Incs -> SUBSET Clients]
  /\ rd \in [Incs -> ReaderSteps]
  /\ created \in [Incs -> BOOLEAN] /\ exits \in [Incs -> Nat]
  /\ at \in [Clients -> ClientSteps]
  /\ op \in [Clients -> {"Spawn", "Kill", "Input"}]
  /\ tgt \in [Clients -> Incs \cup {None}]
  /\ \A c \in Clients : at[c] \in Claimed => tgt[c] \in Incs
  /\ left \in [Clients \cup {Handler} -> 0..MaxCmds]
  /\ ho \in {"idle", "queued", "held", "committed"}

Init ==
  /\ lifecycle = "Running" /\ sealed = FALSE
  /\ rwq = <<>> /\ rdHold = {} /\ wrHold = FALSE /\ lock = None
  /\ reg = None /\ tomb = FALSE /\ slot = None /\ born = 0
  /\ child = [k \in Incs |-> "unborn"]
  /\ stop = [k \in Incs |-> FALSE] /\ retired = [k \in Incs |-> FALSE]
  /\ inbox = [k \in Incs |-> {}] /\ rd = [k \in Incs |-> "none"]
  /\ created = [k \in Incs |-> FALSE] /\ exits = [k \in Incs |-> 0]
  /\ at = [c \in Clients |-> "idle"] /\ op = [c \in Clients |-> "Spawn"]
  /\ tgt = [c \in Clients |-> None]
  /\ left = [t \in Clients \cup {Handler} |-> MaxCmds] /\ ho = "idle"

-----------------------------------------------------------------------------
(* The locks.                                                                  *)

Step(c, phase) == at' = [at EXCEPT ![c] = phase]

\* The task at the head of the queue may have the read half.
ReadGranted(t) == rwq # <<>> /\ Head(rwq) = t /\ ~wrHold

\* Mutant of LockFree: lifecycle_lock hands out a fresh mutex every time.
AlwaysFree == TRUE
LockFree == lock = None

Unlocked(t) == IF lock = t THEN None ELSE lock

\* A command is answered and its guards are dropped.
Finish(c) ==
  /\ Step(c, "idle")
  /\ rdHold' = rdHold \ {c} /\ lock' = Unlocked(c)

\* The reader returns: mark_stopped, guards and queued inputs are dropped.
ReaderReturns(k) ==
  /\ rd' = [rd EXCEPT ![k] = "done"] /\ inbox' = [inbox EXCEPT ![k] = {}]
  /\ rdHold' = rdHold \ {k} /\ lock' = Unlocked(k)

-----------------------------------------------------------------------------
(* Commands: common steps.                                                     *)

Issue(c, o) ==
  /\ at[c] = "idle" /\ left[c] > 0
  /\ left' = [left EXCEPT ![c] = @ - 1]
  /\ op' = [op EXCEPT ![c] = o] /\ tgt' = [tgt EXCEPT ![c] = None]
  /\ Step(c, "queued") /\ rwq' = Append(rwq, c)
  /\ UNCHANGED <<lifecycle, sealed, rdHold, wrHold, lock, regVars, incVars, ho>>

\* daemon_lifecycle.read(); a committed daemon answers RetryOnSuccessor.
ClientGuard(c) ==
  /\ at[c] = "queued" /\ ReadGranted(c)
  /\ rwq' = Tail(rwq)
  /\ IF lifecycle = "Running"
     THEN Step(c, "guarded") /\ rdHold' = rdHold \cup {c}
     ELSE Step(c, "idle") /\ UNCHANGED rdHold
  /\ UNCHANGED <<lifecycle, sealed, wrHold, lock, regVars, incVars, op, tgt, left, ho>>

ClientLock(c) ==
  /\ at[c] = "guarded" /\ op[c] \in {"Spawn", "Kill"} /\ LockFree
  /\ lock' = c /\ Step(c, "locked")
  /\ UNCHANGED <<lifecycle, sealed, rwq, rdHold, wrHold, regVars, incVars, op, tgt, left, ho>>

-----------------------------------------------------------------------------
(* Spawn.                                                                      *)

\* Spawn: the id is in use, sealed or being torn down, or some step on the way
\* to the insertion fails.  Kill: sealed.
CommandRefused(c) ==
  /\ at[c] = "locked" /\ (op[c] = "Spawn" \/ sealed)
  /\ Finish(c)
  /\ UNCHANGED <<lifecycle, sealed, rwq, wrHold, regVars, incVars, op, tgt, left, ho>>

\* insert_unless_sealed.
MayInsert == reg = None /\ ~sealed /\ ~tomb

SpawnInsert(c) ==
  /\ at[c] = "locked" /\ op[c] = "Spawn" /\ MayInsert /\ born < MaxInc
  /\ born' = born + 1 /\ reg' = born + 1
  /\ child' = [child EXCEPT ![born + 1] = "running"]
  /\ tgt' = [tgt EXCEPT ![c] = born + 1] /\ Step(c, "inserted")
  /\ UNCHANGED <<lockVars, tomb, slot, created, exits, stop, retired, inbox, rd, op, left, ho>>

\* Sizes, recovery and fanout entries, the reader task, SessionCreated.
SpawnPublish(c) ==
  /\ at[c] = "inserted"
  /\ slot' = tgt[c] /\ created' = [created EXCEPT ![tgt[c]] = TRUE]
  /\ \E start \in {"select"} \cup (IF "ioError" \in Env THEN {"done"} ELSE {}) :
       rd' = [rd EXCEPT ![tgt[c]] = start]
  /\ Finish(c)
  /\ UNCHANGED <<lifecycle, sealed, rwq, wrHold, reg, tomb, born, exits, child, stop, retired,
                 inbox, op, tgt, left, ho>>

-----------------------------------------------------------------------------
(* Kill.                                                                       *)

ClaimFound == reg # None

\* Mutant of Withdraw: the session stays registered while it is torn down.
KeepRegistered == UNCHANGED reg
Withdraw == reg' = None

\* One acquisition of the manager: seal test, remove_if_same, begin_teardown.
KillClaim(c) ==
  /\ at[c] = "locked" /\ op[c] = "Kill" /\ ~sealed /\ ClaimFound
  /\ Withdraw /\ tomb' = TRUE
  /\ tgt' = [tgt EXCEPT ![c] = reg] /\ retired' = [retired EXCEPT ![reg] = TRUE]
  /\ Step(c, "claimed")
  /\ UNCHANGED <<lockVars, slot, born, created, exits, child, stop, inbox, rd, op, left, ho>>

\* Nothing under the id: the registries are cleared all the same.
KillMissing(c) ==
  /\ at[c] = "locked" /\ op[c] = "Kill" /\ ~sealed /\ reg = None
  /\ Step(c, "clearing")
  /\ UNCHANGED <<lockVars, regVars, incVars, op, tgt, left, ho>>

\* request_stop, then SessionHandle::kill on the lifecycle executor.
KillStrike(c) ==
  /\ at[c] = "claimed"
  /\ stop' = [stop EXCEPT ![tgt[c]] = TRUE]
  /\ \/ Step(c, "waitStop") /\ child' = [child EXCEPT ![tgt[c]] = "exited"]
     \/ "killFails" \in Env /\ Step(c, "clearing") /\ child' = [child EXCEPT ![tgt[c]] = "unkilled"]
  /\ UNCHANGED <<lockVars, regVars, retired, inbox, rd, op, tgt, left, ho>>

\* wait_until_stopped, without a deadline.
KillStopped(c) ==
  /\ at[c] = "waitStop" /\ rd[tgt[c]] = "done"
  /\ Step(c, "announce")
  /\ UNCHANGED <<lockVars, regVars, incVars, op, tgt, left, ho>>

KillAnnounce(c) ==
  /\ at[c] = "announce"
  /\ exits' = [exits EXCEPT ![tgt[c]] = @ + 1] /\ Step(c, "clearing")
  /\ UNCHANGED <<lockVars, reg, tomb, slot, born, created, incVars, op, tgt, left, ho>>

KillClear(c) ==
  /\ at[c] = "clearing"
  /\ slot' = None /\ tomb' = FALSE /\ Finish(c)
  /\ UNCHANGED <<lifecycle, sealed, rwq, wrHold, reg, born, created, exits, incVars, op, tgt,
                 left, ho>>

-----------------------------------------------------------------------------
(* Input: the read guard is held until the bytes are written.                  *)

\* No session, or its reader is gone and took the receiver with it.
QueueClosed == IF reg = None THEN TRUE ELSE rd[reg] = "done"

InputSend(c) ==
  /\ at[c] = "guarded" /\ op[c] = "Input" /\ ~QueueClosed
  /\ inbox' = [inbox EXCEPT ![reg] = @ \cup {c}] /\ Step(c, "awaiting")
  /\ UNCHANGED <<lockVars, regVars, child, stop, retired, rd, op, tgt, left, ho>>

InputRefused(c) ==
  /\ at[c] = "guarded" /\ op[c] = "Input" /\ QueueClosed
  /\ Finish(c)
  /\ UNCHANGED <<lifecycle, sealed, rwq, wrHold, regVars, incVars, op, tgt, left, ho>>

\* The acknowledgement arrived or its sender was dropped.
InputDone(c) ==
  /\ at[c] = "awaiting" /\ \A k \in Incs : c \notin inbox[k]
  /\ Finish(c)
  /\ UNCHANGED <<lifecycle, sealed, rwq, wrHold, regVars, incVars, op, tgt, left, ho>>

-----------------------------------------------------------------------------
(* stream_output, from the loop to the end of the task.                        *)

ToldToStop(k) == stop[k] \/ retired[k]

ReaderWrites(k, c) ==
  /\ rd[k] = "select" /\ ~ToldToStop(k) /\ c \in inbox[k] /\ child[k] = "running"
  /\ inbox' = [inbox EXCEPT ![k] = @ \ {c}]
  /\ UNCHANGED <<lockVars, regVars, child, stop, retired, rd, cmdVars>>

\* Any wake-up of the loop sees the stop, and so does the first test after it.
ReaderStops(k) ==
  /\ rd[k] = "select" /\ ToldToStop(k)
  /\ ReaderReturns(k)
  /\ UNCHANGED <<lifecycle, sealed, rwq, wrHold, regVars, child, stop, retired, cmdVars>>

ReaderEof(k) ==
  /\ rd[k] = "select" /\ ~ToldToStop(k) /\ (child[k] = "exited" \/ "ioError" \in Env)
  /\ rd' = [rd EXCEPT ![k] = "eof"]
  /\ UNCHANGED <<lockVars, regVars, child, stop, retired, inbox, cmdVars>>

ReaderQueue(k) ==
  /\ rd[k] = "eof"
  /\ rd' = [rd EXCEPT ![k] = "queued"] /\ rwq' = Append(rwq, k)
  /\ UNCHANGED <<lifecycle, sealed, rdHold, wrHold, lock, regVars, child, stop, retired, inbox,
                 cmdVars>>

ReaderGuard(k) ==
  /\ rd[k] = "queued" /\ ReadGranted(k)
  /\ rwq' = Tail(rwq)
  /\ IF lifecycle = "Running"
     THEN /\ rd' = [rd EXCEPT ![k] = "guarded"] /\ rdHold' = rdHold \cup {k}
          /\ UNCHANGED <<inbox, lock>>
     ELSE ReaderReturns(k)
  /\ UNCHANGED <<lifecycle, sealed, wrHold, regVars, child, stop, retired, cmdVars>>

ReaderLock(k) ==
  /\ rd[k] = "guarded" /\ LockFree
  /\ lock' = k /\ rd' = [rd EXCEPT ![k] = "locked"]
  /\ UNCHANGED <<lifecycle, sealed, rwq, rdHold, wrHold, regVars, child, stop, retired, inbox,
                 cmdVars>>

\* Mutant of StillMine: the incarnation is not tested again under the lock.
TakeAnyway(k) == TRUE
\* The second stop test and the pointer comparison with the registry.
StillMine(k) == ~ToldToStop(k) /\ reg = k

\* Natural exit: leave the registry, broadcast Exit, then clear.
ReaderExits(k) ==
  /\ rd[k] = "locked" /\ StillMine(k) /\ ~sealed
  /\ reg' = None /\ retired' = [retired EXCEPT ![k] = TRUE]
  /\ exits' = [exits EXCEPT ![k] = @ + 1]
  /\ rd' = [rd EXCEPT ![k] = "clearing"]
  /\ UNCHANGED <<lockVars, tomb, slot, born, created, child, stop, inbox, cmdVars>>

ReaderSuperseded(k) ==
  /\ rd[k] = "locked" /\ ~StillMine(k)
  /\ ReaderReturns(k)
  /\ UNCHANGED <<lifecycle, sealed, rwq, wrHold, regVars, child, stop, retired, cmdVars>>

ReaderClear(k) ==
  /\ rd[k] = "clearing"
  /\ slot' = None /\ ReaderReturns(k)
  /\ UNCHANGED <<lifecycle, sealed, rwq, wrHold, reg, tomb, born, created, exits, child, stop,
                 retired, cmdVars>>

-----------------------------------------------------------------------------
(* The handoff handler, as far as the locks see it.                            *)

HandoffQueue ==
  /\ "handoff" \in Env /\ ho = "idle" /\ left[Handler] > 0
  /\ left' = [left EXCEPT ![Handler] = @ - 1]
  /\ ho' = "queued" /\ rwq' = Append(rwq, Handler)
  /\ UNCHANGED <<lifecycle, sealed, rdHold, wrHold, lock, regVars, incVars, at, op, tgt>>

\* Mutant of Drained: the write half is granted beside readers.
DontWait == TRUE
Drained == rdHold = {}

HandoffGuard ==
  /\ ho = "queued" /\ ReadGranted(Handler) /\ Drained
  /\ rwq' = Tail(rwq) /\ wrHold' = TRUE /\ sealed' = TRUE /\ ho' = "held"
  /\ UNCHANGED <<lifecycle, rdHold, lock, regVars, incVars, at, op, tgt, left>>

HandoffAbort ==
  /\ ho = "held"
  /\ wrHold' = FALSE /\ sealed' = FALSE /\ ho' = "idle"
  /\ UNCHANGED <<lifecycle, rwq, rdHold, lock, regVars, incVars, at, op, tgt, left>>

\* Only with a reader that parked or has stopped: one at end of file cannot
\* park, and the handler rolls back after 2 s.
HandoffCommit ==
  /\ ho = "held" /\ \A k \in Incs : reg = k => rd[k] \in {"select", "done"}
  /\ wrHold' = FALSE /\ ho' = "committed" /\ lifecycle' = "HandoffCommitted"
  /\ stop' = [k \in Incs |-> stop[k] \/ k = reg]
  /\ UNCHANGED <<sealed, rwq, rdHold, lock, regVars, child, retired, inbox, rd, at, op, tgt, left>>

ChildExit(k) ==
  /\ "exits" \in Env /\ child[k] = "running"
  /\ child' = [child EXCEPT ![k] = "exited"]
  /\ UNCHANGED <<lockVars, regVars, stop, retired, inbox, rd, cmdVars>>

-----------------------------------------------------------------------------
ClientNext ==
  \E c \in Clients :
    \/ \E o \in Ops : Issue(c, o)
    \/ ClientGuard(c) \/ ClientLock(c)
    \/ CommandRefused(c) \/ SpawnInsert(c) \/ SpawnPublish(c)
    \/ KillClaim(c) \/ KillMissing(c) \/ KillStrike(c) \/ KillStopped(c)
    \/ KillAnnounce(c) \/ KillClear(c)
    \/ InputSend(c) \/ InputRefused(c) \/ InputDone(c)

ReaderNext ==
  \E k \in Incs :
    \/ \E c \in Clients : ReaderWrites(k, c)
    \/ ReaderStops(k) \/ ReaderEof(k) \/ ReaderQueue(k) \/ ReaderGuard(k) \/ ReaderLock(k)
    \/ ReaderExits(k) \/ ReaderSuperseded(k) \/ ReaderClear(k) \/ ChildExit(k)

HandlerNext == HandoffQueue \/ HandoffGuard \/ HandoffAbort \/ HandoffCommit

Next == ClientNext \/ ReaderNext \/ HandlerNext

Spec == Init /\ [][Next]_vars

-----------------------------------------------------------------------------
(* Safety.                                                                     *)

\* A replacement is announced only once its predecessor's Exit is out: the two
\* broadcasts of one id never cross (Kill's claim, the natural-exit fence).  The
\* one exception is a process that could not be ended: Kill forgets it silently.
ExitBeforeReplacement ==
  \A j, k \in Incs : j < k /\ created[k] => exits[j] = 1 \/ child[j] = "unkilled"

\* No death is announced twice, whether Kill, the reader or both saw it, and an
\* announced incarnation is no longer registered.
OneExit == \A k \in Incs : exits[k] <= 1 /\ (exits[k] = 1 => reg # k)

\* The cleanup of one incarnation never wipes the id-keyed registries of the
\* next: a registered session with a reader has its own entries.
RegistriesIntact == \A k \in Incs : reg = k /\ rd[k] # "none" => slot = k

\* An incarnation leaves the registry only by its own retirement: a reader that
\* waited for the per-id lock while a Kill and a Spawn went by never evicts the
\* replacement (the second stop test and Arc::ptr_eq in stream_output).
NoEviction == [][\A k \in Incs : reg = k /\ reg' # k => ~retired[k] /\ retired'[k]]_vars

\* While the handoff handler holds the write half nothing changes what it
\* captures: the registry, its tombstone or the id-keyed entries.
SnapshotFenced == [][wrHold => UNCHANGED <<reg, tomb, slot, exits>>]_vars

-----------------------------------------------------------------------------
(* Liveness.  Tasks run, locks are handed on, the handoff handler resolves     *)
(* (every wait in it has a deadline); clients, children and successors owe     *)
(* nothing.  A write completes only if the child reads its terminal.           *)

ClientFair ==
  \A c \in Clients :
    WF_vars(\/ ClientGuard(c) \/ ClientLock(c)
            \/ CommandRefused(c) \/ SpawnInsert(c) \/ SpawnPublish(c)
            \/ KillClaim(c) \/ KillMissing(c) \/ KillStrike(c)
            \/ KillStopped(c) \/ KillAnnounce(c) \/ KillClear(c)
            \/ InputSend(c) \/ InputRefused(c) \/ InputDone(c))

ReaderFair ==
  \A k \in Incs :
    /\ WF_vars(\/ ReaderStops(k) \/ ReaderEof(k) \/ ReaderQueue(k) \/ ReaderGuard(k)
               \/ ReaderLock(k) \/ ReaderExits(k) \/ ReaderSuperseded(k) \/ ReaderClear(k))
    /\ "stuck" \notin Env => \A c \in Clients : WF_vars(ReaderWrites(k, c))

HandlerFair == WF_vars(HandoffGuard) /\ WF_vars(HandoffAbort)

FairSpec == Spec /\ ClientFair /\ ReaderFair /\ HandlerFair

\* A Kill is answered, whatever the session and the other clients do.
KillAnswered == \A c \in Clients : (at[c] # "idle" /\ op[c] = "Kill") ~> at[c] = "idle"
=============================================================================
