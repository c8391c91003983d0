----------------------- MODULE SessionLifecycleProofs -----------------------
(* Theorems about SessionLifecycle for any number of clients, incarnations     *)
(* and commands, and every behaviour of the environment.  All of them rest on  *)
(* who owns which lock: LockInv says that a task past a lock holds it, LiveInv *)
(* what the holder of lifecycle_lock(id) may rely on.                          *)
EXTENDS SessionLifecycle, TLAPS

\* Client steps under lifecycle_lock(id).
Holding == {"locked", "inserted", "clearing"} \cup Claimed

Shape ==
  /\ lock \in Tasks \cup {None} /\ rdHold \subseteq Tasks
  /\ reg \in Incs \cup {None} /\ born \in 0..MaxInc
  /\ child \in [Incs -> {"unborn", "running", "exited", "unkilled"}]
  /\ retired \in [Incs -> BOOLEAN]
  /\ rd \in [Incs -> ReaderSteps]
  /\ created \in [Incs -> BOOLEAN] /\ exits \in [Incs -> {0, 1}]
  /\ at \in [Clients -> ClientSteps]
  /\ tgt \in [Clients -> Incs \cup {None}]

\* A task past a lock holds it, and the two halves of daemon_lifecycle exclude
\* each other.
LockInv ==
  /\ \A c \in Clients : at[c] \in Holding => lock = c
  /\ \A k \in Incs : rd[k] \in {"locked", "clearing"} => lock = k
  /\ \A c \in Clients : at[c] \in Holding \cup {"guarded", "awaiting"} => c \in rdHold
  /\ \A k \in Incs : rd[k] \in {"guarded", "locked", "clearing"} => k \in rdHold
  /\ wrHold => rdHold = {}

\* An incarnation not yet spawned has left no trace.
Fresh ==
  \A k \in Incs : k > born => rd[k] = "none" /\ exits[k] = 0 /\ ~retired[k] /\ ~created[k]

\* The registered incarnation is the latest one, not retired and not announced.
Registered == reg # None => reg = born /\ ~retired[reg] /\ exits[reg] = 0

\* What a lock holder relies on from one of its steps to the next.
Held ==
  /\ \A c \in Clients : at[c] = "inserted" => reg # None /\ tgt[c] = reg
  /\ \A c \in Clients : at[c] \in Claimed =>
       reg = None /\ tgt[c] = born /\ born \in Incs /\ exits[born] = 0
  /\ \A c \in Clients : at[c] = "clearing" => reg = None
  /\ \A k \in Incs : rd[k] = "clearing" => reg = None

\* An incarnation that is neither registered nor being torn down is announced,
\* or could not be ended.
Buried ==
  \A j \in Incs :
    j <= born /\ j # reg /\ (\A c \in Clients : at[c] \in Claimed => tgt[c] # j) =>
      exits[j] = 1 \/ child[j] = "unkilled"

LiveInv == Fresh /\ Registered /\ Held /\ Buried /\ RegistriesIntact

Inv == Shape /\ LockInv /\ LiveInv

LEMMA InitInv == Init => Inv
BY LifecycleConstants
   DEF Init, Inv, Shape, LockInv, LiveInv, Fresh, Registered, Held, Buried, RegistriesIntact,
       Holding, Claimed, ReaderSteps, ClientSteps, Tasks, Incs

\* A command that is answered drops its guards.
LEMMA FinishLocks ==
  ASSUME Inv, NEW c \in Clients, Finish(c), UNCHANGED <<rd, wrHold>>
  PROVE  LockInv'
<1> USE LifecycleConstants DEF Inv, Shape, LockInv, Tasks
<1>1. at' = [at EXCEPT ![c] = "idle"] /\ rdHold' = rdHold \ {c} BY DEF Finish, Step
<1>2. lock' = IF lock = c THEN None ELSE lock BY DEF Finish, Unlocked
<1>3. \A d \in Clients : at'[d] \in Holding => lock' = d BY <1>1, <1>2 DEF Holding, Claimed
<1>4. \A k \in Incs : rd'[k] \in {"locked", "clearing"} => lock' = k BY <1>2
<1>5. \A d \in Clients : at'[d] \in Holding \cup {"guarded", "awaiting"} => d \in rdHold'
  BY <1>1 DEF Holding, Claimed
<1>6. \A k \in Incs : rd'[k] \in {"guarded", "locked", "clearing"} => k \in rdHold' BY <1>1
<1>7. wrHold' => rdHold' = {} BY <1>1
<1> QED BY <1>3, <1>4, <1>5, <1>6, <1>7

\* A reader that returns drops its guards.
LEMMA ReturnLocks ==
  ASSUME Inv, NEW k \in Incs, ReaderReturns(k), UNCHANGED <<at, wrHold>>
  PROVE  LockInv'
<1> USE LifecycleConstants DEF Inv, Shape, LockInv, Tasks
<1>1. rd' = [rd EXCEPT ![k] = "done"] /\ rdHold' = rdHold \ {k} BY DEF ReaderReturns
<1>2. lock' = IF lock = k THEN None ELSE lock BY DEF ReaderReturns, Unlocked
<1>3. \A c \in Clients : at'[c] \in Holding => lock' = c BY <1>2
<1>4. \A i \in Incs : rd'[i] \in {"locked", "clearing"} => lock' = i BY <1>1, <1>2
<1>5. \A c \in Clients : at'[c] \in Holding \cup {"guarded", "awaiting"} => c \in rdHold'
  BY <1>1
<1>6. \A i \in Incs : rd'[i] \in {"guarded", "locked", "clearing"} => i \in rdHold' BY <1>1
<1>7. wrHold' => rdHold' = {} BY <1>1
<1> QED BY <1>3, <1>4, <1>5, <1>6, <1>7

\* A command that owns nothing yet, or no longer, disturbs nobody.
LEMMA QuietLive ==
  ASSUME Inv, NEW c \in Clients, at[c] \notin Claimed,
         NEW phase \in {"idle", "queued", "guarded", "locked", "awaiting"}, Step(c, phase),
         UNCHANGED <<reg, slot, born, created, exits, child, retired, rd>>,
         \A d \in Clients : d # c => tgt'[d] = tgt[d]
  PROVE  LiveInv'
<1> USE DEF Inv, LiveInv
<1>1. /\ \A d \in Clients : d # c => at'[d] = at[d]
      /\ at'[c] \notin Claimed \cup {"inserted", "clearing"}
  BY DEF Step, Shape, Claimed
<1>2. Fresh' /\ Registered' /\ RegistriesIntact' BY DEF Fresh, Registered, RegistriesIntact
<1>3. Held' BY <1>1 DEF Held
<1>4. Buried'
  <2> SUFFICES ASSUME NEW j \in Incs, j <= born, j # reg,
                      \A d \in Clients : at'[d] \in Claimed => tgt'[d] # j
               PROVE  exits[j] = 1 \/ child[j] = "unkilled"
    BY DEF Buried
  <2>1. \A d \in Clients : at[d] \in Claimed => tgt[d] # j BY <1>1
  <2> QED BY <2>1 DEF Buried
<1> QED BY <1>2, <1>3, <1>4

\* Commands keep the types.
LEMMA ClientShape ==
  ASSUME Inv, ClientNext
  PROVE  Shape'
<1> USE LifecycleConstants DEF Inv, Shape, LockInv, LiveInv, Held, Registered, Tasks, Incs,
        ClientSteps, ReaderSteps, Claimed, Holding
<1> PICK c \in Clients :
      \/ (\E o \in Ops : Issue(c, o)) \/ ClientGuard(c) \/ ClientLock(c) \/ CommandRefused(c)
      \/ SpawnInsert(c) \/ SpawnPublish(c) \/ KillClaim(c) \/ KillMissing(c) \/ KillStrike(c)
      \/ KillStopped(c) \/ KillAnnounce(c) \/ KillClear(c) \/ InputSend(c) \/ InputRefused(c)
      \/ InputDone(c)
  BY DEF ClientNext
<1>1. CASE \E o \in Ops : Issue(c, o)
  BY <1>1 DEF Issue, Step, regVars, incVars
<1>2. CASE ClientGuard(c)
  <2>1. PICK phase \in {"guarded", "idle"} : at' = [at EXCEPT ![c] = phase]
    BY <1>2 DEF ClientGuard, Step
  <2>2. rdHold' \subseteq rdHold \cup {c} BY <1>2 DEF ClientGuard
  <2>3. UNCHANGED <<lock, regVars, incVars, tgt>> BY <1>2 DEF ClientGuard
  <2> QED BY <2>1, <2>2, <2>3 DEF regVars, incVars
<1>3. CASE ClientLock(c)
  BY <1>3 DEF ClientLock, LockFree, Step, regVars, incVars
<1>4. CASE CommandRefused(c)
  BY <1>4 DEF CommandRefused, Finish, regVars, incVars, Step, Unlocked
<1>5. CASE SpawnInsert(c)
  BY <1>5 DEF SpawnInsert, MayInsert, Step, lockVars
<1>6. CASE SpawnPublish(c)
  BY <1>6 DEF SpawnPublish, Finish, Step, Unlocked
<1>7. CASE KillClaim(c)
  BY <1>7 DEF KillClaim, ClaimFound, Withdraw, Step, lockVars
<1>8. CASE KillMissing(c)
  BY <1>8 DEF KillMissing, Step, lockVars, regVars, incVars
<1>9. CASE KillStrike(c)
  <2>1. PICK phase \in {"waitStop", "clearing"}, fate \in {"exited", "unkilled"} :
          Step(c, phase) /\ child' = [child EXCEPT ![tgt[c]] = fate]
    BY <1>9 DEF KillStrike
  <2>2. UNCHANGED <<lockVars, regVars, retired, rd, tgt>> BY <1>9 DEF KillStrike
  <2> QED BY <2>1, <2>2 DEF Step, lockVars, regVars
<1>10. CASE KillStopped(c)
  BY <1>10 DEF KillStopped, Step, lockVars, regVars, incVars
<1>11. CASE KillAnnounce(c)
  BY <1>11 DEF KillAnnounce, Step, lockVars, incVars
<1>12. CASE KillClear(c)
  BY <1>12 DEF KillClear, Finish, incVars, Step, Unlocked
<1>13. CASE InputSend(c)
  BY <1>13 DEF InputSend, Step, lockVars, regVars
<1>14. CASE InputRefused(c)
  BY <1>14 DEF InputRefused, Finish, regVars, incVars, Step, Unlocked
<1>15. CASE InputDone(c)
  BY <1>15 DEF InputDone, Finish, regVars, incVars, Step, Unlocked
<1> QED BY <1>1, <1>2, <1>3, <1>4, <1>5, <1>6, <1>7, <1>8, <1>9, <1>10, <1>11, <1>12, <1>13,
       <1>14, <1>15

\* Readers and children keep the types.
LEMMA ReaderShape ==
  ASSUME Inv, ReaderNext
  PROVE  Shape'
<1> USE LifecycleConstants DEF Inv, Shape, LockInv, LiveInv, Held, Registered, Tasks, Incs,
        ClientSteps, ReaderSteps, Claimed, Holding
<1> PICK k \in Incs :
      \/ (\E c \in Clients : ReaderWrites(k, c)) \/ ReaderStops(k) \/ ReaderEof(k)
      \/ ReaderQueue(k) \/ ReaderGuard(k) \/ ReaderLock(k) \/ ReaderExits(k)
      \/ ReaderSuperseded(k) \/ ReaderClear(k) \/ ChildExit(k)
  BY DEF ReaderNext
<1>1. CASE \E c \in Clients : ReaderWrites(k, c)
  BY <1>1 DEF ReaderWrites, ToldToStop, lockVars, regVars, cmdVars
<1>2. CASE ReaderStops(k)
  BY <1>2 DEF ReaderStops, ToldToStop, ReaderReturns, regVars, cmdVars, Unlocked
<1>3. CASE ReaderEof(k)
  BY <1>3 DEF ReaderEof, ToldToStop, lockVars, regVars, cmdVars
<1>4. CASE ReaderQueue(k)
  BY <1>4 DEF ReaderQueue, regVars, cmdVars
<1>5. CASE ReaderGuard(k)
  BY <1>5 DEF ReaderGuard, ReadGranted, ReaderReturns, regVars, cmdVars, Unlocked
<1>6. CASE ReaderLock(k)
  BY <1>6 DEF ReaderLock, LockFree, regVars, cmdVars
<1>7. CASE ReaderExits(k)
  BY <1>7 DEF ReaderExits, StillMine, lockVars, cmdVars, ToldToStop
<1>8. CASE ReaderSuperseded(k)
  BY <1>8 DEF ReaderSuperseded, StillMine, ReaderReturns, regVars, cmdVars, ToldToStop, Unlocked
<1>9. CASE ReaderClear(k)
  BY <1>9 DEF ReaderClear, ReaderReturns, cmdVars, Unlocked
<1>10. CASE ChildExit(k)
  BY <1>10 DEF ChildExit, lockVars, regVars, cmdVars
<1> QED BY <1>1, <1>2, <1>3, <1>4, <1>5, <1>6, <1>7, <1>8, <1>9, <1>10

\* A handoff keeps the types.
LEMMA HandlerShape ==
  ASSUME Inv, HandlerNext
  PROVE  Shape'
<1> USE LifecycleConstants DEF Inv, Shape, LockInv, LiveInv, Held, Registered, Tasks, Incs,
        ClientSteps, ReaderSteps, Claimed, Holding
<1>1. CASE HandoffQueue
  BY <1>1 DEF HandoffQueue, regVars, incVars
<1>2. CASE HandoffGuard
  BY <1>2 DEF HandoffGuard, ReadGranted, Drained, regVars, incVars
<1>3. CASE HandoffAbort
  BY <1>3 DEF HandoffAbort, regVars, incVars
<1>4. CASE HandoffCommit
  BY <1>4 DEF HandoffCommit, regVars
<1> QED BY <1>1, <1>2, <1>3, <1>4 DEF HandlerNext

\* Commands keep the locks in order.
LEMMA ClientLockInv ==
  ASSUME Inv, ClientNext
  PROVE  LockInv'
<1> USE LifecycleConstants DEF Inv, Shape, LockInv, Tasks, Incs, Claimed, Holding
<1> PICK c \in Clients :
      \/ (\E o \in Ops : Issue(c, o)) \/ ClientGuard(c) \/ ClientLock(c) \/ CommandRefused(c)
      \/ SpawnInsert(c) \/ SpawnPublish(c) \/ KillClaim(c) \/ KillMissing(c) \/ KillStrike(c)
      \/ KillStopped(c) \/ KillAnnounce(c) \/ KillClear(c) \/ InputSend(c) \/ InputRefused(c)
      \/ InputDone(c)
  BY DEF ClientNext
<1>1. CASE \E o \in Ops : Issue(c, o)
  BY <1>1 DEF Issue, Step, regVars, incVars
<1>2. CASE ClientGuard(c)
  BY <1>2 DEF ClientGuard, ReadGranted, Step, regVars, incVars
<1>3. CASE ClientLock(c)
  BY <1>3 DEF ClientLock, LockFree, Step, regVars, incVars
<1>4. CASE CommandRefused(c)
  BY <1>4, FinishLocks DEF CommandRefused, regVars, incVars
<1>5. CASE SpawnInsert(c)
  BY <1>5 DEF SpawnInsert, MayInsert, Step, lockVars
<1>6. CASE SpawnPublish(c)
  <2>1. PICK start \in {"select", "done"} : rd' = [rd EXCEPT ![tgt[c]] = start]
    BY <1>6 DEF SpawnPublish
  <2>2. at' = [at EXCEPT ![c] = "idle"] /\ rdHold' = rdHold \ {c} /\ UNCHANGED wrHold
    BY <1>6 DEF SpawnPublish, Finish, Step
  <2>3. lock' = None /\ lock = c BY <1>6 DEF SpawnPublish, Finish, Unlocked
  <2>4. \A k \in Incs : rd[k] \notin {"locked", "clearing"} /\ k # c BY <2>3
  <2> QED BY <2>1, <2>2, <2>3, <2>4
<1>7. CASE KillClaim(c)
  BY <1>7 DEF KillClaim, ClaimFound, Withdraw, Step, lockVars
<1>8. CASE KillMissing(c)
  BY <1>8 DEF KillMissing, Step, lockVars, regVars, incVars
<1>9. CASE KillStrike(c)
  BY <1>9 DEF KillStrike, Step, lockVars, regVars
<1>10. CASE KillStopped(c)
  BY <1>10 DEF KillStopped, Step, lockVars, regVars, incVars
<1>11. CASE KillAnnounce(c)
  BY <1>11 DEF KillAnnounce, Step, lockVars, incVars
<1>12. CASE KillClear(c)
  BY <1>12, FinishLocks DEF KillClear, regVars, incVars
<1>13. CASE InputSend(c)
  BY <1>13 DEF InputSend, Step, lockVars, regVars
<1>14. CASE InputRefused(c)
  BY <1>14, FinishLocks DEF InputRefused, regVars, incVars
<1>15. CASE InputDone(c)
  BY <1>15, FinishLocks DEF InputDone, regVars, incVars
<1> QED BY <1>1, <1>2, <1>3, <1>4, <1>5, <1>6, <1>7, <1>8, <1>9, <1>10, <1>11, <1>12, <1>13,
       <1>14, <1>15

\* Readers and children keep the locks in order.
LEMMA ReaderLockInv ==
  ASSUME Inv, ReaderNext
  PROVE  LockInv'
<1> USE LifecycleConstants DEF Inv, Shape, LockInv, Tasks, Incs, Claimed, Holding
<1> PICK k \in Incs :
      \/ (\E c \in Clients : ReaderWrites(k, c)) \/ ReaderStops(k) \/ ReaderEof(k)
      \/ ReaderQueue(k) \/ ReaderGuard(k) \/ ReaderLock(k) \/ ReaderExits(k)
      \/ ReaderSuperseded(k) \/ ReaderClear(k) \/ ChildExit(k)
  BY DEF ReaderNext
<1>1. CASE \E c \in Clients : ReaderWrites(k, c)
  BY <1>1 DEF ReaderWrites, ToldToStop, lockVars, regVars, cmdVars
<1>2. CASE ReaderStops(k)
  BY <1>2, ReturnLocks DEF ReaderStops, cmdVars
<1>3. CASE ReaderEof(k)
  BY <1>3 DEF ReaderEof, ToldToStop, lockVars, regVars, cmdVars
<1>4. CASE ReaderQueue(k)
  BY <1>4 DEF ReaderQueue, regVars, cmdVars
<1>5. CASE ReaderGuard(k)
  <2>1. CASE lifecycle = "Running" BY <1>5, <2>1 DEF ReaderGuard, ReadGranted, cmdVars
  <2>2. CASE lifecycle # "Running" BY <1>5, <2>2, ReturnLocks DEF ReaderGuard, cmdVars
  <2> QED BY <2>1, <2>2
<1>6. CASE ReaderLock(k)
  BY <1>6 DEF ReaderLock, LockFree, regVars, cmdVars
<1>7. CASE ReaderExits(k)
  BY <1>7 DEF ReaderExits, StillMine, lockVars, cmdVars, ToldToStop
<1>8. CASE ReaderSuperseded(k)
  BY <1>8, ReturnLocks DEF ReaderSuperseded, cmdVars
<1>9. CASE ReaderClear(k)
  BY <1>9, ReturnLocks DEF ReaderClear, cmdVars
<1>10. CASE ChildExit(k)
  BY <1>10 DEF ChildExit, lockVars, regVars, cmdVars
<1> QED BY <1>1, <1>2, <1>3, <1>4, <1>5, <1>6, <1>7, <1>8, <1>9, <1>10

\* A handoff keeps the locks in order.
LEMMA HandlerLockInv ==
  ASSUME Inv, HandlerNext
  PROVE  LockInv'
<1> USE LifecycleConstants DEF Inv, Shape, LockInv, Tasks, Incs, Claimed, Holding
<1>1. CASE HandoffQueue
  BY <1>1 DEF HandoffQueue, regVars, incVars
<1>2. CASE HandoffGuard
  BY <1>2 DEF HandoffGuard, ReadGranted, Drained, regVars, incVars
<1>3. CASE HandoffAbort
  BY <1>3 DEF HandoffAbort, regVars, incVars
<1>4. CASE HandoffCommit
  BY <1>4 DEF HandoffCommit, regVars
<1> QED BY <1>1, <1>2, <1>3, <1>4 DEF HandlerNext

\* Commands keep what lock holders rely on.
LEMMA ClientLiveInv ==
  ASSUME Inv, ClientNext
  PROVE  LiveInv'
<1> USE LifecycleConstants DEF Inv, Shape, LockInv, LiveInv, Fresh, Registered, Held, Buried,
        RegistriesIntact, Tasks, Incs, Claimed, Holding
<1> PICK c \in Clients :
      \/ (\E o \in Ops : Issue(c, o)) \/ ClientGuard(c) \/ ClientLock(c) \/ CommandRefused(c)
      \/ SpawnInsert(c) \/ SpawnPublish(c) \/ KillClaim(c) \/ KillMissing(c) \/ KillStrike(c)
      \/ KillStopped(c) \/ KillAnnounce(c) \/ KillClear(c) \/ InputSend(c) \/ InputRefused(c)
      \/ InputDone(c)
  BY DEF ClientNext
<1>1. CASE \E o \in Ops : Issue(c, o)
  <2>1. /\ at[c] \notin Claimed /\ Step(c, "queued") /\ \A d \in Clients : d # c => tgt'[d] = tgt[d]
        /\ UNCHANGED <<reg, slot, born, created, exits, child, retired, rd>>
    BY <1>1 DEF Issue, regVars, incVars
  <2> QED BY <2>1, QuietLive
<1>2. CASE ClientGuard(c)
  BY <1>2, QuietLive DEF ClientGuard, regVars, incVars
<1>3. CASE ClientLock(c)
  BY <1>3, QuietLive DEF ClientLock, regVars, incVars
<1>4. CASE CommandRefused(c)
  BY <1>4, QuietLive DEF CommandRefused, Finish, regVars, incVars
<1>5. CASE SpawnInsert(c)
  <2>1. /\ reg = None /\ reg' = born + 1 /\ born' = born + 1 /\ born + 1 \in Incs
        /\ child' = [child EXCEPT ![born + 1] = "running"]
        /\ tgt' = [tgt EXCEPT ![c] = born + 1] /\ at' = [at EXCEPT ![c] = "inserted"]
        /\ UNCHANGED <<slot, created, exits, retired, rd>>
    BY <1>5 DEF SpawnInsert, MayInsert, Step
  <2>2. \A d \in Clients : d # c => at[d] \notin Holding BY <1>5 DEF SpawnInsert
  <2>3. \A k \in Incs : rd[k] # "clearing" BY <1>5 DEF SpawnInsert
  <2>4. Fresh' /\ Registered' BY <2>1
  <2>5. RegistriesIntact' BY <2>1
  <2>6. Held' BY <2>1, <2>2, <2>3
  <2>7. Buried'
    <3> SUFFICES ASSUME NEW j \in Incs, j <= born PROVE exits[j] = 1 \/ child[j] = "unkilled"
      BY <2>1
    <3> QED BY <1>5, <2>1, <2>2 DEF SpawnInsert
  <2> QED BY <2>4, <2>5, <2>6, <2>7
<1>6. CASE SpawnPublish(c)
  BY <1>6 DEF SpawnPublish, Finish, Step, Unlocked
<1>7. CASE KillClaim(c)
  <2>1. /\ reg \in Incs /\ reg = born /\ exits[reg] = 0 /\ reg' = None
        /\ tgt' = [tgt EXCEPT ![c] = reg] /\ at' = [at EXCEPT ![c] = "claimed"]
        /\ retired' = [retired EXCEPT ![reg] = TRUE]
        /\ UNCHANGED <<slot, born, created, exits, child, rd>>
    BY <1>7 DEF KillClaim, ClaimFound, Withdraw, Step
  <2>2. \A d \in Clients : d # c => at[d] \notin Holding BY <1>7 DEF KillClaim
  <2>3. Fresh' /\ Registered' /\ RegistriesIntact' BY <2>1
  <2>4. Held' BY <2>1, <2>2
  <2>5. Buried' BY <2>1, <2>2
  <2> QED BY <2>3, <2>4, <2>5
<1>8. CASE KillMissing(c)
  <2>1. /\ at[c] = "locked" /\ reg = None /\ at' = [at EXCEPT ![c] = "clearing"]
        /\ UNCHANGED <<reg, slot, born, created, exits, child, retired, rd, tgt>>
    BY <1>8 DEF KillMissing, Step, regVars, incVars
  <2>2. Fresh' /\ Registered' /\ RegistriesIntact' BY <2>1
  <2>3. Held' BY <2>1
  <2>4. Buried' BY <2>1
  <2> QED BY <2>2, <2>3, <2>4
<1>9. CASE KillStrike(c)
  BY <1>9 DEF KillStrike, Step, lockVars, regVars
<1>10. CASE KillStopped(c)
  BY <1>10 DEF KillStopped, Step, lockVars, regVars, incVars
<1>11. CASE KillAnnounce(c)
  BY <1>11 DEF KillAnnounce, Step, lockVars, incVars
<1>12. CASE KillClear(c)
  BY <1>12 DEF KillClear, Finish, incVars, Step, Unlocked
<1>13. CASE InputSend(c)
  BY <1>13, QuietLive DEF InputSend, regVars, incVars
<1>14. CASE InputRefused(c)
  BY <1>14, QuietLive DEF InputRefused, Finish, regVars, incVars
<1>15. CASE InputDone(c)
  BY <1>15, QuietLive DEF InputDone, Finish, regVars, incVars
<1> QED BY <1>1, <1>2, <1>3, <1>4, <1>5, <1>6, <1>7, <1>8, <1>9, <1>10, <1>11, <1>12, <1>13,
       <1>14, <1>15

\* Readers and children keep what lock holders rely on.
LEMMA ReaderLiveInv ==
  ASSUME Inv, ReaderNext
  PROVE  LiveInv'
<1> USE LifecycleConstants DEF Inv, Shape, LockInv, LiveInv, Fresh, Registered, Held, Buried,
        RegistriesIntact, Tasks, Incs, Claimed, Holding
<1> PICK k \in Incs :
      \/ (\E c \in Clients : ReaderWrites(k, c)) \/ ReaderStops(k) \/ ReaderEof(k)
      \/ ReaderQueue(k) \/ ReaderGuard(k) \/ ReaderLock(k) \/ ReaderExits(k)
      \/ ReaderSuperseded(k) \/ ReaderClear(k) \/ ChildExit(k)
  BY DEF ReaderNext
<1>1. CASE \E c \in Clients : ReaderWrites(k, c)
  BY <1>1 DEF ReaderWrites, ToldToStop, lockVars, regVars, cmdVars
<1>2. CASE ReaderStops(k)
  BY <1>2 DEF ReaderStops, ToldToStop, ReaderReturns, regVars, cmdVars, Unlocked
<1>3. CASE ReaderEof(k)
  BY <1>3 DEF ReaderEof, ToldToStop, lockVars, regVars, cmdVars
<1>4. CASE ReaderQueue(k)
  BY <1>4 DEF ReaderQueue, regVars, cmdVars
<1>5. CASE ReaderGuard(k)
  BY <1>5 DEF ReaderGuard, ReadGranted, ReaderReturns, regVars, cmdVars, Unlocked
<1>6. CASE ReaderLock(k)
  BY <1>6 DEF ReaderLock, LockFree, regVars, cmdVars
<1>7. CASE ReaderExits(k)
  <2>0. reg = k /\ k = born /\ exits[k] = 0 BY <1>7 DEF ReaderExits, StillMine
  <2>1. /\ reg = k /\ k = born /\ reg' = None
        /\ retired' = [retired EXCEPT ![k] = TRUE] /\ exits' = [exits EXCEPT ![k] = 1]
        /\ rd' = [rd EXCEPT ![k] = "clearing"]
        /\ UNCHANGED <<slot, born, created, child, at, tgt>>
    BY <1>7, <2>0 DEF ReaderExits, cmdVars
  <2>2. \A d \in Clients : at[d] \notin Holding BY <1>7 DEF ReaderExits
  <2>3. Fresh' /\ Registered' /\ RegistriesIntact' BY <2>1
  <2>4. Held' BY <2>1, <2>2
  <2>5. Buried' BY <2>1, <2>2
  <2> QED BY <2>3, <2>4, <2>5
<1>8. CASE ReaderSuperseded(k)
  BY <1>8 DEF ReaderSuperseded, StillMine, ReaderReturns, regVars, cmdVars, ToldToStop, Unlocked
<1>9. CASE ReaderClear(k)
  BY <1>9 DEF ReaderClear, ReaderReturns, cmdVars, Unlocked
<1>10. CASE ChildExit(k)
  BY <1>10 DEF ChildExit, lockVars, regVars, cmdVars
<1> QED BY <1>1, <1>2, <1>3, <1>4, <1>5, <1>6, <1>7, <1>8, <1>9, <1>10

\* A handoff keeps what lock holders rely on.
LEMMA HandlerLiveInv ==
  ASSUME Inv, HandlerNext
  PROVE  LiveInv'
<1> USE LifecycleConstants DEF Inv, Shape, LockInv, LiveInv, Fresh, Registered, Held, Buried,
        RegistriesIntact, Tasks, Incs, Claimed, Holding
<1>1. CASE HandoffQueue
  BY <1>1 DEF HandoffQueue, regVars, incVars
<1>2. CASE HandoffGuard
  BY <1>2 DEF HandoffGuard, ReadGranted, Drained, regVars, incVars
<1>3. CASE HandoffAbort
  BY <1>3 DEF HandoffAbort, regVars, incVars
<1>4. CASE HandoffCommit
  BY <1>4 DEF HandoffCommit, regVars
<1> QED BY <1>1, <1>2, <1>3, <1>4 DEF HandlerNext

LEMMA StepInv == Inv /\ [Next]_vars => Inv'
<1>1. CASE UNCHANGED vars
  BY <1>1 DEF vars, lockVars, regVars, incVars, cmdVars, Inv, Shape, LockInv, LiveInv, Fresh,
              Registered, Held, Buried, RegistriesIntact
<1>2. Inv /\ ClientNext => Inv' BY ClientShape, ClientLockInv, ClientLiveInv DEF Inv
<1>3. Inv /\ ReaderNext => Inv' BY ReaderShape, ReaderLockInv, ReaderLiveInv DEF Inv
<1>4. Inv /\ HandlerNext => Inv' BY HandlerShape, HandlerLockInv, HandlerLiveInv DEF Inv
<1> QED BY <1>1, <1>2, <1>3, <1>4 DEF Next

LEMMA InvHolds == Spec => []Inv
BY InitInv, StepInv, PTL DEF Spec

\* Kill, the reader and both of them racing announce a death once, and what was
\* announced is no longer registered (connection.rs, output.rs).
THEOREM ExitAnnouncedOnce == Spec => []OneExit
<1>1. Inv => OneExit BY LifecycleConstants DEF Inv, Shape, LiveInv, Registered, OneExit, Tasks
<1> QED BY <1>1, InvHolds, PTL

\* A cleanup never wipes the entries of the incarnation that is registered.
THEOREM RegistriesAlwaysIntact == Spec => []RegistriesIntact
<1>1. Inv => RegistriesIntact BY DEF Inv, LiveInv
<1> QED BY <1>1, InvHolds, PTL

\* SessionCreated of a replacement comes after the Exit of everything before it,
\* except for a process that Kill could not end.
THEOREM ExitsInOrder == Spec => []ExitBeforeReplacement
<1>1. Inv => ExitBeforeReplacement
  <2> SUFFICES ASSUME Inv, NEW j \in Incs, NEW k \in Incs, j < k, created[k]
               PROVE  exits[j] = 1 \/ child[j] = "unkilled"
    BY DEF ExitBeforeReplacement
  <2>1. born \in Nat /\ j \in Nat /\ k \in Nat BY LifecycleConstants DEF Inv, Shape, Incs
  <2>2. k <= born BY <2>1 DEF Inv, LiveInv, Fresh
  <2>3. j # born /\ j <= born BY <2>1, <2>2
  <2>4. j # reg BY <2>3, LifecycleConstants DEF Inv, LiveInv, Registered, Tasks
  <2>5. \A c \in Clients : at[c] \in Claimed => tgt[c] # j BY <2>3 DEF Inv, LiveInv, Held
  <2> QED BY <2>3, <2>4, <2>5 DEF Inv, LiveInv, Buried
<1> QED BY <1>1, InvHolds, PTL

\* Only an incarnation's own retirement takes it out of the registry.
THEOREM NothingEvicted == Spec => NoEviction
<1> DEFINE OwnRetirement == \A k \in Incs : reg = k /\ reg' # k => ~retired[k] /\ retired'[k]
<1>1. Inv /\ [Next]_vars => [OwnRetirement]_vars
  <2> SUFFICES ASSUME Inv, Next, NEW k \in Incs, reg = k, reg' # k
               PROVE  ~retired[k] /\ retired'[k]
    OBVIOUS
  <2>1. k # None /\ ~retired[k] BY LifecycleConstants DEF Tasks, Inv, LiveInv, Registered
  <2>2. \/ \E c \in Clients : KillClaim(c)
        \/ \E i \in Incs : ReaderExits(i)
    <3>1. ASSUME NEW c \in Clients, SpawnInsert(c) PROVE FALSE
      BY <2>1, <3>1 DEF SpawnInsert, MayInsert
    <3> QED BY <3>1 DEF Next, ClientNext, ReaderNext, HandlerNext, Issue, ClientGuard, ClientLock,
          CommandRefused, SpawnPublish, KillMissing, KillStrike, KillStopped, KillAnnounce,
          KillClear, InputSend, InputRefused, InputDone, ReaderWrites, ReaderStops, ReaderEof,
          ReaderQueue, ReaderGuard, ReaderLock, ReaderSuperseded, ReaderClear, ChildExit,
          HandoffQueue, HandoffGuard, HandoffAbort, HandoffCommit, regVars
  <2>3. retired'[k]
    BY <2>2 DEF KillClaim, ReaderExits, StillMine, Inv, Shape
  <2> QED BY <2>1, <2>3
<1> QED BY <1>1, InvHolds, PTL DEF Spec, NoEviction

\* The handoff snapshot is taken of a registry nobody changes meanwhile.
THEOREM SnapshotAlwaysFenced == Spec => SnapshotFenced
<1> DEFINE Fence == wrHold => UNCHANGED <<reg, tomb, slot, exits>>
<1>1. Inv /\ [Next]_vars => [Fence]_vars
  <2> SUFFICES ASSUME Inv, Next, wrHold PROVE UNCHANGED <<reg, tomb, slot, exits>>
    OBVIOUS
  <2>1. /\ \A c \in Clients : at[c] \notin Holding
        /\ \A k \in Incs : rd[k] \notin {"locked", "clearing"}
    BY DEF Inv, LockInv
  <2>2. CASE ClientNext
    <3>1. ASSUME NEW c \in Clients
          PROVE  ~(SpawnInsert(c) \/ SpawnPublish(c) \/ KillClaim(c) \/ KillAnnounce(c) \/ KillClear(c))
      BY <2>1, <3>1 DEF Holding, Claimed, SpawnInsert, SpawnPublish, KillClaim, KillAnnounce, KillClear
    <3> QED BY <2>2, <3>1 DEF ClientNext, Issue, ClientGuard, ClientLock, CommandRefused,
          KillMissing, KillStrike, KillStopped, InputSend, InputRefused, InputDone, regVars
  <2>3. CASE ReaderNext
    BY <2>1, <2>3 DEF ReaderNext, ReaderWrites, ReaderStops, ReaderEof, ReaderQueue, ReaderGuard,
          ReaderLock, ReaderExits, ReaderSuperseded, ReaderClear, ChildExit, regVars
  <2>4. CASE HandlerNext
    BY <2>4 DEF HandlerNext, HandoffQueue, HandoffGuard, HandoffAbort, HandoffCommit, regVars
  <2> QED BY <2>2, <2>3, <2>4 DEF Next
<1> QED BY <1>1, InvHolds, PTL DEF Spec, SnapshotFenced
=============================================================================
