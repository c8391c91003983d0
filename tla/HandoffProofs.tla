---------------------------- MODULE HandoffProofs ----------------------------
(* Theorems about Handoff for every set of sessions, incarnations and          *)
(* successors and every bound on the output. A theorem that needs some fault   *)
(* not to happen says so in its ASSUME; the others hold under every set of     *)
(* faults. The sections build on one another: the types, the seal and the      *)
(* desk (Base), the handoff connection (Service), who publishes, what a        *)
(* successor holds (HoldInv), and on those the exits, the output and the       *)
(* survival of the sessions.                                                   *)
EXTENDS Handoff, TLAPS

\* What an action leaves alone keeps its type.
LEMMA Frames ==
  /\ OldTypeOK /\ UNCHANGED oldVars => OldTypeOK'
  /\ RegTypeOK /\ UNCHANGED regVars => RegTypeOK'
  /\ CtlTypeOK /\ UNCHANGED ctlVars => CtlTypeOK'
  /\ KidTypeOK /\ UNCHANGED kidVars => KidTypeOK'
  /\ ReadTypeOK /\ UNCHANGED readVars => ReadTypeOK'
  /\ NewTypeOK /\ UNCHANGED newVars => NewTypeOK'
  /\ NetTypeOK /\ UNCHANGED netVars => NetTypeOK'
<1>1. OldTypeOK /\ UNCHANGED oldVars => OldTypeOK' BY DEF OldTypeOK, oldVars
<1>2. RegTypeOK /\ UNCHANGED regVars => RegTypeOK' BY DEF RegTypeOK, regVars
<1>3. CtlTypeOK /\ UNCHANGED ctlVars => CtlTypeOK' BY DEF CtlTypeOK, ctlVars
<1>4. KidTypeOK /\ UNCHANGED kidVars => KidTypeOK' BY DEF KidTypeOK, kidVars
<1>5. ReadTypeOK /\ UNCHANGED readVars => ReadTypeOK' BY DEF ReadTypeOK, readVars
<1>6. NewTypeOK /\ UNCHANGED newVars => NewTypeOK' BY DEF NewTypeOK, newVars
<1>7. NetTypeOK /\ UNCHANGED netVars => NetTypeOK' BY DEF NetTypeOK, netVars
<1> QED BY <1>1, <1>2, <1>3, <1>4, <1>5, <1>6, <1>7

LEMMA LoopTopType ==
  ASSUME NEW c
  PROVE  LoopTop(c) \in {"done", "parked", "select"}
  BY DEF LoopTop

LEMMA OldIsDaemon == Old \in Daemons /\ Successors \subseteq Daemons
  BY DEF Daemons

LEMMA InitType == Init => TypeOK
<1> SUFFICES ASSUME Init PROVE TypeOK
  OBVIOUS
<1> USE MaxChunkIsNat, OldIsDaemon DEF Init
<1>1. OldTypeOK BY DEF OldTypeOK
<1>2. RegTypeOK BY DEF RegTypeOK, Registered
<1>3. CtlTypeOK BY DEF CtlTypeOK
<1>4. KidTypeOK BY DEF KidTypeOK
<1>5. ReadTypeOK BY DEF ReadTypeOK, Phases, Chunks
<1>6. NewTypeOK BY DEF NewTypeOK, Empty
<1>7. NetTypeOK BY DEF NetTypeOK
<1> QED BY <1>1, <1>2, <1>3, <1>4, <1>5, <1>6, <1>7 DEF TypeOK

LEMMA ReaderType == TypeOK /\ ReaderNext => TypeOK'
<1> SUFFICES ASSUME TypeOK, NEW c \in Children
             PROVE  /\ ChildOutput(c) \/ ChildExit(c) \/ ListReap(c) => TypeOK'
                    /\ WakeReader(c) \/ LeavePark(c) \/ Unpark(c) => TypeOK'
                    /\ OldNaturalExit(c) => TypeOK'
                    /\ \A d \in Daemons : ReadChunk(d, c) => TypeOK'
                    /\ \A d \in Daemons : MirrorChunk(d, c) => TypeOK'
                    /\ \A d \in Daemons : ReadEof(d, c) => TypeOK'
                    /\ \A s \in Successors : NewNaturalExit(s, c) => TypeOK'
                    /\ \A i \in Sessions : Spawn(i, c) => TypeOK'
  BY DEF ReaderNext
<1> USE Frames, OldIsDaemon DEF TypeOK
<1>1. ChildOutput(c) \/ ChildExit(c) \/ ListReap(c) => TypeOK'
  BY MaxChunkIsNat DEF ChildOutput, ChildExit, ListReap, KidTypeOK, RegTypeOK
<1>2. ASSUME NEW phase \in Phases \ {"hand"}, SetReader(Old, c, phase), UNCHANGED <<inHand, term>>
      PROVE  ReadTypeOK'
  BY <1>2 DEF SetReader, ReadTypeOK
<1>3. WakeReader(c) \/ LeavePark(c) \/ Unpark(c) => TypeOK'
  <2>1. SetReaderAtTop(c) /\ UNCHANGED <<inHand, term>> => ReadTypeOK'
    BY <1>2, LoopTopType DEF SetReaderAtTop, Phases
  <2>2. LeavePark(c) => ReadTypeOK'
    BY <1>2 DEF LeavePark, Phases
  <2> QED BY <2>1, <2>2 DEF WakeReader, LeavePark, Unpark, SetReaderAtTop, CtlTypeOK
<1>4. OldNaturalExit(c) => TypeOK'
  BY <1>2 DEF OldNaturalExit, Unregister, RegTypeOK, KidTypeOK, Phases
<1>5. ASSUME NEW d \in Daemons PROVE ReadChunk(d, c) => TypeOK'
  BY MaxChunkIsNat DEF ReadChunk, HasOutput, SetReader, KidTypeOK, ReadTypeOK, Phases
<1>6. ASSUME NEW d \in Daemons PROVE MirrorChunk(d, c) => TypeOK'
  <2> SUFFICES ASSUME MirrorChunk(d, c) PROVE ReadTypeOK' /\ CtlTypeOK'
    BY DEF MirrorChunk
  <2>1. inHand[d][c] \in Chunks
    BY MaxChunkIsNat DEF MirrorChunk, Chunks, ReadTypeOK
  <2>2. CtlTypeOK'
    BY DEF MirrorChunk, SetReaderAtTop, CtlTypeOK
  <2>3. PICK phase \in {"done", "parked", "select"} : SetReader(d, c, phase)
    BY LoopTopType DEF MirrorChunk, SetReaderAtTop
  <2>4. term' \in [Daemons -> [Children -> SUBSET Chunks]]
    <3>1. \A e \in Daemons, k \in Children : term[e][k] \in SUBSET Chunks
      BY DEF ReadTypeOK
    <3>2. term[d][c] \cup {inHand[d][c]} \in SUBSET Chunks
      BY <2>1, <3>1
    <3>3. term' = term \/ term' = [term EXCEPT ![d][c] = term[d][c] \cup {inHand[d][c]}]
      BY DEF MirrorChunk
    <3> DEFINE row == [term[d] EXCEPT ![c] = term[d][c] \cup {inHand[d][c]}]
    <3>4. row \in [Children -> SUBSET Chunks]
      BY <3>2 DEF ReadTypeOK
    <3>5. term' = term \/ term' = [term EXCEPT ![d] = row]
      BY <3>3
    <3> HIDE DEF row
    <3> QED BY <3>4, <3>5 DEF ReadTypeOK
  <2>5. rd' \in [Daemons -> [Children -> Phases]]
    BY <2>3 DEF SetReader, ReadTypeOK, Phases
  <2>6. inHand' \in [Daemons -> [Children -> 0..MaxChunk]]
    BY MaxChunkIsNat DEF MirrorChunk, ReadTypeOK
  <2>7. \A e \in Daemons, k \in Children : rd'[e][k] = "hand" => inHand'[e][k] # 0
    BY <2>3 DEF MirrorChunk, SetReader, ReadTypeOK
  <2> QED BY <2>2, <2>4, <2>5, <2>6, <2>7 DEF ReadTypeOK
<1>7. ASSUME NEW d \in Daemons PROVE ReadEof(d, c) => TypeOK'
  BY DEF ReadEof, SetReader, ReadTypeOK, Phases
<1>8. ASSUME NEW s \in Successors PROVE NewNaturalExit(s, c) => TypeOK'
  BY DEF NewNaturalExit, SetReader, Unregister, ReadTypeOK, KidTypeOK, NewTypeOK, Phases
<1>9. ASSUME NEW i \in Sessions PROVE Spawn(i, c) => TypeOK'
  BY <1>2 DEF Spawn, RegTypeOK, KidTypeOK, Phases
<1> QED BY <1>1, <1>3, <1>4, <1>5, <1>6, <1>7, <1>8, <1>9

LEMMA OldType == TypeOK /\ OldNext => TypeOK'
<1> SUFFICES ASSUME TypeOK PROVE OldNext => TypeOK'
  OBVIOUS
<1> USE Frames, OldIsDaemon DEF TypeOK
<1>1. ASSUME NEW i \in Sessions PROVE Kill(i) => TypeOK'
  <2> SUFFICES ASSUME Kill(i) PROVE RegTypeOK' /\ KidTypeOK' /\ ReadTypeOK' /\ CtlTypeOK'
    BY DEF Kill
  <2>1. reg[i] \in Children
    BY DEF Kill, RegTypeOK
  <2>2. RegTypeOK' BY DEF Kill, Unregister, RegTypeOK
  <2>3. KidTypeOK' BY <2>1 DEF Kill, KidTypeOK
  <2>4. ReadTypeOK' BY <2>1, MaxChunkIsNat DEF Kill, SetReader, ReadTypeOK, Phases
  <2>5. CtlTypeOK' BY <2>1 DEF Kill, CtlTypeOK
  <2> QED BY <2>2, <2>3, <2>4, <2>5
<1>2. ASSUME NEW s \in Successors PROVE OldAuthorize(s) \/ OldRefuse(s) => TypeOK'
  BY DEF OldAuthorize, OldRefuse, Reply, OldTypeOK, NetTypeOK
<1>3. ASSUME NEW s \in Successors PROVE OldSeal(s) => TypeOK'
  BY DEF OldSeal, OldTypeOK, CtlTypeOK
<1>4. ASSUME NEW s \in Successors PROVE StrayAck(s) => TypeOK'
  BY DEF StrayAck, NetTypeOK
<1>5. OldSnapshot => TypeOK'
  <2> SUFFICES ASSUME OldSnapshot PROVE OldTypeOK' /\ ReadTypeOK' /\ NewTypeOK'
    BY DEF OldSnapshot
  <2>1. OldTypeOK' BY DEF OldSnapshot, OldTypeOK
  <2>2. ReadTypeOK'
    <3>1. term' = [term EXCEPT ![txPeer] = term[Old]] /\ UNCHANGED <<rd, inHand>>
      BY DEF OldSnapshot
    <3>2. term[Old] \in [Children -> SUBSET Chunks]
      BY DEF ReadTypeOK
    <3>3. term' \in [Daemons -> [Children -> SUBSET Chunks]]
      BY <3>1, <3>2 DEF ReadTypeOK
    <3> QED BY <3>1, <3>3 DEF ReadTypeOK
  <2>3. NewTypeOK'
    <3>1. PICK sent \in SUBSET Sessions :
            xfer' = [xfer EXCEPT ![txPeer] = [i \in Sessions |->
                       IF i \in sent THEN reg[i] ELSE NoChild]]
      BY DEF OldSnapshot, Transferable
    <3> DEFINE sentReg == [i \in Sessions |-> IF i \in sent THEN reg[i] ELSE NoChild]
    <3>2. sentReg \in [Sessions -> Children \cup {NoChild}]
      BY DEF RegTypeOK
    <3>3. xfer' = [xfer EXCEPT ![txPeer] = sentReg]
      BY <3>1
    <3> HIDE DEF sentReg
    <3> QED BY <3>2, <3>3 DEF OldSnapshot, NewTypeOK
  <2> QED BY <2>1, <2>2, <2>3
<1>6. Rollback => TypeOK'
  BY DEF Rollback, ResumeReaders, LiftSeals, OldTypeOK, CtlTypeOK
<1>7. OldSend \/ OldRelease \/ OldClose => TypeOK'
  BY DEF OldSend, OldRelease, OldClose, Reply, OldTypeOK, NetTypeOK
<1>8. OldCommit => TypeOK'
  <2> SUFFICES ASSUME OldCommit PROVE TypeOK'
    OBVIOUS
  <2>1. OldTypeOK' BY DEF OldCommit, OldTypeOK
  <2>2. CtlTypeOK' BY DEF OldCommit, StopReaders, CtlTypeOK
  <2>3. NetTypeOK' BY DEF OldCommit, NetTypeOK
  <2> QED BY <2>1, <2>2, <2>3 DEF OldCommit
<1>9. Die => OldTypeOK' /\ RegTypeOK' /\ CtlTypeOK' /\ ReadTypeOK' /\ NetTypeOK'
  BY DEF Die, OldTypeOK
<1>10. OldExit \/ OldCrash \/ OldTerminate => TypeOK'
  BY <1>9 DEF OldExit, OldCrash, OldTerminate, Die, KidTypeOK, NewTypeOK
<1> QED
  BY <1>1, <1>2, <1>3, <1>4, <1>5, <1>6, <1>7, <1>8, <1>10
  DEF OldNext, QuiesceTimeout, SendFailed, AckDisconnect, AckTimeout

LEMMA NewType == TypeOK /\ NewNext => TypeOK'
<1> SUFFICES ASSUME TypeOK, NEW s \in Successors
             PROVE  /\ Launch(s) \/ Request(s) \/ RecvMismatch(s) \/ RecvRefused(s) => TypeOK'
                    /\ ResponseTimeout(s) \/ RecvReady(s) \/ SendAck(s) \/ SeeEof(s) => TypeOK'
                    /\ ReleaseTimeout(s) \/ KillOld(s) \/ BarrierKill(s) => TypeOK'
                    /\ Adopt(s) \/ Publish(s) \/ NewCrash(s) => TypeOK'
  BY DEF NewNext
<1> USE Frames DEF TypeOK
<1>1. ASSUME NEW phase \in Starting \cup {"serving", "gone"},
             pc' = [pc EXCEPT ![s] = phase], UNCHANGED <<ver, xfer>>
      PROVE  NewTypeOK'
  BY <1>1 DEF NewTypeOK
<1> USE DEF Advance, Abort, Reply
<1>2. Launch(s) \/ Request(s) \/ RecvRefused(s) => TypeOK'
  BY <1>1 DEF Launch, Request, RecvRefused, Starting, NetTypeOK
<1>3. RecvMismatch(s) => TypeOK'
  <2> SUFFICES ASSUME RecvMismatch(s) PROVE NewTypeOK' /\ NetTypeOK'
    BY DEF RecvMismatch
  <2>1. NetTypeOK' BY DEF RecvMismatch, NetTypeOK
  <2>2. "pinned" \in Starting BY DEF Starting
  <2>3. pc' \in [Successors -> Starting \cup {"off", "serving", "gone"}]
    BY <2>2 DEF RecvMismatch, NewTypeOK
  <2>4. ver' \in [Successors -> {2, 3}]
    BY DEF RecvMismatch, NewTypeOK
  <2> QED BY <2>1, <2>3, <2>4 DEF RecvMismatch, NewTypeOK
<1>4. ResponseTimeout(s) \/ RecvReady(s) \/ SendAck(s) \/ SeeEof(s) => TypeOK'
  BY <1>1 DEF ResponseTimeout, RecvReady, SendAck, SeeEof, Starting, NetTypeOK
<1>5. Die => OldTypeOK' /\ RegTypeOK' /\ CtlTypeOK' /\ ReadTypeOK' /\ NetTypeOK'
  BY DEF Die, OldTypeOK
<1>6. ReleaseTimeout(s) => TypeOK'
  BY <1>1 DEF ReleaseTimeout, Starting
<1>7. BarrierKill(s) => TypeOK'
  BY <1>5 DEF BarrierKill, Die, KidTypeOK, NewTypeOK
<1>8. KillOld(s) => TypeOK'
  BY <1>1, <1>5 DEF KillOld, Die, Starting, KidTypeOK
<1>9. Adopt(s) => TypeOK'
  <2> SUFFICES ASSUME Adopt(s) PROVE ReadTypeOK'
    BY <1>1 DEF Adopt, Starting
  <2> QED BY OldIsDaemon DEF Adopt, ReadTypeOK, Phases
<1>10. Publish(s) \/ NewCrash(s) => TypeOK'
  BY <1>1, OldIsDaemon DEF Publish, NewCrash, Starting
<1> QED BY <1>2, <1>3, <1>4, <1>6, <1>7, <1>8, <1>9, <1>10

\* Every reachable state is well typed, and a reader past read() holds a block.
THEOREM TypeCorrect == Spec => []TypeOK
<1>1. TypeOK /\ [Next]_vars => TypeOK'
  <2> SUFFICES ASSUME TypeOK, UNCHANGED vars PROVE TypeOK'
    BY ReaderType, OldType, NewType DEF Next
  <2> QED BY Frames DEF TypeOK, vars
<1> QED BY InitType, <1>1, PTL DEF Spec

-----------------------------------------------------------------------------
(* The seals.                                                                  *)

fence == <<lifecycle, tx, sealed, agentSealed>>

\* A seal is lifted by the abort that ends its transfer and by nothing else; to
\* carry that through a step one must know that a transfer in progress is not
\* committed, and that a committed one is never idle again.
SealInv ==
  /\ OldTypeOK /\ SealDiscipline
  /\ lifecycle = "HandoffCommitted" <=> tx \in {"stopping", "exiting"}

LEMMA FenceKept == SealInv /\ OldTypeOK' /\ UNCHANGED fence => SealInv'
  BY DEF SealInv, SealDiscipline, WriteHeld, fence

LEMMA ReaderFence == ReaderNext => UNCHANGED fence
<1> SUFFICES ASSUME NEW c \in Children
             PROVE  /\ ChildOutput(c) \/ ChildExit(c) \/ ListReap(c) => UNCHANGED fence
                    /\ WakeReader(c) \/ LeavePark(c) \/ Unpark(c) => UNCHANGED fence
                    /\ OldNaturalExit(c) => UNCHANGED fence
                    /\ \A d \in Daemons : ReadChunk(d, c) \/ MirrorChunk(d, c) \/ ReadEof(d, c)
                          => UNCHANGED fence
                    /\ \A s \in Successors : NewNaturalExit(s, c) => UNCHANGED fence
                    /\ \A i \in Sessions : Spawn(i, c) => UNCHANGED fence
  BY DEF ReaderNext
<1> USE DEF fence, oldVars
<1>1. ChildOutput(c) \/ ChildExit(c) \/ ListReap(c) => UNCHANGED fence
  BY DEF ChildOutput, ChildExit, ListReap
<1>2. WakeReader(c) \/ LeavePark(c) \/ Unpark(c) \/ OldNaturalExit(c) => UNCHANGED fence
  BY DEF WakeReader, LeavePark, Unpark, OldNaturalExit
<1>3. \A d \in Daemons : ReadChunk(d, c) \/ MirrorChunk(d, c) \/ ReadEof(d, c) => UNCHANGED fence
  BY DEF ReadChunk, MirrorChunk, ReadEof
<1>4. \A s \in Successors : NewNaturalExit(s, c) => UNCHANGED fence
  BY DEF NewNaturalExit
<1>5. \A i \in Sessions : Spawn(i, c) => UNCHANGED fence
  BY DEF Spawn
<1> QED BY <1>1, <1>2, <1>3, <1>4, <1>5

LEMMA NewFence == NewNext => UNCHANGED fence
<1> SUFFICES ASSUME NEW s \in Successors
             PROVE  /\ Launch(s) \/ Request(s) \/ RecvMismatch(s) \/ RecvRefused(s) => UNCHANGED fence
                    /\ ResponseTimeout(s) \/ RecvReady(s) \/ SendAck(s) \/ SeeEof(s) => UNCHANGED fence
                    /\ ReleaseTimeout(s) \/ KillOld(s) \/ BarrierKill(s) => UNCHANGED fence
                    /\ Adopt(s) \/ Publish(s) \/ NewCrash(s) => UNCHANGED fence
  BY DEF NewNext
<1> USE DEF fence, oldVars
<1>1. Launch(s) \/ Request(s) \/ RecvMismatch(s) \/ RecvRefused(s) => UNCHANGED fence
  BY DEF Launch, Request, RecvMismatch, RecvRefused
<1>2. ResponseTimeout(s) \/ RecvReady(s) \/ SendAck(s) \/ SeeEof(s) => UNCHANGED fence
  BY DEF ResponseTimeout, RecvReady, SendAck, SeeEof
<1>3. ReleaseTimeout(s) \/ KillOld(s) \/ BarrierKill(s) => UNCHANGED fence
  BY DEF ReleaseTimeout, KillOld, BarrierKill, Die
<1>4. Adopt(s) \/ Publish(s) \/ NewCrash(s) => UNCHANGED fence
  BY DEF Adopt, Publish, NewCrash
<1> QED BY <1>1, <1>2, <1>3, <1>4

LEMMA OldFence == SealInv /\ OldTypeOK' /\ OldNext => SealInv'
<1> SUFFICES ASSUME SealInv, OldTypeOK' PROVE OldNext => SealInv'
  OBVIOUS
<1>1. ASSUME NEW i \in Sessions PROVE Kill(i) => UNCHANGED fence
  BY DEF Kill, fence, oldVars
<1>2. ASSUME NEW s \in Successors PROVE OldAuthorize(s) \/ OldRefuse(s) \/ StrayAck(s) => UNCHANGED fence
  BY DEF OldAuthorize, OldRefuse, StrayAck, fence, oldVars
<1>3. OldClose \/ OldExit \/ OldCrash \/ OldTerminate => UNCHANGED fence
  BY DEF OldClose, OldExit, OldCrash, OldTerminate, Die, fence, oldVars
<1> USE DEF SealInv, SealDiscipline, WriteHeld, OldTypeOK
<1>4. ASSUME NEW s \in Successors PROVE OldSeal(s) => SealInv'
  BY DEF OldSeal
<1>5. OldSnapshot => SealInv'
  BY DEF OldSnapshot
<1>6. tx \in {"quiescing", "sending", "awaitAck"} /\ Rollback => SealInv'
  BY DEF Rollback, LiftSeals
<1>7. OldSend \/ OldCommit \/ OldRelease => SealInv'
  BY DEF OldSend, OldCommit, OldRelease
<1> QED
  BY <1>1, <1>2, <1>3, <1>4, <1>5, <1>6, <1>7, FenceKept
  DEF OldNext, QuiesceTimeout, SendFailed, AckDisconnect, AckTimeout

\* In every reachable state the registries are sealed exactly while a transfer
\* is unresolved or committed, whatever fails (handle_handoff's abort paths).
THEOREM SealsFollowTransfer == Spec => []SealDiscipline
<1>1. Init => SealInv
  BY OldIsDaemon DEF Init, SealInv, SealDiscipline, WriteHeld, OldTypeOK
<1>2. SealInv /\ TypeOK' /\ [Next]_vars => SealInv'
  <2> SUFFICES ASSUME SealInv, TypeOK', [Next]_vars PROVE SealInv'
    OBVIOUS
  <2>1. CASE UNCHANGED vars
    BY <2>1, FenceKept DEF vars, oldVars, fence, TypeOK
  <2>2. CASE Next
    BY <2>2, ReaderFence, NewFence, OldFence, FenceKept DEF Next, TypeOK
  <2> QED BY <2>1, <2>2
<1>3. SealInv => SealDiscipline
  BY DEF SealInv
<1> QED BY <1>1, <1>2, <1>3, TypeCorrect, PTL DEF Spec

-----------------------------------------------------------------------------
(* One reader per PTY.                                                         *)

Early == {"pinned", "requested", "ready", "acked", "killing", "postKill", "barrier"}
Live == {"adopted", "serving"}
Reads(s, c) == rd[s][c] # "none"

\* The reader of a successor exists only behind the release barrier, hence never
\* beside a live incumbent.  With starts one at a time there is also no second
\* successor that could pass the barrier once a first one reads: to be pinned
\* it would have to find the incumbent alive.
ReaderInv ==
  /\ \A s \in Successors, c \in Children :
       Reads(s, c) => ~oldUp /\ pc[s] \in Live \cup {"gone"}
  /\ \A s, r \in Successors : pc[s] \in Starting /\ pc[r] \in Starting => s = r
  /\ \A s, r \in Successors, c \in Children :
       Reads(s, c) /\ pc[s] \in Live => pc[r] \notin Early
  /\ \A s, r \in Successors, c \in Children :
       Reads(s, c) /\ Reads(r, c) /\ pc[s] \in Live /\ pc[r] \in Live => s = r

\* A step of a reader or of the incumbent creates no reader in a successor,
\* moves no successor and revives no incumbent.
Quiet ==
  /\ UNCHANGED pc /\ (oldUp' => oldUp)
  /\ \A s \in Successors, c \in Children : rd'[s][c] # "none" => rd[s][c] # "none"

LEMMA QuietKeeps == ReaderInv /\ Quiet => ReaderInv'
  BY DEF ReaderInv, Quiet, Reads

LEMMA ReaderQuiet == TypeOK /\ ReaderNext => Quiet
<1> SUFFICES ASSUME TypeOK, NEW k \in Children
             PROVE  /\ ChildOutput(k) \/ ChildExit(k) \/ ListReap(k) => Quiet
                    /\ WakeReader(k) \/ LeavePark(k) \/ Unpark(k) \/ OldNaturalExit(k) => Quiet
                    /\ \A d \in Daemons : ReadChunk(d, k) \/ MirrorChunk(d, k) \/ ReadEof(d, k)
                          => Quiet
                    /\ \A r \in Successors : NewNaturalExit(r, k) => Quiet
                    /\ \A i \in Sessions : Spawn(i, k) => Quiet
  BY DEF ReaderNext
<1> USE DEF oldVars, newVars, readVars
<1>1. ChildOutput(k) \/ ChildExit(k) \/ ListReap(k) => Quiet
  BY DEF ChildOutput, ChildExit, ListReap, Quiet
<1>2. ASSUME NEW d \in Daemons, NEW phase, SetReader(d, k, phase),
             d = Old \/ rd[d][k] # "none", UNCHANGED <<pc, oldUp>>
      PROVE  Quiet
  BY <1>2, DaemonsDistinct DEF SetReader, Quiet, TypeOK, ReadTypeOK, Daemons
<1>3. WakeReader(k) \/ LeavePark(k) \/ Unpark(k) \/ OldNaturalExit(k) => Quiet
  BY <1>2, OldIsDaemon DEF WakeReader, LeavePark, Unpark, OldNaturalExit, SetReaderAtTop
<1>4. ASSUME NEW d \in Daemons PROVE ReadChunk(d, k) \/ MirrorChunk(d, k) \/ ReadEof(d, k) => Quiet
  BY <1>2 DEF ReadChunk, MirrorChunk, ReadEof, SetReaderAtTop
<1>5. ASSUME NEW r \in Successors PROVE NewNaturalExit(r, k) => Quiet
  BY <1>2, OldIsDaemon DEF NewNaturalExit
<1>6. ASSUME NEW i \in Sessions PROVE Spawn(i, k) => Quiet
  BY <1>2, OldIsDaemon DEF Spawn
<1> QED BY <1>1, <1>3, <1>4, <1>5, <1>6

LEMMA OldQuiet == TypeOK /\ OldNext => Quiet
<1> SUFFICES ASSUME TypeOK PROVE OldNext => Quiet
  OBVIOUS
<1> USE DEF Quiet, oldVars, newVars, readVars
<1>1. ASSUME NEW i \in Sessions PROVE Kill(i) => Quiet
  BY DaemonsDistinct DEF Kill, SetReader, TypeOK, ReadTypeOK, Daemons
<1>2. ASSUME NEW s \in Successors
      PROVE  OldAuthorize(s) \/ OldRefuse(s) \/ OldSeal(s) \/ StrayAck(s) => Quiet
  BY DEF OldAuthorize, OldRefuse, OldSeal, StrayAck
<1>3. OldSnapshot \/ Rollback \/ OldSend \/ OldCommit \/ OldRelease \/ OldClose => Quiet
  BY DEF OldSnapshot, Rollback, OldSend, OldCommit, OldRelease, OldClose
<1>4. OldExit \/ OldCrash \/ OldTerminate => Quiet
  BY DEF OldExit, OldCrash, OldTerminate, Die
<1> QED
  BY <1>1, <1>2, <1>3, <1>4
  DEF OldNext, QuiesceTimeout, SendFailed, AckDisconnect, AckTimeout

LEMMA NewKeepsReaders ==
  ASSUME "relaunch" \notin Faults, TypeOK, ReaderInv, NewNext
  PROVE  ReaderInv'
<1> PICK s \in Successors :
      \/ Launch(s) \/ Request(s) \/ RecvMismatch(s) \/ RecvRefused(s) \/ ResponseTimeout(s)
      \/ RecvReady(s) \/ SendAck(s) \/ SeeEof(s) \/ ReleaseTimeout(s) \/ KillOld(s)
      \/ BarrierKill(s) \/ Adopt(s) \/ Publish(s) \/ NewCrash(s)
  BY DEF NewNext
<1> USE DEF oldVars, newVars, readVars, Advance, Abort
<1>t. pc \in [Successors -> Starting \cup {"off", "serving", "gone"}]
  BY DEF TypeOK, NewTypeOK
\* A phase change that starts nobody and lets nobody through the barrier.
<1>1. ASSUME NEW phase, pc' = [pc EXCEPT ![s] = phase], UNCHANGED rd, oldUp' => oldUp,
             \/ pc[s] \in Early /\ phase \in Early \cup {"gone"}
             \/ pc[s] = "adopted" /\ phase = "serving"
             \/ phase = "gone"
      PROVE  ReaderInv'
  BY <1>1, <1>t DEF ReaderInv, Reads, Early, Live, Starting
<1>2. CASE Launch(s)
  <2>1. \A r \in Successors : pc[r] \notin Starting
    BY <1>2 DEF Launch
  <2>2. \A c \in Children : ~Reads(s, c)
    BY <1>2 DEF Launch, ReaderInv, Live
  <2>3. CASE IncumbentAlive
    BY <1>2, <1>t, <2>1, <2>2, <2>3
    DEF Launch, IncumbentAlive, ReaderInv, Reads, Early, Live, Starting
  <2>4. CASE ~IncumbentAlive
    BY <1>2, <1>t, <2>1, <2>2, <2>4 DEF Launch, ReaderInv, Reads, Early, Live, Starting
  <2> QED BY <2>3, <2>4
<1>3. CASE Request(s) \/ RecvMismatch(s) \/ RecvRefused(s) \/ ResponseTimeout(s)
  BY <1>1, <1>3 DEF Request, RecvMismatch, RecvRefused, ResponseTimeout, Early
<1>4. CASE RecvReady(s) \/ SendAck(s) \/ SeeEof(s) \/ ReleaseTimeout(s)
  BY <1>1, <1>4 DEF RecvReady, SendAck, SeeEof, ReleaseTimeout, Early
<1>5. CASE KillOld(s)
  BY <1>1, <1>5 DEF KillOld, Die, Early
<1>6. CASE BarrierKill(s)
  BY <1>6, QuietKeeps DEF BarrierKill, Die, Quiet
<1>7. CASE Adopt(s)
  <2>1. \A r \in Successors : r # s => pc[r] \notin Starting
    BY <1>7 DEF Adopt, ReaderInv, Starting
  <2>2. \A r \in Successors, c \in Children : Reads(r, c) => pc[r] = "gone"
    BY <1>7, <2>1 DEF Adopt, ReaderInv, Early, Live
  <2>3. \A r \in Successors, c \in Children : r # s => rd'[r][c] = rd[r][c] /\ pc'[r] = pc[r]
    BY <1>7, <1>t DEF Adopt, TypeOK, ReadTypeOK, Daemons
  <2>4. pc'[s] = "adopted"
    BY <1>7, <1>t DEF Adopt
  <2>5. \A c \in Children : rd'[s][c] # "none" => c \in Registered(xfer[s])
    BY <1>7 DEF Adopt, TypeOK, ReadTypeOK, Daemons
  <2>6. \A c \in Children : rd'[s][c] # "none" => ~oldUp'
    BY <1>7, <2>5 DEF Adopt, Adopting
  <2>7. UNCHANGED oldUp
    BY <1>7 DEF Adopt
  <2>8. \A r \in Successors, c \in Children : rd'[r][c] # "none" => r = s \/ pc'[r] = "gone"
    BY <2>2, <2>3 DEF Reads
  <2>9. \A r \in Successors : pc'[r] \in Starting => r = s
    BY <2>1, <2>3, <1>7, <1>t DEF Adopt
  <2>10. \A r \in Successors, c \in Children : rd'[r][c] # "none" => ~oldUp'
    BY <2>3, <2>6, <2>7 DEF ReaderInv, Reads
  <2>11. \A r \in Successors : pc'[r] \notin Early
    BY <2>4, <2>9 DEF Early, Starting
  <2> QED BY <2>4, <2>8, <2>9, <2>10, <2>11 DEF ReaderInv, Reads, Live
<1>8. CASE Publish(s) \/ NewCrash(s)
  BY <1>1, <1>8 DEF Publish, NewCrash
<1> QED BY <1>2, <1>3, <1>4, <1>5, <1>6, <1>7, <1>8

\* SPEC.md invariant 5 across daemons: while successors are started one at a
\* time, no PTY ever has readers in two live daemons, whatever else fails:
\* missed deadlines, crashes, failing descriptors or a SIGTERM.
THEOREM SingleReader ==
  ASSUME "relaunch" \notin Faults
  PROVE  Spec => []OneReader
<1>1. Init => ReaderInv
  BY DaemonsDistinct DEF Init, ReaderInv, Reads, Starting, Daemons
<1>2. TypeOK /\ ReaderInv /\ [Next]_vars => ReaderInv'
  <2> SUFFICES ASSUME TypeOK, ReaderInv, [Next]_vars PROVE ReaderInv'
    OBVIOUS
  <2>1. CASE UNCHANGED vars
    BY <2>1, QuietKeeps DEF vars, oldVars, newVars, readVars, Quiet
  <2>2. CASE Next
    BY <2>2, QuietKeeps, ReaderQuiet, OldQuiet, NewKeepsReaders DEF Next
  <2> QED BY <2>1, <2>2
<1>3. TypeOK /\ ReaderInv => OneReader
  BY DEF ReaderInv, Reads, OneReader, HasReader, Running, Daemons, Live
<1> QED BY <1>1, <1>2, <1>3, TypeCorrect, PTL DEF Spec

-----------------------------------------------------------------------------
(* After the commit.                                                           *)

Committed == lifecycle = "HandoffCommitted"
Still == {"none", "done", "parked", "unparking"}
PastSnapshot == {"sending", "awaitAck", "stopping", "exiting"}

\* The desk of the incumbent: who of its readers may be where.  A reader of an
\* unregistered incarnation has stopped; the quiesced flag may be stale, but
\* only for a reader on its way out of the park, whose loop finds the new
\* request; so from the snapshot on nobody reads.
Unmanned == \A c \in Children : c \notin Registered(reg) => rd[Old][c] \in {"none", "done"}
Flagged == \A c \in Children : quiesced[c] => rd[Old][c] \in {"parked", "unparking"}
Asked == WriteHeld \/ Committed => \A c \in Registered(reg) : quiesceReq[c]
AtRest == tx \in PastSnapshot => \A c \in Children : rd[Old][c] \in Still
Born == \A c \in Registered(reg) : child[c] # "unborn"
DeskInv == Unmanned /\ Flagged /\ Asked /\ AtRest /\ Born

\* A successor's readers exist only behind the release barrier.
Behind ==
  \A s \in Successors, c \in Children :
    Reads(s, c) => ~oldUp /\ pc[s] \in Live \cup {"gone"}

LEMMA RegisteredIs ==
  ASSUME NEW r \in [Sessions -> Children \cup {NoChild}]
  PROVE  /\ Registered(r) \subseteq Children
         /\ \A i \in Sessions : r[i] # NoChild => r[i] \in Registered(r)
         /\ \A c \in Registered(r) : \E i \in Sessions : r[i] = c /\ c # NoChild
  BY DEF Registered

LEMMA UnregisterIs ==
  ASSUME NEW r \in [Sessions -> Children \cup {NoChild}], NEW c \in Children
  PROVE  Registered(Unregister(r, c)) = Registered(r) \ {c}
  BY NoChildFresh DEF Registered, Unregister

\* A spawn registers its child under a free id.
LEMMA SpawnRegisters ==
  ASSUME NEW i \in Sessions, NEW c \in Children, Spawn(i, c),
         reg \in [Sessions -> Children \cup {NoChild}]
  PROVE  Registered(reg') = Registered(reg) \cup {c}
<1>1. reg[i] = NoChild /\ reg' = [reg EXCEPT ![i] = c]
  BY DEF Spawn
<1>2. /\ reg' \in [Sessions -> Children \cup {NoChild}]
      /\ reg'[i] = c
      /\ \A j \in Sessions : j # i => reg'[j] = reg[j]
  BY <1>1
<1> QED BY <1>1, <1>2, NoChildFresh DEF Registered

LEMMA DeskKept ==
  ASSUME DeskInv, UNCHANGED <<reg, quiesceReq, quiesced, tx, lifecycle>>, rd'[Old] = rd[Old],
         \A c \in Children : child[c] # "unborn" => child'[c] # "unborn", TypeOK
  PROVE  DeskInv'
<1>1. Registered(reg) \subseteq Children
  BY RegisteredIs DEF TypeOK, RegTypeOK
<1> QED BY <1>1 DEF DeskInv, Unmanned, Flagged, Asked, AtRest, Born, WriteHeld, Committed

\* A reader of a registered session moves on.
LEMMA DeskReader ==
  ASSUME TypeOK, DeskInv, NEW c \in Children, NEW phase, SetReader(Old, c, phase),
         c \in Registered(reg) \/ phase = "done",
         tx \in PastSnapshot => phase \in Still,
         \A k \in Children : k # c => quiesced'[k] = quiesced[k],
         quiesced'[c] => phase \in {"parked", "unparking"},
         UNCHANGED <<reg, quiesceReq, tx, lifecycle, child>>
  PROVE  DeskInv'
<1>1. \A k \in Children : rd'[Old][k] = IF k = c THEN phase ELSE rd[Old][k]
  BY OldIsDaemon DEF SetReader, TypeOK, ReadTypeOK
<1>3. Unmanned' BY <1>1 DEF DeskInv, Unmanned
<1>4. Flagged' BY <1>1 DEF DeskInv, Flagged
<1>5. Asked' /\ Born' BY DEF DeskInv, Asked, Born, WriteHeld, Committed
<1>6. AtRest' BY <1>1 DEF DeskInv, AtRest
<1> QED BY <1>3, <1>4, <1>5, <1>6 DEF DeskInv

\* The top of the loop never goes back to select once a transfer is past its
\* snapshot.
LEMMA DeskTop ==
  ASSUME TypeOK, SealInv, DeskInv, NEW c \in Children, SetReaderAtTop(c),
         rd[Old][c] \notin {"none", "done"},
         UNCHANGED <<reg, quiesceReq, stopReq, tx, lifecycle, child>>
  PROVE  DeskInv'
<1>1. c \in Registered(reg)
  BY DEF DeskInv, Unmanned
<1>2. tx \in PastSnapshot => quiesceReq[c]
  BY <1>1 DEF DeskInv, Asked, SealInv, WriteHeld, Committed, PastSnapshot
<1>3. LoopTop(c) \in {"done", "parked", "select"} /\ (quiesceReq[c] => LoopTop(c) # "select")
  BY DEF LoopTop
<1>4. \A k \in Children : k # c => quiesced'[k] = quiesced[k]
  BY DEF SetReaderAtTop, TypeOK, CtlTypeOK
<1>5. quiesced'[c] => LoopTop(c) \in {"parked", "unparking"}
  BY DEF SetReaderAtTop, TypeOK, CtlTypeOK
<1> QED BY <1>1, <1>2, <1>3, <1>4, <1>5, DeskReader DEF SetReaderAtTop, Still

LEMMA ReaderDesk == TypeOK /\ SealInv /\ DeskInv /\ ReaderNext => DeskInv'
<1> SUFFICES ASSUME TypeOK, SealInv, DeskInv, NEW c \in Children
             PROVE  /\ ChildOutput(c) \/ ChildExit(c) \/ ListReap(c) => DeskInv'
                    /\ WakeReader(c) \/ Unpark(c) => DeskInv'
                    /\ LeavePark(c) => DeskInv'
                    /\ OldNaturalExit(c) => DeskInv'
                    /\ \A d \in Daemons : ReadChunk(d, c) => DeskInv'
                    /\ \A d \in Daemons : MirrorChunk(d, c) => DeskInv'
                    /\ \A d \in Daemons : ReadEof(d, c) => DeskInv'
                    /\ \A s \in Successors : NewNaturalExit(s, c) => DeskInv'
                    /\ \A i \in Sessions : Spawn(i, c) => DeskInv'
  BY DEF ReaderNext
<1> USE DEF oldVars, regVars, ctlVars, kidVars, readVars, newVars
<1>r. reg \in [Sessions -> Children \cup {NoChild}] BY DEF TypeOK, RegTypeOK
<1>q. rd[Old][c] \notin {"parked", "unparking"} => ~quiesced[c] BY DEF DeskInv, Flagged
<1>n. rd[Old][c] \notin {"none", "done"} => c \in Registered(reg) BY DEF DeskInv, Unmanned
<1>s. rd[Old][c] \notin Still => tx \notin PastSnapshot BY DEF DeskInv, AtRest
<1>1. ChildOutput(c) \/ ChildExit(c) \/ ListReap(c) => DeskInv'
  BY DeskKept DEF ChildOutput, ChildExit, ListReap, TypeOK, KidTypeOK
<1>2. WakeReader(c) \/ Unpark(c) => DeskInv'
  BY DeskTop DEF WakeReader, Unpark
<1>3. LeavePark(c) => DeskInv'
  <2> SUFFICES ASSUME LeavePark(c) PROVE DeskInv'
    OBVIOUS
  <2> DEFINE phase == IF quiesceReq[c] THEN "done" ELSE "unparking"
  <2>1. c \in Registered(reg) BY <1>n DEF LeavePark
  <2>2. SetReader(Old, c, phase) /\ phase \in {"done", "unparking"}
    BY DEF LeavePark
  <2>3. \A k \in Children : k # c => quiesced'[k] = quiesced[k]
    BY DEF LeavePark, TypeOK, CtlTypeOK
  <2>4. quiesced'[c] => phase \in {"parked", "unparking"}
    BY DEF LeavePark, TypeOK, CtlTypeOK
  <2>5. UNCHANGED <<reg, quiesceReq, tx, lifecycle, child>>
    BY DEF LeavePark
  <2>6. phase \in Still BY DEF Still
  <2> HIDE DEF phase
  <2> QED BY <2>1, <2>2, <2>3, <2>4, <2>5, <2>6, DeskReader
<1>4. OldNaturalExit(c) => DeskInv'
  <2> SUFFICES ASSUME OldNaturalExit(c) PROVE DeskInv'
    OBVIOUS
  <2>1. \A k \in Children : rd'[Old][k] = IF k = c THEN "done" ELSE rd[Old][k]
    BY OldIsDaemon DEF OldNaturalExit, SetReader, TypeOK, ReadTypeOK
  <2>2. Registered(reg') \subseteq Registered(reg) /\ Registered(reg) \ {c} \subseteq Registered(reg')
    BY <1>r, UnregisterIs DEF OldNaturalExit
  <2>3. ~quiesced[c] /\ UNCHANGED <<tx, lifecycle, child, quiesced, quiesceReq>>
    BY <1>q DEF OldNaturalExit
  <2>4. Unmanned' BY <2>1, <2>2 DEF DeskInv, Unmanned
  <2>5. Flagged' BY <2>1, <2>3 DEF DeskInv, Flagged
  <2>6. Asked' /\ Born' BY <2>2, <2>3 DEF DeskInv, Asked, Born, WriteHeld, Committed
  <2>7. AtRest' BY <2>1, <2>3 DEF DeskInv, AtRest, Still
  <2> QED BY <2>4, <2>5, <2>6, <2>7 DEF DeskInv
\* A step of a successor's reader does not touch the incumbent's.
<1>5. ASSUME NEW s \in Successors, NEW phase, SetReader(s, c, phase)
      PROVE  rd'[Old] = rd[Old]
  BY <1>5, DaemonsDistinct, OldIsDaemon DEF SetReader, TypeOK, ReadTypeOK
<1>6. ASSUME NEW d \in Daemons PROVE ReadChunk(d, c) => DeskInv'
  <2>1. CASE d = Old
    BY <2>1, <1>q, <1>n, <1>s, DeskReader DEF ReadChunk, Still
  <2>2. CASE d \in Successors
    BY <2>2, <1>5, DeskKept DEF ReadChunk
  <2> QED BY <2>1, <2>2 DEF Daemons
<1>7. ASSUME NEW d \in Daemons PROVE MirrorChunk(d, c) => DeskInv'
  <2>1. CASE d = Old
    BY <2>1, DeskTop DEF MirrorChunk
  <2>2. CASE d \in Successors
    BY <2>2, <1>5, DeskKept, DaemonsDistinct DEF MirrorChunk
  <2> QED BY <2>1, <2>2 DEF Daemons
<1>8. ASSUME NEW d \in Daemons PROVE ReadEof(d, c) => DeskInv'
  <2>1. CASE d = Old
    BY <2>1, <1>q, <1>n, <1>s, DeskReader DEF ReadEof, Still
  <2>2. CASE d \in Successors
    BY <2>2, <1>5, DeskKept DEF ReadEof
  <2> QED BY <2>1, <2>2 DEF Daemons
<1>9. ASSUME NEW s \in Successors PROVE NewNaturalExit(s, c) => DeskInv'
  BY <1>5, DeskKept DEF NewNaturalExit
<1>10. ASSUME NEW i \in Sessions PROVE Spawn(i, c) => DeskInv'
  <2> SUFFICES ASSUME Spawn(i, c) PROVE DeskInv'
    OBVIOUS
  <2>1. Registered(reg') = Registered(reg) \cup {c} /\ c \notin Registered(reg)
    BY <1>r, SpawnRegisters DEF Spawn, DeskInv, Born
  <2>2. \A k \in Children : rd'[Old][k] = IF k = c THEN "select" ELSE rd[Old][k]
    BY OldIsDaemon DEF Spawn, SetReader, TypeOK, ReadTypeOK
  <2>3. ~quiesced[c] /\ UNCHANGED <<tx, lifecycle, quiesced, quiesceReq>>
    BY <1>q, <1>n, <2>1 DEF Spawn
  <2>4. ~WriteHeld /\ ~Committed /\ tx \notin PastSnapshot
    BY DEF Spawn, ReadGuard, SealInv, WriteHeld, Committed, PastSnapshot
  <2>5. Unmanned' BY <2>1, <2>2 DEF DeskInv, Unmanned
  <2>6. Flagged' BY <2>2, <2>3 DEF DeskInv, Flagged
  <2>7. Asked' /\ AtRest' BY <2>3, <2>4 DEF Asked, AtRest, WriteHeld, Committed
  <2>8. Born' BY <2>1 DEF Spawn, DeskInv, Born, TypeOK, KidTypeOK
  <2> QED BY <2>5, <2>6, <2>7, <2>8 DEF DeskInv
<1> QED BY <1>1, <1>2, <1>3, <1>4, <1>6, <1>7, <1>8, <1>9, <1>10

LEMMA OldDesk == TypeOK /\ SealInv /\ DeskInv /\ OldNext => DeskInv'
<1> SUFFICES ASSUME TypeOK, SealInv, DeskInv PROVE OldNext => DeskInv'
  OBVIOUS
<1> USE DEF oldVars, regVars, ctlVars, kidVars, readVars, newVars
<1>r. reg \in [Sessions -> Children \cup {NoChild}] BY DEF TypeOK, RegTypeOK
<1>c. Registered(reg) \subseteq Children BY <1>r, RegisteredIs
<1>1. ASSUME NEW i \in Sessions PROVE Kill(i) => DeskInv'
  <2> SUFFICES ASSUME Kill(i) PROVE DeskInv'
    OBVIOUS
  <2> DEFINE c == reg[i]
  <2>1. c \in Children BY <1>r DEF Kill
  <2>2. Registered(reg') = Registered(reg) \ {c}
    BY <1>r, <2>1, UnregisterIs DEF Kill
  <2>3. \A k \in Children : rd'[Old][k] = IF k = c THEN "done" ELSE rd[Old][k]
    BY <2>1, OldIsDaemon DEF Kill, SetReader, TypeOK, ReadTypeOK
  <2>4. /\ \A k \in Children : quiesced'[k] = IF k = c THEN FALSE ELSE quiesced[k]
        /\ \A k \in Children : child[k] # "unborn" => child'[k] # "unborn"
        /\ UNCHANGED <<tx, lifecycle, quiesceReq>>
    BY <2>1 DEF Kill, TypeOK, CtlTypeOK, KidTypeOK
  <2> HIDE DEF c
  <2>5. Unmanned' BY <2>2, <2>3 DEF DeskInv, Unmanned
  <2>6. Flagged' BY <2>3, <2>4 DEF DeskInv, Flagged
  <2>7. Asked' /\ Born' BY <2>2, <2>4, <1>c DEF DeskInv, Asked, Born, WriteHeld, Committed
  <2>8. AtRest' BY <2>3, <2>4 DEF DeskInv, AtRest, Still
  <2> QED BY <2>5, <2>6, <2>7, <2>8 DEF DeskInv
<1>2. ASSUME NEW s \in Successors PROVE OldAuthorize(s) \/ OldRefuse(s) \/ StrayAck(s) => DeskInv'
  BY DeskKept DEF OldAuthorize, OldRefuse, StrayAck
<1>3. ASSUME NEW s \in Successors PROVE OldSeal(s) => DeskInv'
  BY <1>c DEF OldSeal, DeskInv, Unmanned, Flagged, Asked, AtRest, Born, PastSnapshot
<1>4. OldSnapshot => DeskInv'
  <2> SUFFICES ASSUME OldSnapshot PROVE DeskInv'
    OBVIOUS
  <2>1. \A c \in Children : rd[Old][c] \in Still
    BY DEF OldSnapshot, AllStill, ReaderStill, DeskInv, Unmanned, Flagged, Still
  <2>2. Unmanned' /\ Flagged' /\ Born'
    BY DEF OldSnapshot, DeskInv, Unmanned, Flagged, Born
  <2>3. Asked' BY DEF OldSnapshot, DeskInv, Asked, WriteHeld, Committed
  <2>4. AtRest' BY <2>1 DEF OldSnapshot, AtRest
  <2> QED BY <2>2, <2>3, <2>4 DEF DeskInv
<1>5. tx \in {"quiescing", "sending", "awaitAck"} /\ Rollback => DeskInv'
  BY DEF Rollback, SealInv, DeskInv, Unmanned, Flagged, Asked, AtRest, Born, WriteHeld, Committed,
         PastSnapshot
<1>6. OldSend \/ OldCommit \/ OldRelease => DeskInv'
  BY DEF OldSend, OldCommit, StopReaders, OldRelease, SealInv, DeskInv, Unmanned, Flagged, Asked,
         AtRest, Born, WriteHeld, Committed, PastSnapshot
<1>7. OldClose \/ OldExit \/ OldCrash => DeskInv'
  BY DeskKept DEF OldClose, OldExit, OldCrash, Die
<1>8. OldTerminate => DeskInv'
  BY DeskKept DEF OldTerminate, Die
<1> QED
  BY <1>1, <1>2, <1>3, <1>4, <1>5, <1>6, <1>7, <1>8
  DEF OldNext, QuiesceTimeout, SendFailed, AckDisconnect, AckTimeout

\* The successors leave the incumbent's registry and readers alone.
LEMMA NewLeavesDesk ==
  ASSUME TypeOK, NewNext
  PROVE  UNCHANGED <<reg, owned, reaped, quiesceReq, quiesced, stopReq, tx, lifecycle, txPeer, waiting,
                     child, out, taken, exits, inHand, term, xfer, connClosed>>
         /\ rd'[Old] = rd[Old]
<1> PICK s \in Successors :
      \/ Launch(s) \/ Request(s) \/ RecvMismatch(s) \/ RecvRefused(s) \/ ResponseTimeout(s)
      \/ RecvReady(s) \/ SendAck(s) \/ SeeEof(s) \/ ReleaseTimeout(s) \/ KillOld(s)
      \/ BarrierKill(s) \/ Adopt(s) \/ Publish(s) \/ NewCrash(s)
  BY DEF NewNext
<1> DEFINE Rest == UNCHANGED <<reg, owned, reaped, quiesceReq, quiesced, stopReq, tx, lifecycle, txPeer,
                               waiting, child, out, taken, exits, inHand, term, xfer, connClosed>>
                   /\ rd'[Old] = rd[Old]
<1> SUFFICES Rest
  OBVIOUS
<1> USE DEF oldVars, regVars, ctlVars, kidVars, readVars, newVars, netVars
<1>1. CASE Launch(s) \/ Request(s) \/ RecvMismatch(s) \/ RecvRefused(s) \/ ResponseTimeout(s)
  BY <1>1 DEF Launch, Request, RecvMismatch, RecvRefused, ResponseTimeout
<1>2. CASE RecvReady(s) \/ SendAck(s) \/ SeeEof(s) \/ ReleaseTimeout(s)
  BY <1>2 DEF RecvReady, SendAck, SeeEof, ReleaseTimeout
<1>3. CASE KillOld(s) \/ BarrierKill(s)
  BY <1>3 DEF KillOld, BarrierKill, Die
<1>4. CASE Adopt(s)
  BY <1>4, DaemonsDistinct, OldIsDaemon DEF Adopt, TypeOK, ReadTypeOK
<1>5. CASE Publish(s) \/ NewCrash(s)
  BY <1>5 DEF Publish, NewCrash
<1> QED BY <1>1, <1>2, <1>3, <1>4, <1>5

LEMMA BehindKept == Behind /\ Quiet => Behind'
  BY DEF Behind, Quiet, Reads

LEMMA NewBehind == TypeOK /\ Behind /\ NewNext => Behind'
<1> SUFFICES ASSUME TypeOK, Behind, NewNext PROVE Behind'
  OBVIOUS
<1> PICK s \in Successors :
      \/ Launch(s) \/ Request(s) \/ RecvMismatch(s) \/ RecvRefused(s) \/ ResponseTimeout(s)
      \/ RecvReady(s) \/ SendAck(s) \/ SeeEof(s) \/ ReleaseTimeout(s) \/ KillOld(s)
      \/ BarrierKill(s) \/ Adopt(s) \/ Publish(s) \/ NewCrash(s)
  BY DEF NewNext
<1> USE DEF oldVars, newVars, readVars, Advance, Abort
<1>t. pc \in [Successors -> Starting \cup {"off", "serving", "gone"}]
  BY DEF TypeOK, NewTypeOK
<1>1. ASSUME NEW phase, pc' = [pc EXCEPT ![s] = phase], UNCHANGED rd, oldUp' => oldUp,
             pc[s] \in Early \cup {"off"} \/ phase \in {"serving", "gone"}
      PROVE  Behind'
  BY <1>1, <1>t DEF Behind, Reads, Early, Live
<1>2. CASE Launch(s) \/ Request(s) \/ RecvMismatch(s) \/ RecvRefused(s) \/ ResponseTimeout(s)
  BY <1>1, <1>2 DEF Launch, Request, RecvMismatch, RecvRefused, ResponseTimeout, Early
<1>3. CASE RecvReady(s) \/ SendAck(s) \/ SeeEof(s) \/ ReleaseTimeout(s)
  BY <1>1, <1>3 DEF RecvReady, SendAck, SeeEof, ReleaseTimeout, Early
<1>4. CASE KillOld(s)
  BY <1>1, <1>4 DEF KillOld, Die, Early
<1>5. CASE BarrierKill(s)
  BY <1>5, BehindKept DEF BarrierKill, Die, Quiet
<1>6. CASE Adopt(s)
  BY <1>6, <1>t DEF Adopt, Adopting, Behind, Reads, Live, TypeOK, ReadTypeOK, Daemons
<1>7. CASE Publish(s) \/ NewCrash(s)
  BY <1>1, <1>7 DEF Publish, NewCrash
<1> QED BY <1>2, <1>3, <1>4, <1>5, <1>6, <1>7

Base == TypeOK /\ SealInv /\ DeskInv /\ Behind

LEMMA BaseInv == Spec => []Base
<1>1. Init => Base
  <2> SUFFICES ASSUME Init PROVE Base
    OBVIOUS
  <2>1. TypeOK BY InitType
  <2>2. SealInv BY OldIsDaemon DEF Init, SealInv, SealDiscipline, WriteHeld, OldTypeOK
  <2>3. Behind BY DaemonsDistinct DEF Init, Behind, Reads, Daemons
  <2>4. DeskInv
    BY OldIsDaemon DEF Init, DeskInv, Unmanned, Flagged, Asked, AtRest, Born, WriteHeld, Committed,
       PastSnapshot, Registered
  <2> QED BY <2>1, <2>2, <2>3, <2>4 DEF Base
<1>2. Base /\ [Next]_vars => Base'
  <2> SUFFICES ASSUME Base, [Next]_vars PROVE Base'
    OBVIOUS
  <2> USE DEF Base
  <2>1. CASE UNCHANGED vars
    <3>1. TypeOK' BY <2>1, Frames DEF TypeOK, vars
    <3>2. SealInv' BY <2>1, <3>1, FenceKept DEF vars, oldVars, fence, TypeOK
    <3>3. DeskInv' BY <2>1, DeskKept DEF vars, oldVars, regVars, ctlVars, kidVars, readVars
    <3>4. Behind' BY <2>1, BehindKept DEF Quiet, vars, oldVars, newVars, readVars
    <3> QED BY <3>1, <3>2, <3>3, <3>4
  <2>2. CASE ReaderNext
    <3>1. TypeOK' BY <2>2, ReaderType
    <3>2. SealInv' BY <2>2, <3>1, ReaderFence, FenceKept DEF TypeOK
    <3> QED BY <2>2, <3>1, <3>2, ReaderDesk, ReaderQuiet, BehindKept
  <2>3. CASE OldNext
    <3>1. TypeOK' BY <2>3, OldType
    <3>2. SealInv' BY <2>3, <3>1, OldFence DEF TypeOK
    <3> QED BY <2>3, <3>1, <3>2, OldDesk, OldQuiet, BehindKept
  <2>4. CASE NewNext
    <3>1. TypeOK' BY <2>4, NewType
    <3>2. SealInv' BY <2>4, <3>1, NewFence, FenceKept DEF TypeOK
    <3>3. DeskInv' BY <2>4, NewLeavesDesk, DeskKept
    <3> QED BY <2>4, <3>1, <3>2, <3>3, NewBehind
  <2> QED BY <2>1, <2>2, <2>3, <2>4 DEF Next
<1> QED BY <1>1, <1>2, PTL DEF Spec

\* Once the transfer has committed the incumbent neither reads a PTY nor
\* changes its registry nor announces a death, whatever fails: stop_all and the
\* lifecycle guard leave no reader and no command behind.
THEOREM IncumbentStandsBy == Spec => Bystander
<1> DEFINE Hands == /\ reg' = reg /\ term'[Old] = term[Old] /\ inHand'[Old] = inHand[Old]
                    /\ exits' # exits => ~oldUp
           Step == lifecycle = "HandoffCommitted" => Hands
<1>1. Base /\ [Next]_vars => [Step]_vars
  <2> SUFFICES ASSUME Base, Next, Committed PROVE Hands
    BY DEF Committed
  <2> USE DEF oldVars, regVars, ctlVars, kidVars, readVars, newVars
  <2>1. tx \in {"stopping", "exiting"} /\ ~WriteHeld /\ ~ReadGuard
    BY DEF Base, SealInv, WriteHeld, ReadGuard, Committed, OldTypeOK
  <2>2. \A c \in Children : rd[Old][c] \in Still
    BY <2>1 DEF Base, DeskInv, AtRest, PastSnapshot
  <2>3. \A s \in Successors : s # Old /\ s \in Daemons
    BY DaemonsDistinct, OldIsDaemon
  <2>4. CASE ReaderNext
    <3> PICK c \in Children :
          \/ ChildOutput(c) \/ ChildExit(c) \/ ListReap(c)
          \/ WakeReader(c) \/ LeavePark(c) \/ Unpark(c) \/ OldNaturalExit(c)
          \/ \E d \in Daemons : ReadChunk(d, c) \/ MirrorChunk(d, c) \/ ReadEof(d, c)
          \/ \E s \in Successors : NewNaturalExit(s, c)
          \/ \E i \in Sessions : Spawn(i, c)
      BY <2>4 DEF ReaderNext
    <3>1. CASE ChildOutput(c) \/ ChildExit(c) \/ ListReap(c)
      BY <3>1 DEF ChildOutput, ChildExit, ListReap
    <3>2. CASE WakeReader(c) \/ LeavePark(c) \/ Unpark(c) \/ OldNaturalExit(c)
      BY <3>2, <2>2 DEF WakeReader, LeavePark, Unpark, OldNaturalExit, Still
    <3>3. CASE \E d \in Daemons : ReadChunk(d, c) \/ MirrorChunk(d, c) \/ ReadEof(d, c)
      <4> PICK d \in Daemons : ReadChunk(d, c) \/ MirrorChunk(d, c) \/ ReadEof(d, c)
        BY <3>3
      <4>1. d # Old
        BY <2>2 DEF ReadChunk, MirrorChunk, ReadEof, Still
      <4> QED BY <4>1, OldIsDaemon DEF ReadChunk, MirrorChunk, ReadEof, Base, TypeOK, ReadTypeOK
    <3>4. CASE \E s \in Successors : NewNaturalExit(s, c)
      <4> PICK s \in Successors : NewNaturalExit(s, c)
        BY <3>4
      <4>1. ~oldUp
        BY DEF NewNaturalExit, Base, Behind, Reads
      <4> QED BY <4>1 DEF NewNaturalExit
    <3>5. CASE \E i \in Sessions : Spawn(i, c)
      BY <3>5, <2>1 DEF Spawn
    <3> QED BY <3>1, <3>2, <3>3, <3>4, <3>5
  <2>5. CASE OldNext
    <3>1. ASSUME NEW i \in Sessions PROVE ~Kill(i)
      BY <2>1 DEF Kill
    <3>2. ASSUME NEW s \in Successors
          PROVE  OldAuthorize(s) \/ OldRefuse(s) \/ OldSeal(s) \/ StrayAck(s) => Hands
      BY DEF OldAuthorize, OldRefuse, OldSeal, StrayAck
    <3>3. Rollback \/ OldSend \/ OldCommit \/ OldRelease \/ OldClose => Hands
      BY DEF Rollback, OldSend, OldCommit, OldRelease, OldClose
    <3>4. OldExit \/ OldCrash \/ OldTerminate => Hands
      BY DEF OldExit, OldCrash, OldTerminate, Die
    <3>5. ~OldSnapshot
      BY <2>1 DEF OldSnapshot
    <3> QED
      BY <2>5, <3>1, <3>2, <3>3, <3>4, <3>5
      DEF OldNext, QuiesceTimeout, SendFailed, AckDisconnect, AckTimeout
  <2>6. CASE NewNext
    BY <2>6, NewLeavesDesk DEF Base
  <2> QED BY <2>4, <2>5, <2>6 DEF Next
<1> QED BY BaseInv, <1>1, PTL DEF Spec, Bystander

-----------------------------------------------------------------------------
(* The handoff connection.                                                     *)

\* The incumbent is preparing a transfer to s that s has not seen.
Active(s) == tx \in {"quiescing", "sending"} /\ txPeer = s
Served(s) == toOld[s] = "Handoff" \/ s \in waiting \/ Active(s)

\* A successor waits in "requested" as long as its request is being served, and
\* its request is in one place at a time; HandoffReady finds it there; the
\* incumbent closes a connection only after its commit.
Line(s) ==
  /\ Served(s) => pc[s] \in {"requested", "gone"} /\ toNew[s] = "none"
  /\ toOld[s] = "Handoff" => s \notin waiting /\ ~Active(s)
  /\ s \in waiting => ~Active(s)
  /\ pc[s] = "off" => xfer[s] = Empty
  /\ pc[s] \in {"off", "pinned"} => toNew[s] = "none"
  /\ toNew[s] = "Ready" => pc[s] \in {"requested", "gone"}
  /\ connClosed[s] => Committed
  /\ pc[s] = "postKill" => ~oldUp
Service ==
  /\ tx # "idle" => txPeer \in Successors
  /\ published = {} => ~oldUp
  /\ \A s \in Successors : Line(s)

\* What a step of a reader or a child leaves alone.
LEMMA ReaderLeaves ==
  ASSUME Base, ReaderNext
  PROVE  /\ UNCHANGED <<oldUp, lifecycle, tx, txPeer, waiting, pc, toOld, toNew, connClosed, published>>
         /\ reg' # reg => oldUp /\ ~WriteHeld /\ ~Committed
         /\ \A s \in Successors : xfer'[s] # xfer[s] => pc[s] \in Live /\ ~oldUp
         /\ \A s \in Successors, i \in Sessions : xfer'[s][i] = xfer[s][i] \/ xfer'[s][i] = NoChild
<1> PICK c \in Children :
      \/ ChildOutput(c) \/ ChildExit(c) \/ ListReap(c)
      \/ WakeReader(c) \/ LeavePark(c) \/ Unpark(c) \/ OldNaturalExit(c)
      \/ \E d \in Daemons : ReadChunk(d, c) \/ MirrorChunk(d, c) \/ ReadEof(d, c)
      \/ \E s \in Successors : NewNaturalExit(s, c)
      \/ \E i \in Sessions : Spawn(i, c)
  BY DEF ReaderNext
<1> DEFINE Rest == /\ UNCHANGED <<oldUp, lifecycle, tx, txPeer, waiting, pc, toOld, toNew, connClosed,
                                  published>>
                   /\ reg' # reg => oldUp /\ ~WriteHeld /\ ~Committed
                   /\ \A s \in Successors : xfer'[s] # xfer[s] => pc[s] \in Live /\ ~oldUp
                   /\ \A s \in Successors, i \in Sessions :
                        xfer'[s][i] = xfer[s][i] \/ xfer'[s][i] = NoChild
<1> SUFFICES Rest
  OBVIOUS
<1> USE DEF oldVars, regVars, newVars, netVars
<1>1. CASE ChildOutput(c) \/ ChildExit(c) \/ ListReap(c)
  BY <1>1 DEF ChildOutput, ChildExit, ListReap
<1>2. CASE WakeReader(c) \/ LeavePark(c) \/ Unpark(c) \/ OldNaturalExit(c)
  BY <1>2 DEF WakeReader, LeavePark, Unpark, OldNaturalExit, Committed
<1>3. CASE \E d \in Daemons : ReadChunk(d, c) \/ MirrorChunk(d, c) \/ ReadEof(d, c)
  BY <1>3 DEF ReadChunk, MirrorChunk, ReadEof
<1>4. CASE \E s \in Successors : NewNaturalExit(s, c)
  <2> PICK s \in Successors : NewNaturalExit(s, c)
    BY <1>4
  <2>1. ~oldUp BY DEF NewNaturalExit, Base, Behind, Reads
  <2>2. xfer' = [xfer EXCEPT ![s] = Unregister(xfer[s], c)] /\ pc[s] \in Live /\ UNCHANGED reg
    BY DEF NewNaturalExit, Live
  <2>3. \A i \in Sessions : Unregister(xfer[s], c)[i] \in {xfer[s][i], NoChild}
    BY DEF Unregister
  <2>4. \A r \in Successors : xfer'[r] = IF r = s THEN Unregister(xfer[s], c) ELSE xfer[r]
    BY <2>2 DEF Base, TypeOK, NewTypeOK
  <2> QED BY <2>1, <2>2, <2>3, <2>4 DEF NewNaturalExit
<1>5. CASE \E i \in Sessions : Spawn(i, c)
  BY <1>5 DEF Spawn, ReadGuard, Committed
<1> QED BY <1>1, <1>2, <1>3, <1>4, <1>5

LEMMA OldService == TypeOK /\ SealInv /\ Service /\ OldNext => Service'
<1> SUFFICES ASSUME TypeOK, SealInv, Service PROVE OldNext => Service'
  OBVIOUS
<1> USE DEF oldVars, newVars, netVars
<1>l. \A s \in Successors : Line(s) BY DEF Service
<1>t. /\ toOld \in [Successors -> {"none", "Handoff", "Adopted"}]
      /\ toNew \in [Successors -> {"none", "Ready", "VersionMismatch", "Refused"}]
  BY DEF TypeOK, NetTypeOK
<1>k. ASSUME UNCHANGED <<lifecycle, tx, txPeer, waiting, pc, xfer, toOld, toNew, connClosed>>,
             oldUp' => oldUp, UNCHANGED published \/ ~oldUp'
      PROVE  Service'
  BY <1>k DEF Service, Line, Served, Active, Committed
<1>1. ASSUME NEW i \in Sessions PROVE Kill(i) => Service'
  BY <1>k DEF Kill
<1>2. ASSUME NEW s \in Successors PROVE OldAuthorize(s) => Service'
  <2> SUFFICES ASSUME OldAuthorize(s) PROVE Service'
    OBVIOUS
  <2>1. pc[s] \in {"requested", "gone"} /\ s \notin waiting /\ ~Active(s)
    BY <1>l DEF OldAuthorize, Line, Served
  <2>2. UNCHANGED <<oldUp, lifecycle, tx, txPeer, pc, xfer, connClosed, published>>
    BY DEF OldAuthorize
  <2>3. toOld' = [toOld EXCEPT ![s] = "none"]
    BY DEF OldAuthorize
  <2>4. \/ waiting' = waiting /\ \E m \in {"VersionMismatch", "Refused"} : toNew' = [toNew EXCEPT ![s] = m]
        \/ waiting' = waiting \cup {s} /\ toNew' = toNew
    BY DEF OldAuthorize, Reply
  <2>5. Line(s)'
    BY <1>l, <1>t, <2>1, <2>2, <2>3, <2>4 DEF Line, Served, Active, Committed, OldAuthorize
  <2>6. ASSUME NEW r \in Successors, r # s PROVE Line(r)'
    BY <1>l, <1>t, <2>2, <2>3, <2>4, <2>6 DEF Line, Served, Active, Committed
  <2> QED BY <2>2, <2>5, <2>6 DEF Service
<1>3. ASSUME NEW s \in Successors PROVE OldRefuse(s) => Service'
  <2> SUFFICES ASSUME OldRefuse(s) PROVE Service'
    OBVIOUS
  <2>1. pc[s] \in {"requested", "gone"} /\ ~Active(s) /\ toOld[s] # "Handoff"
    BY <1>l DEF OldRefuse, Line, Served
  <2>2. UNCHANGED <<oldUp, lifecycle, tx, txPeer, pc, xfer, toOld, connClosed, published>>
    BY DEF OldRefuse
  <2>3. waiting' = waiting \ {s} /\ \E m \in {"VersionMismatch", "Refused"} : toNew' = [toNew EXCEPT ![s] = m]
    BY DEF OldRefuse, Reply
  <2>4. Line(s)'
    BY <1>l, <1>t, <2>1, <2>2, <2>3 DEF Line, Served, Active, Committed
  <2>5. ASSUME NEW r \in Successors, r # s PROVE Line(r)'
    BY <1>l, <1>t, <2>2, <2>3, <2>5 DEF Line, Served, Active, Committed
  <2> QED BY <2>2, <2>4, <2>5 DEF Service
<1>4. ASSUME NEW s \in Successors PROVE OldSeal(s) => Service'
  <2> SUFFICES ASSUME OldSeal(s) PROVE Service'
    OBVIOUS
  <2>1. pc[s] \in {"requested", "gone"} /\ toOld[s] # "Handoff" /\ toNew[s] = "none"
    BY <1>l DEF OldSeal, Line, Served
  <2>2. UNCHANGED <<oldUp, lifecycle, pc, xfer, toOld, toNew, connClosed, published>>
    BY DEF OldSeal
  <2>3. waiting' = waiting \ {s} /\ tx' = "quiescing" /\ txPeer' = s
    BY DEF OldSeal
  <2>4. Line(s)'
    BY <1>l, <2>1, <2>2, <2>3 DEF Line, Served, Active, Committed
  <2>5. ASSUME NEW r \in Successors, r # s PROVE Line(r)'
    BY <1>l, <2>2, <2>3, <2>5 DEF Line, Served, Active, Committed
  <2> QED BY <2>2, <2>3, <2>4, <2>5 DEF Service
<1>5. ASSUME NEW s \in Successors PROVE StrayAck(s) => Service'
  BY <1>t DEF StrayAck, Service, Line, Served, Active, Committed
<1>6. OldSnapshot => Service'
  <2> SUFFICES ASSUME OldSnapshot PROVE Service'
    OBVIOUS
  <2>1. txPeer \in Successors /\ Active(txPeer)
    BY DEF OldSnapshot, Service, Active
  <2>2. pc[txPeer] \in {"requested", "gone"}
    BY <1>l, <2>1 DEF Line, Served
  <2>3. UNCHANGED <<oldUp, lifecycle, txPeer, waiting, pc, toOld, toNew, connClosed, published>>
        /\ tx' = "sending" /\ tx = "quiescing"
    BY DEF OldSnapshot
  <2>4. \A r \in Successors : r # txPeer => xfer'[r] = xfer[r]
    BY <2>1 DEF OldSnapshot, TypeOK, NewTypeOK
  <2>5. ASSUME NEW r \in Successors PROVE Line(r)'
    BY <1>l, <2>2, <2>3, <2>4, <2>5 DEF Line, Served, Active, Committed
  <2> QED BY <2>1, <2>3, <2>5 DEF Service
<1>7. Rollback => Service'
  BY DEF Rollback, Service, Line, Served, Active, Committed
<1>8. OldSend => Service'
  <2> SUFFICES ASSUME OldSend PROVE Service'
    OBVIOUS
  <2>1. txPeer \in Successors /\ Active(txPeer)
    BY DEF OldSend, Service, Active
  <2>2. pc[txPeer] = "requested" /\ toOld[txPeer] # "Handoff" /\ txPeer \notin waiting
    BY <1>l, <2>1 DEF Line, Served, OldSend, Connected
  <2>3. UNCHANGED <<oldUp, lifecycle, txPeer, waiting, pc, xfer, toOld, connClosed, published>>
        /\ tx' = "awaitAck" /\ tx = "sending" /\ toNew' = [toNew EXCEPT ![txPeer] = "Ready"]
    BY DEF OldSend, Reply
  <2>4. ASSUME NEW r \in Successors PROVE Line(r)'
    BY <1>l, <1>t, <2>2, <2>3, <2>4 DEF Line, Served, Active, Committed
  <2> QED BY <2>1, <2>3, <2>4 DEF Service
<1>9. OldCommit => Service'
  BY <1>t DEF OldCommit, Service, Line, Served, Active, Committed
<1>10. OldRelease => Service'
  BY DEF OldRelease, Service, Line, Served, Active, Committed
<1>11. OldClose => Service'
  <2> SUFFICES ASSUME OldClose PROVE Service'
    OBVIOUS
  <2>1. Committed BY DEF OldClose, SealInv, Committed
  <2> QED BY <2>1 DEF OldClose, Service, Line, Served, Active, Committed
<1>12. OldExit \/ OldCrash \/ OldTerminate => Service'
  BY <1>k DEF OldExit, OldCrash, OldTerminate, Die
<1> QED
  BY <1>1, <1>2, <1>3, <1>4, <1>5, <1>6, <1>7, <1>8, <1>9, <1>10, <1>11, <1>12
  DEF OldNext, QuiesceTimeout, SendFailed, AckDisconnect, AckTimeout

LEMMA NewService == TypeOK /\ Service /\ NewNext => Service'
<1> SUFFICES ASSUME TypeOK, Service, NewNext PROVE Service'
  OBVIOUS
<1> PICK s \in Successors :
      \/ Launch(s) \/ Request(s) \/ RecvMismatch(s) \/ RecvRefused(s) \/ ResponseTimeout(s)
      \/ RecvReady(s) \/ SendAck(s) \/ SeeEof(s) \/ ReleaseTimeout(s) \/ KillOld(s)
      \/ BarrierKill(s) \/ Adopt(s) \/ Publish(s) \/ NewCrash(s)
  BY DEF NewNext
<1> USE DEF oldVars, newVars, netVars, Advance, Abort, Reply
<1>l. \A r \in Successors : Line(r) BY DEF Service
<1>t. /\ pc \in [Successors -> Starting \cup {"off", "serving", "gone"}]
      /\ toOld \in [Successors -> {"none", "Handoff", "Adopted"}]
      /\ toNew \in [Successors -> {"none", "Ready", "VersionMismatch", "Refused"}]
  BY DEF TypeOK, NewTypeOK, NetTypeOK
<1>u. UNCHANGED <<tx, txPeer, waiting, lifecycle, xfer, connClosed>>
  BY NewLeavesDesk
\* A step touches only its own successor's line.
<1>o. ASSUME UNCHANGED published \/ published' # {}, oldUp' => oldUp,
             \A r \in Successors : r # s => pc'[r] = pc[r] /\ toOld'[r] = toOld[r] /\ toNew'[r] = toNew[r],
             Line(s)'
      PROVE  Service'
  <2>1. ASSUME NEW r \in Successors, r # s PROVE Line(r)'
    BY <1>o, <1>u, <1>l, <2>1 DEF Line, Served, Active, Committed
  <2> QED BY <1>o, <1>u, <2>1 DEF Service
\* A change of phase only.
<1>p. ASSUME NEW phase, pc' = [pc EXCEPT ![s] = phase], UNCHANGED <<toOld, toNew>>, oldUp' => oldUp,
             UNCHANGED published \/ published' # {},
             ~Served(s), toNew[s] # "Ready", phase \notin {"off", "pinned"},
             phase = "postKill" => ~oldUp'
      PROVE  Service'
  BY <1>p, <1>o, <1>u, <1>l, <1>t DEF Line, Served, Active, Committed
<1>g. ASSUME pc' = [pc EXCEPT ![s] = "gone"], UNCHANGED <<toOld, toNew, oldUp, published>>
      PROVE  Service'
  BY <1>g, <1>o, <1>u, <1>l, <1>t DEF Line, Served, Active, Committed
<1>s. pc[s] \notin {"requested", "gone"} => ~Served(s) /\ toNew[s] # "Ready"
  BY <1>l DEF Line
<1>1. CASE Launch(s)
  BY <1>1, <1>o, <1>u, <1>l, <1>t DEF Launch, Line, Served, Active, Committed
<1>2. CASE Request(s)
  <2>1. CASE IncumbentAlive
    BY <1>2, <2>1, <1>o, <1>u, <1>l, <1>t DEF Request, Line, Served, Active, Committed
  <2>2. CASE ~IncumbentAlive
    BY <1>2, <2>2, <1>g DEF Request
  <2> QED BY <2>1, <2>2
<1>3. CASE RecvMismatch(s)
  BY <1>3, <1>o, <1>u, <1>l, <1>t DEF RecvMismatch, Line, Served, Active, Committed
<1>4. CASE RecvRefused(s)
  BY <1>4, <1>o, <1>u, <1>l, <1>t DEF RecvRefused, Line, Served, Active, Committed
<1>5. CASE ResponseTimeout(s)
  BY <1>5, <1>g DEF ResponseTimeout
<1>6. CASE RecvReady(s)
  BY <1>6, <1>o, <1>u, <1>l, <1>t DEF RecvReady, Line, Served, Active, Committed
<1>7. CASE SendAck(s)
  <2>1. CASE oldUp
    BY <1>7, <2>1, <1>o, <1>u, <1>l, <1>t DEF SendAck, Line, Served, Active, Committed
  <2>2. CASE ~oldUp
    BY <1>7, <2>2, <1>g DEF SendAck
  <2> QED BY <2>1, <2>2
<1>8. CASE SeeEof(s) \/ ReleaseTimeout(s) \/ Adopt(s) \/ Publish(s)
  BY <1>8, <1>p, <1>s DEF SeeEof, ReleaseTimeout, Adopt, Publish
<1>9. CASE KillOld(s)
  BY <1>9, <1>p, <1>s DEF KillOld, Die
<1>10. CASE BarrierKill(s)
  BY <1>10, <1>o, <1>u, <1>l DEF BarrierKill, Die, Line, Served, Active, Committed
<1>11. CASE NewCrash(s)
  BY <1>11, <1>g DEF NewCrash
<1> QED BY <1>1, <1>2, <1>3, <1>4, <1>5, <1>6, <1>7, <1>8, <1>9, <1>10, <1>11

LEMMA ServiceInv == Spec => []Service
<1>1. Init => Service
  BY DaemonsDistinct DEF Init, Service, Line, Served, Active, Committed
<1>2. Base /\ Service /\ [Next]_vars => Service'
  <2> SUFFICES ASSUME Base, Service, [Next]_vars PROVE Service'
    OBVIOUS
  <2>1. CASE UNCHANGED vars
    BY <2>1 DEF vars, oldVars, newVars, netVars, Service, Line, Served, Active, Committed
  <2>2. CASE ReaderNext
    BY <2>2, ReaderLeaves DEF Service, Line, Served, Active, Committed, Live
  <2>3. CASE OldNext
    BY <2>3, OldService DEF Base
  <2>4. CASE NewNext
    BY <2>4, NewService DEF Base
  <2> QED BY <2>1, <2>2, <2>3, <2>4 DEF Next
<1> QED BY <1>1, <1>2, BaseInv, PTL DEF Spec

\* What a step of the incumbent leaves alone.
LEMMA OldLeaves ==
  ASSUME Base, Service, OldNext
  PROVE  /\ UNCHANGED pc
         /\ oldUp' => oldUp
         /\ Committed => Committed'
         /\ \A s \in Successors : xfer'[s] # xfer[s] => Active(s)
         /\ UNCHANGED published \/ "sigterm" \in Faults
<1> DEFINE Rest == /\ UNCHANGED pc
                   /\ oldUp' => oldUp
                   /\ Committed => Committed'
                   /\ \A s \in Successors : xfer'[s] # xfer[s] => Active(s)
                   /\ UNCHANGED published \/ "sigterm" \in Faults
<1> SUFFICES Rest
  OBVIOUS
<1> USE DEF oldVars, newVars, Committed
<1>1. ASSUME NEW i \in Sessions PROVE Kill(i) => Rest
  BY DEF Kill
<1>2. ASSUME NEW s \in Successors
      PROVE  OldAuthorize(s) \/ OldRefuse(s) \/ OldSeal(s) \/ StrayAck(s) => Rest
  BY DEF OldAuthorize, OldRefuse, OldSeal, StrayAck
<1>3. Rollback \/ OldSend \/ OldCommit \/ OldRelease \/ OldClose => Rest
  BY DEF Rollback, OldSend, OldCommit, OldRelease, OldClose
<1>4. OldExit \/ OldCrash \/ OldTerminate => Rest
  BY DEF OldExit, OldCrash, OldTerminate, Die
<1>5. OldSnapshot => Rest
  <2> SUFFICES ASSUME OldSnapshot PROVE Rest
    OBVIOUS
  <2>1. \A s \in Successors : s # txPeer => xfer'[s] = xfer[s]
    BY DEF OldSnapshot, Base, TypeOK, NewTypeOK
  <2> QED BY <2>1 DEF OldSnapshot, Active
<1> QED
  BY <1>1, <1>2, <1>3, <1>4, <1>5
  DEF OldNext, QuiesceTimeout, SendFailed, AckDisconnect, AckTimeout

-----------------------------------------------------------------------------
(* One published daemon.                                                       *)

\* The successor that is starting is the only one and finds nobody serving; it
\* passes the barrier beside a live incumbent only if that one has committed
\* and handed over nothing.
Alone == \A s, r \in Successors : pc[s] \in Starting /\ pc[r] \in Starting => s = r
Beside ==
  \A s \in Successors : oldUp =>
    /\ pc[s] \in {"barrier"} \cup Live => Committed
    /\ pc[s] \in Live => Registered(xfer[s]) = {}
Named ==
  /\ published = {Old} \/ \E r \in Successors : published = {r}
  /\ \A s \in Successors : pc[s] = "serving" =>
       published = {s} /\ \A r \in Successors : pc[r] \notin Starting
PublishInv == Alone /\ Beside /\ Named

LEMMA PublishKept ==
  ASSUME PublishInv, UNCHANGED <<pc, published>>, oldUp' => oldUp, Committed => Committed',
         \A s \in Successors : pc[s] \in Live /\ oldUp => xfer'[s] = xfer[s]
  PROVE  PublishInv'
  BY DEF PublishInv, Alone, Beside, Named

LEMMA NewPublish ==
  ASSUME {"relaunch", "sigterm"} \cap Faults = {}, Base, Service, PublishInv, NewNext
  PROVE  PublishInv'
<1> PICK s \in Successors :
      \/ Launch(s) \/ Request(s) \/ RecvMismatch(s) \/ RecvRefused(s) \/ ResponseTimeout(s)
      \/ RecvReady(s) \/ SendAck(s) \/ SeeEof(s) \/ ReleaseTimeout(s) \/ KillOld(s)
      \/ BarrierKill(s) \/ Adopt(s) \/ Publish(s) \/ NewCrash(s)
  BY DEF NewNext
<1> USE DEF oldVars, newVars, Advance, Abort
<1>t. pc \in [Successors -> Starting \cup {"off", "serving", "gone"}]
  BY DEF Base, TypeOK, NewTypeOK
<1>u. UNCHANGED <<lifecycle, xfer>>
  BY NewLeavesDesk DEF Base
\* A starting successor moves on, or gives up.
<1>1. ASSUME NEW phase, pc' = [pc EXCEPT ![s] = phase], UNCHANGED published, oldUp' => oldUp,
             \/ phase = "gone"
             \/ pc[s] \in Starting /\ phase \in Starting,
             oldUp' /\ phase \in {"barrier"} \cup Live => Committed,
             oldUp' /\ phase \in Live => Registered(xfer[s]) = {}
      PROVE  PublishInv'
  <2>1. \A r \in Successors : pc'[r] = IF r = s THEN phase ELSE pc[r]
    BY <1>1, <1>t
  <2>2. phase # "serving" BY <1>1 DEF Starting
  <2>3. \A r \in Successors : pc'[r] \in Starting => pc[r] \in Starting
    BY <1>1, <2>1 DEF Starting
  <2>4. Alone' BY <2>3 DEF PublishInv, Alone
  <2>5. Beside' BY <1>1, <1>u, <2>1 DEF PublishInv, Beside, Committed, Live
  <2>6. Named' BY <1>1, <2>1, <2>2, <2>3 DEF PublishInv, Named
  <2> QED BY <2>4, <2>5, <2>6 DEF PublishInv
<1>2. CASE Launch(s)
  <2>1. \A r \in Successors : pc[r] \notin Starting
    BY <1>2 DEF Launch
  <2>2. published = {Old}
    BY <1>2, DaemonsDistinct DEF Launch, PublishInv, Named
  <2>3. \A r \in Successors : pc[r] # "serving"
    BY <2>2, DaemonsDistinct DEF PublishInv, Named
  <2> DEFINE phase == IF IncumbentAlive THEN "pinned" ELSE "adopted"
  <2>4. \A r \in Successors : pc'[r] = IF r = s THEN phase ELSE pc[r]
    BY <1>2, <1>t DEF Launch
  <2>5. UNCHANGED <<published, oldUp>> /\ (oldUp => phase = "pinned") /\ phase \in {"pinned", "adopted"}
    BY <1>2, <2>2 DEF Launch, IncumbentAlive
  <2> HIDE DEF phase
  <2>6. Alone' BY <2>1, <2>4 DEF Alone
  <2>7. Beside' BY <1>u, <2>4, <2>5 DEF PublishInv, Beside, Committed, Live
  <2>8. Named' BY <2>2, <2>3, <2>4, <2>5 DEF Named
  <2> QED BY <2>6, <2>7, <2>8 DEF PublishInv
<1> USE DEF Live
<1>3. CASE Request(s) \/ RecvMismatch(s) \/ RecvRefused(s) \/ ResponseTimeout(s)
  BY <1>1, <1>3 DEF Request, RecvMismatch, RecvRefused, ResponseTimeout, Starting
<1>4. CASE RecvReady(s) \/ SendAck(s) \/ ReleaseTimeout(s)
  BY <1>1, <1>4 DEF RecvReady, SendAck, ReleaseTimeout, Starting
<1>5. CASE SeeEof(s)
  <2>1. oldUp => Committed
    BY <1>5 DEF SeeEof, Eof, Service, Line
  <2> QED BY <1>1, <1>5, <2>1 DEF SeeEof, Starting
<1>6. CASE KillOld(s)
  BY <1>1, <1>6 DEF KillOld, Die, Starting
<1>7. CASE BarrierKill(s)
  BY <1>7, <1>u, PublishKept DEF BarrierKill, Die, Committed
<1>8. CASE Adopt(s)
  <2>1. oldUp => Committed /\ Registered(xfer[s]) = {}
    BY <1>8 DEF Adopt, Adopting, PublishInv, Beside
  <2> QED BY <1>1, <1>8, <2>1 DEF Adopt, Starting
<1>9. CASE Publish(s)
  <2>1. \A r \in Successors : pc'[r] = IF r = s THEN "serving" ELSE pc[r]
    BY <1>9, <1>t DEF Publish
  <2>2. pc[s] = "adopted" /\ published' = {s} /\ UNCHANGED oldUp
    BY <1>9 DEF Publish
  <2>3. \A r \in Successors : r # s => pc[r] \notin Starting /\ pc[r] # "serving"
    BY <2>2 DEF PublishInv, Alone, Named, Starting
  <2>4. Alone' BY <2>1, <2>3 DEF Alone, Starting
  <2>5. Beside' BY <1>u, <2>1, <2>2 DEF PublishInv, Beside, Committed
  <2>6. Named' BY <2>1, <2>2, <2>3 DEF Named, Starting
  <2> QED BY <2>4, <2>5, <2>6 DEF PublishInv
<1>10. CASE NewCrash(s)
  BY <1>1, <1>10 DEF NewCrash
<1> QED BY <1>2, <1>3, <1>4, <1>5, <1>6, <1>7, <1>8, <1>9, <1>10

\* SPEC.md invariant 1: while successors are started one at a time and nobody
\* sends SIGTERM, a published daemon is the only one, and the incumbent it
\* replaced is dead or, having had nothing to hand over, past its commit.
THEOREM SinglePublisher ==
  ASSUME {"relaunch", "sigterm"} \cap Faults = {}
  PROVE  Spec => []OnePublisher
<1>1. Init => PublishInv
  BY DEF Init, PublishInv, Alone, Beside, Named, Starting, Live
<1>2. Base /\ Service /\ PublishInv /\ [Next]_vars => PublishInv'
  <2> SUFFICES ASSUME Base, Service, PublishInv, [Next]_vars PROVE PublishInv'
    OBVIOUS
  <2>1. CASE UNCHANGED vars
    BY <2>1, PublishKept DEF vars, oldVars, newVars, Committed
  <2>2. CASE ReaderNext
    <3>1. Committed => Committed' BY <2>2, ReaderLeaves DEF Committed
    <3> QED BY <2>2, <3>1, ReaderLeaves, PublishKept
  <2>3. CASE OldNext
    <3>1. \A s \in Successors : pc[s] \in Live => xfer'[s] = xfer[s]
      BY <2>3, OldLeaves DEF Service, Line, Served, Live
    <3> QED BY <2>3, <3>1, OldLeaves, PublishKept
  <2>4. CASE NewNext
    BY <2>4, NewPublish
  <2> QED BY <2>1, <2>2, <2>3, <2>4 DEF Next
<1>3. PublishInv => OnePublisher
  <2> SUFFICES ASSUME PublishInv, NEW s \in Successors, pc[s] = "serving"
               PROVE  /\ published = {s}
                      /\ \A r \in Successors : pc[r] = "serving" => r = s
                      /\ oldUp => lifecycle = "HandoffCommitted" /\ Registered(xfer[s]) = {}
    BY DEF OnePublisher
  <2> QED BY DEF PublishInv, Named, Beside, Committed, Live
<1> QED BY <1>1, <1>2, <1>3, BaseInv, ServiceInv, PTL DEF Spec

-----------------------------------------------------------------------------
(* What a transfer carries.                                                    *)

\* s has, or is about to take, the descriptors of a transfer it does not serve yet.
Holding(s) ==
  \/ pc[s] \in {"ready", "acked", "killing", "postKill", "barrier"}
  \/ pc[s] = "requested" /\ toNew[s] = "Ready"

\* Everything transferred is registered.
Sound(s) == \A i \in Sessions : xfer[s][i] # NoChild => xfer[s][i] = reg[i]

\* The registry cannot change under the transfer to s any more: the incumbent is
\* dead, committed, or waits for an acknowledgement that is on its way or still to
\* be written.
Frozen(s) ==
  \/ ~oldUp \/ Committed
  \/ /\ tx = "awaitAck" /\ pc[s] \notin {"postKill", "barrier"}
     /\ pc[s] \in {"acked", "killing"} => toOld[s] = "Adopted"

\* Unless an acknowledgement may come too late, only the latest peer holds a
\* transfer, and it holds what the incumbent serves.
Held1(s) == Holding(s) => txPeer = s /\ Sound(s) /\ Frozen(s)
Held2 == tx \in {"sending", "awaitAck"} => Sound(txPeer)
Held3(s) == pc[s] \in Live /\ Registered(xfer[s]) # {} => ~oldUp /\ txPeer = s
HoldInv == Held2 /\ \A s \in Successors : Held1(s) /\ Held3(s)

LEMMA Loosened ==
  ASSUME Base, HoldInv, NEW s \in Successors, oldUp, ~Committed,
         tx # "awaitAck" \/ (toOld[txPeer] = "none" /\ ~Connected(txPeer))
  PROVE  ~Holding(s)
  BY DEF HoldInv, Held1, Holding, Frozen, Connected

\* What the registry's commands find.
LEMMA Unheld ==
  ASSUME Base, HoldInv, oldUp, ~WriteHeld, ~Committed, NEW s \in Successors
  PROVE  ~Holding(s) /\ (pc[s] \in Live => Registered(xfer[s]) = {})
  BY Loosened DEF HoldInv, Held3, WriteHeld

LEMMA ReaderHold == Base /\ Service /\ HoldInv /\ ReaderNext => HoldInv'
<1> SUFFICES ASSUME Base, Service, HoldInv, ReaderNext PROVE HoldInv'
  OBVIOUS
<1>1. UNCHANGED <<oldUp, lifecycle, tx, txPeer, pc, toOld, toNew>>
  BY ReaderLeaves
<1>2. \A s \in Successors, i \in Sessions : xfer'[s][i] = xfer[s][i] \/ xfer'[s][i] = NoChild
  BY ReaderLeaves
<1>3. ASSUME NEW s \in Successors, Sound(s), UNCHANGED reg PROVE Sound(s)'
  BY <1>2, <1>3 DEF Sound
<1>4. ASSUME NEW s \in Successors PROVE Held1(s)'
  <2> SUFFICES ASSUME Holding(s) PROVE (txPeer = s)' /\ Sound(s)' /\ Frozen(s)'
    BY <1>1 DEF Held1, Holding
  <2>1. UNCHANGED reg BY Unheld, ReaderLeaves
  <2> QED BY <1>1, <1>3, <2>1 DEF HoldInv, Held1, Frozen, Committed
<1>5. Held2'
  <2> SUFFICES ASSUME tx \in {"sending", "awaitAck"} PROVE Sound(txPeer)'
    BY <1>1 DEF Held2
  <2>1. UNCHANGED reg BY ReaderLeaves DEF WriteHeld
  <2>2. Sound(txPeer) /\ txPeer \in Successors BY DEF HoldInv, Held2, Service
  <2> QED BY <1>1, <1>2, <2>1, <2>2 DEF Sound
<1>6. ASSUME NEW s \in Successors PROVE Held3(s)'
  <2>1. Registered(xfer'[s]) \subseteq Registered(xfer[s])
    BY <1>2 DEF Registered
  <2> QED BY <1>1, <2>1 DEF HoldInv, Held3
<1> QED BY <1>4, <1>5, <1>6 DEF HoldInv

LEMMA OldHold ==
  ASSUME "lateAck" \notin Faults, Base, Service, HoldInv
  PROVE  OldNext => HoldInv'
<1> USE DEF oldVars, regVars, newVars, netVars
<1>h. \A s \in Successors : Held1(s) /\ Held3(s) BY DEF HoldInv
<1>t. /\ toOld \in [Successors -> {"none", "Handoff", "Adopted"}]
      /\ toNew \in [Successors -> {"none", "Ready", "VersionMismatch", "Refused"}]
  BY DEF Base, TypeOK, NetTypeOK
<1>l. \A s \in Successors : Line(s) BY DEF Service
<1>p. tx # "idle" => txPeer \in Successors BY DEF Service
<1>1. ASSUME NEW i \in Sessions PROVE Kill(i) => HoldInv'
  <2> SUFFICES ASSUME Kill(i) PROVE HoldInv'
    OBVIOUS
  <2>1. oldUp /\ ~WriteHeld /\ ~Committed BY DEF Kill, ReadGuard, Committed
  <2>2. \A s \in Successors : ~Holding(s) BY <2>1, Unheld
  <2>3. UNCHANGED <<oldUp, tx, txPeer, pc, toNew, xfer>> BY DEF Kill
  <2>4. Held2' BY <2>1, <2>3 DEF Held2, WriteHeld
  <2>5. ASSUME NEW s \in Successors PROVE Held1(s)' /\ Held3(s)'
    BY <1>h, <2>2, <2>3 DEF Held1, Held3, Holding
  <2> QED BY <2>4, <2>5 DEF HoldInv
\* The line to s before its transfer starts.
<1>2. ASSUME NEW s \in Successors PROVE OldAuthorize(s) \/ OldRefuse(s) => HoldInv'
  <2> SUFFICES ASSUME OldAuthorize(s) \/ OldRefuse(s) PROVE HoldInv'
    OBVIOUS
  <2>1. UNCHANGED <<oldUp, lifecycle, tx, txPeer, pc, xfer, reg>> BY DEF OldAuthorize, OldRefuse
  <2>2. pc[s] \in {"requested", "gone"} /\ toNew[s] = "none"
    BY <1>l DEF Line, Served, OldAuthorize, OldRefuse
  <2>3. \A r \in Successors : r # s => toOld'[r] = toOld[r] /\ toNew'[r] = toNew[r]
    BY <1>t DEF OldAuthorize, OldRefuse, Reply
  <2>4. toNew'[s] # "Ready"
    BY <1>t, <2>2 DEF OldAuthorize, OldRefuse, Reply
  <2>5. Held2' BY <2>1 DEF HoldInv, Held2, Sound
  <2>6. Held1(s)' BY <2>1, <2>2, <2>4 DEF Held1, Holding
  <2>7. ASSUME NEW r \in Successors, r # s PROVE Held1(r)'
    BY <1>h, <2>1, <2>3, <2>7 DEF Held1, Holding, Sound, Frozen, Committed
  <2>8. ASSUME NEW r \in Successors PROVE Held3(r)'
    BY <1>h, <2>1 DEF Held3
  <2> QED BY <2>5, <2>6, <2>7, <2>8 DEF HoldInv
<1>3. ASSUME NEW s \in Successors PROVE OldSeal(s) => HoldInv'
  <2> SUFFICES ASSUME OldSeal(s) PROVE HoldInv'
    OBVIOUS
  <2>1. oldUp /\ ~WriteHeld /\ ~Committed BY DEF OldSeal, Committed
  <2>2. \A r \in Successors : ~Holding(r) /\ (pc[r] \in Live => Registered(xfer[r]) = {})
    BY <2>1, Unheld
  <2>3. tx' = "quiescing" /\ UNCHANGED <<pc, toNew, xfer>> BY DEF OldSeal
  <2> QED BY <2>2, <2>3 DEF HoldInv, Held1, Held2, Held3, Holding
<1>4. ASSUME NEW s \in Successors PROVE StrayAck(s) => HoldInv'
  <2> SUFFICES ASSUME StrayAck(s) PROVE HoldInv'
    OBVIOUS
  <2>1. UNCHANGED <<oldUp, lifecycle, tx, txPeer, pc, xfer, reg, toNew>> BY DEF StrayAck
  <2>2. \A r \in Successors : r # s => toOld'[r] = toOld[r]
    BY <1>t DEF StrayAck
  <2>3. oldUp /\ ~(tx = "awaitAck" /\ txPeer = s) BY DEF StrayAck, WriteHeld
  <2>4. Held2' BY <2>1 DEF HoldInv, Held2, Sound
  <2>5. ASSUME NEW r \in Successors PROVE Held1(r)' /\ Held3(r)'
    BY <1>h, <2>1, <2>2, <2>3 DEF Held1, Held3, Holding, Sound, Frozen, Committed
  <2> QED BY <2>4, <2>5 DEF HoldInv
<1>5. OldSnapshot => HoldInv'
  <2> SUFFICES ASSUME OldSnapshot PROVE HoldInv'
    OBVIOUS
  <2>1. oldUp /\ tx = "quiescing" /\ ~Committed /\ txPeer \in Successors
    BY <1>p DEF OldSnapshot, Base, SealInv, Committed
  <2>2. \A r \in Successors : ~Holding(r) BY <2>1, Loosened
  <2>3. UNCHANGED <<oldUp, txPeer, pc, reg, toNew>> BY DEF OldSnapshot
  <2>4. \A r \in Successors : r # txPeer => xfer'[r] = xfer[r]
    BY <2>1 DEF OldSnapshot, Base, TypeOK, NewTypeOK
  <2>5. \A i \in Sessions : xfer'[txPeer][i] \in {reg[i], NoChild}
    BY <2>1 DEF OldSnapshot, Base, TypeOK, NewTypeOK
  <2>6. pc[txPeer] \notin Live
    BY <1>l, <2>1 DEF Line, Served, Active, Live
  <2>7. Held2' BY <2>3, <2>5 DEF Held2, Sound
  <2>8. ASSUME NEW r \in Successors PROVE Held1(r)'
    BY <2>2, <2>3 DEF Held1, Holding
  <2>9. ASSUME NEW r \in Successors PROVE Held3(r)'
    BY <1>h, <2>3, <2>4, <2>6 DEF Held3
  <2> QED BY <2>7, <2>8, <2>9 DEF HoldInv
<1>6. ASSUME oldUp, Rollback, tx \in {"quiescing", "sending"} \/ AckDisconnect PROVE HoldInv'
  <2>1. ~Committed BY <1>6 DEF AckDisconnect, Base, SealInv, Committed
  <2>2. \A r \in Successors : ~Holding(r) BY <1>6, <2>1, Loosened DEF AckDisconnect
  <2>3. tx' = "idle" /\ UNCHANGED <<oldUp, txPeer, pc, toNew, xfer>> BY <1>6 DEF Rollback
  <2> QED BY <1>h, <2>2, <2>3 DEF HoldInv, Held1, Held2, Held3, Holding
<1>7. OldSend => HoldInv'
  <2> SUFFICES ASSUME OldSend PROVE HoldInv'
    OBVIOUS
  <2>1. oldUp /\ tx = "sending" /\ ~Committed /\ txPeer \in Successors
    BY <1>p DEF OldSend, Base, SealInv, Committed
  <2>2. \A r \in Successors : ~Holding(r) BY <2>1, Loosened
  <2>3. tx' = "awaitAck" /\ UNCHANGED <<oldUp, txPeer, pc, reg, xfer, toOld>> BY DEF OldSend
  <2>4. \A r \in Successors : r # txPeer => toNew'[r] = toNew[r] BY <1>t DEF OldSend, Reply
  <2>5. pc[txPeer] \in {"requested", "gone"} BY <1>l, <2>1 DEF Line, Served, Active
  <2>6. Held2' BY <2>1, <2>3 DEF HoldInv, Held2, Sound
  <2>7. ASSUME NEW r \in Successors PROVE Held1(r)'
    <3>1. CASE r # txPeer BY <3>1, <2>2, <2>3, <2>4 DEF Held1, Holding
    <3>2. CASE r = txPeer BY <3>2, <2>3, <2>5, <2>6 DEF Held1, Held2, Holding, Frozen
    <3> QED BY <3>1, <3>2
  <2>8. ASSUME NEW r \in Successors PROVE Held3(r)'
    BY <1>h, <2>3 DEF Held3
  <2> QED BY <2>6, <2>7, <2>8 DEF HoldInv
<1>8. OldCommit \/ OldRelease => HoldInv'
  <2> SUFFICES ASSUME OldCommit \/ OldRelease PROVE HoldInv'
    OBVIOUS
  <2>1. Committed' /\ tx' \in {"stopping", "exiting"}
    BY DEF OldCommit, OldRelease, Base, SealInv, Committed
  <2>2. UNCHANGED <<oldUp, txPeer, pc, reg, xfer, toNew>> BY DEF OldCommit, OldRelease
  <2> QED BY <1>h, <2>1, <2>2 DEF HoldInv, Held1, Held2, Held3, Holding, Sound, Frozen
<1>9. OldClose => HoldInv'
  BY DEF OldClose, HoldInv, Held1, Held2, Held3, Holding, Sound, Frozen, Committed
<1>10. OldExit \/ OldCrash \/ OldTerminate => HoldInv'
  BY DEF OldExit, OldCrash, OldTerminate, Die, HoldInv, Held1, Held2, Held3, Holding, Sound, Frozen
<1> QED
  BY <1>1, <1>2, <1>3, <1>4, <1>5, <1>6, <1>7, <1>8, <1>9, <1>10
  DEF OldNext, QuiesceTimeout, SendFailed, AckDisconnect, AckTimeout

LEMMA NewHold == Base /\ Service /\ HoldInv /\ NewNext => HoldInv'
<1> SUFFICES ASSUME Base, Service, HoldInv, NewNext PROVE HoldInv'
  OBVIOUS
<1> PICK s \in Successors :
      \/ Launch(s) \/ Request(s) \/ RecvMismatch(s) \/ RecvRefused(s) \/ ResponseTimeout(s)
      \/ RecvReady(s) \/ SendAck(s) \/ SeeEof(s) \/ ReleaseTimeout(s) \/ KillOld(s)
      \/ BarrierKill(s) \/ Adopt(s) \/ Publish(s) \/ NewCrash(s)
  BY DEF NewNext
<1> USE DEF oldVars, newVars, netVars, Advance, Abort, Reply
<1>l. \A r \in Successors : Line(r) BY DEF Service
<1>h. \A r \in Successors : Held1(r) /\ Held3(r) BY DEF HoldInv
<1>t. /\ pc \in [Successors -> Starting \cup {"off", "serving", "gone"}]
      /\ toOld \in [Successors -> {"none", "Handoff", "Adopted"}]
      /\ toNew \in [Successors -> {"none", "Ready", "VersionMismatch", "Refused"}]
  BY DEF Base, TypeOK, NewTypeOK, NetTypeOK
<1>u. UNCHANGED <<tx, txPeer, lifecycle, reg, xfer>>
  BY NewLeavesDesk DEF Base
<1>o. ASSUME oldUp' => oldUp, Held1(s)', Held3(s)',
             \A r \in Successors : r # s => pc'[r] = pc[r] /\ toOld'[r] = toOld[r] /\ toNew'[r] = toNew[r]
      PROVE  HoldInv'
  <2>1. Held2' BY <1>u DEF HoldInv, Held2, Sound
  <2>2. ASSUME NEW r \in Successors, r # s PROVE Held1(r)' /\ Held3(r)'
    BY <1>o, <1>u, <1>h, <2>2 DEF Held1, Held3, Holding, Sound, Frozen, Committed
  <2> QED BY <1>o, <2>1, <2>2 DEF HoldInv
\* s no longer holds anything.
<1>f. ASSUME NEW phase \in {"pinned", "requested", "gone"}, pc' = [pc EXCEPT ![s] = phase],
             \A r \in Successors : r # s => toOld'[r] = toOld[r] /\ toNew'[r] = toNew[r],
             phase = "requested" => toNew'[s] # "Ready", oldUp' => oldUp
      PROVE  HoldInv'
  BY <1>f, <1>o, <1>t DEF Held1, Held3, Holding, Live
\* s keeps what it holds.
<1>k. ASSUME NEW phase \in {"ready", "acked", "killing", "postKill", "barrier"},
             pc' = [pc EXCEPT ![s] = phase], Holding(s), oldUp' => oldUp,
             \A r \in Successors : r # s => toOld'[r] = toOld[r] /\ toNew'[r] = toNew[r],
             Frozen(s)'
      PROVE  HoldInv'
  <2>1. Held1(s)' BY <1>k, <1>h, <1>u DEF Held1, Sound
  <2>2. Held3(s)' BY <1>k, <1>t DEF Held3, Live
  <2> QED BY <1>k, <1>o, <1>t, <2>1, <2>2
<1>z. Holding(s) => Frozen(s) BY <1>h DEF Held1
<1>1. CASE Launch(s)
  <2>1. Registered(xfer[s]) = {}
    BY <1>1, <1>l DEF Launch, Line, Registered, Empty
  <2>2. Held1(s)' /\ Held3(s)'
    BY <1>1, <1>t, <1>u, <2>1 DEF Launch, Held1, Held3, Holding
  <2> QED BY <1>1, <1>o, <1>t, <2>2 DEF Launch
<1>2. CASE Request(s)
  BY <1>2, <1>f, <1>l, <1>t DEF Request, Line
<1>3. CASE RecvMismatch(s) \/ RecvRefused(s)
  BY <1>3, <1>f, <1>t DEF RecvMismatch, RecvRefused
<1>4. CASE ResponseTimeout(s)
  BY <1>4, <1>f DEF ResponseTimeout
<1>5. CASE RecvReady(s)
  <2>1. Holding(s) BY <1>5 DEF RecvReady, Holding
  <2>2. CASE pc' = [pc EXCEPT ![s] = "gone"]
    BY <1>5, <2>2, <1>f, <1>t DEF RecvReady
  <2>3. CASE pc' = [pc EXCEPT ![s] = "ready"]
    <3>1. Frozen(s)'
      BY <1>5, <2>1, <2>3, <1>z, <1>u, <1>t DEF RecvReady, Frozen, Committed
    <3> QED BY <1>5, <2>1, <2>3, <3>1, <1>k, <1>t DEF RecvReady
  <2> QED BY <1>5, <2>2, <2>3 DEF RecvReady
<1>6. CASE SendAck(s)
  <2>1. Holding(s) BY <1>6 DEF SendAck, Holding
  <2>2. CASE ~oldUp
    BY <1>6, <2>2, <1>f DEF SendAck
  <2>3. CASE oldUp
    <3>1. Frozen(s)'
      BY <1>6, <2>1, <2>3, <1>z, <1>u, <1>t DEF SendAck, Frozen, Committed
    <3> QED BY <1>6, <2>1, <2>3, <3>1, <1>k, <1>t DEF SendAck
  <2> QED BY <2>2, <2>3
<1>7. CASE SeeEof(s)
  <2>1. Holding(s) BY <1>7 DEF SeeEof, Holding
  <2>2. ~oldUp \/ Committed BY <1>7, <1>l DEF SeeEof, Eof, Line
  <2>3. Frozen(s)' BY <1>7, <2>2, <1>u DEF SeeEof, Frozen, Committed
  <2> QED BY <1>7, <2>1, <2>3, <1>k DEF SeeEof
<1>8. CASE ReleaseTimeout(s)
  <2>1. Holding(s) BY <1>8 DEF ReleaseTimeout, Holding
  <2>2. Frozen(s)' BY <1>8, <2>1, <1>z, <1>u, <1>t DEF ReleaseTimeout, Frozen, Committed
  <2> QED BY <1>8, <2>1, <2>2, <1>k DEF ReleaseTimeout
<1>9. CASE KillOld(s)
  <2>1. Holding(s) BY <1>9 DEF KillOld, Holding
  <2>2. ~oldUp' /\ UNCHANGED <<toOld, toNew>> BY <1>9 DEF KillOld, Die
  <2>3. CASE pc' = [pc EXCEPT ![s] = "gone"]
    BY <2>2, <2>3, <1>f
  <2>4. CASE pc' = [pc EXCEPT ![s] = "postKill"]
    BY <2>1, <2>2, <2>4, <1>k DEF Frozen
  <2> QED BY <1>9, <2>3, <2>4 DEF KillOld
<1>10. CASE BarrierKill(s)
  BY <1>10, <1>o, <1>h, <1>u DEF BarrierKill, Die, Held1, Held3, Holding, Sound, Frozen
<1>11. CASE Adopt(s)
  <2>1. Holding(s) /\ pc'[s] = "adopted" BY <1>11, <1>t DEF Adopt, Holding
  <2>2. Registered(xfer[s]) # {} => ~oldUp' BY <1>11 DEF Adopt, Adopting
  <2>3. Held1(s)' BY <2>1 DEF Held1, Holding
  <2>4. Held3(s)' BY <2>1, <2>2, <1>h, <1>u DEF Held1, Held3
  <2> QED BY <1>11, <1>o, <1>t, <2>3, <2>4 DEF Adopt
<1>12. CASE Publish(s)
  <2>1. pc'[s] = "serving" /\ pc[s] = "adopted" /\ UNCHANGED oldUp BY <1>12, <1>t DEF Publish
  <2>2. Held1(s)' BY <2>1 DEF Held1, Holding
  <2>3. Held3(s)' BY <2>1, <1>h, <1>u DEF Held3, Live
  <2> QED BY <1>12, <1>o, <1>t, <2>2, <2>3 DEF Publish
<1>13. CASE NewCrash(s)
  BY <1>13, <1>f DEF NewCrash
<1> QED BY <1>1, <1>2, <1>3, <1>4, <1>5, <1>6, <1>7, <1>8, <1>9, <1>10, <1>11, <1>12, <1>13

LEMMA HoldInvariant ==
  ASSUME "lateAck" \notin Faults
  PROVE  Spec => []HoldInv
<1>1. Init => HoldInv
  BY DEF Init, HoldInv, Held1, Held2, Held3, Holding, Live
<1>2. Base /\ Service /\ HoldInv /\ [Next]_vars => HoldInv'
  <2> SUFFICES ASSUME Base, Service, HoldInv, [Next]_vars PROVE HoldInv'
    OBVIOUS
  <2>1. CASE UNCHANGED vars
    BY <2>1 DEF vars, oldVars, regVars, newVars, netVars, HoldInv, Held1, Held2, Held3, Holding, Sound,
                Frozen, Committed
  <2> QED BY <2>1, ReaderHold, OldHold, NewHold DEF Next
<1> QED BY <1>1, <1>2, BaseInv, ServiceInv, PTL DEF Spec

\* A command that the transfer would have to be told about.
Free == oldUp /\ ~WriteHeld /\ ~Committed

\* The registry and the set of running children grow only by such commands; an
\* exit is final.
LEMMA KidStep ==
  ASSUME Base, Next
  PROVE  /\ reg' # reg => Free
         /\ \A c \in Children :
              /\ child'[c] = "running" => child[c] = "running" \/ Free
              /\ child[c] = "exited" => child'[c] = "exited"
              /\ child'[c] = "unborn" => child[c] = "unborn"
<1> DEFINE Kept == /\ reg' # reg => Free
                   /\ \A c \in Children :
                        /\ child'[c] = "running" => child[c] = "running" \/ Free
                        /\ child[c] = "exited" => child'[c] = "exited"
                        /\ child'[c] = "unborn" => child[c] = "unborn"
<1> SUFFICES Kept
  OBVIOUS
<1> USE DEF regVars, kidVars
<1>t. child \in [Children -> {"unborn", "running", "exited"}] /\ reg \in [Sessions -> Children \cup {NoChild}]
  BY DEF Base, TypeOK, KidTypeOK, RegTypeOK
<1>1. CASE ReaderNext
  <2> PICK c \in Children :
        \/ ChildOutput(c) \/ ChildExit(c) \/ ListReap(c)
        \/ WakeReader(c) \/ LeavePark(c) \/ Unpark(c) \/ OldNaturalExit(c)
        \/ \E d \in Daemons : ReadChunk(d, c) \/ MirrorChunk(d, c) \/ ReadEof(d, c)
        \/ \E s \in Successors : NewNaturalExit(s, c)
        \/ \E i \in Sessions : Spawn(i, c)
    BY <1>1 DEF ReaderNext
  <2>1. CASE ChildOutput(c) \/ ChildExit(c) \/ ListReap(c)
    BY <2>1, <1>t DEF ChildOutput, ChildExit, ListReap
  <2>2. CASE WakeReader(c) \/ LeavePark(c) \/ Unpark(c)
    BY <2>2 DEF WakeReader, LeavePark, Unpark
  <2>3. CASE OldNaturalExit(c)
    BY <2>3 DEF OldNaturalExit, Free, Committed
  <2>4. CASE \E d \in Daemons : ReadChunk(d, c) \/ MirrorChunk(d, c) \/ ReadEof(d, c)
    BY <2>4 DEF ReadChunk, MirrorChunk, ReadEof
  <2>5. CASE \E s \in Successors : NewNaturalExit(s, c)
    BY <2>5 DEF NewNaturalExit
  <2>6. CASE \E i \in Sessions : Spawn(i, c)
    BY <2>6, <1>t DEF Spawn, ReadGuard, Free, Committed
  <2> QED BY <2>1, <2>2, <2>3, <2>4, <2>5, <2>6
<1>2. CASE OldNext
  <2>1. ASSUME NEW i \in Sessions PROVE Kill(i) => Kept
    <3> SUFFICES ASSUME Kill(i) PROVE Kept
      OBVIOUS
    <3>1. reg[i] \in Children BY <1>t DEF Kill
    <3> QED BY <1>t, <3>1 DEF Kill, ReadGuard, Free, Committed
  <2>2. ASSUME NEW s \in Successors
        PROVE  OldAuthorize(s) \/ OldRefuse(s) \/ OldSeal(s) \/ StrayAck(s) => Kept
    BY DEF OldAuthorize, OldRefuse, OldSeal, StrayAck
  <2>3. OldSnapshot \/ Rollback \/ OldSend \/ OldCommit \/ OldRelease \/ OldClose => Kept
    BY DEF OldSnapshot, Rollback, OldSend, OldCommit, OldRelease, OldClose
  <2>4. OldExit \/ OldCrash \/ OldTerminate => Kept
    BY <1>t DEF OldExit, OldCrash, OldTerminate, Die
  <2> QED
    BY <1>2, <2>1, <2>2, <2>3, <2>4
    DEF OldNext, QuiesceTimeout, SendFailed, AckDisconnect, AckTimeout
<1>3. CASE NewNext
  BY <1>3, NewLeavesDesk DEF Base
<1> QED BY <1>1, <1>2, <1>3 DEF Next

\* Under a transfer the sessions stand still.
LEMMA KidsFixed ==
  ASSUME Base, HoldInv, Next, NEW s \in Successors,
         Holding(s) \/ (oldUp /\ tx \in {"sending", "awaitAck"})
  PROVE  ~Free /\ UNCHANGED reg
<1>1. ~Free BY Unheld DEF Free, WriteHeld
<1> QED BY <1>1, KidStep

\* How a successor comes to hold a transfer, and what of it a step may touch.
LEMMA HoldFrom ==
  ASSUME Base, Service, Next, NEW s \in Successors, Holding(s)'
  PROVE  /\ xfer'[s] = xfer[s] /\ term'[s] = term[s]
         /\ Holding(s) \/ (oldUp /\ tx = "sending" /\ txPeer = s)
<1> DEFINE From == /\ xfer'[s] = xfer[s] /\ term'[s] = term[s]
                   /\ Holding(s) \/ (oldUp /\ tx = "sending" /\ txPeer = s)
<1> SUFFICES From
  OBVIOUS
<1> USE DEF readVars, newVars, netVars
<1>t. /\ pc \in [Successors -> Starting \cup {"off", "serving", "gone"}]
      /\ toNew \in [Successors -> {"none", "Ready", "VersionMismatch", "Refused"}]
  BY DEF Base, TypeOK, NewTypeOK, NetTypeOK
<1>l. \A r \in Successors : Line(r) BY DEF Service
<1>1. CASE ReaderNext
  <2>1. Holding(s) BY <1>1, ReaderLeaves DEF Holding
  <2>2. pc[s] \notin Live BY <2>1 DEF Holding, Live
  <2>3. xfer'[s] = xfer[s] BY <1>1, <2>2, ReaderLeaves
  <2> PICK c \in Children :
        \/ ChildOutput(c) \/ ChildExit(c) \/ ListReap(c)
        \/ WakeReader(c) \/ LeavePark(c) \/ Unpark(c) \/ OldNaturalExit(c)
        \/ \E d \in Daemons : ReadChunk(d, c) \/ MirrorChunk(d, c) \/ ReadEof(d, c)
        \/ \E r \in Successors : NewNaturalExit(r, c)
        \/ \E i \in Sessions : Spawn(i, c)
    BY <1>1 DEF ReaderNext
  <2>4. CASE \E d \in Daemons : MirrorChunk(d, c)
    <3> PICK d \in Daemons : MirrorChunk(d, c)
      BY <2>4
    <3>1. d # s BY <2>2, DaemonsDistinct DEF MirrorChunk, Running, Live
    <3>2. term'[s] = term[s] BY <3>1, OldIsDaemon DEF MirrorChunk, Base, TypeOK, ReadTypeOK
    <3> QED BY <2>1, <2>3, <3>2
  <2>5. CASE ~ \E d \in Daemons : MirrorChunk(d, c)
    <3>1. term' = term
      BY <2>5 DEF ChildOutput, ChildExit, ListReap, WakeReader, LeavePark, Unpark, OldNaturalExit,
                  ReadChunk, ReadEof, NewNaturalExit, Spawn
    <3> QED BY <2>1, <2>3, <3>1
  <2> QED BY <2>4, <2>5
<1>2. CASE OldNext
  <2>1. ASSUME NEW i \in Sessions PROVE Kill(i) => From
    BY DEF Kill, Holding
  <2>2. ASSUME NEW r \in Successors PROVE OldAuthorize(r) \/ OldRefuse(r) => From
    BY <1>t DEF OldAuthorize, OldRefuse, Reply, Holding
  <2>3. ASSUME NEW r \in Successors PROVE OldSeal(r) \/ StrayAck(r) => From
    BY DEF OldSeal, StrayAck, Holding
  <2>4. OldSnapshot => From
    <3> SUFFICES ASSUME OldSnapshot PROVE From
      OBVIOUS
    <3>1. Holding(s) BY DEF OldSnapshot, Holding
    <3>2. txPeer \in Successors /\ Active(txPeer) BY DEF OldSnapshot, Service, Active
    <3>3. s # txPeer BY <1>l, <3>1, <3>2 DEF Line, Served, Holding
    <3>4. s \in Daemons BY OldIsDaemon
    <3> QED BY <3>1, <3>2, <3>3, <3>4 DEF OldSnapshot, Base, TypeOK, ReadTypeOK, NewTypeOK
  <2>5. OldSend => From
    BY <1>t DEF OldSend, Reply, Holding
  <2>6. Rollback \/ OldCommit \/ OldRelease \/ OldClose => From
    BY DEF Rollback, OldCommit, OldRelease, OldClose, Holding
  <2>7. OldExit \/ OldCrash \/ OldTerminate => From
    BY DEF OldExit, OldCrash, OldTerminate, Die, Holding
  <2> QED
    BY <1>2, <2>1, <2>2, <2>3, <2>4, <2>5, <2>6, <2>7
    DEF OldNext, QuiesceTimeout, SendFailed, AckDisconnect, AckTimeout
<1>3. CASE NewNext
  <2>1. UNCHANGED <<xfer, term>> BY <1>3, NewLeavesDesk DEF Base
  <2> PICK r \in Successors :
        \/ Launch(r) \/ Request(r) \/ RecvMismatch(r) \/ RecvRefused(r) \/ ResponseTimeout(r)
        \/ RecvReady(r) \/ SendAck(r) \/ SeeEof(r) \/ ReleaseTimeout(r) \/ KillOld(r)
        \/ BarrierKill(r) \/ Adopt(r) \/ Publish(r) \/ NewCrash(r)
    BY <1>3 DEF NewNext
  <2> USE DEF Advance, Abort, Reply
  <2>2. CASE Launch(r) \/ RecvMismatch(r) \/ RecvRefused(r) \/ ResponseTimeout(r)
    BY <2>1, <2>2, <1>t DEF Launch, RecvMismatch, RecvRefused, ResponseTimeout, Holding
  <2>3. CASE Request(r)
    BY <2>1, <2>3, <1>t, <1>l DEF Request, Holding, Line
  <2>4. CASE RecvReady(r) \/ SendAck(r) \/ SeeEof(r) \/ ReleaseTimeout(r)
    BY <2>1, <2>4, <1>t DEF RecvReady, SendAck, SeeEof, ReleaseTimeout, Holding
  <2>5. CASE KillOld(r) \/ BarrierKill(r)
    BY <2>1, <2>5, <1>t DEF KillOld, BarrierKill, Die, Holding
  <2>6. CASE Adopt(r) \/ Publish(r) \/ NewCrash(r)
    BY <2>1, <2>6, <1>t DEF Adopt, Publish, NewCrash, Holding
  <2> QED BY <2>2, <2>3, <2>4, <2>5, <2>6
<1> QED BY <1>1, <1>2, <1>3 DEF Next

\* A transfer on its way was taken by OldSnapshot and is not touched since.
LEMMA TxFrom ==
  ASSUME Base, Service, Next, oldUp', tx' \in {"sending", "awaitAck"}
  PROVE  /\ oldUp /\ txPeer' = txPeer /\ txPeer \in Successors
         /\ \/ OldSnapshot
            \/ tx \in {"sending", "awaitAck"} /\ xfer'[txPeer] = xfer[txPeer] /\ term'[txPeer] = term[txPeer]
<1> DEFINE From == /\ oldUp /\ txPeer' = txPeer /\ txPeer \in Successors
                   /\ \/ OldSnapshot
                      \/ /\ tx \in {"sending", "awaitAck"}
                         /\ xfer'[txPeer] = xfer[txPeer] /\ term'[txPeer] = term[txPeer]
<1> SUFFICES From
  OBVIOUS
<1> USE DEF oldVars, readVars, newVars, netVars
<1>p. tx # "idle" => txPeer \in Successors BY DEF Service
<1>1. CASE ReaderNext
  <2>1. oldUp /\ tx' = tx /\ txPeer' = txPeer /\ txPeer \in Successors /\ xfer'[txPeer] = xfer[txPeer]
    BY <1>1, <1>p, ReaderLeaves
  <2> PICK c \in Children :
        \/ ChildOutput(c) \/ ChildExit(c) \/ ListReap(c)
        \/ WakeReader(c) \/ LeavePark(c) \/ Unpark(c) \/ OldNaturalExit(c)
        \/ \E d \in Daemons : ReadChunk(d, c) \/ MirrorChunk(d, c) \/ ReadEof(d, c)
        \/ \E r \in Successors : NewNaturalExit(r, c)
        \/ \E i \in Sessions : Spawn(i, c)
    BY <1>1 DEF ReaderNext
  <2>2. CASE \E d \in Daemons : MirrorChunk(d, c)
    <3> PICK d \in Daemons : MirrorChunk(d, c)
      BY <2>2
    <3>1. d # txPeer BY <2>1 DEF MirrorChunk, Base, Behind, Reads
    <3>2. term'[txPeer] = term[txPeer] BY <2>1, <3>1, OldIsDaemon DEF MirrorChunk, Base, TypeOK, ReadTypeOK
    <3> QED BY <2>1, <3>2
  <2>3. CASE ~ \E d \in Daemons : MirrorChunk(d, c)
    <3>1. term' = term
      BY <2>3 DEF ChildOutput, ChildExit, ListReap, WakeReader, LeavePark, Unpark, OldNaturalExit,
                  ReadChunk, ReadEof, NewNaturalExit, Spawn
    <3> QED BY <2>1, <3>1
  <2> QED BY <2>2, <2>3
<1>2. CASE OldNext
  <2>1. ASSUME NEW i \in Sessions PROVE Kill(i) => From
    BY <1>p DEF Kill
  <2>2. ASSUME NEW r \in Successors
        PROVE  OldAuthorize(r) \/ OldRefuse(r) \/ OldSeal(r) \/ StrayAck(r) => From
    BY <1>p DEF OldAuthorize, OldRefuse, OldSeal, StrayAck
  <2>3. OldSnapshot => From
    BY <1>p DEF OldSnapshot
  <2>4. Rollback \/ OldSend \/ OldCommit \/ OldRelease \/ OldClose => From
    BY <1>p DEF Rollback, OldSend, OldCommit, OldRelease, OldClose
  <2>5. OldExit \/ OldCrash \/ OldTerminate => From
    BY DEF OldExit, OldCrash, OldTerminate, Die
  <2> QED
    BY <1>2, <2>1, <2>2, <2>3, <2>4, <2>5
    DEF OldNext, QuiesceTimeout, SendFailed, AckDisconnect, AckTimeout
<1>3. CASE NewNext
  <2>1. UNCHANGED <<tx, txPeer, xfer, term>> BY <1>3, NewLeavesDesk DEF Base
  <2>2. oldUp
    BY <1>3 DEF NewNext, Launch, Request, RecvMismatch, RecvRefused, ResponseTimeout, RecvReady, SendAck,
                SeeEof, ReleaseTimeout, KillOld, BarrierKill, Adopt, Publish, NewCrash, Die
  <2> QED BY <1>p, <2>1, <2>2
<1> QED BY <1>1, <1>2, <1>3 DEF Next

\* No live session is left out of a transfer.
Full(s) == \A i \in Sessions : reg[i] # NoChild /\ child[reg[i]] = "running" => xfer[s][i] = reg[i]
Reaped == \A c \in reaped : child[c] = "exited"
FullInv ==
  /\ Reaped
  /\ \A s \in Successors : Holding(s) => Full(s)
  /\ oldUp /\ tx \in {"sending", "awaitAck"} => Full(txPeer)

LEMMA FullStep ==
  ASSUME "dupFails" \notin Faults, Base, Service, HoldInv, FullInv, Next
  PROVE  FullInv'
<1>t. reg \in [Sessions -> Children \cup {NoChild}] /\ reaped \subseteq Children
  BY DEF Base, TypeOK, RegTypeOK
\* A complete transfer stays complete while the sessions stand still.
<1>1. ASSUME NEW s \in Successors, Full(s), ~Free, UNCHANGED reg, xfer'[s] = xfer[s] PROVE Full(s)'
  BY <1>1, <1>t, KidStep DEF Full
<1>2. Reaped'
  <2>1. \A c \in reaped' : c \in Children /\ (c \in reaped \/ child[c] = "exited")
    <3>1. CASE \E c \in Children : ListReap(c)
      BY <3>1, <1>t DEF ListReap
    <3>2. CASE ~ \E c \in Children : ListReap(c)
      <4>1. reaped' = reaped
        <5>1. CASE ReaderNext
          BY <3>2, <5>1 DEF ReaderNext, ChildOutput, ChildExit, WakeReader, LeavePark, Unpark,
             OldNaturalExit, ReadChunk, MirrorChunk, ReadEof, NewNaturalExit, Spawn, regVars
        <5>2. CASE OldNext
          BY <5>2 DEF OldNext, Kill, OldAuthorize, OldRefuse, OldSeal, StrayAck, OldSnapshot,
             QuiesceTimeout, OldSend, SendFailed, OldCommit, AckDisconnect, AckTimeout, OldRelease,
             OldClose, OldExit, OldCrash, OldTerminate, Rollback, Die, regVars
        <5>3. CASE NewNext
          BY <5>3, NewLeavesDesk DEF Base
        <5> QED BY <5>1, <5>2, <5>3 DEF Next
      <4> QED BY <4>1, <1>t
    <3> QED BY <3>1, <3>2
  <2> QED BY <2>1, KidStep DEF FullInv, Reaped
<1>3. ASSUME NEW s \in Successors, Holding(s)' PROVE Full(s)'
  <2>1. xfer'[s] = xfer[s] /\ (Holding(s) \/ (oldUp /\ tx = "sending" /\ txPeer = s))
    BY <1>3, HoldFrom
  <2>2. Full(s) BY <2>1 DEF FullInv
  <2>3. ~Free /\ UNCHANGED reg BY <2>1, KidsFixed
  <2> QED BY <1>1, <2>1, <2>2, <2>3
<1>4. ASSUME oldUp', tx' \in {"sending", "awaitAck"} PROVE (Full(txPeer))'
  <2>1. /\ oldUp /\ txPeer' = txPeer /\ txPeer \in Successors
        /\ \/ OldSnapshot
           \/ tx \in {"sending", "awaitAck"} /\ xfer'[txPeer] = xfer[txPeer] /\ term'[txPeer] = term[txPeer]
    BY <1>4, TxFrom
  <2>2. CASE OldSnapshot
    <3>1. /\ UNCHANGED <<reg, child>>
          /\ xfer' = [xfer EXCEPT ![txPeer] = [i \in Sessions |->
                        IF i \in Transferable \ {} THEN reg[i] ELSE NoChild]]
      BY <2>2 DEF OldSnapshot, regVars, kidVars
    <3>2. \A i \in Sessions : xfer'[txPeer][i] = IF i \in Transferable THEN reg[i] ELSE NoChild
      BY <2>1, <3>1 DEF Base, TypeOK, NewTypeOK
    <3>3. \A i \in Sessions : reg[i] # NoChild /\ child[reg[i]] = "running" => i \in Transferable
      BY DEF Transferable, IsAlive, FullInv, Reaped
    <3>4. \A i \in Sessions : reg'[i] # NoChild /\ child'[reg'[i]] = "running" => xfer'[txPeer][i] = reg'[i]
      BY <3>1, <3>2, <3>3
    <3> QED BY <2>1, <3>4 DEF Full
  <2>3. CASE tx \in {"sending", "awaitAck"} /\ xfer'[txPeer] = xfer[txPeer]
    <3>1. Full(txPeer) BY <2>1, <2>3 DEF FullInv
    <3>2. ~Free /\ UNCHANGED reg BY <2>1, <2>3, KidsFixed
    <3>3. \A i \in Sessions : reg'[i] # NoChild /\ child'[reg'[i]] = "running" => xfer'[txPeer][i] = reg'[i]
      BY <2>3, <3>1, <3>2, <1>t, KidStep DEF Full
    <3> QED BY <2>1, <3>3 DEF Full
  <2> QED BY <2>1, <2>2, <2>3
<1> QED BY <1>2, <1>3, <1>4 DEF FullInv

\* What the incumbent handed over is what it served when the barrier ends, if
\* acknowledgements are in time and descriptors can be duplicated: no live
\* session is omitted, no killed or replaced one carried over.
THEOREM TransferIsCurrent ==
  ASSUME {"lateAck", "dupFails"} \cap Faults = {}
  PROVE  Spec => []AdoptedIsCurrent
<1>1. Init => FullInv
  BY DEF Init, FullInv, Reaped, Holding
<1>2. Base /\ Service /\ HoldInv /\ FullInv /\ [Next]_vars => FullInv'
  <2> SUFFICES ASSUME Base, Service, HoldInv, FullInv, [Next]_vars PROVE FullInv'
    OBVIOUS
  <2>1. CASE UNCHANGED vars
    BY <2>1 DEF vars, oldVars, regVars, kidVars, newVars, netVars, FullInv, Reaped, Holding, Full
  <2> QED BY <2>1, FullStep
<1>3. HoldInv /\ FullInv => AdoptedIsCurrent
  BY DEF HoldInv, Held1, FullInv, Holding, Sound, Full, AdoptedIsCurrent
<1>4. Spec => []HoldInv BY HoldInvariant
<1> QED BY <1>1, <1>2, <1>3, <1>4, BaseInv, ServiceInv, PTL DEF Spec

-----------------------------------------------------------------------------
(* One announcement per death.                                                 *)

\* Where a registration can come from.
LEMMA RegFrom ==
  ASSUME Base, Next, NEW c \in Registered(reg')
  PROVE  c \in Registered(reg) \/ child[c] = "unborn"
<1>t. reg \in [Sessions -> Children \cup {NoChild}]
  BY DEF Base, TypeOK, RegTypeOK
<1>1. ASSUME NEW i \in Sessions, NEW k \in Children, Spawn(i, k)
      PROVE  c \in Registered(reg) \/ child[c] = "unborn"
  <2>1. Registered(reg') = Registered(reg) \cup {k} BY <1>1, <1>t, SpawnRegisters
  <2> QED BY <1>1, <2>1 DEF Spawn
<1>2. ASSUME NEW k \in Children, reg' = Unregister(reg, k)
      PROVE  c \in Registered(reg)
  BY <1>2, <1>t, UnregisterIs
<1>3. CASE ReaderNext
  <2>1. CASE \E k \in Children, i \in Sessions : Spawn(i, k)
    BY <2>1, <1>1
  <2>2. CASE \E k \in Children : OldNaturalExit(k)
    BY <2>2, <1>2 DEF OldNaturalExit
  <2>3. CASE ~(\E k \in Children, i \in Sessions : Spawn(i, k)) /\ ~(\E k \in Children : OldNaturalExit(k))
    <3>1. reg' = reg
      BY <1>3, <2>3 DEF ReaderNext, ChildOutput, ChildExit, ListReap, WakeReader, LeavePark, Unpark,
         ReadChunk, MirrorChunk, ReadEof, NewNaturalExit, regVars
    <3> QED BY <3>1
  <2> QED BY <2>1, <2>2, <2>3
<1>4. CASE OldNext
  <2>1. CASE \E i \in Sessions : Kill(i)
    BY <2>1, <1>2, <1>t DEF Kill
  <2>2. CASE ~ \E i \in Sessions : Kill(i)
    <3>1. reg' = reg
      BY <1>4, <2>2 DEF OldNext, OldAuthorize, OldRefuse, OldSeal, StrayAck, OldSnapshot,
         QuiesceTimeout, OldSend, SendFailed, OldCommit, AckDisconnect, AckTimeout, OldRelease,
         OldClose, OldExit, OldCrash, OldTerminate, Rollback, Die, regVars
    <3> QED BY <3>1
  <2> QED BY <2>1, <2>2
<1>5. CASE NewNext
  BY <1>5, NewLeavesDesk DEF Base
<1> QED BY <1>3, <1>4, <1>5 DEF Next

\* How a successor comes to serve a session.
LEMMA LiveFrom ==
  ASSUME Base, Service, Next, NEW s \in Successors, pc'[s] \in Live
  PROVE  /\ Registered(xfer'[s]) \subseteq Registered(xfer[s])
         /\ pc[s] \in Live \/ pc[s] = "barrier" \/ Registered(xfer[s]) = {}
<1>t. pc \in [Successors -> Starting \cup {"off", "serving", "gone"}]
  BY DEF Base, TypeOK, NewTypeOK
<1>1. CASE ReaderNext
  <2>1. pc' = pc /\ \A i \in Sessions : xfer'[s][i] = xfer[s][i] \/ xfer'[s][i] = NoChild
    BY <1>1, ReaderLeaves
  <2>2. Registered(xfer'[s]) \subseteq Registered(xfer[s])
    BY <2>1 DEF Registered
  <2> QED BY <2>1, <2>2
<1>2. CASE OldNext
  <2>1. pc' = pc /\ (xfer'[s] # xfer[s] => Active(s))
    BY <1>2, OldLeaves
  <2>2. ~Active(s) BY <2>1 DEF Service, Line, Served, Live
  <2> QED BY <2>1, <2>2
<1>3. CASE NewNext
  <2>1. xfer' = xfer BY <1>3, NewLeavesDesk DEF Base
  <2> PICK r \in Successors :
        \/ Launch(r) \/ Request(r) \/ RecvMismatch(r) \/ RecvRefused(r) \/ ResponseTimeout(r)
        \/ RecvReady(r) \/ SendAck(r) \/ SeeEof(r) \/ ReleaseTimeout(r) \/ KillOld(r)
        \/ BarrierKill(r) \/ Adopt(r) \/ Publish(r) \/ NewCrash(r)
    BY <1>3 DEF NewNext
  <2> USE DEF Advance, Abort, Live
  <2>2. CASE Launch(r)
    <3>1. pc[r] = "off" => Registered(xfer[r]) = {}
      BY DEF Service, Line, Registered, Empty
    <3> QED BY <2>1, <2>2, <3>1, <1>t DEF Launch
  <2>3. CASE Request(r) \/ RecvMismatch(r) \/ RecvRefused(r) \/ ResponseTimeout(r)
    BY <2>1, <2>3, <1>t DEF Request, RecvMismatch, RecvRefused, ResponseTimeout
  <2>4. CASE RecvReady(r) \/ SendAck(r) \/ SeeEof(r) \/ ReleaseTimeout(r)
    BY <2>1, <2>4, <1>t DEF RecvReady, SendAck, SeeEof, ReleaseTimeout
  <2>5. CASE KillOld(r) \/ BarrierKill(r)
    BY <2>1, <2>5, <1>t DEF KillOld, BarrierKill
  <2>6. CASE Adopt(r) \/ Publish(r) \/ NewCrash(r)
    BY <2>1, <2>6, <1>t DEF Adopt, Publish, NewCrash
  <2> QED BY <2>2, <2>3, <2>4, <2>5, <2>6
<1> QED BY <1>1, <1>2, <1>3 DEF Next

\* A daemon that adopted sessions reads only what it has registered, and only
\* born incarnations are ever transferred.
Serves ==
  \A s \in Successors, c \in Children :
    pc[s] \in Live /\ rd[s][c] \notin {"none", "done"} => c \in Registered(xfer[s])
Carried == \A s \in Successors : \A c \in Registered(xfer[s]) : child[c] # "unborn"
ServeInv == Serves /\ Carried

LEMMA ServesStep == Base /\ Service /\ ServeInv /\ Next => Serves'
<1> SUFFICES ASSUME Base, Service, ServeInv, Next PROVE Serves'
  OBVIOUS
<1> USE DEF readVars
<1>t. /\ pc \in [Successors -> Starting \cup {"off", "serving", "gone"}]
      /\ rd \in [Daemons -> [Children -> Phases]]
      /\ xfer \in [Successors -> [Sessions -> Children \cup {NoChild}]]
  BY DEF Base, TypeOK, NewTypeOK, ReadTypeOK
<1>d. \A s \in Successors : s \in Daemons /\ s # Old BY OldIsDaemon, DaemonsDistinct
<1>1. CASE ReaderNext
  <2>1. pc' = pc BY <1>1, ReaderLeaves
  <2>2. ASSUME NEW d \in Daemons, NEW k \in Children, NEW phase, SetReader(d, k, phase),
               rd[d][k] \notin {"none", "done"} \/ d = Old, UNCHANGED xfer
        PROVE  Serves'
    BY <2>1, <2>2, <1>t, <1>d DEF SetReader, ServeInv, Serves
  <2> PICK c \in Children :
        \/ ChildOutput(c) \/ ChildExit(c) \/ ListReap(c)
        \/ WakeReader(c) \/ LeavePark(c) \/ Unpark(c) \/ OldNaturalExit(c)
        \/ \E d \in Daemons : ReadChunk(d, c) \/ MirrorChunk(d, c) \/ ReadEof(d, c)
        \/ \E s \in Successors : NewNaturalExit(s, c)
        \/ \E i \in Sessions : Spawn(i, c)
    BY <1>1 DEF ReaderNext
  <2> USE DEF newVars
  <2>3. CASE ChildOutput(c) \/ ChildExit(c) \/ ListReap(c)
    BY <2>1, <2>3 DEF ChildOutput, ChildExit, ListReap, ServeInv, Serves
  <2>4. CASE WakeReader(c) \/ LeavePark(c) \/ Unpark(c) \/ OldNaturalExit(c)
    BY <2>2, <2>4, OldIsDaemon DEF WakeReader, LeavePark, Unpark, OldNaturalExit, SetReaderAtTop
  <2>5. CASE \E d \in Daemons : ReadChunk(d, c) \/ MirrorChunk(d, c) \/ ReadEof(d, c)
    BY <2>2, <2>5 DEF ReadChunk, MirrorChunk, ReadEof, SetReaderAtTop
  <2>6. CASE \E s \in Successors : NewNaturalExit(s, c)
    <3> PICK s \in Successors : NewNaturalExit(s, c)
      BY <2>6
    <3>1. \A r \in Successors : Registered(xfer'[r]) = IF r = s THEN Registered(xfer[r]) \ {c} ELSE Registered(xfer[r])
      BY <1>t, UnregisterIs DEF NewNaturalExit
    <3>2. \A r \in Successors, k \in Children :
            rd'[r][k] = IF r = s /\ k = c THEN "done" ELSE rd[r][k]
      BY <1>t, <1>d DEF NewNaturalExit, SetReader
    <3> QED BY <2>1, <3>1, <3>2 DEF ServeInv, Serves
  <2>7. CASE \E i \in Sessions : Spawn(i, c)
    BY <2>2, <2>7, OldIsDaemon DEF Spawn
  <2> QED BY <2>3, <2>4, <2>5, <2>6, <2>7
<1>2. CASE OldNext
  <2>1. \A s \in Successors : rd'[s] = rd[s]
    <3>1. CASE \E i \in Sessions : Kill(i)
      BY <3>1, <1>t, <1>d DEF Kill, SetReader
    <3>2. CASE ~ \E i \in Sessions : Kill(i)
      BY <1>2, <3>2 DEF OldNext, OldAuthorize, OldRefuse, OldSeal, StrayAck, OldSnapshot,
         QuiesceTimeout, OldSend, SendFailed, OldCommit, AckDisconnect, AckTimeout, OldRelease,
         OldClose, OldExit, OldCrash, OldTerminate, Rollback, Die
    <3> QED BY <3>1, <3>2
  <2>2. pc' = pc /\ \A s \in Successors : pc[s] \in Live => xfer'[s] = xfer[s]
    BY <1>2, OldLeaves DEF Service, Line, Served, Live
  <2> QED BY <2>1, <2>2 DEF ServeInv, Serves
<1>3. CASE NewNext
  <2>1. xfer' = xfer BY <1>3, NewLeavesDesk DEF Base
  <2> SUFFICES ASSUME NEW s \in Successors, NEW c \in Children, pc'[s] \in Live,
                      rd'[s][c] \notin {"none", "done"}
               PROVE  c \in Registered(xfer[s])
    BY <2>1 DEF Serves
  <2> PICK r \in Successors :
        \/ Launch(r) \/ Request(r) \/ RecvMismatch(r) \/ RecvRefused(r) \/ ResponseTimeout(r)
        \/ RecvReady(r) \/ SendAck(r) \/ SeeEof(r) \/ ReleaseTimeout(r) \/ KillOld(r)
        \/ BarrierKill(r) \/ Adopt(r) \/ Publish(r) \/ NewCrash(r)
    BY <1>3 DEF NewNext
  <2>2. CASE Adopt(r)
    <3>1. pc' = [pc EXCEPT ![r] = "adopted"]
          /\ rd' = [rd EXCEPT ![r] = [k \in Children |-> IF k \in Registered(xfer[r]) THEN "select" ELSE "none"]]
      BY <2>2 DEF Adopt, Advance
    <3>2. CASE s = r BY <3>1, <3>2, <1>t, <1>d
    <3>3. CASE s # r BY <3>1, <3>3, <1>t, <1>d DEF ServeInv, Serves
    <3> QED BY <3>2, <3>3
  <2>3. CASE ~Adopt(r)
    <3>1. rd' = rd
      BY <2>3 DEF Launch, Request, RecvMismatch, RecvRefused, ResponseTimeout, RecvReady, SendAck,
             SeeEof, ReleaseTimeout, KillOld, BarrierKill, Publish, NewCrash, Die
    <3>2. pc[s] \in Live \cup {"gone"} BY <3>1 DEF Base, Behind, Reads
    <3>3. pc[s] \in Live
      BY <2>3, <3>2, <1>t DEF Launch, Request, RecvMismatch, RecvRefused, ResponseTimeout, RecvReady,
         SendAck, SeeEof, ReleaseTimeout, KillOld, BarrierKill, Publish, NewCrash, Starting, Live,
         Advance, Abort
    <3> QED BY <3>1, <3>3 DEF ServeInv, Serves
  <2> QED BY <2>2, <2>3
<1> QED BY <1>1, <1>2, <1>3 DEF Next

LEMMA CarriedStep == Base /\ Service /\ ServeInv /\ Next => Carried'
<1> SUFFICES ASSUME Base, Service, ServeInv, Next, NEW s \in Successors, NEW c \in Registered(xfer'[s])
             PROVE  c \in Children /\ child[c] # "unborn"
  BY KidStep DEF Carried
<1>x. /\ xfer \in [Successors -> [Sessions -> Children \cup {NoChild}]]
      /\ reg \in [Sessions -> Children \cup {NoChild}]
  BY DEF Base, TypeOK, NewTypeOK, RegTypeOK
<1>1. CASE c \in Registered(xfer[s])
  BY <1>1, <1>x, RegisteredIs DEF ServeInv, Carried
<1>2. CASE c \notin Registered(xfer[s])
  <2>1. xfer'[s] # xfer[s] BY <1>2
  <2>2. ~ReaderNext
    <3>1. (\A i \in Sessions : xfer'[s][i] = xfer[s][i] \/ xfer'[s][i] = NoChild)
          => Registered(xfer'[s]) \subseteq Registered(xfer[s])
      BY DEF Registered
    <3> QED BY <1>2, <3>1, ReaderLeaves
  <2>3. ~NewNext BY <2>1, NewLeavesDesk DEF Base
  <2>4. OldNext BY <2>2, <2>3 DEF Next
  <2>5. OldSnapshot
    BY <2>1, <2>4 DEF OldNext, Kill, OldAuthorize, OldRefuse, OldSeal, StrayAck,
       QuiesceTimeout, OldSend, SendFailed, OldCommit, AckDisconnect, AckTimeout, OldRelease,
       OldClose, OldExit, OldCrash, OldTerminate, Rollback, Die, newVars
  <2>6. s = txPeer BY <2>1, <2>5, <1>x DEF OldSnapshot
  <2>7. \A i \in Sessions : xfer'[s][i] \in {reg[i], NoChild}
    BY <2>5, <2>6, <1>x DEF OldSnapshot
  <2>8. c \in Registered(reg) BY <2>7 DEF Registered
  <2> QED BY <2>8, <1>x, RegisteredIs DEF Base, DeskInv, Born
<1> QED BY <1>1, <1>2

LEMMA ServeInvariant == Spec => []ServeInv
<1>1. Init => ServeInv
  BY DEF Init, ServeInv, Serves, Carried, Live, Registered, Empty
<1>2. Base /\ Service /\ ServeInv /\ [Next]_vars => ServeInv'
  <2> SUFFICES ASSUME Base, Service, ServeInv, [Next]_vars PROVE ServeInv'
    OBVIOUS
  <2>1. CASE UNCHANGED vars
    BY <2>1 DEF vars, kidVars, newVars, readVars, ServeInv, Serves, Carried
  <2> QED BY <2>1, ServesStep, CarriedStep DEF ServeInv
<1> QED BY <1>1, <1>2, BaseInv, ServiceInv, PTL DEF Spec

\* A death that has been announced is that of an incarnation nobody serves, or
\* is going to serve.
Once == \A c \in Children : exits[c] <= 1 /\ (child[c] = "unborn" => exits[c] = 0)
OldSilent == oldUp => \A c \in Registered(reg) : exits[c] = 0
NewSilent ==
  \A s \in Successors : Holding(s) \/ pc[s] \in Live => \A c \in Registered(xfer[s]) : exits[c] = 0
ExitInv == Once /\ OldSilent /\ NewSilent

\* The incumbent announces the death of a session it serves.
Announce(c) ==
  /\ Free /\ c \in Registered(reg) /\ child'[c] # "unborn"
  /\ exits' = [exits EXCEPT ![c] = @ + 1]
  /\ Registered(reg') = Registered(reg) \ {c}
  /\ UNCHANGED <<oldUp, pc, toNew, xfer>>

LEMMA ExitCases ==
  ASSUME Base, Next
  PROVE  \/ exits' = exits
         \/ \E c \in Children : Announce(c)
         \/ \E s \in Successors, c \in Children : NewNaturalExit(s, c)
<1> DEFINE Cases == \/ exits' = exits
                    \/ \E c \in Children : Announce(c)
                    \/ \E s \in Successors, c \in Children : NewNaturalExit(s, c)
<1> SUFFICES Cases
  OBVIOUS
<1> USE DEF oldVars, kidVars, newVars, netVars
<1>t. reg \in [Sessions -> Children \cup {NoChild}] /\ child \in [Children -> {"unborn", "running", "exited"}]
  BY DEF Base, TypeOK, RegTypeOK, KidTypeOK
<1>1. ASSUME NEW c \in Children, OldNaturalExit(c) PROVE Cases
  <2>1. CASE lifecycle = "Running" /\ ~stopReq[c] /\ c \in Registered(reg)
    <3>1. reg' = Unregister(reg, c) /\ exits' = [exits EXCEPT ![c] = @ + 1]
      BY <1>1, <2>1 DEF OldNaturalExit
    <3>2. Registered(reg') = Registered(reg) \ {c} BY <3>1, <1>t, UnregisterIs
    <3>3. child'[c] # "unborn" BY <1>1, <2>1 DEF OldNaturalExit, Base, DeskInv, Born
    <3>4. Free /\ UNCHANGED <<oldUp, pc, toNew, xfer>>
      BY <1>1, <2>1 DEF OldNaturalExit, Free, Committed
    <3>5. Announce(c) BY <2>1, <3>1, <3>2, <3>3, <3>4 DEF Announce
    <3> QED BY <3>5
  <2>2. CASE ~(lifecycle = "Running" /\ ~stopReq[c] /\ c \in Registered(reg))
    BY <1>1, <2>2 DEF OldNaturalExit
  <2> QED BY <2>1, <2>2
<1>2. ASSUME NEW i \in Sessions, Kill(i) PROVE Cases
  <2> DEFINE c == reg[i]
  <2>1. c \in Children /\ c \in Registered(reg)
    BY <1>2, <1>t, RegisteredIs DEF Kill
  <2>2. reg' = Unregister(reg, c) /\ exits' = [exits EXCEPT ![c] = @ + 1]
        /\ child' = [child EXCEPT ![c] = "exited"]
    BY <1>2 DEF Kill
  <2>3. Free /\ UNCHANGED <<oldUp, pc, toNew, xfer>>
    BY <1>2 DEF Kill, ReadGuard, Free, Committed
  <2> HIDE DEF c
  <2>4. Registered(reg') = Registered(reg) \ {c} BY <2>1, <2>2, <1>t, UnregisterIs
  <2>5. child'[c] # "unborn" BY <2>1, <2>2, <1>t
  <2>6. Announce(c) BY <2>1, <2>2, <2>3, <2>4, <2>5 DEF Announce
  <2> QED BY <2>1, <2>6
<1>3. CASE ReaderNext
  <2>1. CASE \E c \in Children : OldNaturalExit(c)
    BY <1>1, <2>1
  <2>2. CASE ~ \E c \in Children : OldNaturalExit(c)
    BY <1>3, <2>2 DEF ReaderNext, ChildOutput, ChildExit, ListReap, WakeReader, LeavePark, Unpark,
       ReadChunk, MirrorChunk, ReadEof, Spawn
  <2> QED BY <2>1, <2>2
<1>4. CASE OldNext
  <2>1. CASE \E i \in Sessions : Kill(i)
    BY <1>2, <2>1
  <2>2. CASE ~ \E i \in Sessions : Kill(i)
    BY <1>4, <2>2 DEF OldNext, OldAuthorize, OldRefuse, OldSeal, StrayAck, OldSnapshot,
       QuiesceTimeout, OldSend, SendFailed, OldCommit, AckDisconnect, AckTimeout, OldRelease,
       OldClose, OldExit, OldCrash, OldTerminate, Rollback, Die
  <2> QED BY <2>1, <2>2
<1>5. CASE NewNext
  BY <1>5, NewLeavesDesk DEF Base
<1> QED BY <1>3, <1>4, <1>5 DEF Next

LEMMA ExitStep ==
  ASSUME Base, Service, ServeInv, HoldInv, ExitInv, Next
  PROVE  ExitInv'
<1>t. /\ exits \in [Children -> Nat]
      /\ reg \in [Sessions -> Children \cup {NoChild}]
      /\ xfer \in [Successors -> [Sessions -> Children \cup {NoChild}]]
  BY DEF Base, TypeOK, KidTypeOK, RegTypeOK, NewTypeOK
<1>r. Registered(reg) \subseteq Children BY <1>t, RegisteredIs
<1>u. oldUp' => oldUp
  <2>1. NewNext => (oldUp' => oldUp)
    BY DEF NewNext, Launch, Request, RecvMismatch, RecvRefused, ResponseTimeout, RecvReady, SendAck,
       SeeEof, ReleaseTimeout, KillOld, BarrierKill, Adopt, Publish, NewCrash, Die, oldVars
  <2> QED BY <2>1, ReaderLeaves, OldLeaves DEF Next
<1>1. CASE exits' = exits
  <2>1. Once' BY <1>1, KidStep DEF ExitInv, Once
  <2>2. OldSilent'
    <3>1. reg' \in [Sessions -> Children \cup {NoChild}]
      BY ReaderType, OldType, NewType DEF Base, Next, TypeOK, RegTypeOK
    <3>2. Registered(reg') \subseteq Children BY <3>1, RegisteredIs
    <3> QED BY <1>1, <1>u, <3>2, RegFrom DEF ExitInv, OldSilent, Once
  <2>3. NewSilent'
    <3> SUFFICES ASSUME NEW s \in Successors, Holding(s)' \/ pc'[s] \in Live, NEW c \in Registered(xfer'[s])
                 PROVE  exits[c] = 0
      BY <1>1 DEF NewSilent
    <3>1. CASE Holding(s)'
      <4>1. xfer'[s] = xfer[s] /\ (Holding(s) \/ (oldUp /\ tx = "sending" /\ txPeer = s))
        BY <3>1, HoldFrom
      <4>2. CASE Holding(s) BY <4>1, <4>2 DEF ExitInv, NewSilent
      <4>3. CASE oldUp /\ tx = "sending" /\ txPeer = s
        <5>1. Sound(s) BY <4>3 DEF HoldInv, Held2
        <5>2. c \in Registered(reg) BY <4>1, <5>1 DEF Sound, Registered
        <5> QED BY <4>3, <5>2 DEF ExitInv, OldSilent
      <4> QED BY <4>1, <4>2, <4>3
    <3>2. CASE pc'[s] \in Live
      <4>1. c \in Registered(xfer[s]) /\ (pc[s] \in Live \/ pc[s] = "barrier")
        BY <3>2, LiveFrom
      <4> QED BY <4>1 DEF ExitInv, NewSilent, Holding
    <3> QED BY <3>1, <3>2
  <2> QED BY <2>1, <2>2, <2>3 DEF ExitInv
<1>2. CASE \E c \in Children : Announce(c)
  <2> PICK c \in Children : Announce(c)
    BY <1>2
  <2>1. \A k \in Children : exits'[k] = IF k = c THEN exits[k] + 1 ELSE exits[k]
    BY <1>t DEF Announce
  <2>2. exits[c] = 0 BY DEF Announce, Free, ExitInv, OldSilent
  <2>3. \A s \in Successors : ~Holding(s) /\ (pc[s] \in Live => Registered(xfer[s]) = {})
    BY Unheld DEF Announce, Free
  <2>4. Once' BY <2>1, <2>2, <1>t, KidStep DEF ExitInv, Once, Announce
  <2>5. OldSilent' BY <2>1, <1>r DEF ExitInv, OldSilent, Announce
  <2>6. NewSilent' BY <2>3 DEF NewSilent, Announce, Holding
  <2> QED BY <2>4, <2>5, <2>6 DEF ExitInv
<1>3. CASE \E s \in Successors, c \in Children : NewNaturalExit(s, c)
  <2> PICK s \in Successors, c \in Children : NewNaturalExit(s, c)
    BY <1>3
  <2>1. pc[s] \in Live /\ c \in Registered(xfer[s])
    BY DEF NewNaturalExit, ServeInv, Serves, Live
  <2>2. ~oldUp /\ txPeer = s BY <2>1 DEF HoldInv, Held3
  <2>3. exits[c] = 0 /\ child[c] # "unborn" BY <2>1 DEF ExitInv, NewSilent, ServeInv, Carried
  <2>4. \A k \in Children : exits'[k] = IF k = c THEN exits[k] + 1 ELSE exits[k]
    BY <1>t DEF NewNaturalExit
  <2>5. \A r \in Successors : Registered(xfer'[r]) = IF r = s THEN Registered(xfer[r]) \ {c} ELSE Registered(xfer[r])
    BY <1>t, UnregisterIs DEF NewNaturalExit
  <2>6. UNCHANGED <<pc, toNew, child>> BY DEF NewNaturalExit, netVars
  <2>7. Once' BY <2>3, <2>4, <2>6, <1>t DEF ExitInv, Once
  <2>8. OldSilent' BY <1>u, <2>2 DEF OldSilent
  <2>9. NewSilent'
    <3> SUFFICES ASSUME NEW r \in Successors, Holding(r) \/ pc[r] \in Live, NEW k \in Registered(xfer'[r])
                 PROVE  exits'[k] = 0
      BY <2>6 DEF NewSilent, Holding
    <3>1. k \in Registered(xfer[r]) /\ k \in Children BY <2>5, <1>t, RegisteredIs
    <3>2. exits[k] = 0 BY <3>1 DEF ExitInv, NewSilent
    <3>3. k # c
      <4>1. r # s => k # c
        <5> SUFFICES ASSUME r # s PROVE k # c
          OBVIOUS
        <5>1. CASE Holding(r) BY <5>1, <2>2 DEF HoldInv, Held1
        <5>2. CASE pc[r] \in Live BY <5>2, <2>2, <3>1 DEF HoldInv, Held3
        <5> QED BY <5>1, <5>2
      <4> QED BY <4>1, <2>5
    <3> QED BY <2>4, <3>1, <3>2, <3>3
  <2> QED BY <2>7, <2>8, <2>9 DEF ExitInv
<1> QED BY <1>1, <1>2, <1>3, ExitCases

\* Unless an acknowledgement may come too late, the death of an incarnation is
\* announced at most once by all daemons together, and never for a session that
\* a successor is about to serve.
THEOREM DeathAnnouncedOnce ==
  ASSUME "lateAck" \notin Faults
  PROVE  Spec => []ExitOnce
<1>1. Init => ExitInv
  BY DEF Init, ExitInv, Once, OldSilent, NewSilent, Holding, Live, Registered
<1>2. Base /\ Service /\ ServeInv /\ HoldInv /\ ExitInv /\ [Next]_vars => ExitInv'
  <2> SUFFICES ASSUME Base, Service, ServeInv, HoldInv, ExitInv, [Next]_vars PROVE ExitInv'
    OBVIOUS
  <2>1. CASE UNCHANGED vars
    BY <2>1 DEF vars, oldVars, regVars, kidVars, newVars, netVars, ExitInv, Once, OldSilent, NewSilent, Holding
  <2> QED BY <2>1, ExitStep
<1>3. Base /\ ExitInv => ExitOnce
  BY DEF ExitInv, Once, NewSilent, Holding, Live, Receiving, ExitOnce
<1>4. Spec => []HoldInv BY HoldInvariant
<1> QED BY <1>1, <1>2, <1>3, <1>4, BaseInv, ServiceInv, ServeInvariant, PTL DEF Spec

-----------------------------------------------------------------------------
(* No output lost.                                                             *)

\* A block is in a hand only between read() and mirror_output; an unborn
\* incarnation has left no trace; a served session's reader was not stopped.
Hand == \A d \in Daemons, c \in Children : rd[d][c] # "hand" => inHand[d][c] = 0
Untouched ==
  \A c \in Children : child[c] = "unborn" => taken[c] = 0 /\ term[Old][c] = {} /\ ~stopReq[c]
Unstopped == lifecycle = "Running" => \A c \in Registered(reg) : ~stopReq[c]
HandInv == Hand /\ Untouched /\ Unstopped

LEMMA HandStep == Base /\ Service /\ Hand /\ Next => Hand'
<1> SUFFICES ASSUME Base, Service, Hand, Next PROVE Hand'
  OBVIOUS
<1> USE DEF readVars
<1>t. /\ rd \in [Daemons -> [Children -> Phases]]
      /\ inHand \in [Daemons -> [Children -> 0..MaxChunk]]
      /\ reg \in [Sessions -> Children \cup {NoChild}]
  BY DEF Base, TypeOK, ReadTypeOK, RegTypeOK
<1>1. ASSUME NEW d \in Daemons, NEW c \in Children, NEW phase, SetReader(d, c, phase), UNCHANGED inHand,
             rd[d][c] # "hand"
      PROVE  Hand'
  BY <1>1, <1>t DEF SetReader, Hand
<1>2. ASSUME NEW d \in Daemons, NEW c \in Children, NEW phase, SetReader(d, c, phase), NEW v,
             inHand' = [inHand EXCEPT ![d][c] = v], phase = "hand" \/ v = 0
      PROVE  Hand'
  BY <1>2, <1>t DEF SetReader, Hand
<1>3. CASE ReaderNext
  <2> PICK c \in Children :
        \/ ChildOutput(c) \/ ChildExit(c) \/ ListReap(c)
        \/ WakeReader(c) \/ LeavePark(c) \/ Unpark(c) \/ OldNaturalExit(c)
        \/ \E d \in Daemons : ReadChunk(d, c) \/ MirrorChunk(d, c) \/ ReadEof(d, c)
        \/ \E s \in Successors : NewNaturalExit(s, c)
        \/ \E i \in Sessions : Spawn(i, c)
    BY <1>3 DEF ReaderNext
  <2>1. CASE ChildOutput(c) \/ ChildExit(c) \/ ListReap(c)
    BY <2>1 DEF ChildOutput, ChildExit, ListReap, Hand
  <2>2. CASE WakeReader(c) \/ LeavePark(c) \/ Unpark(c) \/ OldNaturalExit(c)
    BY <2>2, <1>1, OldIsDaemon DEF WakeReader, LeavePark, Unpark, OldNaturalExit, SetReaderAtTop
  <2>3. CASE \E d \in Daemons : ReadChunk(d, c) \/ MirrorChunk(d, c)
    BY <2>3, <1>2 DEF ReadChunk, MirrorChunk, SetReaderAtTop
  <2>4. CASE \E d \in Daemons : ReadEof(d, c)
    BY <2>4, <1>1 DEF ReadEof
  <2>5. CASE \E s \in Successors : NewNaturalExit(s, c)
    BY <2>5, <1>1, OldIsDaemon DEF NewNaturalExit
  <2>6. CASE \E i \in Sessions : Spawn(i, c)
    <3>1. c \notin Registered(reg) BY <2>6 DEF Spawn, Base, DeskInv, Born
    <3>2. rd[Old][c] # "hand" BY <3>1 DEF Base, DeskInv, Unmanned
    <3> QED BY <2>6, <3>2, <1>1, OldIsDaemon DEF Spawn
  <2> QED BY <2>1, <2>2, <2>3, <2>4, <2>5, <2>6
<1>4. CASE OldNext
  <2>1. CASE \E i \in Sessions : Kill(i)
    <3> PICK i \in Sessions : Kill(i)
      BY <2>1
    <3>1. reg[i] \in Children BY <1>t DEF Kill
    <3> QED BY <3>1, <1>2, OldIsDaemon DEF Kill
  <2>2. CASE ~ \E i \in Sessions : Kill(i)
    BY <1>4, <2>2 DEF OldNext, OldAuthorize, OldRefuse, OldSeal, StrayAck, OldSnapshot,
       QuiesceTimeout, OldSend, SendFailed, OldCommit, AckDisconnect, AckTimeout, OldRelease,
       OldClose, OldExit, OldCrash, OldTerminate, Rollback, Die, Hand
  <2> QED BY <2>1, <2>2
<1>5. CASE NewNext
  <2>1. inHand' = inHand BY <1>5, NewLeavesDesk DEF Base
  <2>2. CASE \E s \in Successors : Adopt(s)
    <3> PICK s \in Successors : Adopt(s)
      BY <2>2
    <3>1. s \in Daemons /\ \A c \in Children : rd[s][c] = "none"
      BY OldIsDaemon DEF Adopt, Base, Behind, Reads, Live
    <3>2. \A d \in Daemons : d # s => rd'[d] = rd[d] BY <1>t DEF Adopt
    <3> QED BY <2>1, <3>1, <3>2 DEF Hand
  <2>3. CASE ~ \E s \in Successors : Adopt(s)
    <3>1. rd' = rd
      BY <1>5, <2>3 DEF NewNext, Launch, Request, RecvMismatch, RecvRefused, ResponseTimeout, RecvReady,
         SendAck, SeeEof, ReleaseTimeout, KillOld, BarrierKill, Publish, NewCrash, Die
    <3> QED BY <2>1, <3>1 DEF Hand
  <2> QED BY <2>2, <2>3
<1> QED BY <1>3, <1>4, <1>5 DEF Next

\* Which steps touch a terminal, the hand of a reader or the count of blocks.
LEMMA OutCases ==
  ASSUME Base, Next
  PROVE  \/ UNCHANGED <<taken, inHand, term>>
         \/ \E d \in Daemons, c \in Children : ReadChunk(d, c) \/ MirrorChunk(d, c)
         \/ \E i \in Sessions : Kill(i)
         \/ OldSnapshot
<1> USE DEF readVars, kidVars
<1>1. CASE ReaderNext
  BY <1>1 DEF ReaderNext, ChildOutput, ChildExit, ListReap, WakeReader, LeavePark, Unpark, OldNaturalExit,
     ReadEof, NewNaturalExit, Spawn
<1>2. CASE OldNext
  BY <1>2 DEF OldNext, OldAuthorize, OldRefuse, OldSeal, StrayAck, QuiesceTimeout, OldSend, SendFailed,
     OldCommit, AckDisconnect, AckTimeout, OldRelease, OldClose, OldExit, OldCrash, OldTerminate, Rollback, Die
<1>3. CASE NewNext
  BY <1>3, NewLeavesDesk DEF Base
<1> QED BY <1>1, <1>2, <1>3 DEF Next

\* A stop is requested of a session that is being killed or handed over.
LEMMA StopCases ==
  ASSUME Base, Next
  PROVE  \/ UNCHANGED stopReq
         \/ \E i \in Sessions : Kill(i)
         \/ OldCommit
<1> USE DEF ctlVars
<1>1. CASE ReaderNext
  BY <1>1 DEF ReaderNext, ChildOutput, ChildExit, ListReap, WakeReader, LeavePark, Unpark, OldNaturalExit,
     ReadChunk, MirrorChunk, ReadEof, NewNaturalExit, Spawn
<1>2. CASE OldNext
  BY <1>2 DEF OldNext, OldAuthorize, OldRefuse, OldSeal, StrayAck, OldSnapshot, QuiesceTimeout, OldSend,
     SendFailed, AckDisconnect, AckTimeout, OldRelease, OldClose, OldExit, OldCrash, OldTerminate, Rollback, Die
<1>3. CASE NewNext
  BY <1>3, NewLeavesDesk DEF Base
<1> QED BY <1>1, <1>2, <1>3 DEF Next

\* Nobody reads an unborn incarnation.
LEMMA ReadsBorn ==
  ASSUME Base, ServeInv, NEW d \in Daemons, NEW c \in Children, Running(d),
         rd[d][c] \in {"select", "hand"}
  PROVE  child[c] # "unborn" /\ (d = Old => c \in Registered(reg)) /\ (d # Old => c \in Registered(xfer[d]))
<1>1. CASE d = Old
  BY <1>1 DEF Base, DeskInv, Unmanned, Born
<1>2. CASE d \in Successors
  BY <1>2, DaemonsDistinct DEF ServeInv, Serves, Carried, Running, Live
<1> QED BY <1>1, <1>2 DEF Daemons

LEMMA UntouchedStep ==
  ASSUME Base, Service, ServeInv, HandInv, Next
  PROVE  Untouched'
<1>t. /\ taken \in [Children -> 0..MaxChunk]
      /\ term \in [Daemons -> [Children -> SUBSET Chunks]]
      /\ stopReq \in [Children -> BOOLEAN]
      /\ reg \in [Sessions -> Children \cup {NoChild}]
  BY DEF Base, TypeOK, KidTypeOK, ReadTypeOK, CtlTypeOK, RegTypeOK
<1> SUFFICES ASSUME NEW c \in Children, child'[c] = "unborn"
             PROVE  taken'[c] = taken[c] /\ term'[Old][c] = term[Old][c] /\ (stopReq'[c] => stopReq[c])
  BY KidStep DEF HandInv, Untouched
<1>1. child[c] = "unborn" BY KidStep
<1>2. ASSUME NEW i \in Sessions, Kill(i)
      PROVE  taken'[c] = taken[c] /\ term'[Old][c] = term[Old][c] /\ (stopReq'[c] => stopReq[c])
  <2>1. reg[i] \in Children /\ child' = [child EXCEPT ![reg[i]] = "exited"] BY <1>2, <1>t DEF Kill
  <2>2. c # reg[i]
    <3>1. child \in [Children -> {"unborn", "running", "exited"}] BY DEF Base, TypeOK, KidTypeOK
    <3> QED BY <2>1, <3>1
  <2>3. stopReq' = [stopReq EXCEPT ![reg[i]] = TRUE] /\ UNCHANGED <<taken, term>> BY <1>2 DEF Kill
  <2> QED BY <2>1, <2>2, <2>3, <1>t
<1>3. taken'[c] = taken[c] /\ term'[Old][c] = term[Old][c]
  <2>1. ASSUME NEW d \in Daemons, NEW k \in Children, ReadChunk(d, k) \/ MirrorChunk(d, k)
        PROVE  taken'[c] = taken[c] /\ term'[Old][c] = term[Old][c]
    <3>1. c # k
      BY <1>1, <2>1, ReadsBorn DEF ReadChunk, MirrorChunk
    <3>2. CASE ReadChunk(d, k) BY <3>1, <3>2, <1>t DEF ReadChunk
    <3>3. CASE MirrorChunk(d, k) BY <3>1, <3>3, <1>t, OldIsDaemon DEF MirrorChunk, kidVars
    <3> QED BY <2>1, <3>2, <3>3
  <2>2. CASE OldSnapshot
    <3>1. txPeer \in Successors BY <2>2 DEF OldSnapshot, Service
    <3> QED BY <2>2, <3>1, <1>t, DaemonsDistinct, OldIsDaemon DEF OldSnapshot, kidVars
  <2> QED BY <1>2, <2>1, <2>2, OutCases
<1>4. stopReq'[c] => stopReq[c]
  <2>1. CASE OldCommit
    <3>1. c \notin Registered(reg) BY <1>1 DEF Base, DeskInv, Born
    <3> QED BY <2>1, <3>1 DEF OldCommit, StopReaders
  <2> QED BY <1>2, <2>1, StopCases
<1> QED BY <1>3, <1>4

LEMMA UnstoppedStep ==
  ASSUME Base, Service, HandInv, Next
  PROVE  Unstopped'
<1>t. /\ stopReq \in [Children -> BOOLEAN]
      /\ reg \in [Sessions -> Children \cup {NoChild}]
  BY DEF Base, TypeOK, CtlTypeOK, RegTypeOK
<1> SUFFICES ASSUME lifecycle' = "Running", NEW c \in Registered(reg') PROVE ~stopReq'[c]
  BY DEF Unstopped
<1>1. lifecycle = "Running"
  <2>1. Committed => Committed'
    BY ReaderLeaves, OldLeaves, NewLeavesDesk DEF Next, Committed, Base
  <2> QED BY <2>1 DEF Committed, Base, SealInv, OldTypeOK
<1>2. c \in Children
  <2>1. reg' \in [Sessions -> Children \cup {NoChild}]
    BY ReaderType, OldType, NewType DEF Base, Next, TypeOK, RegTypeOK
  <2> QED BY <2>1, RegisteredIs
<1>3. ~stopReq[c]
  BY <1>1, <1>2, RegFrom DEF HandInv, Untouched, Unstopped
<1>4. CASE UNCHANGED stopReq BY <1>3, <1>4
<1>5. CASE \E i \in Sessions : Kill(i)
  <2> PICK i \in Sessions : Kill(i)
    BY <1>5
  <2>1. reg[i] \in Children /\ reg' = Unregister(reg, reg[i]) BY <1>t DEF Kill
  <2>2. c # reg[i] BY <2>1, <1>t, UnregisterIs
  <2> QED BY <2>1, <2>2, <1>2, <1>3, <1>t DEF Kill
<1>6. CASE OldCommit BY <1>6 DEF OldCommit
<1> QED BY <1>4, <1>5, <1>6, StopCases

LEMMA HandInvariant == Spec => []HandInv
<1>1. Init => HandInv
  BY OldIsDaemon DEF Init, HandInv, Hand, Untouched, Unstopped, Registered
<1>2. Base /\ Service /\ ServeInv /\ HandInv /\ [Next]_vars => HandInv'
  <2> SUFFICES ASSUME Base, Service, ServeInv, HandInv, [Next]_vars PROVE HandInv'
    OBVIOUS
  <2>1. CASE UNCHANGED vars
    BY <2>1 DEF vars, oldVars, regVars, ctlVars, kidVars, readVars, HandInv, Hand, Untouched, Unstopped
  <2> QED BY <2>1, HandStep, UntouchedStep, UnstoppedStep DEF HandInv
<1> QED BY <1>1, <1>2, BaseInv, ServiceInv, ServeInvariant, PTL DEF Spec

\* Everything taken off the PTY is in the terminal of whoever serves it; the
\* snapshot of a transfer holds it all, because no block is taken under it.
AllIn(d, c) == term[d][c] = 1..taken[c]
OldWhole == oldUp /\ lifecycle = "Running" => \A c \in Registered(reg) : Complete(Old, c)
SentWhole == oldUp /\ tx \in {"sending", "awaitAck"} => \A c \in Registered(xfer[txPeer]) : AllIn(txPeer, c)
HeldWhole == \A s \in Successors : Holding(s) => \A c \in Registered(xfer[s]) : AllIn(s, c)
NewWhole == \A s \in Successors : pc[s] \in Live => \A c \in Registered(xfer[s]) : Complete(s, c)
OutInv == OldWhole /\ SentWhole /\ HeldWhole /\ NewWhole

LEMMA EmptyHand ==
  ASSUME NEW d, NEW c, inHand[d][c] = 0
  PROVE  Complete(d, c) <=> AllIn(d, c)
  BY DEF Complete, AllIn

LEMMA OneMore ==
  ASSUME NEW n \in Nat
  PROVE  (1..n) \cup ({n + 1} \ {0}) = 1..(n + 1)
  OBVIOUS

\* read() takes the next block into the hand of a reader that had none.
LEMMA ReadComplete ==
  ASSUME TypeOK, NEW d \in Daemons, NEW c \in Children, ReadChunk(d, c), Complete(d, c), inHand[d][c] = 0
  PROVE  Complete(d, c)'
<1>1. taken[c] \in Nat BY MaxChunkIsNat DEF TypeOK, KidTypeOK
<1>2. taken'[c] = taken[c] + 1 /\ inHand'[d][c] = taken[c] + 1 /\ term'[d][c] = term[d][c]
  BY DEF ReadChunk, TypeOK, KidTypeOK, ReadTypeOK
<1>3. term[d][c] = 1..taken[c] BY EmptyHand DEF AllIn
<1> QED BY <1>1, <1>2, <1>3, OneMore DEF Complete

\* mirror_output puts it into the terminal.
LEMMA MirrorComplete ==
  ASSUME TypeOK, NEW d \in Daemons, NEW c \in Children, MirrorChunk(d, c), Complete(d, c),
         d = Old => ~stopReq[c]
  PROVE  Complete(d, c)'
<1>1. inHand[d][c] # 0 BY DEF MirrorChunk, TypeOK, ReadTypeOK
<1>2. term' = [term EXCEPT ![d][c] = term[d][c] \cup {inHand[d][c]}] BY DEF MirrorChunk
<1>3. term'[d][c] = term[d][c] \cup {inHand[d][c]} BY <1>2 DEF TypeOK, ReadTypeOK
<1>4. inHand'[d][c] = 0 /\ taken' = taken BY DEF MirrorChunk, kidVars, TypeOK, ReadTypeOK
<1> QED BY <1>1, <1>3, <1>4 DEF Complete

\* While the incumbent reads or mirrors, nobody else has its sessions.
LEMMA OldBusy ==
  ASSUME Base, HoldInv, oldUp, NEW c \in Children, rd[Old][c] \in {"select", "hand"}
  PROVE  /\ tx \notin {"sending", "awaitAck"} /\ ~Committed
         /\ \A s \in Successors : ~Holding(s) /\ (pc[s] \in Live => Registered(xfer[s]) = {})
<1>1. tx \notin PastSnapshot BY DEF Base, DeskInv, AtRest, Still
<1>2. ~Committed /\ tx # "awaitAck" BY <1>1 DEF Base, SealInv, Committed, PastSnapshot
<1>3. \A s \in Successors : ~Holding(s) BY <1>2, Loosened
<1> QED BY <1>1, <1>2, <1>3 DEF HoldInv, Held3, PastSnapshot

\* Only one successor ever reads or mirrors, and then nobody holds a transfer.
LEMMA NewBusy ==
  ASSUME Base, ServeInv, HoldInv, NEW s \in Successors, NEW c \in Children, Running(s),
         rd[s][c] \in {"select", "hand"}
  PROVE  /\ ~oldUp /\ pc[s] \in Live /\ c \in Registered(xfer[s])
         /\ \A r \in Successors : ~Holding(r)
         /\ \A r \in Successors : pc[r] \in Live /\ Registered(xfer[r]) # {} => r = s
<1>1. pc[s] \in Live BY DaemonsDistinct DEF Running, Live
<1>2. c \in Registered(xfer[s]) BY <1>1 DEF ServeInv, Serves
<1>3. ~oldUp /\ txPeer = s BY <1>1, <1>2 DEF HoldInv, Held3
<1>4. \A r \in Successors : Holding(r) => r = s BY <1>3 DEF HoldInv, Held1
<1>5. ~Holding(s) BY <1>1 DEF Live, Holding
<1> QED BY <1>1, <1>2, <1>3, <1>4, <1>5 DEF HoldInv, Held3

LEMMA BlockStep ==
  ASSUME Base, Service, ServeInv, HoldInv, HandInv, OutInv, NEW d \in Daemons, NEW c \in Children,
         ReadChunk(d, c) \/ MirrorChunk(d, c)
  PROVE  OutInv'
<1> USE DEF oldVars, regVars, newVars, netVars
<1>t. /\ taken \in [Children -> 0..MaxChunk]
      /\ term \in [Daemons -> [Children -> SUBSET Chunks]]
      /\ inHand \in [Daemons -> [Children -> 0..MaxChunk]]
      /\ reg \in [Sessions -> Children \cup {NoChild}]
      /\ xfer \in [Successors -> [Sessions -> Children \cup {NoChild}]]
  BY DEF Base, TypeOK, KidTypeOK, ReadTypeOK, RegTypeOK, NewTypeOK
<1>u. UNCHANGED <<oldUp, lifecycle, tx, txPeer, pc, toNew, xfer, reg>>
  BY DEF ReadChunk, MirrorChunk
<1>h. \A s \in Successors : (Holding(s))' <=> Holding(s) BY <1>u DEF Holding
<1>r. Running(d) /\ rd[d][c] \in {"select", "hand"} BY DEF ReadChunk, MirrorChunk
<1>z. rd[d][c] = "select" => inHand[d][c] = 0 BY DEF HandInv, Hand
\* The block of another incarnation, or in another daemon.
<1>k. ASSUME NEW e \in Daemons, NEW k \in Children, Complete(e, k), k # c \/ e # d,
             k # c \/ MirrorChunk(d, c)
      PROVE  Complete(e, k)'
  <2>1. taken'[k] = taken[k] BY <1>k, <1>t DEF ReadChunk, MirrorChunk, kidVars
  <2>2. term'[e][k] = term[e][k] /\ inHand'[e][k] = inHand[e][k]
    <3>1. CASE ReadChunk(d, c) BY <3>1, <1>k, <1>t DEF ReadChunk
    <3>2. CASE MirrorChunk(d, c) BY <3>2, <1>k, <1>t DEF MirrorChunk
    <3> QED BY <3>1, <3>2
  <2> QED BY <1>k, <2>1, <2>2 DEF Complete
<1>1. CASE d = Old
  <2>1. oldUp BY <1>1, <1>r DEF Running
  <2>2. /\ tx \notin {"sending", "awaitAck"} /\ ~Committed
        /\ \A s \in Successors : ~Holding(s) /\ (pc[s] \in Live => Registered(xfer[s]) = {})
    BY <1>1, <1>r, <2>1, OldBusy
  <2>3. c \in Registered(reg) BY <1>1, <1>r, ReadsBorn
  <2>4. lifecycle = "Running" BY <2>2 DEF Committed, Base, SealInv, OldTypeOK
  <2>5. ~stopReq[c] BY <2>3, <2>4 DEF HandInv, Unstopped
  <2>6. \A k \in Registered(reg) : k \in Children /\ Complete(Old, k)
    BY <2>1, <2>4, <1>t, RegisteredIs DEF OutInv, OldWhole
  <2>7. Complete(Old, c)'
    <3>1. CASE ReadChunk(d, c)
      <4>1. inHand[Old][c] = 0 BY <3>1, <1>1, <1>z DEF ReadChunk
      <4> QED BY <3>1, <4>1, <1>1, <2>3, <2>6, ReadComplete DEF Base
    <3>2. CASE MirrorChunk(d, c)
      BY <3>2, <1>1, <2>3, <2>5, <2>6, MirrorComplete DEF Base
    <3> QED BY <3>1, <3>2
  <2>8. \A k \in Registered(reg) : Complete(Old, k)'
    <3> SUFFICES ASSUME NEW k \in Registered(reg), k # c PROVE Complete(Old, k)'
      BY <2>7
    <3> QED BY <2>6, <1>k, OldIsDaemon
  <2>9. OldWhole' BY <2>8, <1>u DEF OldWhole
  <2>10. SentWhole' BY <2>2, <1>u DEF SentWhole
  <2>11. HeldWhole' BY <2>2, <1>h DEF HeldWhole
  <2>12. NewWhole' BY <2>2, <1>u DEF NewWhole
  <2> QED BY <2>9, <2>10, <2>11, <2>12 DEF OutInv
<1>2. CASE d \in Successors
  <2>1. /\ ~oldUp /\ pc[d] \in Live /\ c \in Registered(xfer[d])
        /\ \A r \in Successors : ~Holding(r)
        /\ \A r \in Successors : pc[r] \in Live /\ Registered(xfer[r]) # {} => r = d
    BY <1>2, <1>r, NewBusy
  <2>2. \A k \in Registered(xfer[d]) : k \in Children /\ Complete(d, k)
    BY <1>2, <2>1, <1>t, RegisteredIs DEF OutInv, NewWhole
  <2>3. Complete(d, c)'
    <3>1. CASE ReadChunk(d, c)
      <4>1. inHand[d][c] = 0 BY <3>1, <1>z DEF ReadChunk
      <4> QED BY <3>1, <4>1, <2>1, <2>2, ReadComplete DEF Base
    <3>2. CASE MirrorChunk(d, c)
      BY <3>2, <1>2, <2>1, <2>2, DaemonsDistinct, MirrorComplete DEF Base
    <3> QED BY <3>1, <3>2
  <2>4. \A k \in Registered(xfer[d]) : Complete(d, k)'
    <3> SUFFICES ASSUME NEW k \in Registered(xfer[d]), k # c PROVE Complete(d, k)'
      BY <2>3
    <3> QED BY <2>2, <1>k
  <2>5. OldWhole' /\ SentWhole' BY <2>1, <1>u DEF OldWhole, SentWhole
  <2>6. HeldWhole' BY <2>1, <1>h DEF HeldWhole
  <2>7. NewWhole'
    <3> SUFFICES ASSUME NEW r \in Successors, pc[r] \in Live, NEW k \in Registered(xfer[r])
                 PROVE  Complete(r, k)'
      BY <1>u DEF NewWhole
    <3>1. r = d BY <2>1
    <3> QED BY <2>4, <3>1
  <2> QED BY <2>5, <2>6, <2>7 DEF OutInv
<1> QED BY <1>1, <1>2 DEF Daemons

\* Every step that leaves terminals and counts alone, or takes the snapshot,
\* or kills a session.
LEMMA QuietOut ==
  ASSUME Base, Service, ServeInv, HoldInv, HandInv, OutInv, Next, UNCHANGED taken,
         \A c \in Children : term'[Old][c] = term[Old][c],
         \A c \in Children : c \in Registered(reg') => inHand'[Old][c] = inHand[Old][c],
         \A s \in Successors : pc[s] \in Live => term'[s] = term[s],
         \A s \in Successors : inHand'[s] = inHand[s]
  PROVE  OutInv'
<1>t. /\ reg \in [Sessions -> Children \cup {NoChild}]
      /\ xfer \in [Successors -> [Sessions -> Children \cup {NoChild}]]
  BY DEF Base, TypeOK, RegTypeOK, NewTypeOK
<1>n. TypeOK' BY ReaderType, OldType, NewType DEF Base, Next
<1>v. /\ \A c \in Registered(reg') : c \in Children
      /\ \A s \in Successors : \A c \in Registered(xfer'[s]) : c \in Children
  BY <1>n, RegisteredIs DEF TypeOK, RegTypeOK, NewTypeOK
<1>u. (oldUp' => oldUp) /\ (lifecycle' = "Running" => lifecycle = "Running")
  <2>1. NewNext => (oldUp' => oldUp)
    BY DEF NewNext, Launch, Request, RecvMismatch, RecvRefused, ResponseTimeout, RecvReady, SendAck,
       SeeEof, ReleaseTimeout, KillOld, BarrierKill, Adopt, Publish, NewCrash, Die, oldVars
  <2>2. Committed => Committed'
    BY ReaderLeaves, OldLeaves, NewLeavesDesk DEF Next, Committed, Base
  <2> QED BY <2>1, <2>2, ReaderLeaves, OldLeaves DEF Next, Committed, Base, SealInv, OldTypeOK
<1>1. OldWhole'
  <2> SUFFICES ASSUME oldUp, lifecycle = "Running", NEW c \in Registered(reg') PROVE Complete(Old, c)'
    BY <1>u DEF OldWhole
  <2>1. c \in Children BY <1>v
  <2>2. Complete(Old, c)
    <3>1. CASE c \in Registered(reg) BY <3>1 DEF OutInv, OldWhole
    <3>2. CASE c \notin Registered(reg)
      <4>1. child[c] = "unborn" BY <3>2, RegFrom
      <4>2. taken[c] = 0 /\ term[Old][c] = {} BY <2>1, <4>1 DEF HandInv, Untouched
      <4>3. rd[Old][c] # "hand" BY <2>1, <3>2 DEF Base, DeskInv, Unmanned
      <4>4. inHand[Old][c] = 0 BY <2>1, <4>3, OldIsDaemon DEF HandInv, Hand
      <4>5. 1..0 = {} OBVIOUS
      <4> QED BY <4>2, <4>4, <4>5 DEF Complete
    <3> QED BY <3>1, <3>2
  <2> QED BY <2>1, <2>2 DEF Complete
<1>2. SentWhole'
  <2> SUFFICES ASSUME oldUp', tx' \in {"sending", "awaitAck"}, NEW c \in Registered(xfer'[txPeer'])
               PROVE  AllIn(txPeer, c)'
    BY DEF SentWhole
  <2>1. /\ oldUp /\ txPeer' = txPeer /\ txPeer \in Successors
        /\ \/ OldSnapshot
           \/ tx \in {"sending", "awaitAck"} /\ xfer'[txPeer] = xfer[txPeer] /\ term'[txPeer] = term[txPeer]
    BY TxFrom
  <2>2. CASE OldSnapshot
    <3>1. lifecycle = "Running" /\ tx = "quiescing"
      BY <2>2 DEF OldSnapshot, Base, SealInv, OldTypeOK
    <3>2. \A i \in Sessions : xfer'[txPeer][i] \in {reg[i], NoChild}
      BY <2>1, <2>2, <1>t DEF OldSnapshot
    <3>3. c \in Registered(reg) /\ c \in Children
      BY <2>1, <3>2, <1>v DEF Registered
    <3>4. rd[Old][c] # "hand"
      BY <2>2, <3>3 DEF OldSnapshot, AllStill, ReaderStill, Base, DeskInv, Flagged
    <3>5. inHand[Old][c] = 0 BY <3>3, <3>4, OldIsDaemon DEF HandInv, Hand
    <3>6. Complete(Old, c) BY <2>1, <3>1, <3>3 DEF OutInv, OldWhole
    <3>7. AllIn(Old, c) BY <3>5, <3>6, EmptyHand
    <3>8. txPeer \in Daemons BY <2>1, OldIsDaemon
    <3>9. term'[txPeer] = term[Old] BY <2>2, <3>8 DEF OldSnapshot, Base, TypeOK, ReadTypeOK
    <3> QED BY <2>1, <3>7, <3>9 DEF AllIn
  <2>3. CASE tx \in {"sending", "awaitAck"} /\ xfer'[txPeer] = xfer[txPeer] /\ term'[txPeer] = term[txPeer]
    <3>1. AllIn(txPeer, c) BY <2>1, <2>3 DEF OutInv, SentWhole
    <3> QED BY <2>1, <2>3, <3>1 DEF AllIn
  <2> QED BY <2>1, <2>2, <2>3
<1>3. HeldWhole'
  <2> SUFFICES ASSUME NEW s \in Successors, Holding(s)', NEW c \in Registered(xfer'[s]) PROVE AllIn(s, c)'
    BY DEF HeldWhole
  <2>1. xfer'[s] = xfer[s] /\ term'[s] = term[s] /\ (Holding(s) \/ (oldUp /\ tx = "sending" /\ txPeer = s))
    BY HoldFrom
  <2>2. AllIn(s, c) BY <2>1 DEF OutInv, HeldWhole, SentWhole
  <2> QED BY <2>1, <2>2 DEF AllIn
<1>4. NewWhole'
  <2> SUFFICES ASSUME NEW s \in Successors, pc'[s] \in Live, NEW c \in Registered(xfer'[s])
               PROVE  Complete(s, c)'
    BY DEF NewWhole
  <2>1. c \in Registered(xfer[s]) /\ (pc[s] \in Live \/ pc[s] = "barrier") /\ c \in Children
    BY LiveFrom, <1>v
  <2>2. CASE pc[s] \in Live
    <3>1. Complete(s, c) BY <2>1, <2>2 DEF OutInv, NewWhole
    <3> QED BY <2>2, <3>1 DEF Complete
  <2>3. CASE pc[s] = "barrier"
    <3>1. AllIn(s, c) BY <2>1, <2>3 DEF OutInv, HeldWhole, Holding
    <3>2. rd[s][c] = "none" BY <2>1, <2>3 DEF Base, Behind, Reads, Live
    <3>3. inHand[s][c] = 0 BY <2>1, <3>2, OldIsDaemon DEF HandInv, Hand
    <3>4. term'[s] = term[s]
      <4>1. ~OldSnapshot
        <5> SUFFICES ASSUME OldSnapshot PROVE FALSE
          OBVIOUS
        <5>1. pc' = pc BY DEF OldSnapshot
        <5> QED BY <2>3, <5>1 DEF Live
      <4>2. ASSUME NEW d \in Daemons, NEW k \in Children, ReadChunk(d, k) \/ MirrorChunk(d, k) PROVE FALSE
        <5>1. pc' = pc BY <4>2 DEF ReadChunk, MirrorChunk, newVars
        <5> QED BY <2>3, <5>1 DEF Live
      <4>3. ASSUME NEW i \in Sessions, Kill(i) PROVE FALSE
        <5>1. pc' = pc BY <4>3 DEF Kill, newVars
        <5> QED BY <2>3, <5>1 DEF Live
      <4> QED BY <4>1, <4>2, <4>3, OutCases
    <3>5. Complete(s, c) BY <3>1, <3>3, EmptyHand
    <3> QED BY <3>4, <3>5 DEF Complete
  <2> QED BY <2>1, <2>2, <2>3
<1> QED BY <1>1, <1>2, <1>3, <1>4 DEF OutInv

LEMMA OutStep ==
  ASSUME Base, Service, ServeInv, HoldInv, HandInv, OutInv, Next
  PROVE  OutInv'
<1>t. /\ term \in [Daemons -> [Children -> SUBSET Chunks]]
      /\ inHand \in [Daemons -> [Children -> 0..MaxChunk]]
      /\ reg \in [Sessions -> Children \cup {NoChild}]
  BY DEF Base, TypeOK, ReadTypeOK, RegTypeOK
<1>d. \A s \in Successors : s \in Daemons /\ s # Old BY OldIsDaemon, DaemonsDistinct
<1>1. CASE UNCHANGED <<taken, inHand, term>>
  BY <1>1, QuietOut
<1>2. CASE \E d \in Daemons, c \in Children : ReadChunk(d, c) \/ MirrorChunk(d, c)
  BY <1>2, BlockStep
<1>3. CASE \E i \in Sessions : Kill(i)
  <2> PICK i \in Sessions : Kill(i)
    BY <1>3
  <2>1. reg[i] \in Children BY <1>t DEF Kill
  <2>2. UNCHANGED <<taken, term>> /\ inHand' = [inHand EXCEPT ![Old][reg[i]] = 0] BY DEF Kill
  <2>3. Registered(reg') = Registered(reg) \ {reg[i]} BY <2>1, <1>t, UnregisterIs DEF Kill
  <2>4. \A c \in Children : c \in Registered(reg') => inHand'[Old][c] = inHand[Old][c]
    BY <2>1, <2>2, <2>3, <1>t, OldIsDaemon
  <2>5. \A s \in Successors : inHand'[s] = inHand[s] BY <2>2, <1>t, <1>d
  <2> QED BY <2>2, <2>4, <2>5, QuietOut
<1>4. CASE OldSnapshot
  <2>1. txPeer \in Successors /\ Active(txPeer) BY <1>4 DEF OldSnapshot, Service, Active
  <2>2. pc[txPeer] \notin Live BY <2>1 DEF Service, Line, Served, Live
  <2>3. UNCHANGED <<taken, inHand>> /\ term' = [term EXCEPT ![txPeer] = term[Old]]
    BY <1>4 DEF OldSnapshot, kidVars
  <2>4. \A d \in Daemons : d # txPeer => term'[d] = term[d] BY <2>3, <1>t
  <2> QED BY <2>1, <2>2, <2>3, <2>4, <1>d, OldIsDaemon, QuietOut
<1> QED BY <1>1, <1>2, <1>3, <1>4, OutCases

\* Unless an acknowledgement may come too late, every block taken off a PTY is in
\* the terminal of the daemon that serves the session, or in its reader's
\* hand, however the transfer and the readers interleave.
THEOREM OutputKept ==
  ASSUME "lateAck" \notin Faults
  PROVE  Spec => []NoOutputLost
<1>1. Init => OutInv
  <2> SUFFICES ASSUME Init PROVE OutInv
    OBVIOUS
  <2>1. \A c \in Children : Complete(Old, c)
    <3>1. 1..0 = {} OBVIOUS
    <3> QED BY <3>1, OldIsDaemon DEF Init, Complete
  <2> QED BY <2>1 DEF Init, OutInv, OldWhole, SentWhole, HeldWhole, NewWhole, Holding, Live, Registered
<1>2. Base /\ Service /\ ServeInv /\ HoldInv /\ HandInv /\ OutInv /\ [Next]_vars => OutInv'
  <2> SUFFICES ASSUME Base, Service, ServeInv, HoldInv, HandInv, OutInv, [Next]_vars PROVE OutInv'
    OBVIOUS
  <2>1. CASE UNCHANGED vars
    BY <2>1 DEF vars, oldVars, regVars, kidVars, readVars, newVars, netVars, OutInv, OldWhole, SentWhole,
                HeldWhole, NewWhole, Holding, Complete, AllIn
  <2> QED BY <2>1, OutStep
<1>3. OutInv => NoOutputLost
  BY DEF OutInv, OldWhole, NewWhole, NoOutputLost, Live
<1>4. Spec => []HoldInv BY HoldInvariant
<1> QED BY <1>1, <1>2, <1>3, <1>4, BaseInv, ServiceInv, ServeInvariant, HandInvariant, PTL DEF Spec

-----------------------------------------------------------------------------
(* The sessions survive.                                                       *)

\* Without missed deadlines and crashes an acknowledging successor never turns
\* back, so a running child always has a daemon that will keep it: the
\* incumbent, or a successor past its acknowledgement.
NoKill == \A s \in Successors : pc[s] \notin {"killing", "postKill"}
Answered == \A s \in Successors : toOld[s] = "Adopted" => pc[s] \in Receiving
Heir == Committed => txPeer \in Successors /\ pc[txPeer] \in Receiving
Bare == oldUp /\ Committed /\ pc[txPeer] \in Live => \A c \in Registered(reg) : child[c] # "running"
Safe(c) ==
  \/ oldUp /\ c \in Registered(reg)
  \/ \E s \in Successors : pc[s] \in Receiving /\ c \in Registered(xfer[s])
Safely == \A c \in Children : child[c] = "running" => Safe(c)
AtEof == \A d \in Daemons, c \in Children : rd[d][c] = "eof" => child[c] = "exited"
SurviveInv == NoKill /\ Answered /\ Heir /\ Bare /\ Safely /\ AtEof

Punctual == {"lateAck", "lateRelease", "dupFails", "crash"} \cap Faults = {}

LEMMA AtEofStep == Base /\ AtEof /\ Next => AtEof'
<1> SUFFICES ASSUME Base, AtEof, Next PROVE AtEof'
  OBVIOUS
<1> USE DEF readVars
<1>t. rd \in [Daemons -> [Children -> Phases]] /\ reg \in [Sessions -> Children \cup {NoChild}]
  BY DEF Base, TypeOK, ReadTypeOK, RegTypeOK
<1>1. ASSUME NEW d \in Daemons, NEW c \in Children, NEW phase, SetReader(d, c, phase),
             phase # "eof" \/ child[c] = "exited"
      PROVE  AtEof'
  BY <1>1, <1>t, KidStep DEF SetReader, AtEof
<1>2. ASSUME UNCHANGED rd PROVE AtEof'
  BY <1>2, KidStep DEF AtEof
<1>3. CASE ReaderNext
  <2> PICK c \in Children :
        \/ ChildOutput(c) \/ ChildExit(c) \/ ListReap(c)
        \/ WakeReader(c) \/ LeavePark(c) \/ Unpark(c) \/ OldNaturalExit(c)
        \/ \E d \in Daemons : ReadChunk(d, c) \/ MirrorChunk(d, c) \/ ReadEof(d, c)
        \/ \E s \in Successors : NewNaturalExit(s, c)
        \/ \E i \in Sessions : Spawn(i, c)
    BY <1>3 DEF ReaderNext
  <2>1. CASE ChildOutput(c) \/ ChildExit(c) \/ ListReap(c)
    BY <2>1, <1>2 DEF ChildOutput, ChildExit, ListReap
  <2>2. CASE WakeReader(c) \/ LeavePark(c) \/ Unpark(c) \/ OldNaturalExit(c)
    BY <2>2, <1>1, OldIsDaemon, LoopTopType DEF WakeReader, LeavePark, Unpark, OldNaturalExit, SetReaderAtTop
  <2>3. CASE \E d \in Daemons : ReadChunk(d, c) \/ MirrorChunk(d, c)
    BY <2>3, <1>1, LoopTopType DEF ReadChunk, MirrorChunk, SetReaderAtTop
  <2>4. CASE \E d \in Daemons : ReadEof(d, c)
    BY <2>4, <1>1 DEF ReadEof
  <2>5. CASE \E s \in Successors : NewNaturalExit(s, c)
    BY <2>5, <1>1, OldIsDaemon DEF NewNaturalExit
  <2>6. CASE \E i \in Sessions : Spawn(i, c)
    BY <2>6, <1>1, OldIsDaemon DEF Spawn
  <2> QED BY <2>1, <2>2, <2>3, <2>4, <2>5, <2>6
<1>4. CASE OldNext
  <2>1. CASE \E i \in Sessions : Kill(i)
    <3> PICK i \in Sessions : Kill(i)
      BY <2>1
    <3>1. reg[i] \in Children BY <1>t DEF Kill
    <3> QED BY <3>1, <1>1, OldIsDaemon DEF Kill
  <2>2. CASE ~ \E i \in Sessions : Kill(i)
    BY <1>2, <1>4, <2>2 DEF OldNext, OldAuthorize, OldRefuse, OldSeal, StrayAck, OldSnapshot,
       QuiesceTimeout, OldSend, SendFailed, OldCommit, AckDisconnect, AckTimeout, OldRelease,
       OldClose, OldExit, OldCrash, OldTerminate, Rollback, Die
  <2> QED BY <2>1, <2>2
<1>5. CASE NewNext
  <2>1. CASE \E s \in Successors : Adopt(s)
    <3> PICK s \in Successors : Adopt(s)
      BY <2>1
    <3>1. \A d \in Daemons, c \in Children : rd'[d][c] = "eof" => rd[d][c] = "eof"
      BY <1>t DEF Adopt
    <3> QED BY <3>1, KidStep DEF AtEof
  <2>2. CASE ~ \E s \in Successors : Adopt(s)
    BY <1>2, <1>5, <2>2 DEF NewNext, Launch, Request, RecvMismatch, RecvRefused, ResponseTimeout,
       RecvReady, SendAck, SeeEof, ReleaseTimeout, KillOld, BarrierKill, Publish, NewCrash, Die
  <2> QED BY <2>1, <2>2
<1> QED BY <1>3, <1>4, <1>5 DEF Next

\* The release of an acknowledged transfer cannot time out.
LEMMA NoReleaseTimeout ==
  ASSUME Punctual, HoldInv, NEW s \in Successors
  PROVE  ~ReleaseTimeout(s)
<1> SUFFICES ASSUME ReleaseTimeout(s) PROVE FALSE
  OBVIOUS
<1>1. pc[s] = "acked" /\ oldUp /\ ~WillRelease(s) BY DEF ReleaseTimeout, Eof, Punctual
<1>2. txPeer = s /\ Frozen(s) BY <1>1 DEF HoldInv, Held1, Holding
<1> QED BY <1>1, <1>2 DEF Frozen, WillRelease, Committed

\* The successors' protocol under punctual deadlines.
LEMMA PhaseStep ==
  ASSUME Punctual, Base, Service, HoldInv, NoKill, Answered, Next
  PROVE  /\ NoKill' /\ Answered'
         /\ \A s \in Successors : pc[s] \in Receiving => pc'[s] \in Receiving
<1> DEFINE Goal == /\ NoKill' /\ Answered'
                   /\ \A s \in Successors : pc[s] \in Receiving => pc'[s] \in Receiving
<1> SUFFICES Goal
  OBVIOUS
<1>t. /\ pc \in [Successors -> Starting \cup {"off", "serving", "gone"}]
      /\ toOld \in [Successors -> {"none", "Handoff", "Adopted"}]
  BY DEF Base, TypeOK, NewTypeOK, NetTypeOK
<1>1. CASE ReaderNext
  BY <1>1, ReaderLeaves DEF NoKill, Answered
<1>2. CASE OldNext
  <2>1. pc' = pc BY <1>2, OldLeaves
  <2>2. \A s \in Successors : toOld'[s] = "Adopted" => toOld[s] = "Adopted"
    BY <1>2, <1>t DEF OldNext, Kill, OldAuthorize, OldRefuse, OldSeal, StrayAck, OldSnapshot,
       QuiesceTimeout, OldSend, SendFailed, OldCommit, AckDisconnect, AckTimeout, OldRelease,
       OldClose, OldExit, OldCrash, OldTerminate, Rollback, Die, netVars
  <2> QED BY <2>1, <2>2 DEF NoKill, Answered
<1>3. CASE NewNext
  <2> PICK r \in Successors :
        \/ Launch(r) \/ Request(r) \/ RecvMismatch(r) \/ RecvRefused(r) \/ ResponseTimeout(r)
        \/ RecvReady(r) \/ SendAck(r) \/ SeeEof(r) \/ ReleaseTimeout(r) \/ KillOld(r)
        \/ BarrierKill(r) \/ Adopt(r) \/ Publish(r) \/ NewCrash(r)
    BY <1>3 DEF NewNext
  <2> USE DEF Advance, Abort, netVars, Receiving, NoKill, Answered
  <2>1. ~ReleaseTimeout(r) BY NoReleaseTimeout
  <2>2. ~KillOld(r) BY DEF KillOld
  <2>3. CASE Launch(r) \/ RecvMismatch(r) \/ RecvRefused(r) \/ ResponseTimeout(r)
    BY <2>3, <1>t DEF Launch, RecvMismatch, RecvRefused, ResponseTimeout
  <2>4. CASE Request(r)
    BY <2>4, <1>t DEF Request
  <2>5. CASE RecvReady(r) \/ SendAck(r)
    BY <2>5, <1>t DEF RecvReady, SendAck
  <2>6. CASE SeeEof(r) \/ Adopt(r) \/ Publish(r)
    BY <2>6, <1>t DEF SeeEof, Adopt, Publish
  <2>7. CASE BarrierKill(r)
    BY <2>7 DEF BarrierKill, Die
  <2>8. CASE NewCrash(r)
    <3>1. pc[r] \in {"pinned", "requested", "ready"} BY <2>8 DEF NewCrash, Punctual
    <3> QED BY <2>8, <3>1, <1>t DEF NewCrash
  <2> QED BY <2>1, <2>2, <2>3, <2>4, <2>5, <2>6, <2>7, <2>8
<1> QED BY <1>1, <1>2, <1>3 DEF Next

\* The commit names its peer for good.
LEMMA CommitFrom ==
  ASSUME Base, Service, Next, Committed'
  PROVE  txPeer' = txPeer /\ (Committed \/ OldCommit)
<1> USE DEF oldVars, Committed
<1>1. CASE ReaderNext
  BY <1>1, ReaderLeaves
<1>2. CASE OldNext
  BY <1>2 DEF OldNext, Kill, OldAuthorize, OldRefuse, OldSeal, StrayAck, OldSnapshot,
     QuiesceTimeout, OldSend, SendFailed, OldCommit, AckDisconnect, AckTimeout, OldRelease,
     OldClose, OldExit, OldCrash, OldTerminate, Rollback, Die
<1>3. CASE NewNext
  BY <1>3, NewLeavesDesk DEF Base
<1> QED BY <1>1, <1>2, <1>3 DEF Next

LEMMA EverythingTransferred ==
  ASSUME TypeOK, NEW s \in Successors, Full(s), NEW c \in Registered(reg), child[c] = "running"
  PROVE  c \in Registered(xfer[s])
<1>1. /\ reg \in [Sessions -> Children \cup {NoChild}]
      /\ xfer[s] \in [Sessions -> Children \cup {NoChild}]
  BY DEF TypeOK, NewTypeOK, RegTypeOK
<1>2. PICK i \in Sessions : reg[i] = c /\ c # NoChild
  BY <1>1, RegisteredIs
<1>3. xfer[s][i] = c BY <1>2 DEF Full
<1> QED BY <1>1, <1>2, <1>3, RegisteredIs

LEMMA NothingTransferred ==
  ASSUME TypeOK, NEW s \in Successors, Full(s), Registered(xfer[s]) = {}
  PROVE  \A c \in Registered(reg) : child[c] # "running"
  BY EverythingTransferred

LEMMA HeirStep ==
  ASSUME Punctual, Base, Service, HoldInv, FullInv, SurviveInv, Next
  PROVE  Heir' /\ Bare'
<1>p. \A s \in Successors : pc[s] \in Receiving => pc'[s] \in Receiving
  BY PhaseStep DEF SurviveInv
<1>q. tx # "idle" => txPeer \in Successors BY DEF Service
<1>1. ASSUME Committed' PROVE txPeer' = txPeer /\ txPeer \in Successors /\ pc[txPeer] \in Receiving
  <2>1. CASE Committed BY <1>1, <2>1, CommitFrom DEF SurviveInv, Heir
  <2>2. CASE OldCommit BY <1>1, <2>2, <1>q, CommitFrom DEF OldCommit, SurviveInv, Answered
  <2> QED BY <1>1, <2>1, <2>2, CommitFrom
<1>2. Heir' BY <1>1, <1>p DEF Heir
<1>3. ASSUME oldUp', Committed', pc'[txPeer] \in Live PROVE \A c \in Registered(reg') : child'[c] # "running"
  <2>u. oldUp
    <3>1. NewNext => (oldUp' => oldUp)
      BY DEF NewNext, Launch, Request, RecvMismatch, RecvRefused, ResponseTimeout, RecvReady, SendAck,
         SeeEof, ReleaseTimeout, KillOld, BarrierKill, Adopt, Publish, NewCrash, Die, oldVars
    <3> QED BY <1>3, <3>1, ReaderLeaves, OldLeaves DEF Next
  <2>r. reg \in [Sessions -> Children \cup {NoChild}] BY DEF Base, TypeOK, RegTypeOK
  <2>1. txPeer \in Successors /\ pc[txPeer] \in Receiving BY <1>1, <1>3
  <2>2. Committed \/ OldCommit BY <1>3, CommitFrom
  <2>3. ~Free BY <2>2 DEF Free, OldCommit, WriteHeld
  <2>4. \A c \in Registered(reg) : child[c] # "running"
    <3>1. CASE pc[txPeer] \in Live /\ Committed
      BY <2>u, <3>1 DEF SurviveInv, Bare
    <3>2. CASE pc[txPeer] \in Live /\ OldCommit
      <4>1. Registered(xfer[txPeer]) = {} BY <2>u, <2>1, <3>2 DEF HoldInv, Held3
      <4>2. Full(txPeer) BY <2>u, <3>2 DEF OldCommit, FullInv
      <4> QED BY <2>1, <4>1, <4>2, NothingTransferred DEF Base
    <3>3. CASE pc[txPeer] \notin Live
      <4>1. pc[txPeer] = "barrier" \/ Registered(xfer[txPeer]) = {}
        BY <1>3, <2>1, <3>3, LiveFrom
      <4>2. Holding(txPeer) BY <2>1, <3>3 DEF Receiving, Live, Holding
      <4>3. Full(txPeer) BY <2>1, <4>2 DEF FullInv
      <4>4. Registered(xfer[txPeer]) = {}
        <5> SUFFICES ASSUME pc[txPeer] = "barrier", Registered(xfer[txPeer]) # {} PROVE FALSE
          BY <4>1
        <5>1. Adopting(txPeer) BY DEF Adopting
        <5>2. pc'[txPeer] # pc[txPeer] BY <1>3 DEF Live
        <5>3. NewNext BY <5>2, ReaderLeaves, OldLeaves DEF Next
        <5> PICK r \in Successors :
              \/ Launch(r) \/ Request(r) \/ RecvMismatch(r) \/ RecvRefused(r) \/ ResponseTimeout(r)
              \/ RecvReady(r) \/ SendAck(r) \/ SeeEof(r) \/ ReleaseTimeout(r) \/ KillOld(r)
              \/ BarrierKill(r) \/ Adopt(r) \/ Publish(r) \/ NewCrash(r)
          BY <5>3 DEF NewNext
        <5>4. pc \in [Successors -> Starting \cup {"off", "serving", "gone"}]
          BY DEF Base, TypeOK, NewTypeOK
        <5>5. r = txPeer
          BY <2>1, <5>2, <5>4 DEF Launch, Request, RecvMismatch, RecvRefused, ResponseTimeout, RecvReady,
             SendAck, SeeEof, ReleaseTimeout, KillOld, BarrierKill, Adopt, Publish, NewCrash, Advance, Abort
        <5>6. Adopt(r) \/ NewCrash(r)
          BY <5>2, <5>5 DEF Launch, Request, RecvMismatch, RecvRefused, ResponseTimeout, RecvReady,
             SendAck, SeeEof, ReleaseTimeout, KillOld, BarrierKill, Publish
        <5>7. ~NewCrash(r) BY <5>5 DEF NewCrash, Punctual
        <5> QED BY <2>u, <5>1, <5>5, <5>6, <5>7 DEF Adopt
      <4> QED BY <2>1, <4>3, <4>4, NothingTransferred DEF Base
    <3> QED BY <2>2, <3>1, <3>2, <3>3
  <2>5. reg' = reg BY <2>3, KidStep
  <2>6. Registered(reg) \subseteq Children BY <2>r, RegisteredIs
  <2> QED BY <2>3, <2>4, <2>5, <2>6, KidStep
<1>4. Bare' BY <1>1, <1>3 DEF Bare
<1> QED BY <1>2, <1>4

\* A registered session that still runs stays registered.
LEMMA StaysRegistered ==
  ASSUME Base, AtEof, Next, NEW c \in Registered(reg), child'[c] = "running"
  PROVE  c \in Registered(reg')
<1>t. /\ reg \in [Sessions -> Children \cup {NoChild}]
      /\ child \in [Children -> {"unborn", "running", "exited"}]
  BY DEF Base, TypeOK, RegTypeOK, KidTypeOK
<1>c. c \in Children BY <1>t, RegisteredIs
<1>1. ASSUME NEW k \in Children, OldNaturalExit(k) PROVE c \in Registered(reg')
  <2>1. child[k] = "exited" BY <1>1, OldIsDaemon DEF OldNaturalExit, AtEof
  <2>2. c # k BY <2>1, <1>1, <1>c DEF OldNaturalExit
  <2> QED BY <1>1, <2>2, <1>t, UnregisterIs DEF OldNaturalExit
<1>2. ASSUME NEW i \in Sessions, Kill(i) PROVE c \in Registered(reg')
  <2>1. reg[i] \in Children BY <1>2, <1>t DEF Kill
  <2>2. c # reg[i] BY <1>2, <2>1, <1>t DEF Kill
  <2> QED BY <1>2, <2>1, <2>2, <1>t, UnregisterIs DEF Kill
<1>3. ASSUME NEW i \in Sessions, NEW k \in Children, Spawn(i, k) PROVE c \in Registered(reg')
  <2>1. Registered(reg') = Registered(reg) \cup {k} BY <1>3, <1>t, SpawnRegisters
  <2> QED BY <2>1
<1>4. CASE ReaderNext
  <2>1. CASE reg' = reg BY <2>1
  <2>2. CASE reg' # reg
    BY <1>1, <1>3, <1>4, <2>2 DEF ReaderNext, ChildOutput, ChildExit, ListReap, WakeReader, LeavePark, Unpark,
       ReadChunk, MirrorChunk, ReadEof, NewNaturalExit, regVars
  <2> QED BY <2>1, <2>2
<1>5. CASE OldNext
  <2>1. CASE reg' = reg BY <2>1
  <2>2. CASE reg' # reg
    BY <1>2, <1>5, <2>2 DEF OldNext, OldAuthorize, OldRefuse, OldSeal, StrayAck, OldSnapshot,
       QuiesceTimeout, OldSend, SendFailed, OldCommit, AckDisconnect, AckTimeout, OldRelease,
       OldClose, OldExit, OldCrash, OldTerminate, Rollback, Die, regVars
  <2> QED BY <2>1, <2>2
<1>6. CASE NewNext
  BY <1>6, NewLeavesDesk DEF Base
<1> QED BY <1>4, <1>5, <1>6 DEF Next

\* So does one that a successor past its acknowledgement has.
LEMMA StaysAdopted ==
  ASSUME Base, Service, AtEof, Next, NEW s \in Successors, pc[s] \in Receiving,
         NEW c \in Registered(xfer[s]), child'[c] = "running"
  PROVE  c \in Registered(xfer'[s])
<1>t. xfer \in [Successors -> [Sessions -> Children \cup {NoChild}]]
  BY DEF Base, TypeOK, NewTypeOK
<1>c. c \in Children BY <1>t, RegisteredIs
<1>1. CASE ReaderNext
  <2>1. ASSUME NEW r \in Successors, NEW k \in Children, NewNaturalExit(r, k) PROVE c \in Registered(xfer'[s])
    <3>1. child[k] = "exited" /\ child' = child BY <2>1, OldIsDaemon DEF NewNaturalExit, AtEof
    <3>2. c # k BY <3>1
    <3>3. Registered(xfer'[s]) = IF s = r THEN Registered(xfer[s]) \ {k} ELSE Registered(xfer[s])
      BY <2>1, <1>t, UnregisterIs DEF NewNaturalExit
    <3> QED BY <3>2, <3>3
  <2>2. CASE xfer' = xfer BY <2>2
  <2>3. CASE xfer' # xfer
    BY <1>1, <2>1, <2>3 DEF ReaderNext, ChildOutput, ChildExit, ListReap, WakeReader, LeavePark, Unpark,
       OldNaturalExit, ReadChunk, MirrorChunk, ReadEof, Spawn, newVars
  <2> QED BY <2>2, <2>3
<1>2. CASE OldNext
  <2>1. ~Active(s) BY DEF Service, Line, Served, Receiving
  <2> QED BY <1>2, <2>1, OldLeaves
<1>3. CASE NewNext
  BY <1>3, NewLeavesDesk DEF Base
<1> QED BY <1>1, <1>2, <1>3 DEF Next

\* How the incumbent can go.
LEMMA DownCases ==
  ASSUME Base, Next, oldUp, ~oldUp'
  PROVE  \/ OldExit \/ OldCrash \/ OldTerminate
         \/ \E s \in Successors : BarrierKill(s) \/ KillOld(s)
<1> USE DEF oldVars
<1>1. CASE ReaderNext
  BY <1>1, ReaderLeaves
<1>2. CASE OldNext
  BY <1>2 DEF OldNext, Kill, OldAuthorize, OldRefuse, OldSeal, StrayAck, OldSnapshot, QuiesceTimeout,
     OldSend, SendFailed, OldCommit, AckDisconnect, AckTimeout, OldRelease, OldClose, Rollback
<1>3. CASE NewNext
  BY <1>3 DEF NewNext, Launch, Request, RecvMismatch, RecvRefused, ResponseTimeout, RecvReady, SendAck,
     SeeEof, ReleaseTimeout, Adopt, Publish, NewCrash
<1> QED BY <1>1, <1>2, <1>3 DEF Next

LEMMA SafelyStep ==
  ASSUME Punctual, Base, Service, HoldInv, FullInv, SurviveInv, Next
  PROVE  Safely'
<1> SUFFICES ASSUME NEW c \in Children, child'[c] = "running" PROVE Safe(c)'
  BY DEF Safely
<1>t. /\ reg \in [Sessions -> Children \cup {NoChild}]
      /\ child \in [Children -> {"unborn", "running", "exited"}]
  BY DEF Base, TypeOK, RegTypeOK, KidTypeOK
<1>p. \A s \in Successors : pc[s] \in Receiving => pc'[s] \in Receiving
  BY PhaseStep DEF SurviveInv
<1>e. AtEof BY DEF SurviveInv
<1>1. CASE child[c] # "running"
  <2>1. \E i \in Sessions : Spawn(i, c)
    <3>1. CASE ReaderNext
      BY <1>1, <1>t, <3>1 DEF ReaderNext, ChildOutput, ChildExit, ListReap, WakeReader, LeavePark, Unpark,
         OldNaturalExit, ReadChunk, MirrorChunk, ReadEof, NewNaturalExit, Spawn, kidVars
    <3>2. CASE OldNext
      <4>1. ASSUME NEW i \in Sessions, Kill(i) PROVE FALSE
        <5>1. child' = [child EXCEPT ![reg[i]] = "exited"] BY <4>1 DEF Kill
        <5> QED BY <1>1, <1>t, <5>1
      <4> QED
        BY <1>1, <1>t, <3>2, <4>1 DEF OldNext, OldAuthorize, OldRefuse, OldSeal, StrayAck, OldSnapshot,
           QuiesceTimeout, OldSend, SendFailed, OldCommit, AckDisconnect, AckTimeout, OldRelease,
           OldClose, OldExit, OldCrash, OldTerminate, Rollback, Die, kidVars
    <3>3. CASE NewNext
      BY <1>1, <3>3, NewLeavesDesk DEF Base
    <3> QED BY <3>1, <3>2, <3>3 DEF Next
  <2> PICK i \in Sessions : Spawn(i, c)
    BY <2>1
  <2>2. Registered(reg') = Registered(reg) \cup {c} BY <1>t, SpawnRegisters
  <2>3. oldUp' BY DEF Spawn, ReadGuard, oldVars
  <2> QED BY <2>2, <2>3 DEF Safe
<1>2. ASSUME NEW s \in Successors, pc[s] \in Receiving, c \in Registered(xfer[s]) PROVE Safe(c)'
  BY <1>2, <1>p, <1>e, StaysAdopted DEF Safe
<1>3. CASE oldUp /\ c \in Registered(reg) /\ oldUp'
  BY <1>3, <1>e, StaysRegistered DEF Safe
<1>4. CASE oldUp /\ c \in Registered(reg) /\ ~oldUp' /\ child[c] = "running"
  \* A complete transfer that its holder will not give up.
  <2>1. ASSUME NEW s \in Successors, pc[s] \in Receiving, Full(s) PROVE Safe(c)'
    <3>1. c \in Registered(xfer[s]) BY <1>4, <2>1, EverythingTransferred DEF Base
    <3> QED BY <1>2, <2>1, <3>1
  <2>2. CASE OldExit
    <3>1. Committed BY <2>2 DEF OldExit, Base, SealInv, Committed
    <3>2. txPeer \in Successors /\ pc[txPeer] \in Receiving BY <3>1 DEF SurviveInv, Heir
    <3>3. pc[txPeer] \notin Live BY <1>4, <3>1 DEF SurviveInv, Bare
    <3>4. Full(txPeer) BY <3>2, <3>3 DEF FullInv, Holding, Receiving, Live
    <3> QED BY <2>1, <3>2, <3>4
  <2>3. CASE OldCrash BY <2>3 DEF OldCrash, Punctual
  <2>4. CASE OldTerminate BY <1>4, <2>4 DEF OldTerminate
  <2>5. CASE \E s \in Successors : BarrierKill(s)
    <3> PICK s \in Successors : BarrierKill(s)
      BY <2>5
    <3>1. pc[s] \in Receiving /\ Full(s) BY DEF BarrierKill, Receiving, FullInv, Holding
    <3> QED BY <2>1, <3>1
  <2>6. CASE \E s \in Successors : KillOld(s)
    BY <2>6 DEF KillOld, SurviveInv, NoKill
  <2> QED BY <1>4, <2>2, <2>3, <2>4, <2>5, <2>6, DownCases
<1> QED BY <1>1, <1>2, <1>3, <1>4 DEF SurviveInv, Safely, Safe

\* SPEC.md invariant 4: if deadlines are met, descriptors can be duplicated and
\* no daemon crashes, a running child always has its PTY master open in a live
\* daemon or on its way to one, through any number of attempted handoffs,
\* successors that die before they acknowledge, and a SIGTERM.
THEOREM EverySessionSurvives ==
  ASSUME {"lateAck", "lateRelease", "dupFails", "crash"} \cap Faults = {}
  PROVE  Spec => []SessionsSurvive
<1>p. Punctual BY DEF Punctual
<1>1. Init => SurviveInv /\ FullInv
  <2> SUFFICES ASSUME Init PROVE SurviveInv /\ FullInv
    OBVIOUS
  <2>1. NoKill /\ Answered BY DEF Init, NoKill, Answered
  <2>2. Heir /\ Bare BY DEF Init, Heir, Bare, Committed
  <2>3. Safely BY DEF Init, Safely, Safe
  <2>4. AtEof BY DEF Init, AtEof
  <2>5. FullInv BY DEF Init, FullInv, Reaped, Holding
  <2> QED BY <2>1, <2>2, <2>3, <2>4, <2>5 DEF SurviveInv
<1>2. Base /\ Service /\ HoldInv /\ FullInv /\ SurviveInv /\ [Next]_vars => (FullInv /\ SurviveInv)'
  <2> SUFFICES ASSUME Base, Service, HoldInv, FullInv, SurviveInv, [Next]_vars PROVE FullInv' /\ SurviveInv'
    OBVIOUS
  <2>1. CASE UNCHANGED vars
    <3> USE <2>1 DEF vars, oldVars, regVars, kidVars, newVars, netVars, readVars
    <3>1. FullInv' BY DEF FullInv, Reaped, Holding, Full
    <3>2. NoKill' /\ Answered' BY DEF SurviveInv, NoKill, Answered
    <3>3. Heir' /\ Bare' BY DEF SurviveInv, Heir, Bare, Committed
    <3>4. Safely' /\ AtEof' BY DEF SurviveInv, Safely, Safe, AtEof
    <3> QED BY <3>1, <3>2, <3>3, <3>4 DEF SurviveInv
  <2>2. CASE Next
    <3>1. FullInv' BY <2>2, FullStep
    <3>2. NoKill' /\ Answered' BY <2>2, <1>p, PhaseStep DEF SurviveInv
    <3>3. Heir' /\ Bare' BY <2>2, <1>p, HeirStep
    <3>4. Safely' BY <2>2, <1>p, SafelyStep
    <3>5. AtEof' BY <2>2, AtEofStep DEF SurviveInv
    <3> QED BY <3>1, <3>2, <3>3, <3>4, <3>5 DEF SurviveInv
  <2> QED BY <2>1, <2>2
<1>3. SurviveInv => SessionsSurvive
  <2>1. Receiving \subseteq HasFds BY DEF Receiving, HasFds
  <2> QED BY <2>1 DEF SurviveInv, Safely, Safe, SessionsSurvive, Held
<1>4. Spec => []HoldInv BY HoldInvariant
<1> QED BY <1>1, <1>2, <1>3, <1>4, BaseInv, ServiceInv, PTL DEF Spec
=============================================================================
