------------------------------- MODULE Handoff -------------------------------
(***************************************************************************)
(* Replacing a running kanna-daemon by a newer one without losing a PTY    *)
(* session: crates/daemon/src/handoff.rs, startup.rs, and the parts of     *)
(* connection.rs, session.rs and output.rs that the transfer is fenced     *)
(* against.                                                                *)
(*                                                                         *)
(* One incumbent daemon (Old) serves the sessions.  Each successor is a    *)
(* process that the launcher starts; it asks the incumbent for a handoff   *)
(* over the daemon socket, receives HandoffReady with a terminal snapshot  *)
(* and a duplicated master descriptor for every live session, acknowledges *)
(* with HandoffAdopted, waits until the incumbent has released its readers *)
(* and publishes itself.  A timeout may fire whenever what it waits for    *)
(* has not happened, so the model covers every relative speed of the       *)
(* processes; the set Faults says which deadlines a live peer may miss and *)
(* which failures the environment injects.                                 *)
(*                                                                         *)
(* A child is one incarnation of a session: its process, its PTY and the   *)
(* output it has written.  Chunk k of a child is the k-th block taken off  *)
(* its PTY master, by whichever daemon reads it.                           *)
(***************************************************************************)
EXTENDS Naturals, FiniteSets

CONSTANTS
  Sessions,      \* session ids
  Protected,     \* the ids whose state only a v3 transfer may carry
  Children,      \* incarnations that may ever be spawned
  NoChild,       \* "no incarnation registered under this id"
  Old,           \* the incumbent daemon
  Successors,    \* daemon processes started to replace it
  Trusted,       \* the successors the incumbent's authorizer accepts
  OldVersions,   \* handoff versions the incumbent speaks
  MaxChunk,      \* bound on the output blocks a child writes
  Faults         \* which of AllFaults the environment may inject

(* lateAck      the acknowledgement may miss the incumbent's 5 s deadline      *)
(* lateRelease  the release may miss the successor's 5 s deadline              *)
(* dupFails     duplicating a master descriptor may fail (EMFILE)              *)
(* relaunch     a successor may be started while another one is starting       *)
(* earlyCrash   a successor may die before it acknowledges                     *)
(* crash        a daemon may die at any point                                  *)
(* sigterm      the incumbent may be asked to terminate at any point           *)
AllFaults == {"lateAck", "lateRelease", "dupFails", "relaunch", "earlyCrash", "crash",
              "sigterm"}

ASSUME DaemonsDistinct == Old \notin Successors
ASSUME NoChildFresh == NoChild \notin Children
ASSUME SubsetsDeclared ==
  /\ Protected \subseteq Sessions
  /\ Trusted \subseteq Successors
  /\ OldVersions \subseteq {2, 3}
  /\ Faults \subseteq AllFaults
ASSUME MaxChunkIsNat == MaxChunk \in Nat

Daemons == {Old} \cup Successors
Chunks == 1..MaxChunk

VARIABLES
  \* The incumbent process.
  oldUp,        \* it is alive
  lifecycle,    \* DaemonLifecycleState
  tx,           \* where handle_handoff stands
  txPeer,       \* the successor it serves (meaningful while tx # "idle")
  waiting,      \* authorized handlers queued on daemon_lifecycle.write()
  sealed,       \* SessionManager::sealed_for_handoff
  agentSealed,  \* AGENT_HANDOFF_SEAL
  reg,          \* SessionManager::sessions, id -> incarnation
  owned,        \* incarnations this incumbent spawned (ChildOwnership::Owned)
  reaped,       \* owned incarnations whose exit status was already collected
  quiesceReq, quiesced, stopReq,   \* StreamControl of the incumbent's readers
  \* The children and their PTYs.
  child,        \* unborn / running / exited
  out, taken,   \* blocks written to the PTY, blocks consumed from its master
  exits,        \* Exit events broadcast for the incarnation, by any daemon
  \* Readers (stream_output) and terminals, per daemon and incarnation.
  rd, inHand, term,
  \* The successors.
  pc, ver, xfer,    \* xfer: the sessions of HandoffReady, later the registry
  toOld, toNew,     \* unread message on the handoff connection, each way
  connClosed,       \* the incumbent closed its end of the connection
  \* The daemon directory.
  published         \* the daemon the pid file and the socket path name, if any

oldVars  == <<oldUp, lifecycle, tx, txPeer, waiting, sealed, agentSealed>>
regVars  == <<reg, owned, reaped>>
ctlVars  == <<quiesceReq, quiesced, stopReq>>
kidVars  == <<child, out, taken, exits>>
readVars == <<rd, inHand, term>>
newVars  == <<pc, ver, xfer>>
netVars  == <<toOld, toNew, connClosed>>
vars == <<oldVars, regVars, ctlVars, kidVars, readVars, newVars, netVars, published>>

-----------------------------------------------------------------------------
(* Vocabulary.                                                                 *)

Registered(r) == {r[i] : i \in Sessions} \ {NoChild}

\* The write half of daemon_lifecycle is held from the lock to commit or abort.
WriteHeld == tx \in {"quiescing", "sending", "awaitAck"}

\* A command of a client runs to completion under the read guard.
ReadGuard == oldUp /\ ~WriteHeld /\ lifecycle = "Running"

\* Phases of a successor in which descriptors of xfer[s] are open in it.
HasFds == {"ready", "acked", "killing", "postKill", "barrier", "adopted", "serving"}
Starting == {"pinned", "requested", "ready", "acked", "killing", "postKill",
             "barrier", "adopted"}

\* Where the loop of a reader stands; explained with stream_output below.
Phases == {"none", "select", "hand", "parked", "unparking", "eof", "done"}

\* What a connected process finds at the other end of its handoff connection.
Connected(s) == pc[s] \in {"requested", "ready", "acked", "killing", "postKill"}
Eof(s) == ~oldUp \/ connClosed[s]

OldTypeOK ==
  /\ oldUp \in BOOLEAN
  /\ lifecycle \in {"Running", "HandoffCommitted"}
  /\ tx \in {"idle", "quiescing", "sending", "awaitAck", "stopping", "exiting"}
  /\ txPeer \in Daemons
  /\ waiting \subseteq Successors
  /\ sealed \in BOOLEAN /\ agentSealed \in BOOLEAN
RegTypeOK ==
  /\ reg \in [Sessions -> Children \cup {NoChild}]
  /\ owned \subseteq Children /\ reaped \subseteq Children
CtlTypeOK ==
  /\ quiesceReq \in [Children -> BOOLEAN]
  /\ quiesced \in [Children -> BOOLEAN]
  /\ stopReq \in [Children -> BOOLEAN]
KidTypeOK ==
  /\ child \in [Children -> {"unborn", "running", "exited"}]
  /\ out \in [Children -> 0..MaxChunk]
  /\ taken \in [Children -> 0..MaxChunk]
  /\ exits \in [Children -> Nat]
\* A reader past read() holds a block.
ReadTypeOK ==
  /\ rd \in [Daemons -> [Children -> Phases]]
  /\ inHand \in [Daemons -> [Children -> 0..MaxChunk]]
  /\ term \in [Daemons -> [Children -> SUBSET Chunks]]
  /\ \A d \in Daemons, c \in Children : rd[d][c] = "hand" => inHand[d][c] # 0
NewTypeOK ==
  /\ pc \in [Successors -> Starting \cup {"off", "serving", "gone"}]
  /\ ver \in [Successors -> {2, 3}]
  /\ xfer \in [Successors -> [Sessions -> Children \cup {NoChild}]]
NetTypeOK ==
  /\ toOld \in [Successors -> {"none", "Handoff", "Adopted"}]
  /\ toNew \in [Successors -> {"none", "Ready", "VersionMismatch", "Refused"}]
  /\ connClosed \in [Successors -> BOOLEAN]

\* Type invariant.
TypeOK ==
  /\ OldTypeOK /\ RegTypeOK /\ CtlTypeOK /\ KidTypeOK
  /\ ReadTypeOK /\ NewTypeOK /\ NetTypeOK /\ published \subseteq Daemons

Empty == [i \in Sessions |-> NoChild]

\* The incumbent serves some sessions, each read by its stream_output task.
\* Which of them it spawned itself and which it adopted earlier is open.
Init ==
  /\ oldUp = TRUE /\ lifecycle = "Running" /\ tx = "idle" /\ txPeer = Old
  /\ waiting = {} /\ sealed = FALSE /\ agentSealed = FALSE
  /\ reg \in {r \in [Sessions -> Children \cup {NoChild}] :
                \A i, j \in Sessions : r[i] = r[j] => i = j \/ r[i] = NoChild}
  /\ owned \in SUBSET Registered(reg) /\ reaped = {}
  /\ quiesceReq = [c \in Children |-> FALSE]
  /\ quiesced = [c \in Children |-> FALSE]
  /\ stopReq = [c \in Children |-> FALSE]
  /\ child = [c \in Children |-> IF c \in Registered(reg) THEN "running" ELSE "unborn"]
  /\ out = [c \in Children |-> 0] /\ taken = [c \in Children |-> 0]
  /\ exits = [c \in Children |-> 0]
  /\ rd = [d \in Daemons |-> [c \in Children |->
             IF d = Old /\ c \in Registered(reg) THEN "select" ELSE "none"]]
  /\ inHand = [d \in Daemons |-> [c \in Children |-> 0]]
  /\ term = [d \in Daemons |-> [c \in Children |-> {}]]
  /\ pc = [s \in Successors |-> "off"] /\ ver = [s \in Successors |-> 3]
  /\ xfer = [s \in Successors |-> Empty]
  /\ toOld = [s \in Successors |-> "none"] /\ toNew = [s \in Successors |-> "none"]
  /\ connClosed = [s \in Successors |-> FALSE]
  /\ published = {Old}

-----------------------------------------------------------------------------
(* The children: environment.                                                  *)

ChildOutput(c) ==
  /\ child[c] = "running" /\ out[c] < MaxChunk
  /\ out' = [out EXCEPT ![c] = @ + 1]
  /\ UNCHANGED <<oldVars, regVars, ctlVars, child, taken, exits, readVars, newVars,
                 netVars, published>>

ChildExit(c) ==
  /\ child[c] = "running"
  /\ child' = [child EXCEPT ![c] = "exited"]
  /\ UNCHANGED <<oldVars, regVars, ctlVars, out, taken, exits, readVars, newVars,
                 netVars, published>>

-----------------------------------------------------------------------------
(* stream_output: the one reader task of an incarnation.  It waits in select,  *)
(* holds a chunk between read() and mirror_output ("hand"), is parked while a  *)
(* quiesce lasts, has left the park but not yet cleared its quiesced flag      *)
(* ("unparking"), waits at end of file for the lifecycle read guard ("eof"),   *)
(* or has marked itself stopped ("done").                                      *)

\* The top of the loop: stop first, then quiesce, then back to select.
LoopTop(c) ==
  IF stopReq[c] THEN "done" ELSE IF quiesceReq[c] THEN "parked" ELSE "select"

SetReader(d, c, phase) == rd' = [rd EXCEPT ![d][c] = phase]

\* mark_quiesced on entering the park, cleared by mark_stopped.
SetReaderAtTop(c) ==
  /\ SetReader(Old, c, LoopTop(c))
  /\ quiesced' = [quiesced EXCEPT ![c] = LoopTop(c) = "parked"]

Running(d) == IF d = Old THEN oldUp ELSE pc[d] \in {"adopted", "serving"}

\* Mutant of HasOutput: a read past what the child has written.
ReadsPastEnd(c) == taken[c] <= out[c]
HasOutput(c) == taken[c] < out[c]

\* readable(): the stop flag is tested before read().
ReadChunk(d, c) ==
  /\ Running(d) /\ rd[d][c] = "select" /\ HasOutput(c)
  /\ d = Old => ~stopReq[c]
  /\ taken' = [taken EXCEPT ![c] = @ + 1]
  /\ inHand' = [inHand EXCEPT ![d][c] = taken[c] + 1]
  /\ SetReader(d, c, "hand")
  /\ UNCHANGED <<oldVars, regVars, ctlVars, child, out, exits, term, newVars, netVars,
                 published>>

\* handle_output_chunk, then the top of the loop.  A chunk whose reader was
\* stopped between read() and here is dropped.
MirrorChunk(d, c) ==
  /\ Running(d) /\ rd[d][c] = "hand"
  /\ inHand' = [inHand EXCEPT ![d][c] = 0]
  /\ IF d = Old
     THEN /\ SetReaderAtTop(c)
          /\ term' = IF stopReq[c] THEN term
                     ELSE [term EXCEPT ![d][c] = @ \cup {inHand[d][c]}]
     ELSE /\ SetReader(d, c, "select")
          /\ term' = [term EXCEPT ![d][c] = @ \cup {inHand[d][c]}]
          /\ UNCHANGED quiesced
  /\ UNCHANGED <<oldVars, regVars, quiesceReq, stopReq, kidVars, newVars, netVars,
                 published>>

\* wait_for_state_change wakes a reader whose control was changed.
WakeReader(c) ==
  /\ oldUp /\ rd[Old][c] = "select" /\ (stopReq[c] \/ quiesceReq[c])
  /\ SetReaderAtTop(c)
  /\ UNCHANGED <<oldVars, regVars, quiesceReq, stopReq, kidVars, inHand, term, newVars,
                 netVars, published>>

\* Leaving the park: a stop ends the task, a resume leaves the inner loop.
LeavePark(c) ==
  /\ oldUp /\ rd[Old][c] = "parked" /\ (stopReq[c] \/ ~quiesceReq[c])
  /\ SetReader(Old, c, IF quiesceReq[c] THEN "done" ELSE "unparking")
  /\ quiesced' = [quiesced EXCEPT ![c] = ~quiesceReq[c]]
  /\ UNCHANGED <<oldVars, regVars, quiesceReq, stopReq, kidVars, inHand, term, newVars,
                 netVars, published>>

\* mark_resumed, and round to the top of the loop.
Unpark(c) ==
  /\ oldUp /\ rd[Old][c] = "unparking"
  /\ SetReaderAtTop(c)
  /\ UNCHANGED <<oldVars, regVars, quiesceReq, stopReq, kidVars, inHand, term, newVars,
                 netVars, published>>

\* End of file: the child is gone and its PTY is drained.
ReadEof(d, c) ==
  /\ Running(d) /\ rd[d][c] = "select"
  /\ child[c] = "exited" /\ ~HasOutput(c)
  /\ SetReader(d, c, IF d = Old /\ stopReq[c] THEN "done" ELSE "eof")
  /\ UNCHANGED <<oldVars, regVars, ctlVars, kidVars, inHand, term, newVars, netVars,
                 published>>

\* Mutant of Unregister: the dead incarnation stays in the registry.
LeaveEntry(r, c) == r
Unregister(r, c) == [i \in Sessions |-> IF r[i] = c THEN NoChild ELSE r[i]]

\* Natural-exit cleanup of the incumbent.  The reader waits for the lifecycle
\* read guard; under a committed handoff it stops silently.
OldNaturalExit(c) ==
  /\ oldUp /\ rd[Old][c] = "eof" /\ ~WriteHeld
  /\ SetReader(Old, c, "done")
  /\ IF lifecycle = "Running" /\ ~stopReq[c] /\ c \in Registered(reg)
     THEN /\ reg' = Unregister(reg, c)
          /\ exits' = [exits EXCEPT ![c] = @ + 1]
     ELSE UNCHANGED <<reg, exits>>
  /\ UNCHANGED <<oldVars, owned, reaped, ctlVars, child, out, taken, inHand, term,
                 newVars, netVars, published>>

\* The same cleanup in a daemon that adopted the session.
NewNaturalExit(s, c) ==
  /\ pc[s] \in {"adopted", "serving"} /\ rd[s][c] = "eof"
  /\ SetReader(s, c, "done")
  /\ xfer' = [xfer EXCEPT ![s] = Unregister(@, c)]
  /\ exits' = [exits EXCEPT ![c] = @ + 1]
  /\ UNCHANGED <<oldVars, regVars, ctlVars, child, out, taken, inHand, term, pc, ver,
                 netVars, published>>

-----------------------------------------------------------------------------
(* Client commands that change the incumbent's registry.  Each holds the       *)
(* lifecycle read guard to its end, so no handoff step interleaves with it;    *)
(* SessionLifecycle opens them up.                                             *)

\* Spawn refuses an id in use and a sealed manager, then registers and reads.
Spawn(i, c) ==
  /\ ReadGuard /\ ~sealed /\ reg[i] = NoChild /\ child[c] = "unborn"
  /\ reg' = [reg EXCEPT ![i] = c]
  /\ owned' = owned \cup {c}
  /\ child' = [child EXCEPT ![c] = "running"]
  /\ SetReader(Old, c, "select")
  /\ UNCHANGED <<oldVars, reaped, ctlVars, out, taken, exits, inHand, term, newVars,
                 netVars, published>>

\* Kill claims the incarnation, stops its reader, ends the process and
\* broadcasts the one Exit.  A reader already past its end-of-file test makes
\* Kill wait; that wait is the subject of SessionLifecycle.
Kill(i) ==
  LET c == reg[i] IN
  /\ ReadGuard /\ ~sealed /\ c # NoChild /\ rd[Old][c] # "eof"
  /\ reg' = Unregister(reg, c)
  /\ child' = [child EXCEPT ![c] = "exited"]
  /\ exits' = [exits EXCEPT ![c] = @ + 1]
  /\ SetReader(Old, c, "done")
  /\ inHand' = [inHand EXCEPT ![Old][c] = 0]
  /\ stopReq' = [stopReq EXCEPT ![c] = TRUE]
  /\ quiesced' = [quiesced EXCEPT ![c] = FALSE]
  /\ UNCHANGED <<oldVars, owned, reaped, quiesceReq, out, taken, term, newVars, netVars,
                 published>>

\* List polls waitpid for every session and so collects an exited owned child.
ListReap(c) ==
  /\ oldUp /\ c \in owned \ reaped /\ c \in Registered(reg) /\ child[c] = "exited"
  /\ reaped' = reaped \cup {c}
  /\ UNCHANGED <<oldVars, reg, owned, ctlVars, kidVars, readVars, newVars, netVars,
                 published>>

-----------------------------------------------------------------------------
(* handle_handoff: the incumbent's side.                                       *)

Reply(s, m) == toNew' = [toNew EXCEPT ![s] = m]

\* Version, then authorization of the live peer, before the lifecycle lock.
OldAuthorize(s) ==
  /\ oldUp /\ toOld[s] = "Handoff" /\ s \notin waiting /\ ~connClosed[s]
  /\ toOld' = [toOld EXCEPT ![s] = "none"]
  /\ \/ /\ ver[s] \notin OldVersions
        /\ Reply(s, "VersionMismatch") /\ UNCHANGED waiting
     \/ /\ ver[s] \in OldVersions /\ (s \notin Trusted \/ ~Connected(s))
        /\ Reply(s, "Refused") /\ UNCHANGED waiting
     \/ /\ ver[s] \in OldVersions /\ s \in Trusted /\ Connected(s)
        /\ waiting' = waiting \cup {s} /\ UNCHANGED toNew
  /\ UNCHANGED <<oldUp, lifecycle, tx, txPeer, sealed, agentSealed, regVars, ctlVars,
                 kidVars, readVars, newVars, connClosed, published>>

\* The write guard is granted to a handler that finds nothing to transfer from:
\* already committed, or v2 asked for state only v3 can carry.
OldRefuse(s) ==
  /\ oldUp /\ s \in waiting /\ ~WriteHeld
  /\ waiting' = waiting \ {s}
  /\ \/ lifecycle # "Running" /\ Reply(s, "Refused")
     \/ /\ lifecycle = "Running" /\ ver[s] = 2
        /\ \E i \in Protected : reg[i] # NoChild
        /\ Reply(s, "VersionMismatch")
  /\ UNCHANGED <<oldUp, lifecycle, tx, txPeer, sealed, agentSealed, regVars, ctlVars,
                 kidVars, readVars, newVars, toOld, connClosed, published>>

\* Seal the registry and ask the reader of every registered session to park.
OldSeal(s) ==
  /\ oldUp /\ s \in waiting /\ ~WriteHeld /\ lifecycle = "Running"
  /\ ver[s] = 2 => \A i \in Protected : reg[i] = NoChild
  /\ waiting' = waiting \ {s}
  /\ tx' = "quiescing" /\ txPeer' = s /\ sealed' = TRUE
  /\ quiesceReq' = [c \in Children |-> quiesceReq[c] \/ c \in Registered(reg)]
  /\ UNCHANGED <<oldUp, lifecycle, agentSealed, regVars, quiesced, stopReq, kidVars,
                 readVars, newVars, netVars, published>>

\* is_quiesced or is_stopped, as the polling loop reads them.
ReaderStill(c) == quiesced[c] \/ rd[Old][c] = "done"
\* Mutant of AllStill: the snapshot does not wait for the readers.
AssumeStill == TRUE
AllStill == \A c \in Registered(reg) : ReaderStill(c)

\* Mutant of IsAlive: only a child of this daemon can be alive.
IsAliveOwned(c) == c \in owned \ reaped
\* PtySession::is_alive: an owned child counts until it is reaped.
IsAlive(c) == IF c \in owned THEN c \notin reaped ELSE child[c] = "running"

\* handoff_parts for every session: the dead are skipped, and so is one whose
\* descriptor cannot be duplicated.  The terminal snapshot is the current one.
Transferable == {i \in Sessions : reg[i] # NoChild /\ IsAlive(reg[i])}

OldSnapshot ==
  /\ oldUp /\ tx = "quiescing" /\ AllStill
  /\ \E skipped \in IF "dupFails" \in Faults THEN SUBSET Transferable ELSE {{}} :
       xfer' = [xfer EXCEPT ![txPeer] = [i \in Sessions |->
                  IF i \in Transferable \ skipped THEN reg[i] ELSE NoChild]]
  /\ term' = [term EXCEPT ![txPeer] = term[Old]]
  /\ agentSealed' = TRUE /\ tx' = "sending"
  /\ UNCHANGED <<oldUp, lifecycle, txPeer, waiting, sealed, regVars, ctlVars, kidVars,
                 rd, inHand, pc, ver, netVars, published>>

\* Mutant of ResumeReaders: an abort path forgets the parked readers.
ForgetReaders == UNCHANGED quiesceReq
ResumeReaders ==
  quiesceReq' = [c \in Children |-> quiesceReq[c] /\ c \notin Registered(reg)]

\* Mutant of LiftSeals: the agent seal outlives the aborted transfer.
LiftPtySeal == sealed' = FALSE /\ UNCHANGED agentSealed
LiftSeals == sealed' = FALSE /\ agentSealed' = FALSE

\* Every abort path: resume the readers, close the copies, lift both seals.
Rollback ==
  /\ tx' = "idle" /\ ResumeReaders /\ LiftSeals
  /\ UNCHANGED <<oldUp, lifecycle, txPeer, waiting, regVars, quiesced, stopReq, kidVars,
                 readVars, newVars, netVars, published>>

\* A reader did not park within 2 s.  Nothing is written to the successor.
QuiesceTimeout == oldUp /\ tx = "quiescing" /\ ~AllStill /\ Rollback

\* HandoffReady, flush and SCM_RIGHTS; the descriptors travel with the message.
OldSend ==
  /\ oldUp /\ tx = "sending" /\ Connected(txPeer)
  /\ tx' = "awaitAck" /\ Reply(txPeer, "Ready")
  /\ UNCHANGED <<oldUp, lifecycle, txPeer, waiting, sealed, agentSealed, regVars, ctlVars,
                 kidVars, readVars, newVars, toOld, connClosed, published>>

SendFailed == oldUp /\ tx = "sending" /\ ~Connected(txPeer) /\ Rollback

\* Mutant of StopReaders: a committed transfer resumes the readers.
ResumeInstead == quiesceReq' = [c \in Children |-> FALSE] /\ UNCHANGED stopReq
StopReaders ==
  /\ stopReq' = [c \in Children |-> stopReq[c] \/ c \in Registered(reg)]
  /\ UNCHANGED quiesceReq

\* The acknowledgement is the commit point: the guard is released with the
\* lifecycle committed, and every reader is told to stop.
OldCommit ==
  /\ oldUp /\ tx = "awaitAck" /\ toOld[txPeer] = "Adopted"
  /\ toOld' = [toOld EXCEPT ![txPeer] = "none"]
  /\ lifecycle' = "HandoffCommitted" /\ tx' = "stopping" /\ StopReaders
  /\ UNCHANGED <<oldUp, txPeer, waiting, sealed, agentSealed, regVars, quiesced, kidVars,
                 readVars, newVars, toNew, connClosed, published>>

\* Mutant of AckDisconnect: the wait gives up on a successor still connected.
ImpatientAck == oldUp /\ tx = "awaitAck" /\ toOld[txPeer] = "none" /\ Rollback
AckDisconnect ==
  /\ oldUp /\ tx = "awaitAck" /\ toOld[txPeer] = "none" /\ ~Connected(txPeer)
  /\ Rollback

\* 5 s pass without an acknowledgement from a successor that is still there.
AckTimeout ==
  /\ "lateAck" \in Faults
  /\ oldUp /\ tx = "awaitAck" /\ toOld[txPeer] = "none" /\ Connected(txPeer)
  /\ Rollback

\* Back in handle_connection, a late HandoffAdopted is answered with an error
\* event, which a successor waiting for end of file ignores.
StrayAck(s) ==
  /\ oldUp /\ toOld[s] = "Adopted" /\ ~(WriteHeld /\ txPeer = s)
  /\ toOld' = [toOld EXCEPT ![s] = "none"]
  /\ UNCHANGED <<oldVars, regVars, ctlVars, kidVars, readVars, newVars, toNew, connClosed,
                 published>>

\* All readers stopped, or 2 s passed: clear the fanouts, close the copies,
\* broadcast ShuttingDown, flush recovery and arm the exit thread.
OldRelease ==
  /\ oldUp /\ tx = "stopping"
  /\ tx' = "exiting"
  /\ UNCHANGED <<oldUp, lifecycle, txPeer, waiting, sealed, agentSealed, regVars, ctlVars,
                 kidVars, readVars, newVars, netVars, published>>

\* handle_handoff returns true and handle_connection drops the connection.
OldClose ==
  /\ oldUp /\ tx = "exiting" /\ ~connClosed[txPeer]
  /\ connClosed' = [connClosed EXCEPT ![txPeer] = TRUE]
  /\ UNCHANGED <<oldVars, regVars, ctlVars, kidVars, readVars, newVars, toOld, toNew,
                 published>>

\* The process is gone: nothing of it runs, its descriptors are closed.
Die ==
  /\ oldUp' = FALSE
  /\ UNCHANGED <<lifecycle, tx, txPeer, waiting, sealed, agentSealed, regVars, ctlVars,
                 out, taken, exits, readVars, ver, xfer, netVars>>

\* Mutant of OldExit: an incumbent with nothing to hand over stays.
ExitIfHandedOver ==
  oldUp /\ tx = "exiting" /\ Registered(reg) # {} /\ Die /\ UNCHANGED <<child, pc, published>>
OldExit == oldUp /\ tx = "exiting" /\ Die /\ UNCHANGED <<child, pc, published>>

OldCrash ==
  "crash" \in Faults /\ oldUp /\ Die /\ UNCHANGED <<child, pc, published>>

\* The SIGTERM handler kills every registered session and removes the files,
\* whatever a handoff is doing.
OldTerminate ==
  /\ "sigterm" \in Faults /\ oldUp /\ Die
  /\ child' = [c \in Children |-> IF c \in Registered(reg) THEN "exited" ELSE child[c]]
  /\ published' = {}
  /\ UNCHANGED pc

-----------------------------------------------------------------------------
(* attempt_handoff, request_handoff and run_daemon: the successor's side.      *)

\* A successor that gives up exits non-zero; its descriptors close with it.
Abort(s) == pc' = [pc EXCEPT ![s] = "gone"]
Advance(s, phase) == pc' = [pc EXCEPT ![s] = phase]

\* Mutant of IncumbentAlive: the pid file is not looked at.
IgnorePidFile == FALSE
IncumbentAlive == published = {Old} /\ oldUp

\* Reading the pid file: pin a live incumbent, or start empty without one.
\* A round ends when a successor is published; it is then the next incumbent.
Launch(s) ==
  /\ pc[s] = "off" /\ published \in {{Old}, {}}
  /\ "relaunch" \in Faults \/ \A r \in Successors : pc[r] \notin Starting
  /\ Advance(s, IF IncumbentAlive THEN "pinned" ELSE "adopted")
  /\ UNCHANGED <<oldVars, regVars, ctlVars, kidVars, readVars, ver, xfer, netVars,
                 published>>

\* Connecting and authenticating the peer fails once the incumbent is gone.
Request(s) ==
  /\ pc[s] = "pinned"
  /\ IF IncumbentAlive
     THEN Advance(s, "requested") /\ toOld' = [toOld EXCEPT ![s] = "Handoff"]
     ELSE Abort(s) /\ UNCHANGED toOld
  /\ UNCHANGED <<oldVars, regVars, ctlVars, kidVars, readVars, ver, xfer, toNew,
                 connClosed, published>>

\* Only an explicit mismatch of the first request is retried, once, as v2.
RecvMismatch(s) ==
  /\ pc[s] = "requested" /\ toNew[s] = "VersionMismatch"
  /\ Reply(s, "none")
  /\ IF ver[s] = 3
     THEN Advance(s, "pinned") /\ ver' = [ver EXCEPT ![s] = 2]
     ELSE Abort(s) /\ UNCHANGED ver
  /\ UNCHANGED <<oldVars, regVars, ctlVars, kidVars, readVars, xfer, toOld, connClosed,
                 published>>

RecvRefused(s) ==
  /\ pc[s] = "requested" /\ toNew[s] = "Refused"
  /\ Abort(s) /\ Reply(s, "none")
  /\ UNCHANGED <<oldVars, regVars, ctlVars, kidVars, readVars, ver, xfer, toOld,
                 connClosed, published>>

\* Mutant of Unanswered: only a closed connection ends the wait.
UnansweredAtEof(s) == toNew[s] = "none" /\ Eof(s)
Unanswered(s) == toNew[s] = "none"

\* 60 s without a response line, or end of file instead of one.
ResponseTimeout(s) ==
  /\ pc[s] = "requested" /\ Unanswered(s)
  /\ Abort(s)
  /\ UNCHANGED <<oldVars, regVars, ctlVars, kidVars, readVars, ver, xfer, netVars,
                 published>>

\* Metadata and descriptors are accepted, the pinned identity re-checked; a
\* v2 payload with a protected session and a failed transfer are refused.
RecvReady(s) ==
  /\ pc[s] = "requested" /\ toNew[s] = "Ready"
  /\ Reply(s, "none")
  /\ \/ /\ oldUp
        /\ ver[s] = 2 => \A i \in Protected : xfer[s][i] = NoChild
        /\ Advance(s, "ready")
     \/ Abort(s)
  /\ UNCHANGED <<oldVars, regVars, ctlVars, kidVars, readVars, ver, xfer, toOld,
                 connClosed, published>>

\* send_handoff_ack: a closed connection fails the write.
SendAck(s) ==
  /\ pc[s] = "ready"
  /\ IF oldUp THEN Advance(s, "acked") /\ toOld' = [toOld EXCEPT ![s] = "Adopted"]
     ELSE Abort(s) /\ UNCHANGED toOld
  /\ UNCHANGED <<oldVars, regVars, ctlVars, kidVars, readVars, ver, xfer, toNew,
                 connClosed, published>>

\* wait_for_handoff_release_with: end of file is the release.
SeeEof(s) ==
  /\ pc[s] \in {"acked", "postKill"} /\ Eof(s)
  /\ Advance(s, "barrier")
  /\ UNCHANGED <<oldVars, regVars, ctlVars, kidVars, readVars, ver, xfer, netVars,
                 published>>

\* An incumbent that has read, or can still read, the acknowledgement in time.
WillRelease(s) ==
  \/ lifecycle = "HandoffCommitted"
  \/ tx = "awaitAck" /\ txPeer = s /\ toOld[s] = "Adopted"

ReleaseTimeout(s) ==
  /\ pc[s] = "acked" /\ ~Eof(s)
  /\ "lateRelease" \in Faults \/ ~WillRelease(s)
  /\ Advance(s, "killing")
  /\ UNCHANGED <<oldVars, regVars, ctlVars, kidVars, readVars, ver, xfer, netVars,
                 published>>

\* kill_verified of the pinned incumbent.  Against a process that has exited
\* in the meantime it succeeds only while that process is an unreaped zombie.
KillOld(s) ==
  /\ pc[s] = "killing"
  /\ \/ oldUp /\ Advance(s, "postKill") /\ Die
     \/ /\ ~oldUp /\ (Advance(s, "postKill") \/ Abort(s))
        /\ UNCHANGED <<oldVars, regVars, ctlVars, out, taken, exits, readVars, ver, xfer,
                       netVars>>
  /\ UNCHANGED <<child, published>>

\* run_daemon: with sessions adopted, the incumbent's process must be gone; it
\* is killed at the deadline.  Without any there is no barrier.
\* Mutant of Adopting: no release barrier.
SkipBarrier(s) == FALSE
Adopting(s) == Registered(xfer[s]) # {}

BarrierKill(s) ==
  /\ pc[s] = "barrier" /\ Adopting(s) /\ oldUp
  /\ Die /\ UNCHANGED <<child, pc, published>>

\* Build the sessions from the transfer and start one reader for each.
Adopt(s) ==
  /\ pc[s] = "barrier" /\ (Adopting(s) => ~oldUp)
  /\ Advance(s, "adopted")
  /\ rd' = [rd EXCEPT ![s] = [c \in Children |->
              IF c \in Registered(xfer[s]) THEN "select" ELSE "none"]]
  /\ UNCHANGED <<oldVars, regVars, ctlVars, kidVars, inHand, term, ver, xfer, netVars,
                 published>>

\* Write the pid file, replace the socket, accept connections.
Publish(s) ==
  /\ pc[s] = "adopted"
  /\ Advance(s, "serving") /\ published' = {s}
  /\ UNCHANGED <<oldVars, regVars, ctlVars, kidVars, readVars, ver, xfer, netVars>>

NewCrash(s) ==
  /\ \/ "earlyCrash" \in Faults /\ pc[s] \in {"pinned", "requested", "ready"}
     \/ "crash" \in Faults /\ pc[s] \in Starting \cup {"serving"}
  /\ Abort(s)
  /\ UNCHANGED <<oldVars, regVars, ctlVars, kidVars, readVars, ver, xfer, netVars,
                 published>>

-----------------------------------------------------------------------------
ReaderNext ==
  \E c \in Children :
    \/ ChildOutput(c) \/ ChildExit(c) \/ ListReap(c)
    \/ WakeReader(c) \/ LeavePark(c) \/ Unpark(c) \/ OldNaturalExit(c)
    \/ \E d \in Daemons : ReadChunk(d, c) \/ MirrorChunk(d, c) \/ ReadEof(d, c)
    \/ \E s \in Successors : NewNaturalExit(s, c)
    \/ \E i \in Sessions : Spawn(i, c)

OldNext ==
  \/ \E i \in Sessions : Kill(i)
  \/ \E s \in Successors : OldAuthorize(s) \/ OldRefuse(s) \/ OldSeal(s) \/ StrayAck(s)
  \/ OldSnapshot \/ QuiesceTimeout \/ OldSend \/ SendFailed
  \/ OldCommit \/ AckDisconnect \/ AckTimeout
  \/ OldRelease \/ OldClose \/ OldExit \/ OldCrash \/ OldTerminate

NewNext ==
  \E s \in Successors :
    \/ Launch(s) \/ Request(s) \/ RecvMismatch(s) \/ RecvRefused(s) \/ ResponseTimeout(s)
    \/ RecvReady(s) \/ SendAck(s) \/ SeeEof(s) \/ ReleaseTimeout(s) \/ KillOld(s)
    \/ BarrierKill(s) \/ Adopt(s) \/ Publish(s) \/ NewCrash(s)

Next == ReaderNext \/ OldNext \/ NewNext

Spec == Init /\ [][Next]_vars

-----------------------------------------------------------------------------
(* Safety.                                                                     *)

\* Both registries are fenced exactly from the start of a transfer until it is
\* resolved: every abort path lifts the seals, a commit keeps them for good.
SealDiscipline ==
  /\ sealed <=> (WriteHeld \/ lifecycle = "HandoffCommitted")
  /\ agentSealed <=> (tx \in {"sending", "awaitAck"} \/ lifecycle = "HandoffCommitted")

HasReader(d, c) == Running(d) /\ rd[d][c] \in {"select", "hand", "parked", "unparking"}

\* SPEC.md invariant 5, across daemons: no two live daemons have a reader on the
\* PTY of the same incarnation, parked readers included.
OneReader ==
  \A c \in Children : \A d, e \in Daemons : HasReader(d, c) /\ HasReader(e, c) => d = e

\* What the incumbent handed over is what it serves: at the end of the release
\* barrier the transfer neither omits a live session nor retains a killed or
\* replaced incarnation.
AdoptedIsCurrent ==
  \A s \in Successors : pc[s] = "barrier" =>
    \A i \in Sessions :
      /\ xfer[s][i] # NoChild => xfer[s][i] = reg[i]
      /\ reg[i] # NoChild /\ child[reg[i]] = "running" => xfer[s][i] = reg[i]

Complete(d, c) == term[d][c] \cup ({inHand[d][c]} \ {0}) = 1..taken[c]

\* Every block taken off a PTY is in the terminal of the daemon that serves the
\* session (or in its reader's hand), whoever took it, in front of or behind
\* the snapshot: nothing is lost or applied twice by the transfer.
NoOutputLost ==
  /\ oldUp /\ lifecycle = "Running" => \A c \in Registered(reg) : Complete(Old, c)
  /\ \A s \in Successors : pc[s] \in {"adopted", "serving"} =>
       \A c \in Registered(xfer[s]) : Complete(s, c)

Held(c) ==
  \/ oldUp /\ c \in Registered(reg)
  \/ \E s \in Successors :
       /\ c \in Registered(xfer[s])
       /\ pc[s] \in HasFds \/ (pc[s] = "requested" /\ toNew[s] = "Ready")

\* SPEC.md invariant 4: a running child always has its PTY master open in a live
\* daemon or on its way to one.
SessionsSurvive == \A c \in Children : child[c] = "running" => Held(c)

Receiving == {"acked", "barrier", "adopted", "serving"}

\* The death of an incarnation is announced at most once, and never for a
\* session that a successor is about to serve.
ExitOnce ==
  \A c \in Children :
    /\ exits[c] <= 1
    /\ exits[c] = 1 => ~ \E s \in Successors : pc[s] \in Receiving /\ c \in Registered(xfer[s])

\* SPEC.md invariant 1: a published daemon is the only one, and the incumbent it
\* replaced is dead or, having had nothing to hand over, past its commit.
OnePublisher ==
  \A s \in Successors : pc[s] = "serving" =>
    /\ published = {s}
    /\ \A r \in Successors : pc[r] = "serving" => r = s
    /\ oldUp => lifecycle = "HandoffCommitted" /\ Registered(xfer[s]) = {}

-----------------------------------------------------------------------------
(* Action properties.                                                          *)

\* After the commit the incumbent is a bystander: it neither takes a block off
\* a PTY nor changes its registry nor announces a death.
Bystander ==
  [][lifecycle = "HandoffCommitted" =>
       /\ reg' = reg /\ term'[Old] = term[Old] /\ inHand'[Old] = inHand[Old]
       /\ exits' # exits => ~oldUp]_vars

-----------------------------------------------------------------------------
(* Liveness.  The program's own steps and its clocks are fair; clients,        *)
(* children, the launcher and the failures are not.                            *)

ReaderFair ==
  \A c \in Children :
    /\ WF_vars(WakeReader(c)) /\ WF_vars(LeavePark(c)) /\ WF_vars(Unpark(c))
    /\ WF_vars(OldNaturalExit(c))
    /\ \A d \in Daemons :
         /\ WF_vars(ReadChunk(d, c)) /\ WF_vars(MirrorChunk(d, c)) /\ WF_vars(ReadEof(d, c))
    /\ \A s \in Successors : WF_vars(NewNaturalExit(s, c))

OldFair ==
  /\ \A s \in Successors :
       WF_vars(OldAuthorize(s)) /\ WF_vars(OldRefuse(s)) /\ WF_vars(OldSeal(s))
  /\ WF_vars(OldSnapshot) /\ WF_vars(QuiesceTimeout) /\ WF_vars(OldSend)
  /\ WF_vars(SendFailed) /\ WF_vars(OldCommit) /\ WF_vars(AckDisconnect)
  /\ WF_vars(OldRelease) /\ WF_vars(OldClose) /\ WF_vars(OldExit)

NewFair ==
  \A s \in Successors :
    /\ WF_vars(Request(s)) /\ WF_vars(RecvMismatch(s)) /\ WF_vars(RecvRefused(s))
    /\ WF_vars(ResponseTimeout(s)) /\ WF_vars(RecvReady(s)) /\ WF_vars(SendAck(s))
    /\ WF_vars(SeeEof(s)) /\ WF_vars(ReleaseTimeout(s)) /\ WF_vars(KillOld(s))
    /\ WF_vars(BarrierKill(s)) /\ WF_vars(Adopt(s)) /\ WF_vars(Publish(s))

FairSpec == Spec /\ ReaderFair /\ OldFair /\ NewFair

\* A successor never hangs between launch and its verdict.
SuccessorSettles ==
  \A s \in Successors : pc[s] \in Starting ~> pc[s] \in {"serving", "gone"}

\* A parked reader is set free again by every outcome that leaves the incumbent
\* alive: no abort path forgets to resume it.
ReadersResume ==
  \A c \in Children : rd[Old][c] = "parked" ~> (rd[Old][c] # "parked" \/ ~oldUp)

\* A committed incumbent goes away.
CommitReleases == lifecycle = "HandoffCommitted" ~> ~oldUp

=============================================================================
