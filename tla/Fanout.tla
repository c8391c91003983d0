-------------------------------- MODULE Fanout --------------------------------
(***************************************************************************)
(* Terminal output from one session's reader to its subscribers:           *)
(* crates/daemon/src/fanout.rs, handle_output_chunk and                    *)
(* resync_drained_subscribers (output.rs), AttachSnapshot, Detach and      *)
(* publish_resize_snapshot (connection.rs).                                *)
(*                                                                         *)
(* The reader mirrors every chunk into the headless terminal and queues it *)
(* for every registration, all under the fanout lock and without waiting   *)
(* for anybody's socket.  A registration whose backlog would exceed its    *)
(* byte budget is lagged: it gets nothing more until its writer task has   *)
(* drained the backlog, and then a fresh snapshot.  Attached writers and   *)
(* observers are two lists of the same kind; a connection here is          *)
(* registered in one of them.                                              *)
(*                                                                         *)
(* Writer tasks share nothing with the lock holder but the atomics         *)
(* pending_bytes, lagged and cancelled, so the loop of enqueue_to_list is  *)
(* taken apart at its loads and stores and interleaved with theirs.        *)
(***************************************************************************)
EXTENDS Integers, Sequences

CONSTANTS
  Conns,                                \* client connections
  Budget,                               \* SUBSCRIBER_MAILBOX_MAX_BYTES
  OutLen, SnapLen, StatusLen, ExitLen,  \* lengths of the serialized lines
  MaxChunk,                             \* bound on the chunks of an incarnation
  MaxReg,                               \* bound on the registrations
  Faults                                \* subset of AllFaults

(* snapshotFails  HeadlessTerminal::snapshot may fail                          *)
(* weakOrder      the re-read of pending_bytes after the store to lagged may   *)
(*                still see the old value: Release / Acquire orders no store   *)
(*                before a later load                                          *)
(* clientGone     a client may close its connection                            *)
(* respawn        the session may end and its id be spawned again              *)
AllFaults == {"snapshotFails", "weakOrder", "clientGone", "respawn"}

Regs == 1..MaxReg

ASSUME FanoutConstants ==
  /\ Budget \in Nat /\ MaxChunk \in Nat /\ MaxReg \in Nat
  /\ OutLen \in Nat \ {0} /\ SnapLen \in Nat \ {0}
  /\ StatusLen \in Nat \ {0} /\ ExitLen \in Nat \ {0}
  /\ Faults \subseteq AllFaults

Lines == [kind : {"out", "snap", "status", "exit"}, upto : 0..MaxChunk]
OutLine(n) == [kind |-> "out", upto |-> n]
SnapLine(n) == [kind |-> "snap", upto |-> n]
StatusLine == [kind |-> "status", upto |-> 0]
ExitLine == [kind |-> "exit", upto |-> 0]
LineLen(l) ==
  IF l.kind = "out" THEN OutLen
  ELSE IF l.kind = "snap" THEN SnapLen
  ELSE IF l.kind = "status" THEN StatusLen ELSE ExitLen

VARIABLES
  alive,      \* the session is registered
  mirrored,   \* chunks applied to its headless terminal
  rd,         \* the reader: select / chunk (between enqueue and status) / done
  job,        \* what the holder of the fanout lock enqueues, "free" if nobody
  line,       \* ... the line
  todo,       \* ... the registrations not yet served
  step, cur,  \* ... where enqueue_to_list stands, and with which registration
  ready,      \* EnqueueReport::resync_ready
  owes,       \* the reader owes a call of resync_drained_subscribers
  notify,     \* the permit of recovery_notify
  retry,      \* recovery_retry_scheduled
  nextReg,    \* the next registration
  base,       \* the first one of this incarnation's SessionFanout
  conn,       \* registration -> its connection
  subs,       \* the registrations in FanoutState's lists
  mail,       \* the mailbox of a registration
  pend,       \* pending_bytes
  lagSince, lagFlag,  \* lagged_since is some, the AtomicBool lagged
  cancelled,  \* set on removal and replacement
  wr, hand,   \* the writer task and the line it has taken
  sock,       \* holder of the connection's writer lock, 0 if free
  gone,       \* the connection is closed
  shown,      \* the chunks on the client's screen, in order
  lastReg     \* the registration of the last line the client received

lockVars == <<job, line, todo, step, cur, ready>>
readVars == <<alive, mirrored, rd, owes, notify, retry>>
subVars  == <<nextReg, base, conn, subs, lagSince, cancelled>>
boxVars  == <<mail, pend, lagFlag, wr, hand>>
netVars  == <<sock, gone, shown, lastReg>>
vars == <<lockVars, readVars, subVars, boxVars, netVars>>

\* Type invariant; the queued bytes are those of the lines not yet written.
TypeOK ==
  /\ alive \in BOOLEAN /\ mirrored \in 0..MaxChunk
  /\ rd \in {"select", "chunk", "done"}
  /\ job \in {"free", "output", "status", "resize"}
  /\ line \in Lines /\ todo \subseteq Regs
  /\ step \in {"load", "mark", "recheck"} /\ cur \in 0..MaxReg
  /\ ready \in BOOLEAN /\ owes \in BOOLEAN /\ notify \in BOOLEAN /\ retry \in BOOLEAN
  /\ nextReg \in 1..(MaxReg + 1) /\ base \in 1..(MaxReg + 1)
  /\ conn \in [Regs -> Conns] /\ subs \subseteq Regs
  /\ mail \in [Regs -> Seq(Lines)] /\ pend \in [Regs -> Nat]
  /\ lagSince \in [Regs -> BOOLEAN] /\ lagFlag \in [Regs -> BOOLEAN]
  /\ cancelled \in [Regs -> BOOLEAN]
  /\ wr \in [Regs -> {"none", "recv", "writing", "check", "ended"}]
  /\ hand \in [Regs -> Lines]
  /\ sock \in [Conns -> 0..MaxReg] /\ gone \in [Conns -> BOOLEAN]
  /\ shown \in [Conns -> Seq(1..MaxChunk)] /\ lastReg \in [Conns -> 0..MaxReg]

Init ==
  /\ alive = TRUE /\ mirrored = 0 /\ rd = "select"
  /\ job = "free" /\ line = StatusLine /\ todo = {} /\ step = "load" /\ cur = 0
  /\ ready = FALSE /\ owes = FALSE /\ notify = FALSE /\ retry = FALSE
  /\ nextReg = 1 /\ base = 1 /\ conn \in [Regs -> Conns] /\ subs = {}
  /\ mail = [r \in Regs |-> <<>>] /\ pend = [r \in Regs |-> 0]
  /\ lagSince = [r \in Regs |-> FALSE] /\ lagFlag = [r \in Regs |-> FALSE]
  /\ cancelled = [r \in Regs |-> FALSE]
  /\ wr = [r \in Regs |-> "none"] /\ hand = [r \in Regs |-> StatusLine]
  /\ sock = [c \in Conns |-> 0] /\ gone = [c \in Conns |-> FALSE]
  /\ shown = [c \in Conns |-> <<>>] /\ lastReg = [c \in Conns |-> 0]

-----------------------------------------------------------------------------
(* enqueue_to_list, under the fanout lock.                                     *)

StartJob(j, l) ==
  /\ job = "free"
  /\ job' = j /\ line' = l /\ todo' = subs /\ step' = "load" /\ cur' = 0 /\ ready' = FALSE

Closed(r) == wr[r] = "ended"

Fits(r) == pend[r] + LineLen(line) <= Budget

Queue(r, ls, bytes) ==
  /\ mail' = [mail EXCEPT ![r] = @ \o ls] /\ pend' = [pend EXCEPT ![r] = @ + bytes]

\* A registration whose writer task has ended is dropped from the list.
OfferClosed(r) ==
  /\ job # "free" /\ step = "load" /\ r \in todo /\ Closed(r)
  /\ subs' = subs \ {r} /\ todo' = todo \ {r}
  /\ UNCHANGED <<job, line, step, cur, ready, readVars, nextReg, base, conn, lagSince, cancelled,
                 boxVars, netVars>>

\* Mutant of SkipLagged: a lagged registration gets the lines that fit again.
SkipNone(r) == FALSE
SkipLagged(r) == lagSince[r]

OfferLagged(r) ==
  /\ job # "free" /\ step = "load" /\ r \in todo /\ ~Closed(r) /\ SkipLagged(r)
  /\ todo' = todo \ {r} /\ ready' = (ready \/ pend[r] = 0)
  /\ UNCHANGED <<job, line, step, cur, readVars, subVars, boxVars, netVars>>

OfferQueue(r) ==
  /\ job # "free" /\ step = "load" /\ r \in todo /\ ~Closed(r) /\ ~SkipLagged(r) /\ Fits(r)
  /\ Queue(r, <<line>>, LineLen(line)) /\ todo' = todo \ {r}
  /\ UNCHANGED <<job, line, step, cur, ready, readVars, subVars, lagFlag, wr, hand, netVars>>

OfferOver(r) ==
  /\ job # "free" /\ step = "load" /\ r \in todo /\ ~Closed(r) /\ ~SkipLagged(r) /\ ~Fits(r)
  /\ step' = "mark" /\ cur' = r
  /\ UNCHANGED <<job, line, todo, ready, readVars, subVars, boxVars, netVars>>

MarkLagged ==
  /\ step = "mark"
  /\ lagSince' = [lagSince EXCEPT ![cur] = TRUE] /\ lagFlag' = [lagFlag EXCEPT ![cur] = TRUE]
  /\ step' = "recheck"
  /\ UNCHANGED <<job, line, todo, cur, ready, readVars, nextReg, base, conn, subs, cancelled, mail,
                 pend, wr, hand, netVars>>

Recheck ==
  /\ step = "recheck"
  /\ \/ ready' = (ready \/ pend[cur] = 0)
     \/ "weakOrder" \in Faults /\ UNCHANGED ready
  /\ step' = "load" /\ todo' = todo \ {cur}
  /\ UNCHANGED <<job, line, cur, readVars, subVars, boxVars, netVars>>

\* The lock is released; only publish_resize_snapshot ignores resync_ready.
EndJob ==
  /\ job # "free" /\ step = "load" /\ todo = {}
  /\ job' = "free" /\ line' = StatusLine /\ cur' = 0 /\ ready' = FALSE
  /\ owes' = (owes \/ (job # "resize" /\ ready))
  /\ rd' = IF job = "output" THEN "chunk" ELSE IF job = "status" THEN "select" ELSE rd
  /\ UNCHANGED <<todo, step, alive, mirrored, notify, retry, subVars, boxVars, netVars>>

-----------------------------------------------------------------------------
(* The reader.                                                                 *)

\* handle_output_chunk: mirror, then enqueue, under one acquisition.
ReadChunk ==
  /\ alive /\ rd = "select" /\ ~owes /\ mirrored < MaxChunk
  /\ mirrored' = mirrored + 1 /\ StartJob("output", OutLine(mirrored + 1))
  /\ UNCHANGED <<alive, rd, owes, notify, retry, subVars, boxVars, netVars>>

\* emit_status_changed, after a chunk or on the quiet tick.
EmitStatus ==
  /\ alive /\ rd \in {"select", "chunk"} /\ ~owes
  /\ StartJob("status", StatusLine)
  /\ UNCHANGED <<readVars, subVars, boxVars, netVars>>

NoStatus ==
  /\ rd = "chunk" /\ job # "status" /\ ~owes
  /\ rd' = "select"
  /\ UNCHANGED <<lockVars, alive, mirrored, owes, notify, retry, subVars, boxVars, netVars>>

\* Mutant of Drained: any lagged registration is resynchronised at once.
LaggedAtAll(r) == r \in subs /\ lagSince[r]
Drained(r) == r \in subs /\ lagSince[r] /\ pend[r] = 0

Resynced == {r \in Regs : Drained(r) /\ ~Closed(r)}
Recovery == <<SnapLine(mirrored), StatusLine>>
CountRecovery ==
  pend' = [r \in Regs |-> IF r \in Resynced THEN pend[r] + SnapLen + StatusLen ELSE pend[r]]

\* resync_drained: snapshot and status for the drained, unless their task ended.
ResyncDrained ==
  /\ mail' = [r \in Regs |-> IF r \in Resynced THEN mail[r] \o Recovery ELSE mail[r]]
  /\ CountRecovery
  /\ lagSince' = [r \in Regs |-> lagSince[r] /\ r \notin Resynced]
  /\ lagFlag' = [r \in Regs |-> lagFlag[r] /\ r \notin Resynced]

\* Mutant of Woken: only the writers' notification wakes the reader.
WokenByNotify == owes \/ notify
\* The call owed after an enqueue, the notification, or the status tick.
Woken == owes \/ notify \/ \E r \in Regs : Drained(r)

\* resync_drained_subscribers; a failed snapshot schedules a retry.
Resync ==
  /\ alive /\ job = "free" /\ Woken /\ (owes \/ rd = "select")
  /\ owes' = FALSE /\ notify' = (owes /\ notify)
  /\ \/ ResyncDrained /\ UNCHANGED retry
     \/ /\ "snapshotFails" \in Faults /\ (\E r \in Regs : Drained(r))
        /\ retry' = TRUE /\ UNCHANGED <<mail, pend, lagSince, lagFlag>>
  /\ UNCHANGED <<lockVars, alive, mirrored, rd, nextReg, base, conn, subs, cancelled, wr, hand, netVars>>

RetryFires ==
  /\ retry /\ retry' = FALSE /\ notify' = TRUE
  /\ UNCHANGED <<lockVars, alive, mirrored, rd, owes, subVars, boxVars, netVars>>

-----------------------------------------------------------------------------
(* Connections.                                                                *)

OfConn(c) == {r \in subs : conn[r] = c}
\* Mutant of Cancel: the old registration is only taken off the list.
ForgetOnly(rs) == UNCHANGED cancelled
Cancel(rs) == cancelled' = [r \in Regs |-> cancelled[r] \/ r \in rs]

\* AttachSnapshot: snapshot and register under one acquisition; a registration
\* of the same connection is cancelled.  The fallback snapshot is blank.
Attach(c) ==
  LET r == nextReg IN
  /\ alive /\ job = "free" /\ ~gone[c] /\ r \in Regs /\ conn[r] = c
  /\ nextReg' = r + 1 /\ subs' = (subs \ OfConn(c)) \cup {r} /\ Cancel(OfConn(c))
  /\ \E n \in {mirrored} \cup (IF "snapshotFails" \in Faults THEN {0} ELSE {}) :
       mail' = [mail EXCEPT ![r] = <<SnapLine(n), StatusLine>>]
  /\ pend' = [pend EXCEPT ![r] = SnapLen + StatusLen] /\ wr' = [wr EXCEPT ![r] = "recv"]
  /\ UNCHANGED <<lockVars, readVars, base, conn, lagSince, lagFlag, hand, netVars>>

\* Detach, and the cleanup after a closed connection.
Leave(c) ==
  /\ job = "free" /\ OfConn(c) # {}
  /\ subs' = subs \ OfConn(c) /\ Cancel(OfConn(c))
  /\ UNCHANGED <<lockVars, readVars, nextReg, base, conn, lagSince, boxVars, netVars>>

\* Resize, and any other change of geometry.
Resize ==
  /\ alive /\ StartJob("resize", SnapLine(mirrored))
  /\ UNCHANGED <<readVars, subVars, boxVars, netVars>>

ClientGone(c) ==
  /\ "clientGone" \in Faults /\ ~gone[c]
  /\ gone' = [gone EXCEPT ![c] = TRUE]
  /\ UNCHANGED <<lockVars, readVars, subVars, boxVars, sock, shown, lastReg>>

\* Kill or natural exit: deliver_final and the fanout leaves the map.  What
\* cannot take the Exit is disconnected: its task is aborted, its socket shut.
SessionEnds ==
  LET cut == {r \in subs : lagSince[r] \/ Closed(r)}
      told == subs \ cut
  IN
  /\ alive /\ job = "free"
  /\ alive' = FALSE /\ rd' = "done" /\ owes' = FALSE /\ subs' = {}
  /\ mail' = [r \in Regs |-> IF r \in told THEN Append(mail[r], ExitLine)
                            ELSE IF r \in cut THEN <<>> ELSE mail[r]]
  /\ pend' = [r \in Regs |-> IF r \in told THEN pend[r] + ExitLen ELSE pend[r]]
  /\ wr' = [r \in Regs |-> IF r \in cut THEN "ended" ELSE wr[r]]
  /\ sock' = [c \in Conns |-> IF sock[c] \in cut THEN 0 ELSE sock[c]]
  /\ gone' = [c \in Conns |-> gone[c] \/ \E r \in cut : conn[r] = c]
  /\ UNCHANGED <<lockVars, mirrored, notify, retry, nextReg, base, conn, lagSince, cancelled,
                 lagFlag, hand, shown, lastReg>>

\* Spawn of the same id: a new terminal and a new SessionFanout.
Respawn ==
  /\ "respawn" \in Faults /\ ~alive
  /\ alive' = TRUE /\ mirrored' = 0 /\ rd' = "select" /\ notify' = FALSE /\ retry' = FALSE
  /\ base' = nextReg
  /\ UNCHANGED <<lockVars, owes, nextReg, conn, subs, lagSince, cancelled, boxVars, netVars>>

-----------------------------------------------------------------------------
(* The writer task of a registration.  Receiving a line and waiting for the    *)
(* socket lock are one step, as are the end of a write and the subtraction:    *)
(* nobody but the task itself sees what lies between.                          *)

Writer(r, phase) == wr' = [wr EXCEPT ![r] = phase]
Subtract(r, l) == pend' = [pend EXCEPT ![r] = @ - LineLen(l)]
LastBytes(r) == pend[r] = LineLen(hand[r])
Unlock(c) == sock' = [sock EXCEPT ![c] = 0]
\* The task returns; what it had not received goes with the receiver.
Return(r) == Writer(r, "ended") /\ mail' = [mail EXCEPT ![r] = <<>>]

WriterTakes(r) ==
  /\ wr[r] = "recv" /\ mail[r] # <<>> /\ sock[conn[r]] = 0 /\ ~cancelled[r]
  /\ hand' = [hand EXCEPT ![r] = Head(mail[r])] /\ mail' = [mail EXCEPT ![r] = Tail(@)]
  /\ Writer(r, "writing") /\ sock' = [sock EXCEPT ![conn[r]] = r]
  /\ UNCHANGED <<lockVars, readVars, subVars, pend, lagFlag, gone, shown, lastReg>>

\* The cancellation is read under the socket lock.
WriterCancelled(r) ==
  /\ wr[r] = "recv" /\ mail[r] # <<>> /\ sock[conn[r]] = 0 /\ cancelled[r]
  /\ Return(r) /\ Subtract(r, Head(mail[r]))
  /\ UNCHANGED <<lockVars, readVars, subVars, lagFlag, hand, netVars>>

\* The sender is gone and the mailbox empty.
WriterEnds(r) ==
  /\ wr[r] = "recv" /\ mail[r] = <<>> /\ r \notin subs
  /\ Return(r)
  /\ UNCHANGED <<lockVars, readVars, subVars, pend, lagFlag, hand, netVars>>

\* What the client makes of a line: a snapshot replaces its screen.
Render(screen, l) ==
  IF l.kind = "snap" THEN [i \in 1..l.upto |-> i]
  ELSE IF l.kind = "out" THEN Append(screen, l.upto) ELSE screen

\* write_all and flush return once the client has taken the line; whether the
\* task then loads lagged depends on what fetch_sub returned.
WriterWrites(r) ==
  LET c == conn[r] IN
  /\ wr[r] = "writing" /\ ~gone[c]
  /\ Writer(r, IF LastBytes(r) THEN "check" ELSE "recv")
  /\ Subtract(r, hand[r]) /\ hand' = [hand EXCEPT ![r] = StatusLine] /\ Unlock(c)
  /\ shown' = [shown EXCEPT ![c] = Render(@, hand[r])] /\ lastReg' = [lastReg EXCEPT ![c] = r]
  /\ UNCHANGED <<lockVars, readVars, subVars, mail, lagFlag, gone>>

WriterChecks(r) ==
  /\ wr[r] = "check"
  /\ Writer(r, "recv") /\ notify' = (notify \/ (lagFlag[r] /\ r >= base))
  /\ UNCHANGED <<lockVars, alive, mirrored, rd, owes, retry, subVars, mail, pend, lagFlag, hand,
                 netVars>>

\* The write fails: account for the line, notify if it was the last, return.
WriterFails(r) ==
  /\ wr[r] = "writing" /\ gone[conn[r]]
  /\ Return(r) /\ Subtract(r, hand[r]) /\ hand' = [hand EXCEPT ![r] = StatusLine]
  /\ Unlock(conn[r]) /\ notify' = (notify \/ (LastBytes(r) /\ lagFlag[r] /\ r >= base))
  /\ UNCHANGED <<lockVars, alive, mirrored, rd, owes, retry, subVars, lagFlag, gone, shown,
                 lastReg>>

-----------------------------------------------------------------------------
LockNext ==
  \/ \E r \in Regs : OfferClosed(r) \/ OfferLagged(r) \/ OfferQueue(r) \/ OfferOver(r)
  \/ MarkLagged \/ Recheck \/ EndJob

ReaderNext == ReadChunk \/ EmitStatus \/ NoStatus \/ Resync \/ RetryFires

ConnNext ==
  \/ \E c \in Conns : Attach(c) \/ Leave(c) \/ ClientGone(c)
  \/ Resize \/ SessionEnds \/ Respawn

WriterTask(r) ==
  \/ WriterTakes(r) \/ WriterCancelled(r) \/ WriterEnds(r)
  \/ WriterWrites(r) \/ WriterChecks(r) \/ WriterFails(r)

WriterNext == \E r \in Regs : WriterTask(r)

Next == LockNext \/ ReaderNext \/ ConnNext \/ WriterNext

Spec == Init /\ [][Next]_vars

-----------------------------------------------------------------------------
(* Safety.                                                                     *)

Larger(a, b) == IF a > b THEN a ELSE b

\* The mailboxes are bounded however slow a client is: live output never lifts
\* a backlog over the budget, a snapshot only enters an empty mailbox, and an
\* ended session adds one Exit.
MailboxBound ==
  \A r \in Regs :
    pend[r] <= Larger(Budget, SnapLen + StatusLen) + (IF r \in subs THEN 0 ELSE ExitLen)

\* What a client shows is at every moment a prefix of the session's output: no
\* chunk is missing, doubled or out of order, across attach, lag and resize.
ScreenIsPrefix ==
  \A c \in Conns : shown[c] = [i \in 1..Len(shown[c]) |-> i] /\ Len(shown[c]) <= mirrored

\* Once a registration has written, no line of an earlier one follows it on the
\* connection: its snapshot is the cutover.
CutoverClean == [][\A c \in Conns : lastReg'[c] >= lastReg[c]]_vars

-----------------------------------------------------------------------------
(* Liveness.  Daemon tasks run; a client that keeps its connection reads it;   *)
(* the fanout mutex is FIFO, so the reader is not overtaken for ever; snapshots *)
(* do not fail for ever.                                                        *)

FairSpec ==
  /\ Spec
  /\ WF_vars(LockNext) /\ WF_vars(NoStatus) /\ SF_vars(Resync) /\ SF_vars(Resync /\ lagSince' # lagSince)
  /\ WF_vars(RetryFires)
  /\ \A r \in Regs : WF_vars(WriterTask(r))

\* A lagged registration is brought back, whatever wake-up the race between its
\* writer and the reader lost.
LagResolves ==
  \A r \in Regs : (lagSince[r] /\ r \in subs) ~> (~lagSince[r] \/ r \notin subs \/ gone[conn[r]])

\* A client that lagged and stays registered comes to show whatever was read,
\* also if it was attached with a blank screen or snapshots failed meanwhile.
CatchesUp ==
  \A r \in Regs, n \in 1..MaxChunk :
    (r \in subs /\ lagSince[r] /\ mirrored = n)
      ~> (r \notin subs \/ gone[conn[r]] \/ Len(shown[conn[r]]) >= n)
===============================================================================
