----------------------------- MODULE FanoutProofs -----------------------------
(***************************************************************************)
(* The safety properties of Fanout, for every number of connections,       *)
(* registrations and chunks, every budget and every length of a line:      *)
(*                                                                         *)
(* MailboxesBounded    from the accounting of pending_bytes alone          *)
(* CutoversClean       from the order of the registrations of a connection *)
(* ScreensArePrefixes  from that order and from what the lines queued in a *)
(*                     mailbox do to the screen they are written behind    *)
(***************************************************************************)
EXTENDS Fanout, TLAPS

Bound == Larger(Budget, SnapLen + StatusLen)

\* Inductive: pending_bytes is taken as an integer, because that the writer
\* task subtracts no more than was added plays no part in the bound.
BoundInv ==
  /\ pend \in [Regs -> Int]
  /\ \A r \in Regs : pend[r] <= Bound + (IF r \in subs THEN 0 ELSE ExitLen)

\* Lines have a length, and the bound is above the budget and a snapshot.
LEMMA Lengths ==
  /\ \A l : LineLen(l) \in Nat
  /\ Budget \in Nat /\ SnapLen \in Nat /\ StatusLen \in Nat /\ ExitLen \in Nat
  /\ Bound \in Nat /\ Bound >= Budget /\ Bound >= SnapLen + StatusLen
BY FanoutConstants DEF LineLen, Bound, Larger

LEMMA BoundInit == Init => BoundInv
BY Lengths DEF Init, BoundInv

\* What leaves the accounting and the lists alone, or only drops registrations.
LEMMA BoundQuiet ==
  ASSUME BoundInv, pend' = pend, subs' \subseteq subs
  PROVE  BoundInv'
BY Lengths DEF BoundInv, Bound, Larger

\* enqueue_to_list: the chunk is only queued where it fits the budget.
LEMMA BoundLock == BoundInv /\ LockNext => BoundInv'
<1> SUFFICES ASSUME BoundInv, LockNext PROVE BoundInv'
  OBVIOUS
<1>1. ASSUME NEW r \in Regs, OfferClosed(r) PROVE BoundInv'
  BY <1>1, BoundQuiet DEF OfferClosed, boxVars
<1>2. ASSUME NEW r \in Regs, OfferLagged(r) PROVE BoundInv'
  BY <1>2, BoundQuiet DEF OfferLagged, boxVars, subVars
<1>3. ASSUME NEW r \in Regs, OfferQueue(r) PROVE BoundInv'
  <2>1. /\ pend' = [pend EXCEPT ![r] = pend[r] + LineLen(line)]
        /\ pend[r] + LineLen(line) <= Budget /\ subs' = subs
    BY <1>3 DEF OfferQueue, Queue, Fits, subVars
  <2> QED  BY <2>1, Lengths DEF BoundInv, Bound, Larger
<1>4. ASSUME NEW r \in Regs, OfferOver(r) PROVE BoundInv'
  BY <1>4, BoundQuiet DEF OfferOver, boxVars, subVars
<1>5. CASE MarkLagged
  BY <1>5, BoundQuiet DEF MarkLagged
<1>6. CASE Recheck
  BY <1>6, BoundQuiet DEF Recheck, boxVars, subVars
<1>7. CASE EndJob
  BY <1>7, BoundQuiet DEF EndJob, boxVars, subVars
<1> QED  BY <1>1, <1>2, <1>3, <1>4, <1>5, <1>6, <1>7 DEF LockNext

\* The reader: a snapshot only enters a mailbox whose backlog is zero.
LEMMA BoundReader == BoundInv /\ ReaderNext => BoundInv'
<1> SUFFICES ASSUME BoundInv, ReaderNext PROVE BoundInv'
  OBVIOUS
<1>1. CASE ReadChunk
  BY <1>1, BoundQuiet DEF ReadChunk, boxVars, subVars
<1>2. CASE EmitStatus
  BY <1>2, BoundQuiet DEF EmitStatus, boxVars, subVars
<1>3. CASE NoStatus
  BY <1>3, BoundQuiet DEF NoStatus, boxVars, subVars
<1>4. CASE Resync
  <2>1. subs' = subs
    BY <1>4 DEF Resync
  <2>2. CASE ResyncDrained
    <3>1. pend' = [r \in Regs |-> IF r \in Resynced THEN pend[r] + SnapLen + StatusLen
                                                   ELSE pend[r]]
      BY <2>2 DEF ResyncDrained, CountRecovery
    <3>2. \A r \in Resynced : r \in subs /\ pend[r] = 0
      BY DEF Resynced, Drained
    <3> QED  BY <2>1, <3>1, <3>2, Lengths DEF BoundInv, Bound, Larger
  <2>3. CASE UNCHANGED pend
    BY <2>1, <2>3, BoundQuiet
  <2> QED  BY <1>4, <2>2, <2>3 DEF Resync
<1>5. CASE RetryFires
  BY <1>5, BoundQuiet DEF RetryFires, boxVars, subVars
<1> QED  BY <1>1, <1>2, <1>3, <1>4, <1>5 DEF ReaderNext

\* Connections: a registration starts with one snapshot, and one Exit is added
\* to the mailboxes that leave the lists.
LEMMA BoundConn == BoundInv /\ ConnNext => BoundInv'
<1> SUFFICES ASSUME BoundInv, ConnNext PROVE BoundInv'
  OBVIOUS
<1>1. ASSUME NEW c \in Conns, Attach(c) PROVE BoundInv'
  <2>1. /\ pend' = [pend EXCEPT ![nextReg] = SnapLen + StatusLen]
        /\ subs' = (subs \ OfConn(c)) \cup {nextReg} /\ nextReg \in Regs
    BY <1>1 DEF Attach
  <2> QED  BY <2>1, Lengths DEF BoundInv, Bound, Larger
<1>2. ASSUME NEW c \in Conns, Leave(c) PROVE BoundInv'
  BY <1>2, BoundQuiet DEF Leave, boxVars
<1>3. ASSUME NEW c \in Conns, ClientGone(c) PROVE BoundInv'
  BY <1>3, BoundQuiet DEF ClientGone, boxVars, subVars
<1>4. CASE Resize
  BY <1>4, BoundQuiet DEF Resize, boxVars, subVars
<1>5. CASE SessionEnds
  <2> DEFINE told == subs \ {r \in subs : lagSince[r] \/ Closed(r)}
  <2>1. /\ pend' = [r \in Regs |-> IF r \in told THEN pend[r] + ExitLen ELSE pend[r]]
        /\ subs' = {}
    BY <1>5 DEF SessionEnds
  <2>2. told \subseteq subs
    OBVIOUS
  <2> HIDE DEF told
  <2> QED  BY <2>1, <2>2, Lengths DEF BoundInv, Bound, Larger
<1>6. CASE Respawn
  BY <1>6, BoundQuiet DEF Respawn, boxVars
<1> QED  BY <1>1, <1>2, <1>3, <1>4, <1>5, <1>6 DEF ConnNext

\* A writer task only ever subtracts.
LEMMA BoundWriter == BoundInv /\ WriterNext => BoundInv'
<1> SUFFICES ASSUME BoundInv, NEW r \in Regs, WriterTask(r) PROVE BoundInv'
  BY DEF WriterNext
<1>1. subs' = subs
  BY DEF WriterTask, WriterTakes, WriterCancelled, WriterEnds, WriterWrites, WriterChecks,
         WriterFails, subVars
<1>2. pend' = pend \/ \E l : Subtract(r, l)
  BY DEF WriterTask, WriterTakes, WriterCancelled, WriterEnds, WriterWrites, WriterChecks,
         WriterFails
<1>3. CASE pend' = pend
  BY <1>1, <1>3, BoundQuiet
<1>4. ASSUME NEW l, Subtract(r, l) PROVE BoundInv'
  <2>1. pend' = [pend EXCEPT ![r] = pend[r] - LineLen(l)]
    BY <1>4 DEF Subtract
  <2>2. LineLen(l) \in Nat
    BY Lengths
  <2> QED  BY <1>1, <2>1, <2>2, Lengths DEF BoundInv, Bound, Larger
<1> QED  BY <1>2, <1>3, <1>4

\* The mailboxes of fanout.rs are bounded however slow their clients are, whatever
\* the budget, the number of subscribers and the faults.
THEOREM MailboxesBounded == Spec => []MailboxBound
<1>1. BoundInv /\ [Next]_vars => BoundInv'
  <2>1. BoundInv /\ UNCHANGED vars => BoundInv'
    BY BoundQuiet DEF vars, boxVars, subVars
  <2> QED  BY <2>1, BoundLock, BoundReader, BoundConn, BoundWriter DEF Next
<1>2. BoundInv => MailboxBound
  BY DEF BoundInv, Bound, MailboxBound
<1> QED  BY BoundInit, <1>1, <1>2, PTL DEF Spec
-----------------------------------------------------------------------------
(* The order of the registrations of a connection.                           *)

\* A writer task that may still take a line.
Live(r) == wr[r] \in {"recv", "writing", "check"} /\ ~cancelled[r]

Shape ==
  /\ alive \in BOOLEAN /\ mirrored \in 0..MaxChunk
  /\ job \in {"free", "output", "status", "resize"} /\ line \in Lines
  /\ step \in {"load", "mark", "recheck"}
  /\ nextReg \in 1..(MaxReg + 1) /\ conn \in [Regs -> Conns]
  /\ subs \subseteq Regs /\ todo \subseteq subs
  /\ job = "free" => todo = {} /\ step = "load"
  /\ mail \in [Regs -> Seq(Lines)] /\ hand \in [Regs -> Lines]
  /\ lagSince \in [Regs -> BOOLEAN] /\ cancelled \in [Regs -> BOOLEAN]
  /\ wr \in [Regs -> {"none", "recv", "writing", "check", "ended"}]
  /\ sock \in [Conns -> 0..MaxReg] /\ lastReg \in [Conns -> 0..MaxReg]
  /\ shown \in [Conns -> Seq(Nat)]

\* Registrations are numbered as they are made; one not made yet is blank.
Numbered ==
  /\ \A r \in Regs : r >= nextReg => wr[r] = "none" /\ ~cancelled[r]
  /\ \A c \in Conns : lastReg[c] < nextReg
  /\ \A r \in subs : ~cancelled[r] /\ wr[r] # "none"
\* While the session lives its fanout lists every live task, one per connection.
Sole ==
  /\ \A r \in Regs : Live(r) /\ alive => r \in subs
  /\ ~alive => subs = {}
  /\ \A r, q \in Regs : Live(r) /\ Live(q) /\ conn[r] = conn[q] => r = q
\* The socket lock, and what was last written under it.
Locked == \A r \in Regs :
  /\ wr[r] = "writing" => sock[conn[r]] = r
  /\ wr[r] = "writing" \/ Live(r) => lastReg[conn[r]] <= r
\* A replaced task may finish its line, before its successor's first.
Cutover == \A r, q \in Regs :
  Live(r) /\ wr[q] = "writing" /\ conn[q] = conn[r] /\ q # r => q < r /\ lastReg[conn[r]] # r

Order == Numbered /\ Sole /\ Locked /\ Cutover

LEMMA Consts ==
  /\ MaxChunk \in Nat /\ MaxReg \in Nat /\ Regs \subseteq Nat \ {0}
  /\ \A r \in Regs : r \in 1..MaxReg /\ r \in 0..MaxReg
  /\ StatusLine \in Lines /\ ExitLine \in Lines
  /\ \A n \in 0..MaxChunk : OutLine(n) \in Lines /\ SnapLine(n) \in Lines
BY FanoutConstants DEF Regs, StatusLine, ExitLine, OutLine, SnapLine, Lines

LEMMA ShapeLock == Shape /\ LockNext => Shape'
<1> SUFFICES ASSUME Shape, LockNext PROVE Shape'
  OBVIOUS
<1> USE Consts DEF Shape
<1>1. ASSUME NEW r \in Regs, OfferClosed(r) PROVE Shape'
  BY <1>1 DEF OfferClosed, readVars, boxVars, netVars
<1>2. ASSUME NEW r \in Regs, OfferLagged(r) \/ OfferOver(r) PROVE Shape'
  BY <1>2 DEF OfferLagged, OfferOver, readVars, subVars, boxVars, netVars
<1>3. ASSUME NEW r \in Regs, OfferQueue(r) PROVE Shape'
  <2>1. mail' = [mail EXCEPT ![r] = mail[r] \o <<line>>] BY <1>3 DEF OfferQueue, Queue
  <2>2. mail[r] \o <<line>> \in Seq(Lines) OBVIOUS
  <2>3. mail' \in [Regs -> Seq(Lines)] BY <2>1, <2>2
  <2> QED BY <1>3, <2>3 DEF OfferQueue, readVars, subVars, netVars
<1>4. CASE MarkLagged
  BY <1>4 DEF MarkLagged, readVars, netVars
<1>5. CASE Recheck
  BY <1>5 DEF Recheck, readVars, subVars, boxVars, netVars
<1>6. CASE EndJob
  BY <1>6 DEF EndJob, subVars, boxVars, netVars
<1> QED BY <1>1, <1>2, <1>3, <1>4, <1>5, <1>6 DEF LockNext

LEMMA ShapeReader == Shape /\ ReaderNext => Shape'
<1> SUFFICES ASSUME Shape, ReaderNext PROVE Shape'
  OBVIOUS
<1> USE Consts DEF Shape
<1>1. CASE ReadChunk
  <2>1. mirrored + 1 \in 0..MaxChunk BY <1>1 DEF ReadChunk
  <2>2. OutLine(mirrored + 1) \in Lines BY <2>1
  <2> QED BY <1>1, <2>1, <2>2 DEF ReadChunk, StartJob, subVars, boxVars, netVars
<1>2. CASE EmitStatus
  BY <1>2 DEF EmitStatus, StartJob, readVars, subVars, boxVars, netVars
<1>3. CASE NoStatus \/ RetryFires
  BY <1>3 DEF NoStatus, RetryFires, lockVars, subVars, boxVars, netVars
<1>4. CASE Resync
  <2>1. mail' \in [Regs -> Seq(Lines)] /\ lagSince' \in [Regs -> BOOLEAN]
    <3>1. CASE ResyncDrained
      <4>1. Recovery \in Seq(Lines)
        <5>1. SnapLine(mirrored) \in Lines /\ StatusLine \in Lines OBVIOUS
        <5> QED BY <5>1 DEF Recovery
      <4>2. mail' = [r \in Regs |-> IF r \in Resynced THEN mail[r] \o Recovery ELSE mail[r]]
        BY <3>1 DEF ResyncDrained
      <4>3. \A r \in Regs : mail[r] \o Recovery \in Seq(Lines) BY <4>1
      <4>4. mail' \in [Regs -> Seq(Lines)] BY <4>2, <4>3
      <4> QED BY <3>1, <4>4 DEF ResyncDrained
    <3> QED BY <1>4, <3>1 DEF Resync
  <2> QED BY <1>4, <2>1 DEF Resync, lockVars, netVars
<1> QED BY <1>1, <1>2, <1>3, <1>4 DEF ReaderNext

LEMMA ShapeConn ==
  ASSUME "respawn" \notin Faults, Shape, ConnNext
  PROVE  Shape'
<1> USE Consts DEF Shape
<1>1. ASSUME NEW c \in Conns, Attach(c) PROVE Shape'
  <2>1. PICK n \in 0..MaxChunk : mail' = [mail EXCEPT ![nextReg] = <<SnapLine(n), StatusLine>>]
    <3>1. \E n \in {mirrored, 0} : mail' = [mail EXCEPT ![nextReg] = <<SnapLine(n), StatusLine>>]
      BY <1>1 DEF Attach
    <3>2. mirrored \in 0..MaxChunk /\ 0 \in 0..MaxChunk OBVIOUS
    <3> QED BY <3>1, <3>2
  <2>2. <<SnapLine(n), StatusLine>> \in Seq(Lines)
    <3>1. SnapLine(n) \in Lines /\ StatusLine \in Lines OBVIOUS
    <3> QED BY <3>1
  <2>3. mail' \in [Regs -> Seq(Lines)] BY <2>1, <2>2
  <2>4. /\ nextReg \in Regs /\ nextReg' = nextReg + 1 /\ subs' = (subs \ OfConn(c)) \cup {nextReg}
        /\ job = "free" /\ UNCHANGED <<lockVars, readVars, conn, lagSince, hand, netVars>>
    BY <1>1 DEF Attach
  <2>5. nextReg' \in 1..(MaxReg + 1) BY <2>4
  <2>6. cancelled' \in [Regs -> BOOLEAN] /\ wr' \in [Regs -> {"none", "recv", "writing", "check", "ended"}]
    BY <1>1 DEF Attach, Cancel
  <2> QED BY <2>3, <2>4, <2>5, <2>6 DEF lockVars, readVars, netVars
<1>2. ASSUME NEW c \in Conns, Leave(c) PROVE Shape'
  BY <1>2 DEF Leave, Cancel, lockVars, readVars, boxVars, netVars
<1>3. ASSUME NEW c \in Conns, ClientGone(c) PROVE Shape'
  BY <1>3 DEF ClientGone, lockVars, readVars, subVars, boxVars
<1>4. CASE Resize
  <2>1. SnapLine(mirrored) \in Lines OBVIOUS
  <2> QED BY <1>4, <2>1 DEF Resize, StartJob, readVars, subVars, boxVars, netVars
<1>5. CASE SessionEnds
  <2> DEFINE cut == {r \in subs : lagSince[r] \/ Closed(r)}
  <2>1. /\ mail' = [r \in Regs |-> IF r \in subs \ cut THEN Append(mail[r], ExitLine)
                                  ELSE IF r \in cut THEN <<>> ELSE mail[r]]
        /\ wr' = [r \in Regs |-> IF r \in cut THEN "ended" ELSE wr[r]]
        /\ sock' = [c \in Conns |-> IF sock[c] \in cut THEN 0 ELSE sock[c]]
        /\ alive' = FALSE /\ subs' = {} /\ job = "free"
        /\ UNCHANGED <<lockVars, mirrored, nextReg, conn, lagSince, cancelled, hand, shown, lastReg>>
    BY <1>5 DEF SessionEnds
  <2> HIDE DEF cut
  <2>2. \A r \in Regs : Append(mail[r], ExitLine) \in Seq(Lines) /\ <<>> \in Seq(Lines)
    OBVIOUS
  <2>3. mail' \in [Regs -> Seq(Lines)] BY <2>1, <2>2
  <2>4. wr' \in [Regs -> {"none", "recv", "writing", "check", "ended"}] BY <2>1
  <2>5. sock' \in [Conns -> 0..MaxReg] BY <2>1
  <2>6. todo' = {} /\ UNCHANGED <<job, line, step>> BY <2>1 DEF lockVars
  <2> QED BY <2>1, <2>3, <2>4, <2>5, <2>6
<1>6. ~Respawn BY DEF Respawn
<1> QED BY <1>1, <1>2, <1>3, <1>4, <1>5, <1>6 DEF ConnNext

LEMMA ShapeWriter ==
  ASSUME Shape, NEW r \in Regs, WriterTask(r)
  PROVE  Shape'
<1> USE Consts DEF Shape, Writer, Return, Unlock
<1>0. conn[r] \in Conns /\ UNCHANGED <<lockVars, alive, mirrored, subVars>>
  BY DEF WriterTask, WriterTakes, WriterCancelled, WriterEnds, WriterWrites, WriterChecks,
         WriterFails, readVars
<1>1. CASE WriterTakes(r)
  <2>1. Head(mail[r]) \in Lines /\ Tail(mail[r]) \in Seq(Lines) BY <1>1 DEF WriterTakes
  <2> QED BY <1>0, <1>1, <2>1 DEF WriterTakes, lockVars, subVars
<1>2. CASE WriterCancelled(r) \/ WriterEnds(r)
  <2>1. mail' = [mail EXCEPT ![r] = <<>>] /\ wr' = [wr EXCEPT ![r] = "ended"] /\ UNCHANGED <<hand, netVars>>
    BY <1>2 DEF WriterCancelled, WriterEnds
  <2>2. mail' \in [Regs -> Seq(Lines)] BY <2>1
  <2> QED BY <1>0, <2>1, <2>2 DEF lockVars, subVars, netVars
<1>3. CASE WriterWrites(r)
  <2>1. shown' = [shown EXCEPT ![conn[r]] = Render(shown[conn[r]], hand[r])] BY <1>3 DEF WriterWrites
  <2>2. hand[r].upto \in Nat BY DEF Lines
  <2>3. [i \in 1..hand[r].upto |-> i] \in Seq(Nat) BY <2>2
  <2>4. Append(shown[conn[r]], hand[r].upto) \in Seq(Nat) BY <1>0, <2>2
  <2>5. Render(shown[conn[r]], hand[r]) \in Seq(Nat) BY <1>0, <2>3, <2>4 DEF Render
  <2>6. shown' \in [Conns -> Seq(Nat)] BY <2>1, <2>5
  <2>7. /\ hand' \in [Regs -> Lines] /\ sock' \in [Conns -> 0..MaxReg] /\ lastReg' \in [Conns -> 0..MaxReg]
        /\ wr' \in [Regs -> {"none", "recv", "writing", "check", "ended"}] /\ mail' = mail
    BY <1>3 DEF WriterWrites
  <2> QED BY <1>0, <2>6, <2>7 DEF lockVars, subVars
<1>4. CASE WriterChecks(r)
  BY <1>0, <1>4 DEF WriterChecks, lockVars, subVars, netVars
<1>5. CASE WriterFails(r)
  <2>1. /\ hand' \in [Regs -> Lines] /\ sock' \in [Conns -> 0..MaxReg] /\ UNCHANGED <<shown, lastReg>>
        /\ wr' \in [Regs -> {"none", "recv", "writing", "check", "ended"}]
        /\ mail' = [mail EXCEPT ![r] = <<>>]
    BY <1>5 DEF WriterFails
  <2>2. mail' \in [Regs -> Seq(Lines)] BY <2>1
  <2> QED BY <1>0, <2>1, <2>2 DEF lockVars, subVars
<1> QED BY <1>1, <1>2, <1>3, <1>4, <1>5 DEF WriterTask

LEMMA ShapeStep ==
  ASSUME "respawn" \notin Faults, Shape, Next
  PROVE  Shape'
BY ShapeLock, ShapeReader, ShapeConn, ShapeWriter DEF Next, WriterNext
-----------------------------------------------------------------------------
\* Steps of the lock holder, the reader and most commands.
LEMMA OrderQuiet ==
  ASSUME Shape, Order, UNCHANGED <<alive, nextReg, conn, cancelled, wr, sock, lastReg>>,
         subs' \subseteq subs, \A r \in subs : r \notin subs' => Closed(r)
  PROVE  Order'
<1>1. \A r : Live(r)' <=> Live(r) BY DEF Live
<1>2. Numbered' BY DEF Shape, Order, Numbered
<1>3. Sole'
  <2>1. \A r \in Regs : Live(r) => ~Closed(r) BY DEF Live, Closed
  <2> QED BY <1>1, <2>1 DEF Order, Sole
<1>4. Locked' BY <1>1 DEF Order, Locked
<1>5. Cutover' BY <1>1 DEF Order, Cutover
<1> QED BY <1>2, <1>3, <1>4, <1>5 DEF Order

LEMMA OrderAttach ==
  ASSUME Shape, Order, NEW c \in Conns, Attach(c)
  PROVE  Order'
<1> PICK r \in Regs : r = nextReg
  BY DEF Attach
<1> DEFINE rs == OfConn(c)
<1>1. /\ alive /\ r = nextReg /\ conn[r] = c /\ nextReg' = r + 1 /\ subs' = (subs \ rs) \cup {r}
      /\ wr' = [wr EXCEPT ![r] = "recv"]
      /\ cancelled' = [q \in Regs |-> cancelled[q] \/ q \in rs]
      /\ UNCHANGED <<alive, conn, sock, lastReg>>
  BY DEF Attach, Cancel, readVars, netVars
<1>2. \A q \in Regs : cancelled'[q] <=> (cancelled[q] \/ q \in rs) BY <1>1
<1>3. wr'[r] = "recv" /\ \A q \in Regs : q # r => wr'[q] = wr[q] BY <1>1 DEF Shape
<1>4. \A q \in Regs : q < r \/ q = r \/ q >= r + 1 BY <1>1, Consts
<1>5. \A q \in Regs : wr[q] # "none" => q < r
  BY <1>1, <1>4, Consts DEF Order, Numbered
<1>6. r \notin subs /\ wr[r] = "none" /\ ~cancelled[r] /\ subs \subseteq Regs
  BY <1>1, Consts DEF Order, Numbered, Shape
<1>7. rs \subseteq subs /\ r \notin rs /\ \A q \in subs : conn[q] = c => q \in rs BY <1>6 DEF OfConn
<1> HIDE DEF rs
<1>8. Live(r)' BY <1>1, <1>2, <1>3, <1>6, <1>7 DEF Live
<1>9. \A q \in Regs : q # r /\ Live(q)' => Live(q) /\ q \in subs /\ q \notin rs /\ conn[q] # c
  <2>1. \A q \in Regs : q # r /\ Live(q)' => Live(q) /\ q \notin rs BY <1>2, <1>3 DEF Live
  <2> QED BY <1>1, <1>7, <2>1 DEF Order, Sole
<1>10. Numbered'
  <2>1. \A q \in Regs : q >= r + 1 => wr'[q] = "none" /\ ~cancelled'[q]
    <3> SUFFICES ASSUME NEW q \in Regs, q >= r + 1 PROVE wr'[q] = "none" /\ ~cancelled'[q]
      OBVIOUS
    <3>1. q # r /\ q >= r BY <1>1, Consts
    <3>2. wr[q] = "none" /\ ~cancelled[q] BY <3>1 DEF Order, Numbered
    <3>3. q \notin subs BY <3>2 DEF Order, Numbered
    <3> QED BY <1>2, <1>3, <1>7, <3>1, <3>2, <3>3
  <2>2. \A d \in Conns : lastReg[d] < r + 1
    <3>1. \A d \in Conns : lastReg[d] < r /\ lastReg[d] \in Nat BY Consts DEF Order, Numbered, Shape
    <3> QED BY <1>1, <3>1, Consts
  <2>3. \A q \in subs' : ~cancelled'[q] /\ wr'[q] # "none"
    BY <1>1, <1>2, <1>3, <1>6, <1>7 DEF Order, Numbered
  <2> QED BY <1>1, <2>1, <2>2, <2>3 DEF Numbered
<1>11. Sole'
  BY <1>1, <1>9 DEF Order, Sole
<1>12. Locked'
  <2> SUFFICES ASSUME NEW q \in Regs
               PROVE  /\ wr'[q] = "writing" => sock[conn[q]] = q
                      /\ wr'[q] = "writing" \/ Live(q)' => lastReg[conn[q]] <= q
    BY <1>1 DEF Locked
  <2>1. CASE q = r
    <3>1. lastReg[c] < r /\ lastReg[c] \in Nat BY Consts DEF Order, Numbered, Shape
    <3> QED BY <1>1, <1>3, <2>1, <3>1, Consts
  <2>2. CASE q # r BY <1>3, <1>9, <2>2 DEF Order, Locked
  <2> QED BY <2>1, <2>2
<1>13. Cutover'
  <2> SUFFICES ASSUME NEW p \in Regs, NEW q \in Regs, Live(p)', wr'[q] = "writing", conn[q] = conn[p], q # p
               PROVE  q < p /\ lastReg[conn[p]] # p
    BY <1>1 DEF Cutover
  <2>1. q # r /\ wr[q] = "writing" BY <1>3
  <2>2. CASE p = r
    <3>1. lastReg[c] < r BY DEF Order, Numbered
    <3> QED BY <1>1, <1>5, <2>1, <2>2, <3>1, Consts DEF Shape
  <2>3. CASE p # r BY <1>9, <2>1, <2>3 DEF Order, Cutover
  <2> QED BY <2>2, <2>3
<1> QED BY <1>10, <1>11, <1>12, <1>13 DEF Order

\* A step after which fewer tasks live and write than before.
LEMMA OrderFewer ==
  ASSUME Shape, Shape', Order, UNCHANGED <<nextReg, conn, lastReg>>,
         \A r \in Regs : /\ Live(r)' => Live(r)
                         /\ wr'[r] = "writing" => wr[r] = "writing" /\ sock'[conn[r]] = sock[conn[r]],
         alive' => alive /\ \A r \in Regs : Live(r)' /\ r \in subs => r \in subs',
         ~alive' => subs' = {},
         \A r \in Regs : r >= nextReg => wr'[r] = "none" /\ ~cancelled'[r],
         \A r \in subs' : ~cancelled'[r] /\ wr'[r] # "none"
  PROVE  Order'
<1>1. Numbered' BY DEF Order, Numbered
<1>2. Sole' BY DEF Order, Sole
<1>3. Locked' BY DEF Order, Locked
<1>4. Cutover' BY DEF Order, Cutover
<1> QED BY <1>1, <1>2, <1>3, <1>4 DEF Order

LEMMA OrderLeave ==
  ASSUME Shape, Shape', Order, NEW c \in Conns, Leave(c)
  PROVE  Order'
<1> DEFINE rs == OfConn(c)
<1>1. /\ subs' = subs \ rs /\ cancelled' = [q \in Regs |-> cancelled[q] \/ q \in rs]
      /\ UNCHANGED <<alive, nextReg, conn, wr, sock, lastReg>>
  BY DEF Leave, Cancel, readVars, boxVars, netVars
<1>2. \A q \in Regs : cancelled'[q] <=> (cancelled[q] \/ q \in rs) BY <1>1
<1>3. rs \subseteq subs BY DEF OfConn
<1> HIDE DEF rs
<1>4. \A q \in Regs : Live(q)' => Live(q) /\ q \notin rs BY <1>1, <1>2 DEF Live
<1>5. \A q \in Regs : q >= nextReg => wr'[q] = "none" /\ ~cancelled'[q]
  BY <1>1, <1>2, <1>3 DEF Order, Numbered
<1>6. \A q \in subs' : ~cancelled'[q] /\ wr'[q] # "none"
  BY <1>1, <1>2 DEF Order, Numbered, Shape
<1>7. ~alive' => subs' = {} BY <1>1 DEF Order, Sole
<1> QED BY <1>1, <1>4, <1>5, <1>6, <1>7, OrderFewer

LEMMA OrderEnds ==
  ASSUME Shape, Shape', Order, SessionEnds
  PROVE  Order'
<1> DEFINE cut == {r \in subs : lagSince[r] \/ Closed(r)}
<1>1. /\ wr' = [r \in Regs |-> IF r \in cut THEN "ended" ELSE wr[r]]
      /\ sock' = [c \in Conns |-> IF sock[c] \in cut THEN 0 ELSE sock[c]]
      /\ alive' = FALSE /\ subs' = {}
      /\ UNCHANGED <<nextReg, conn, cancelled, lastReg>>
  BY DEF SessionEnds
<1>2. cut \subseteq subs OBVIOUS
<1> HIDE DEF cut
<1>3. \A q \in Regs : Live(q)' => Live(q) BY <1>1 DEF Live
<1>4. \A q \in Regs : wr'[q] = "writing" => wr[q] = "writing" /\ sock'[conn[q]] = sock[conn[q]]
  BY <1>1 DEF Order, Locked, Shape
<1>5. \A q \in Regs : q >= nextReg => wr'[q] = "none" /\ ~cancelled'[q]
  BY <1>1, <1>2 DEF Order, Numbered
<1> QED BY <1>1, <1>3, <1>4, <1>5, OrderFewer

LEMMA OrderWriter ==
  ASSUME Shape, Shape', Order, NEW r \in Regs, WriterTask(r)
  PROVE  Order'
<1> DEFINE c == conn[r]
<1>0. c \in Conns /\ UNCHANGED <<alive, subs, nextReg, conn, cancelled>>
  BY DEF WriterTask, WriterTakes, WriterCancelled, WriterEnds, WriterWrites, WriterChecks,
         WriterFails, readVars, subVars, Shape
<1>n. wr[r] # "none" /\ wr'[r] # "none" /\ \A q \in Regs : q # r => wr'[q] = wr[q]
  <2>1. \E phase \in {"recv", "writing", "check", "ended"} : Writer(r, phase)
    BY DEF WriterTask, WriterTakes, WriterCancelled, WriterEnds, WriterWrites, WriterChecks,
           WriterFails, Return
  <2> QED BY <2>1 DEF WriterTask, WriterTakes, WriterCancelled, WriterEnds, WriterWrites, WriterChecks,
           WriterFails, Writer, Shape
<1>b. /\ \A q \in Regs : q >= nextReg => wr'[q] = "none" /\ ~cancelled'[q]
      /\ \A q \in subs' : ~cancelled'[q] /\ wr'[q] # "none"
      /\ ~alive' => subs' = {}
  BY <1>0, <1>n DEF Order, Numbered, Sole, Shape
\* The task goes on or returns without having had the socket.
<1>1. CASE WriterCancelled(r) \/ WriterEnds(r) \/ WriterChecks(r)
  <2>1. UNCHANGED <<sock, lastReg>> /\ wr'[r] # "writing"
    BY <1>1 DEF WriterCancelled, WriterEnds, WriterChecks, Return, Writer, netVars, Shape
  <2>2. wr[r] \in {"recv", "check"} BY <1>1 DEF WriterCancelled, WriterEnds, WriterChecks
  <2>3. \A q \in Regs : Live(q)' => Live(q) BY <1>0, <1>n, <2>2 DEF Live
  <2> QED BY <1>0, <1>n, <1>b, <2>1, <2>3, OrderFewer
<1>2. CASE WriterFails(r)
  <2>1. UNCHANGED lastReg /\ wr[r] = "writing" /\ wr'[r] = "ended" /\ sock' = [sock EXCEPT ![c] = 0]
    BY <1>2 DEF WriterFails, Return, Writer, Unlock, Shape
  <2>2. \A q \in Regs : Live(q)' => Live(q) BY <1>0, <1>n, <2>1 DEF Live
  <2>3. \A q \in Regs : wr'[q] = "writing" => wr[q] = "writing" /\ sock'[conn[q]] = sock[conn[q]]
    <3> SUFFICES ASSUME NEW q \in Regs, wr'[q] = "writing"
                 PROVE  wr[q] = "writing" /\ sock'[conn[q]] = sock[conn[q]]
      OBVIOUS
    <3>1. q # r /\ wr[q] = "writing" BY <1>n, <2>1
    <3>2. conn[q] # c BY <2>1, <3>1 DEF Order, Locked
    <3> QED BY <2>1, <3>1, <3>2 DEF Shape
  <2> QED BY <1>0, <1>b, <2>1, <2>2, <2>3, OrderFewer
<1>3. CASE WriterTakes(r)
  <2>1. /\ UNCHANGED lastReg /\ wr[r] = "recv" /\ wr'[r] = "writing" /\ ~cancelled[r]
        /\ sock[c] = 0 /\ sock' = [sock EXCEPT ![c] = r]
    BY <1>3 DEF WriterTakes, Writer, Shape
  <2>2. Live(r) /\ \A q \in Regs : Live(q)' => Live(q) BY <1>0, <1>n, <2>1 DEF Live
  <2>3. \A q \in Regs : wr'[q] = "writing" => q = r \/ (wr[q] = "writing" /\ conn[q] # c)
    BY <1>n, <2>1, Consts DEF Order, Locked
  <2>4. sock'[c] = r /\ \A d \in Conns : d # c => sock'[d] = sock[d] BY <1>0, <2>1 DEF Shape
  <2>5. Numbered' BY <1>0, <1>b, <2>1 DEF Order, Numbered
  <2>6. Sole' BY <1>0, <2>2 DEF Order, Sole
  <2>7. Locked' BY <1>0, <2>1, <2>2, <2>3, <2>4 DEF Order, Locked, Shape
  <2>8. Cutover' BY <1>0, <2>1, <2>2, <2>3 DEF Order, Sole, Cutover
  <2> QED BY <2>5, <2>6, <2>7, <2>8 DEF Order
<1>4. CASE WriterWrites(r)
  <2>1. /\ lastReg' = [lastReg EXCEPT ![c] = r] /\ wr[r] = "writing" /\ wr'[r] \in {"check", "recv"}
        /\ sock' = [sock EXCEPT ![c] = 0]
    BY <1>4 DEF WriterWrites, Writer, Unlock, Shape
  <2>2. \A q \in Regs : Live(q)' => Live(q) BY <1>0, <1>n, <2>1 DEF Live
  <2>3. \A q \in Regs : wr'[q] = "writing" => q # r /\ wr[q] = "writing" /\ conn[q] # c
    BY <1>n, <2>1 DEF Order, Locked
  <2>4. /\ lastReg'[c] = r
        /\ \A d \in Conns : d # c => sock'[d] = sock[d] /\ lastReg'[d] = lastReg[d]
    BY <1>0, <2>1 DEF Shape
  <2>5. \A q \in Regs : Live(q) /\ conn[q] = c => r <= q
    <3>1. \A q \in Regs : Live(q) /\ conn[q] = c /\ q # r => r < q BY <2>1 DEF Order, Cutover
    <3> QED BY <3>1, Consts
  <2>6. Numbered'
    <3>1. r < nextReg BY <1>n, Consts DEF Order, Numbered, Shape
    <3> QED BY <1>0, <1>b, <2>4, <3>1 DEF Order, Numbered
  <2>7. Sole' BY <1>0, <2>2 DEF Order, Sole
  <2>8. Locked'
    <3> SUFFICES ASSUME NEW q \in Regs
                 PROVE  /\ wr'[q] = "writing" => sock'[conn[q]] = q
                        /\ wr'[q] = "writing" \/ Live(q)' => lastReg'[conn[q]] <= q
      BY <1>0 DEF Locked
    <3>1. conn[q] \in Conns BY DEF Shape
    <3>2. CASE conn[q] = c BY <2>2, <2>3, <2>4, <2>5, <3>2
    <3>3. CASE conn[q] # c BY <2>2, <2>3, <2>4, <3>1, <3>3 DEF Order, Locked
    <3> QED BY <3>2, <3>3
  <2>9. Cutover' BY <1>0, <2>2, <2>3, <2>4 DEF Order, Cutover, Shape
  <2> QED BY <2>6, <2>7, <2>8, <2>9 DEF Order
<1> QED BY <1>1, <1>2, <1>3, <1>4 DEF WriterTask

LEMMA OrderStep ==
  ASSUME "respawn" \notin Faults, Shape, Order, Next
  PROVE  Order'
<1>s. Shape' BY ShapeStep
<1>1. CASE LockNext
  <2>1. /\ UNCHANGED <<alive, nextReg, conn, cancelled, wr, sock, lastReg>>
        /\ subs' \subseteq subs /\ \A r \in subs : r \notin subs' => Closed(r)
    BY <1>1 DEF LockNext, OfferClosed, OfferLagged, OfferQueue, OfferOver, MarkLagged, Recheck, EndJob,
       readVars, subVars, boxVars, netVars
  <2> QED BY <2>1, OrderQuiet
<1>2. CASE ReaderNext
  <2>1. /\ UNCHANGED <<alive, nextReg, conn, cancelled, wr, sock, lastReg, subs>>
    BY <1>2 DEF ReaderNext, ReadChunk, EmitStatus, NoStatus, Resync, RetryFires,
       readVars, subVars, boxVars, netVars
  <2> QED BY <2>1, OrderQuiet
<1>3. CASE Resize \/ \E c \in Conns : ClientGone(c)
  <2>1. /\ UNCHANGED <<alive, nextReg, conn, cancelled, wr, sock, lastReg, subs>>
    BY <1>3 DEF Resize, ClientGone, readVars, subVars, boxVars, netVars
  <2> QED BY <2>1, OrderQuiet
<1>4. CASE SessionEnds BY <1>s, <1>4, OrderEnds
<1>5. CASE \E c \in Conns : Attach(c) \/ Leave(c) BY <1>s, <1>5, OrderAttach, OrderLeave
<1>6. CASE WriterNext BY <1>s, <1>6, OrderWriter DEF WriterNext
<1>7. ~Respawn BY DEF Respawn
<1> QED BY <1>1, <1>2, <1>3, <1>4, <1>5, <1>6, <1>7 DEF Next, ConnNext

LEMMA OrderInvariant ==
  ASSUME "respawn" \notin Faults
  PROVE  Spec => [](Shape /\ Order)
<1>1. Init => Shape /\ Order
  <2> SUFFICES ASSUME Init PROVE Shape /\ Order
    OBVIOUS
  <2>1. Shape BY Consts DEF Init, Shape
  <2>2. \A r \in Regs : ~Live(r) BY DEF Init, Live
  <2>3. Order BY <2>2, Consts DEF Init, Order, Numbered, Sole, Locked, Cutover
  <2> QED BY <2>1, <2>3
<1>2. Shape /\ Order /\ [Next]_vars => (Shape /\ Order)'
  <2>1. Shape /\ Order /\ Next => (Shape /\ Order)' BY ShapeStep, OrderStep
  <2>2. Shape /\ UNCHANGED vars => Shape'
    BY DEF vars, lockVars, readVars, subVars, boxVars, netVars, Shape
  <2>3. Shape /\ Order /\ UNCHANGED vars => Order'
    BY OrderQuiet DEF vars, readVars, subVars, boxVars, netVars
  <2> QED BY <2>1, <2>2, <2>3
<1> QED BY <1>1, <1>2, PTL DEF Spec

\* Once a registration has written on a connection, no line of an earlier one
\* follows it, however attach, detach and the writer tasks interleave, as long
\* as the id is not spawned again.
THEOREM CutoversClean ==
  ASSUME "respawn" \notin Faults
  PROVE  Spec => CutoverClean
<1>1. Shape /\ Order /\ [Next]_vars => [\A c \in Conns : lastReg'[c] >= lastReg[c]]_vars
  <2> SUFFICES ASSUME Shape, Order, Next PROVE \A c \in Conns : lastReg'[c] >= lastReg[c]
    OBVIOUS
  <2>1. \A c \in Conns : lastReg[c] >= lastReg[c] BY DEF Shape
  <2>2. CASE UNCHANGED lastReg BY <2>1, <2>2
  <2>3. ASSUME NEW r \in Regs, WriterWrites(r) PROVE \A c \in Conns : lastReg'[c] >= lastReg[c]
    <3>1. lastReg' = [lastReg EXCEPT ![conn[r]] = r] /\ wr[r] = "writing" BY <2>3 DEF WriterWrites
    <3>2. lastReg[conn[r]] <= r /\ conn[r] \in Conns BY <3>1 DEF Order, Locked, Shape
    <3> QED BY <2>1, <3>1, <3>2, Consts DEF Shape
  <2>4. UNCHANGED lastReg \/ \E r \in Regs : WriterWrites(r)
    <3>1. LockNext => UNCHANGED lastReg
      BY DEF LockNext, OfferClosed, OfferLagged, OfferQueue, OfferOver, MarkLagged, Recheck, EndJob, netVars
    <3>2. ReaderNext => UNCHANGED lastReg
      BY DEF ReaderNext, ReadChunk, EmitStatus, NoStatus, Resync, RetryFires, netVars
    <3>3. ConnNext => UNCHANGED lastReg
      BY DEF ConnNext, Attach, Leave, ClientGone, Resize, SessionEnds, Respawn, netVars
    <3>4. WriterNext => UNCHANGED lastReg \/ \E r \in Regs : WriterWrites(r)
      BY DEF WriterNext, WriterTask, WriterTakes, WriterCancelled, WriterEnds, WriterChecks,
             WriterFails, netVars
    <3> QED BY <3>1, <3>2, <3>3, <3>4 DEF Next
  <2> QED BY <2>2, <2>3, <2>4
<1>2. Spec => [](Shape /\ Order) BY OrderInvariant
<1> QED BY <1>1, <1>2, PTL DEF Spec, CutoverClean
-----------------------------------------------------------------------------
(* What the lines of a mailbox do to a screen.                               *)
Screen(l) == l.kind \in {"out", "snap"}
\* Behind a screen of b chunks, the lines m never go back ...
Rise(m, b) ==
  /\ \A j \in 1..Len(m) : Screen(m[j]) => b <= m[j].upto
  /\ \A j \in 1..Len(m) : m[j].kind = "out" => b < m[j].upto
  /\ \A i, j \in 1..Len(m) : i < j /\ Screen(m[i]) /\ Screen(m[j]) => m[i].upto <= m[j].upto
  /\ \A i, j \in 1..Len(m) : i < j /\ Screen(m[i]) /\ m[j].kind = "out" => m[i].upto < m[j].upto
\* ... and every chunk finds the one before it on the screen.
Linked(m, b) ==
  \A j \in 1..Len(m) : m[j].kind = "out" =>
    b = m[j].upto - 1 \/ \E i \in 1..Len(m) : i < j /\ Screen(m[i]) /\ m[i].upto = m[j].upto - 1
Flow(m, b) == Rise(m, b) /\ Linked(m, b)
\* They bring the screen to n chunks.
Reach(m, b, n) ==
  /\ b <= n /\ \A j \in 1..Len(m) : Screen(m[j]) => m[j].upto <= n
  /\ b = n \/ \E i \in 1..Len(m) : Screen(m[i]) /\ m[i].upto = n

\* The screen behind which mail[r] comes; -1 before the first line of r.
Front(r) ==
  IF wr[r] = "writing" /\ Screen(hand[r]) THEN hand[r].upto
  ELSE IF wr[r] = "writing" \/ lastReg[conn[r]] = r THEN Len(shown[conn[r]]) ELSE -1
\* The chunks a registration has been given once its turn in the loop is over.
Given(r) == IF job = "output" /\ r \in todo THEN mirrored - 1 ELSE mirrored

JobInv ==
  /\ job = "output" => line = OutLine(mirrored) /\ mirrored >= 1
  /\ job = "status" => line = StatusLine
  /\ job = "resize" => line = SnapLine(mirrored)
  /\ step \in {"mark", "recheck"} => cur \in Regs
  /\ step = "recheck" => lagSince[cur]
\* Nothing is ahead of the terminal.
Within ==
  /\ \A r \in Regs : hand[r].upto <= mirrored /\ \A j \in 1..Len(mail[r]) : mail[r][j].upto <= mirrored
  /\ \A c \in Conns : Len(shown[c]) <= mirrored
InHand == \A r \in Regs : wr[r] = "writing" /\ hand[r].kind = "out" =>
  hand[r].upto = Len(shown[conn[r]]) + 1
Opening == \A r \in Regs : Live(r) /\ Front(r) = -1 =>
  wr[r] = "recv" /\ mail[r] # <<>> /\ mail[r][1].kind = "snap"
Streams == \A r \in Regs : Live(r) => Flow(mail[r], Front(r))
Reached == \A r \in Regs : Live(r) /\ r \in subs /\ ~lagSince[r] => Reach(mail[r], Front(r), Given(r))
Screens == \A c \in Conns : shown[c] = [i \in 1..Len(shown[c]) |-> i]

StreamInv == JobInv /\ Within /\ InHand /\ Opening /\ Streams /\ Reached /\ Screens

\* Adding one line at the end of a mailbox.
LEMMA Added ==
  ASSUME NEW m \in Seq(Lines), NEW l \in Lines
  PROVE  /\ m \o <<l>> \in Seq(Lines) /\ Len(m \o <<l>>) = Len(m) + 1 /\ Len(m) \in Nat
         /\ \A j \in 1..Len(m) : (m \o <<l>>)[j] = m[j]
         /\ (m \o <<l>>)[Len(m) + 1] = l
         /\ \A j \in 1..(Len(m) + 1) : j \in 1..Len(m) \/ j = Len(m) + 1
         /\ \A j \in 1..Len(m) : m[j] \in Lines /\ m[j].upto \in Nat /\ j < Len(m) + 1
<1>1. \A k \in Lines : k.upto \in Nat BY DEF Lines
<1> QED BY <1>1

\* A line that is no screen content changes nothing.
LEMMA FlowMute ==
  ASSUME NEW m \in Seq(Lines), NEW l \in Lines, ~Screen(l), NEW b \in Int
  PROVE  /\ Flow(m, b) => Flow(m \o <<l>>, b)
         /\ \A n \in Int : Reach(m, b, n) => Reach(m \o <<l>>, b, n)
<1> DEFINE a == m \o <<l>>
           k == Len(m) + 1
<1>1. /\ Len(a) = k /\ Len(m) \in Nat /\ k \in Nat
      /\ a[k] = l /\ l.kind # "out"
      /\ \A j \in 1..Len(m) : a[j] = m[j] /\ j < k /\ j \in 1..k
      /\ \A j \in 1..k : j \in 1..Len(m) \/ j = k
  BY Added DEF Screen
<1> HIDE DEF a, k
<1>2. Rise(m, b) => Rise(a, b) BY <1>1 DEF Rise
<1>3. Linked(m, b) => Linked(a, b) BY <1>1 DEF Linked
<1>4. \A n \in Int : Reach(m, b, n) => Reach(a, b, n) BY <1>1 DEF Reach
<1> QED BY <1>2, <1>3, <1>4 DEF Flow, a

\* A snapshot no older than everything before it is the new level.
LEMMA FlowLift ==
  ASSUME NEW m \in Seq(Lines), NEW l \in Lines, l.kind = "snap", NEW b \in Int, Flow(m, b),
         b <= l.upto, \A j \in 1..Len(m) : Screen(m[j]) => m[j].upto <= l.upto
  PROVE  Flow(m \o <<l>>, b) /\ Reach(m \o <<l>>, b, l.upto)
<1> DEFINE a == m \o <<l>>
           k == Len(m) + 1
<1>1. /\ Len(a) = k /\ Len(m) \in Nat /\ k \in Nat /\ k \in 1..k
      /\ a[k] = l /\ l.kind # "out" /\ Screen(l) /\ l.upto \in Nat
      /\ \A j \in 1..Len(m) : a[j] = m[j] /\ j < k /\ j \in 1..k
      /\ \A j \in 1..k : j \in 1..Len(m) \/ j = k
  BY Added DEF Screen, Lines
<1> HIDE DEF a, k
<1>2. Rise(a, b)
  <2>1. \A j \in 1..k : Screen(a[j]) => b <= a[j].upto BY <1>1 DEF Flow, Rise
  <2>2. \A j \in 1..k : a[j].kind = "out" => b < a[j].upto BY <1>1 DEF Flow, Rise
  <2>3. \A i, j \in 1..k : i < j /\ Screen(a[i]) /\ Screen(a[j]) => a[i].upto <= a[j].upto
    BY <1>1 DEF Flow, Rise
  <2>4. \A i, j \in 1..k : i < j /\ Screen(a[i]) /\ a[j].kind = "out" => a[i].upto < a[j].upto
    BY <1>1 DEF Flow, Rise
  <2> QED BY <1>1, <2>1, <2>2, <2>3, <2>4 DEF Rise
<1>3. Linked(a, b) BY <1>1 DEF Flow, Linked
<1>4. Reach(a, b, l.upto)
  <2>1. \A j \in 1..k : Screen(a[j]) => a[j].upto <= l.upto BY <1>1
  <2> QED BY <1>1, <2>1 DEF Reach
<1> QED BY <1>2, <1>3, <1>4 DEF Flow, a

\* A chunk right behind the level its mailbox reaches.
LEMMA FlowNext ==
  ASSUME NEW m \in Seq(Lines), NEW l \in Lines, l.kind = "out", NEW b \in Int, Flow(m, b),
         Reach(m, b, l.upto - 1)
  PROVE  Flow(m \o <<l>>, b) /\ Reach(m \o <<l>>, b, l.upto)
<1> DEFINE a == m \o <<l>>
           k == Len(m) + 1
<1>1. /\ Len(a) = k /\ Len(m) \in Nat /\ k \in Nat /\ k \in 1..k
      /\ a[k] = l /\ l.kind = "out" /\ Screen(l) /\ l.upto \in Nat
      /\ \A j \in 1..Len(m) : a[j] = m[j] /\ j < k /\ j \in 1..k /\ m[j].upto \in Nat
      /\ \A j \in 1..k : j \in 1..Len(m) \/ j = k
  <2>1. Screen(l) /\ l.upto \in Nat BY DEF Screen, Lines
  <2> QED BY <2>1, Added
<1>2. /\ b <= l.upto - 1 /\ \A j \in 1..Len(m) : Screen(m[j]) => m[j].upto <= l.upto - 1
      /\ b = l.upto - 1 \/ \E i \in 1..Len(m) : Screen(m[i]) /\ m[i].upto = l.upto - 1
  BY DEF Reach
<1> HIDE DEF a, k
<1>3. b < l.upto /\ \A j \in 1..Len(m) : Screen(m[j]) => m[j].upto < l.upto /\ m[j].upto <= l.upto
  BY <1>1, <1>2
<1>4. Rise(a, b)
  <2>1. \A j \in 1..k : Screen(a[j]) => b <= a[j].upto BY <1>1, <1>3 DEF Flow, Rise
  <2>2. \A j \in 1..k : a[j].kind = "out" => b < a[j].upto BY <1>1, <1>3 DEF Flow, Rise
  <2>3. \A i, j \in 1..k : i < j /\ Screen(a[i]) /\ Screen(a[j]) => a[i].upto <= a[j].upto
    BY <1>1, <1>3 DEF Flow, Rise
  <2>4. \A i, j \in 1..k : i < j /\ Screen(a[i]) /\ a[j].kind = "out" => a[i].upto < a[j].upto
    BY <1>1, <1>3 DEF Flow, Rise
  <2> QED BY <1>1, <2>1, <2>2, <2>3, <2>4 DEF Rise
<1>5. Linked(a, b)
  <2> SUFFICES ASSUME NEW j \in 1..k, a[j].kind = "out"
               PROVE  \/ b = a[j].upto - 1
                      \/ \E i \in 1..k : i < j /\ Screen(a[i]) /\ a[i].upto = a[j].upto - 1
    BY <1>1 DEF Linked
  <2>1. CASE j = k BY <1>1, <1>2, <2>1
  <2>2. CASE j \in 1..Len(m) BY <1>1, <2>2 DEF Flow, Linked
  <2> QED BY <1>1, <2>1, <2>2
<1>6. Reach(a, b, l.upto)
  <2>1. \A j \in 1..k : Screen(a[j]) => a[j].upto <= l.upto BY <1>1, <1>3
  <2> QED BY <1>1, <1>3, <2>1 DEF Reach
<1> QED BY <1>4, <1>5, <1>6 DEF Flow, a

\* Taking the first line.
LEMMA Taken ==
  ASSUME NEW m \in Seq(Lines), m # <<>>
  PROVE  /\ Tail(m) \in Seq(Lines) /\ Len(m) \in Nat /\ Len(m) >= 1 /\ Len(Tail(m)) = Len(m) - 1
         /\ Head(m) = m[1] /\ m[1] \in Lines /\ m[1].upto \in Nat /\ 1 \in 1..Len(m)
         /\ \A j \in 1..Len(Tail(m)) : Tail(m)[j] = m[j + 1] /\ j + 1 \in 1..Len(m) /\ 1 < j + 1
         /\ \A j \in 1..Len(m) : j = 1 \/ (j - 1 \in 1..Len(Tail(m)) /\ j > 1)
         /\ \A j \in 1..Len(m) : m[j].upto \in Nat
<1>1. \A k \in Lines : k.upto \in Nat BY DEF Lines
<1>2. Len(m) \in Nat /\ Len(m) >= 1 /\ Len(Tail(m)) = Len(m) - 1 /\ Tail(m) \in Seq(Lines)
  OBVIOUS
<1>3. Head(m) = m[1] /\ \A j \in 1..Len(m) : m[j] \in Lines
  OBVIOUS
<1>4. \A j \in 1..Len(Tail(m)) : Tail(m)[j] = m[j + 1] /\ j + 1 \in 1..Len(m) /\ 1 < j + 1
  <2>1. \A j \in 1..(Len(m) - 1) : Tail(m)[j] = m[j + 1] OBVIOUS
  <2>2. \A j \in 1..(Len(m) - 1) : j + 1 \in 1..Len(m) /\ 1 < j + 1 BY <1>2
  <2> QED BY <1>2, <2>1, <2>2
<1>5. \A j \in 1..Len(m) : j = 1 \/ (j - 1 \in 1..Len(Tail(m)) /\ j > 1)
  <2>1. \A j \in 1..Len(m) : j = 1 \/ (j - 1 \in 1..(Len(m) - 1) /\ j > 1) BY <1>2
  <2> QED BY <1>2, <2>1
<1>6. 1 \in 1..Len(m) BY <1>2
<1> QED BY <1>1, <1>2, <1>3, <1>4, <1>5, <1>6

LEMMA FlowSkip ==
  ASSUME NEW m \in Seq(Lines), m # <<>>, ~Screen(m[1]), NEW b \in Int
  PROVE  /\ Flow(m, b) => Flow(Tail(m), b)
         /\ \A n \in Int : Reach(m, b, n) => Reach(Tail(m), b, n)
<1> DEFINE t == Tail(m)
<1>1. /\ Len(t) \in Nat /\ Len(m) \in Nat
      /\ \A j \in 1..Len(t) : t[j] = m[j + 1] /\ j + 1 \in 1..Len(m) /\ 1 < j + 1
      /\ \A j \in 1..Len(m) : j = 1 \/ (j - 1 \in 1..Len(t) /\ t[j - 1] = m[j])
  BY Taken
<1> HIDE DEF t
<1>2. ASSUME Rise(m, b) PROVE Rise(t, b)
  <2>0. \A i, j \in 1..Len(t) : i < j => i + 1 < j + 1 BY <1>1
  <2>1. \A j \in 1..Len(t) : Screen(t[j]) => b <= t[j].upto BY <1>1, <1>2 DEF Rise
  <2>2. \A j \in 1..Len(t) : t[j].kind = "out" => b < t[j].upto BY <1>1, <1>2 DEF Rise
  <2>3. \A i, j \in 1..Len(t) : i < j /\ Screen(t[i]) /\ Screen(t[j]) => t[i].upto <= t[j].upto
    <3> SUFFICES ASSUME NEW i \in 1..Len(t), NEW j \in 1..Len(t), i < j, Screen(t[i]), Screen(t[j])
                 PROVE  t[i].upto <= t[j].upto
      OBVIOUS
    <3>1. i + 1 < j + 1 /\ t[i] = m[i + 1] /\ t[j] = m[j + 1] /\ i + 1 \in 1..Len(m) /\ j + 1 \in 1..Len(m)
      BY <1>1, <2>0
    <3> QED BY <1>2, <3>1 DEF Rise
  <2>4. \A i, j \in 1..Len(t) : i < j /\ Screen(t[i]) /\ t[j].kind = "out" => t[i].upto < t[j].upto
    <3> SUFFICES ASSUME NEW i \in 1..Len(t), NEW j \in 1..Len(t), i < j, Screen(t[i]), t[j].kind = "out"
                 PROVE  t[i].upto < t[j].upto
      OBVIOUS
    <3>1. i + 1 < j + 1 /\ t[i] = m[i + 1] /\ t[j] = m[j + 1] /\ i + 1 \in 1..Len(m) /\ j + 1 \in 1..Len(m)
      BY <1>1, <2>0
    <3> QED BY <1>2, <3>1 DEF Rise
  <2> QED BY <2>1, <2>2, <2>3, <2>4 DEF Rise
<1>3. Linked(m, b) => Linked(t, b)
  <2> SUFFICES ASSUME Linked(m, b), NEW j \in 1..Len(t), t[j].kind = "out"
               PROVE  \/ b = t[j].upto - 1
                      \/ \E i \in 1..Len(t) : i < j /\ Screen(t[i]) /\ t[i].upto = t[j].upto - 1
    BY DEF Linked
  <2>1. \/ b = t[j].upto - 1
        \/ \E i \in 1..Len(m) : i < j + 1 /\ Screen(m[i]) /\ m[i].upto = t[j].upto - 1
    <3>1. t[j] = m[j + 1] /\ j + 1 \in 1..Len(m) BY <1>1
    <3> QED BY <3>1 DEF Linked
  <2>2. ASSUME NEW i \in 1..Len(m), i < j + 1, Screen(m[i]), m[i].upto = t[j].upto - 1
        PROVE  \E h \in 1..Len(t) : h < j /\ Screen(t[h]) /\ t[h].upto = t[j].upto - 1
    <3>1. i - 1 \in 1..Len(t) /\ t[i - 1] = m[i] /\ i - 1 < j BY <1>1, <2>2
    <3> QED BY <2>2, <3>1
  <2> QED BY <2>1, <2>2
<1>4. ASSUME NEW n \in Int, Reach(m, b, n) PROVE Reach(t, b, n)
  <2>1. \A j \in 1..Len(t) : Screen(t[j]) => t[j].upto <= n BY <1>1, <1>4 DEF Reach
  <2>2. ASSUME NEW i \in 1..Len(m), Screen(m[i]), m[i].upto = n
        PROVE  \E h \in 1..Len(t) : Screen(t[h]) /\ t[h].upto = n
    BY <1>1, <2>2
  <2> QED BY <1>4, <2>1, <2>2 DEF Reach
<1> QED BY <1>2, <1>3, <1>4 DEF Flow, t

LEMMA FlowTake ==
  ASSUME NEW m \in Seq(Lines), m # <<>>, Screen(m[1]), NEW b \in Int, Flow(m, b)
  PROVE  /\ Flow(Tail(m), m[1].upto)
         /\ m[1].kind = "out" => m[1].upto = b + 1
         /\ \A n \in Int : Reach(m, b, n) => Reach(Tail(m), m[1].upto, n)
<1> DEFINE t == Tail(m)
<1>1. /\ Len(t) \in Nat /\ Len(m) \in Nat /\ 1 \in 1..Len(m) /\ m[1].upto \in Nat
      /\ \A j \in 1..Len(t) : t[j] = m[j + 1] /\ j + 1 \in 1..Len(m) /\ 1 < j + 1
      /\ \A j \in 1..Len(m) : j = 1 \/ (j - 1 \in 1..Len(t) /\ t[j - 1] = m[j] /\ j > 1)
      /\ \A j \in 1..Len(m) : m[j].upto \in Nat
  BY Taken
<1> HIDE DEF t
<1>2. Rise(t, m[1].upto)
  <2>0. \A i, j \in 1..Len(t) : i < j => i + 1 < j + 1 BY <1>1
  <2>1. \A j \in 1..Len(t) : Screen(t[j]) => m[1].upto <= t[j].upto BY <1>1 DEF Flow, Rise
  <2>2. \A j \in 1..Len(t) : t[j].kind = "out" => m[1].upto < t[j].upto BY <1>1 DEF Flow, Rise
  <2>3. \A i, j \in 1..Len(t) : i < j /\ Screen(t[i]) /\ Screen(t[j]) => t[i].upto <= t[j].upto
    <3> SUFFICES ASSUME NEW i \in 1..Len(t), NEW j \in 1..Len(t), i < j, Screen(t[i]), Screen(t[j])
                 PROVE  t[i].upto <= t[j].upto
      OBVIOUS
    <3>1. i + 1 < j + 1 /\ t[i] = m[i + 1] /\ t[j] = m[j + 1] /\ i + 1 \in 1..Len(m) /\ j + 1 \in 1..Len(m)
      BY <1>1, <2>0
    <3> QED BY <3>1 DEF Flow, Rise
  <2>4. \A i, j \in 1..Len(t) : i < j /\ Screen(t[i]) /\ t[j].kind = "out" => t[i].upto < t[j].upto
    <3> SUFFICES ASSUME NEW i \in 1..Len(t), NEW j \in 1..Len(t), i < j, Screen(t[i]), t[j].kind = "out"
                 PROVE  t[i].upto < t[j].upto
      OBVIOUS
    <3>1. i + 1 < j + 1 /\ t[i] = m[i + 1] /\ t[j] = m[j + 1] /\ i + 1 \in 1..Len(m) /\ j + 1 \in 1..Len(m)
      BY <1>1, <2>0
    <3> QED BY <3>1 DEF Flow, Rise
  <2> QED BY <2>1, <2>2, <2>3, <2>4 DEF Rise
<1>3. Linked(t, m[1].upto)
  <2> SUFFICES ASSUME NEW j \in 1..Len(t), t[j].kind = "out"
               PROVE  \/ m[1].upto = t[j].upto - 1
                      \/ \E i \in 1..Len(t) : i < j /\ Screen(t[i]) /\ t[i].upto = t[j].upto - 1
    BY DEF Linked
  <2>0. t[j] = m[j + 1] /\ j + 1 \in 1..Len(m) /\ 1 < j + 1 /\ t[j].upto \in Nat BY <1>1
  <2>1. \/ b = t[j].upto - 1
        \/ \E i \in 1..Len(m) : i < j + 1 /\ Screen(m[i]) /\ m[i].upto = t[j].upto - 1
    BY <2>0 DEF Flow, Linked
  <2>2. CASE b = t[j].upto - 1
    <3>1. b <= m[1].upto /\ m[1].upto < t[j].upto BY <1>1, <2>0 DEF Flow, Rise
    <3> QED BY <1>1, <2>0, <2>2, <3>1
  <2>3. ASSUME NEW i \in 1..Len(m), i < j + 1, Screen(m[i]), m[i].upto = t[j].upto - 1
        PROVE  \/ m[1].upto = t[j].upto - 1
               \/ \E h \in 1..Len(t) : h < j /\ Screen(t[h]) /\ t[h].upto = t[j].upto - 1
    <3>1. CASE i = 1 BY <2>3, <3>1
    <3>2. CASE i # 1
      <4>1. i - 1 \in 1..Len(t) /\ t[i - 1] = m[i] /\ i - 1 < j BY <1>1, <2>3, <3>2
      <4> QED BY <2>3, <4>1
    <3> QED BY <3>1, <3>2
  <2> QED BY <2>1, <2>2, <2>3
<1>4. ASSUME NEW n \in Int, Reach(m, b, n) PROVE Reach(t, m[1].upto, n)
  <2>1. \A j \in 1..Len(t) : Screen(t[j]) => t[j].upto <= n BY <1>1, <1>4 DEF Reach
  <2>2. m[1].upto <= n /\ b <= m[1].upto BY <1>1, <1>4 DEF Reach, Flow, Rise
  <2>3. CASE b = n BY <1>1, <2>1, <2>2, <2>3 DEF Reach
  <2>4. ASSUME NEW i \in 1..Len(m), Screen(m[i]), m[i].upto = n
        PROVE  m[1].upto = n \/ \E h \in 1..Len(t) : Screen(t[h]) /\ t[h].upto = n
    BY <1>1, <2>4
  <2> QED BY <1>4, <2>1, <2>2, <2>3, <2>4 DEF Reach
<1>5. ASSUME m[1].kind = "out" PROVE m[1].upto = b + 1
  <2>1. b = m[1].upto - 1 \/ \E i \in 1..Len(m) : i < 1 BY <1>1, <1>5 DEF Flow, Linked
  <2>2. \A i \in 1..Len(m) : ~(i < 1) BY <1>1
  <2> QED BY <1>1, <2>1, <2>2
<1> QED BY <1>2, <1>3, <1>4, <1>5 DEF Flow, t
-----------------------------------------------------------------------------
LEMMA FrontType ==
  ASSUME Shape, NEW r \in Regs
  PROVE  /\ Front(r) \in Int /\ Given(r) \in Int /\ mirrored \in Nat
         /\ conn[r] \in Conns /\ mail[r] \in Seq(Lines) /\ hand[r] \in Lines /\ hand[r].upto \in Nat
         /\ Len(shown[conn[r]]) \in Nat
         /\ Within => Front(r) <= mirrored
<1>1. conn[r] \in Conns /\ mail[r] \in Seq(Lines) /\ hand[r] \in Lines /\ mirrored \in Nat
  BY Consts DEF Shape
<1>2. hand[r].upto \in Nat BY <1>1 DEF Lines
<1>3. Len(shown[conn[r]]) \in Nat BY <1>1 DEF Shape
<1>4. Front(r) \in Int /\ Given(r) \in Int BY <1>1, <1>2, <1>3 DEF Front, Given
<1>5. Within => Front(r) <= mirrored BY <1>1, <1>2, <1>3 DEF Front, Within
<1> QED BY <1>1, <1>2, <1>3, <1>4, <1>5

LEMMA FrontSame ==
  ASSUME NEW r \in Regs, conn' = conn, lastReg'[conn[r]] = lastReg[conn[r]],
         shown'[conn[r]] = shown[conn[r]], wr'[r] = "writing" <=> wr[r] = "writing", hand'[r] = hand[r]
  PROVE  Front(r)' = Front(r)
BY DEF Front

\* Registrations whose mailbox and front a step leaves alone.
LEMMA FlowKept ==
  ASSUME Opening, Streams, Reached,
         NEW rs \in SUBSET Regs,
         \A r \in rs : Live(r)' =>
           /\ Live(r) /\ mail'[r] = mail[r] /\ Front(r)' = Front(r)
           /\ wr[r] = "recv" => wr'[r] = "recv"
           /\ r \in subs' /\ ~lagSince'[r] => r \in subs /\ ~lagSince[r] /\ Given(r)' = Given(r)
  PROVE  \A r \in rs : Live(r)' =>
           /\ Flow(mail'[r], Front(r)')
           /\ Front(r)' = -1 => wr'[r] = "recv" /\ mail'[r] # <<>> /\ mail'[r][1].kind = "snap"
           /\ r \in subs' /\ ~lagSince'[r] => Reach(mail'[r], Front(r)', Given(r)')
<1> SUFFICES ASSUME NEW r \in rs, Live(r)'
             PROVE  /\ Flow(mail'[r], Front(r)')
                    /\ Front(r)' = -1 => wr'[r] = "recv" /\ mail'[r] # <<>> /\ mail'[r][1].kind = "snap"
                    /\ r \in subs' /\ ~lagSince'[r] => Reach(mail'[r], Front(r)', Given(r)')
  OBVIOUS
<1>1. r \in Regs /\ Live(r) /\ mail'[r] = mail[r] /\ Front(r)' = Front(r) OBVIOUS
<1>2. Flow(mail'[r], Front(r)') BY <1>1 DEF Streams
<1>3. Front(r)' = -1 => wr'[r] = "recv" /\ mail'[r] # <<>> /\ mail'[r][1].kind = "snap"
  BY <1>1 DEF Opening
<1>4. r \in subs' /\ ~lagSince'[r] => Reach(mail'[r], Front(r)', Given(r)')
  BY <1>1 DEF Reached
<1> QED BY <1>2, <1>3, <1>4

\* The three parts about mailboxes, one registration at a time.
LEMMA FlowParts ==
  ASSUME \A r \in Regs : Live(r)' =>
           /\ Flow(mail'[r], Front(r)')
           /\ Front(r)' = -1 => wr'[r] = "recv" /\ mail'[r] # <<>> /\ mail'[r][1].kind = "snap"
           /\ r \in subs' /\ ~lagSince'[r] => Reach(mail'[r], Front(r)', Given(r)')
  PROVE  Opening' /\ Streams' /\ Reached'
BY DEF Opening, Streams, Reached

\* Steps that move no line.
LEMMA StreamQuiet ==
  ASSUME Shape, Shape', StreamInv, UNCHANGED <<mail, hand, wr, conn, shown, lastReg>>,
         mirrored' >= mirrored, JobInv', \A r \in Regs : Live(r)' => Live(r),
         \A r \in Regs : Live(r) /\ r \in subs' /\ ~lagSince'[r] =>
                           r \in subs /\ ~lagSince[r] /\ Given(r)' = Given(r)
  PROVE  StreamInv'
<1>1. \A r \in Regs : Front(r)' = Front(r) BY FrontSame
<1>2. \A r \in Regs : Live(r)' =>
           /\ Live(r) /\ mail'[r] = mail[r] /\ Front(r)' = Front(r)
           /\ wr[r] = "recv" => wr'[r] = "recv"
           /\ r \in subs' /\ ~lagSince'[r] => r \in subs /\ ~lagSince[r] /\ Given(r)' = Given(r)
  BY <1>1
<1>3. Opening' /\ Streams' /\ Reached' BY <1>2, FlowKept, FlowParts DEF StreamInv
<1>4. Within'
  <2>1. mirrored \in Nat /\ mirrored' \in Nat /\ \A n \in Int : n <= mirrored => n <= mirrored'
    BY Consts DEF Shape
  <2>2. \A r \in Regs : hand[r].upto \in Int /\ \A j \in 1..Len(mail[r]) : mail[r][j].upto \in Int
    <3>1. \A l \in Lines : l.upto \in Int BY DEF Lines
    <3> QED BY <3>1 DEF Shape
  <2>3. \A c \in Conns : Len(shown[c]) \in Int BY DEF Shape
  <2> QED BY <2>1, <2>2, <2>3 DEF StreamInv, Within
<1>5. InHand' /\ Screens' BY DEF StreamInv, InHand, Screens
<1> QED BY <1>3, <1>4, <1>5 DEF StreamInv

LEMMA StreamLock ==
  ASSUME Shape, Shape', Order, StreamInv, NEW r \in Regs,
         OfferClosed(r) \/ OfferLagged(r) \/ OfferOver(r)
  PROVE  StreamInv'
<1>1. /\ UNCHANGED <<mail, hand, wr, conn, shown, lastReg, mirrored, job, line, lagSince, cancelled>>
      /\ job # "free" /\ step = "load" /\ r \in todo /\ subs' \subseteq subs
  BY DEF OfferClosed, OfferLagged, OfferOver, readVars, subVars, boxVars, netVars
<1>2. mirrored' >= mirrored BY <1>1, Consts DEF Shape
<1>3. \A q \in Regs : Live(q)' => Live(q) BY <1>1 DEF Live
<1>4. JobInv' BY <1>1 DEF OfferClosed, OfferLagged, OfferOver, StreamInv, JobInv
<1>5. ASSUME NEW q \in Regs, Live(q), q \in subs', ~lagSince'[q]
      PROVE  q \in subs /\ ~lagSince[q] /\ Given(q)' = Given(q)
  <2>1. q \in todo' <=> q \in todo
    BY <1>1, <1>5 DEF OfferClosed, OfferLagged, OfferOver, Closed, SkipLagged, Live
  <2> QED BY <1>1, <1>5, <2>1 DEF Given
<1> QED BY <1>1, <1>2, <1>3, <1>4, <1>5, StreamQuiet

LEMMA StreamMark ==
  ASSUME Shape, Shape', Order, StreamInv, MarkLagged \/ Recheck \/ EndJob
  PROVE  StreamInv'
<1>1. /\ UNCHANGED <<mail, hand, wr, conn, shown, lastReg, mirrored, subs, cancelled>>
  BY DEF MarkLagged, Recheck, EndJob, readVars, subVars, boxVars, netVars
<1>2. mirrored' >= mirrored BY <1>1, Consts DEF Shape
<1>3. \A q \in Regs : Live(q)' => Live(q) BY <1>1 DEF Live
<1>4. CASE MarkLagged
  <2>1. /\ cur \in Regs /\ UNCHANGED <<job, line, todo, cur>> /\ step' = "recheck"
        /\ lagSince' = [lagSince EXCEPT ![cur] = TRUE]
    BY <1>4 DEF MarkLagged, StreamInv, JobInv
  <2>2. lagSince'[cur] /\ \A q \in Regs : ~lagSince'[q] => ~lagSince[q] BY <2>1 DEF Shape
  <2>3. JobInv' BY <1>1, <2>1, <2>2 DEF StreamInv, JobInv
  <2>4. \A q \in Regs : Given(q)' = Given(q) BY <1>1, <2>1 DEF Given
  <2> QED BY <1>1, <1>2, <1>3, <2>2, <2>3, <2>4, StreamQuiet
<1>5. CASE Recheck
  <2>1. /\ cur \in Regs /\ lagSince[cur] /\ UNCHANGED <<job, line, cur, lagSince>> /\ step' = "load"
        /\ todo' = todo \ {cur}
    BY <1>5 DEF Recheck, subVars, StreamInv, JobInv
  <2>2. JobInv' BY <1>1, <2>1 DEF StreamInv, JobInv
  <2>3. \A q \in Regs : ~lagSince[q] => Given(q)' = Given(q) BY <1>1, <2>1 DEF Given
  <2> QED BY <1>1, <1>2, <1>3, <2>1, <2>2, <2>3, StreamQuiet
<1>6. CASE EndJob
  <2>1. job' = "free" /\ todo = {} /\ UNCHANGED <<todo, lagSince>> /\ step = "load" /\ step' = "load"
    BY <1>6 DEF EndJob, subVars
  <2>2. JobInv' BY <2>1 DEF JobInv
  <2>3. \A q \in Regs : Given(q)' = Given(q) BY <1>1, <2>1 DEF Given
  <2> QED BY <1>1, <1>2, <1>3, <2>1, <2>2, <2>3, StreamQuiet
<1> QED BY <1>4, <1>5, <1>6

LEMMA StreamStart ==
  ASSUME Shape, Shape', Order, StreamInv, ReadChunk \/ EmitStatus \/ Resize
  PROVE  StreamInv'
<1>1. /\ UNCHANGED <<mail, hand, wr, conn, shown, lastReg, subs, cancelled, lagSince>>
      /\ job = "free" /\ todo' = subs /\ step' = "load"
  BY DEF ReadChunk, EmitStatus, Resize, StartJob, readVars, subVars, boxVars, netVars
<1>2. \A q \in Regs : Live(q)' => Live(q) BY <1>1 DEF Live
<1>3. mirrored \in Nat BY Consts DEF Shape
<1>4. CASE ReadChunk
  <2>1. mirrored' = mirrored + 1 /\ job' = "output" /\ line' = OutLine(mirrored')
    BY <1>4 DEF ReadChunk, StartJob
  <2>2. JobInv' BY <1>1, <1>3, <2>1 DEF JobInv
  <2>3. \A q \in Regs : q \in subs => Given(q)' = Given(q) BY <1>1, <1>3, <2>1 DEF Given
  <2> QED BY <1>1, <1>2, <1>3, <2>1, <2>2, <2>3, StreamQuiet
<1>5. CASE EmitStatus \/ Resize
  <2>1. /\ mirrored' = mirrored
        /\ \/ job' = "status" /\ line' = StatusLine
           \/ job' = "resize" /\ line' = SnapLine(mirrored)
    BY <1>5 DEF EmitStatus, Resize, StartJob, readVars
  <2>2. JobInv' BY <1>1, <2>1 DEF JobInv
  <2>3. \A q \in Regs : Given(q)' = Given(q) BY <1>1, <2>1 DEF Given
  <2> QED BY <1>1, <1>2, <1>3, <2>1, <2>2, <2>3, StreamQuiet
<1> QED BY <1>4, <1>5

LEMMA StreamStill ==
  ASSUME Shape, Shape', Order, StreamInv,
         NoStatus \/ RetryFires \/ (\E c \in Conns : Leave(c) \/ ClientGone(c)) \/ UNCHANGED vars
  PROVE  StreamInv'
<1>1. /\ UNCHANGED <<mail, hand, wr, conn, shown, lastReg, lagSince, job, line, todo, step, cur, mirrored>>
      /\ subs' \subseteq subs
  BY DEF NoStatus, RetryFires, Leave, ClientGone, lockVars, readVars, subVars, boxVars, netVars, vars
<1>2. mirrored' >= mirrored BY <1>1, Consts DEF Shape
<1>3. \A q \in Regs : Live(q)' => Live(q)
  <2>1. \A q \in Regs : cancelled[q] => cancelled'[q]
    BY DEF NoStatus, RetryFires, Leave, ClientGone, Cancel, subVars, vars
  <2> QED BY <1>1, <2>1 DEF Live
<1>4. JobInv' BY <1>1 DEF StreamInv, JobInv
<1>5. \A q \in Regs : Given(q)' = Given(q) BY <1>1 DEF Given
<1> QED BY <1>1, <1>2, <1>3, <1>4, <1>5, StreamQuiet
-----------------------------------------------------------------------------
\* No line of m is ahead of n.
Below(m, n) == \A j \in 1..Len(m) : m[j].upto <= n

LEMMA BelowAdd ==
  ASSUME NEW m \in Seq(Lines), NEW l \in Lines, NEW n \in Int, Below(m, n), l.upto <= n
  PROVE  Below(m \o <<l>>, n) /\ m \o <<l>> # <<>> /\ (m # <<>> => (m \o <<l>>)[1] = m[1])
<1>1. Below(m \o <<l>>, n)
  <2> DEFINE a == m \o <<l>>
  <2>1. /\ Len(a) = Len(m) + 1 /\ \A j \in 1..Len(m) : a[j] = m[j]
        /\ a[Len(m) + 1] = l /\ \A j \in 1..(Len(m) + 1) : j \in 1..Len(m) \/ j = Len(m) + 1
    BY Added
  <2> HIDE DEF a
  <2>2. Below(a, n) BY <2>1 DEF Below
  <2> QED BY <2>2 DEF a
<1>2. m \o <<l>> # <<>> BY Added
<1>3. m # <<>> => 1 \in 1..Len(m) BY Taken
<1> QED BY <1>1, <1>2, <1>3, Added

LEMMA StreamQueue ==
  ASSUME Shape, Shape', Order, StreamInv, NEW r \in Regs, OfferQueue(r)
  PROVE  StreamInv'
<1> DEFINE m == mail[r]
           f == Front(r)
<1>1. /\ UNCHANGED <<job, line, step, cur, mirrored, subs, conn, lagSince, cancelled, wr, hand, shown, lastReg>>
      /\ job # "free" /\ r \in todo /\ ~lagSince[r] /\ todo' = todo \ {r} /\ wr[r] # "ended"
      /\ mail' = [mail EXCEPT ![r] = m \o <<line>>]
  BY DEF OfferQueue, Queue, Closed, SkipLagged, readVars, subVars, netVars
<1>2. mail'[r] = m \o <<line>> /\ \A q \in Regs : q # r => mail'[q] = mail[q] BY <1>1 DEF Shape
<1>3. /\ f \in Int /\ m \in Seq(Lines) /\ mirrored \in Nat /\ line \in Lines /\ f <= mirrored
      /\ line.upto \in Nat
  <2>1. line \in Lines /\ Within BY DEF Shape, StreamInv
  <2>2. line.upto \in Nat BY <2>1 DEF Lines
  <2> QED BY <2>1, <2>2, FrontType
<1>4. Live(r) /\ r \in subs
  BY <1>1 DEF Shape, Order, Numbered, Live
<1>5. Flow(m, f) /\ Reach(m, f, Given(r)) /\ Below(m, mirrored)
  BY <1>1, <1>4 DEF StreamInv, Streams, Reached, Within, Below
<1>6. line.upto <= mirrored
  BY <1>1, <1>3 DEF StreamInv, JobInv, Shape, OutLine, StatusLine, SnapLine
<1>7. Flow(m \o <<line>>, f) /\ Reach(m \o <<line>>, f, mirrored)
  <2>1. CASE job = "output"
    <3>1. line.kind = "out" /\ line.upto = mirrored /\ Given(r) = mirrored - 1
      BY <1>1, <2>1 DEF StreamInv, JobInv, OutLine, Given
    <3> QED BY <1>3, <1>5, <3>1, FlowNext
  <2>2. CASE job = "status"
    <3>1. ~Screen(line) /\ Given(r) = mirrored
      BY <1>1, <2>2 DEF StreamInv, JobInv, StatusLine, Given, Screen
    <3> QED BY <1>3, <1>5, <3>1, FlowMute
  <2>3. CASE job = "resize"
    <3>1. line.kind = "snap" /\ line.upto = mirrored
      BY <1>1, <2>3 DEF StreamInv, JobInv, SnapLine
    <3>2. \A j \in 1..Len(m) : Screen(m[j]) => m[j].upto <= line.upto BY <1>5, <3>1 DEF Below
    <3> QED BY <1>3, <1>5, <3>1, <3>2, FlowLift
  <2> QED BY <1>1, <2>1, <2>2, <2>3 DEF Shape
<1>8. Below(m \o <<line>>, mirrored) /\ m \o <<line>> # <<>> /\ (m # <<>> => (m \o <<line>>)[1] = m[1])
  BY <1>3, <1>5, <1>6, BelowAdd
<1>9. f = -1 => wr[r] = "recv" /\ m # <<>> /\ m[1].kind = "snap" BY <1>4 DEF StreamInv, Opening
<1>10. Front(r)' = f /\ \A q \in Regs : Front(q)' = Front(q) BY <1>1, FrontSame
<1>11. Given(r)' = mirrored /\ \A q \in Regs : q # r => Given(q)' = Given(q) BY <1>1 DEF Given
<1> HIDE DEF m, f
<1>12. \A q \in Regs : Live(q)' => Live(q) BY <1>1 DEF Live
<1>13. Opening' /\ Streams' /\ Reached'
  <2>1. \A q \in Regs \ {r} : Live(q)' =>
           /\ Live(q) /\ mail'[q] = mail[q] /\ Front(q)' = Front(q)
           /\ wr[q] = "recv" => wr'[q] = "recv"
           /\ q \in subs' /\ ~lagSince'[q] => q \in subs /\ ~lagSince[q] /\ Given(q)' = Given(q)
    BY <1>1, <1>2, <1>10, <1>11, <1>12
  <2>2. \A q \in Regs \ {r} : Live(q)' =>
           /\ Flow(mail'[q], Front(q)')
           /\ Front(q)' = -1 => wr'[q] = "recv" /\ mail'[q] # <<>> /\ mail'[q][1].kind = "snap"
           /\ q \in subs' /\ ~lagSince'[q] => Reach(mail'[q], Front(q)', Given(q)')
    BY <2>1, FlowKept DEF StreamInv
  <2>3. /\ Flow(mail'[r], Front(r)')
        /\ Front(r)' = -1 => wr'[r] = "recv" /\ mail'[r] # <<>> /\ mail'[r][1].kind = "snap"
        /\ Reach(mail'[r], Front(r)', Given(r)')
    BY <1>1, <1>2, <1>7, <1>8, <1>9, <1>10, <1>11
  <2> QED BY <2>2, <2>3, FlowParts
<1>14. Within' BY <1>1, <1>2, <1>8 DEF StreamInv, Within, Below
<1>15. InHand' /\ Screens' BY <1>1 DEF StreamInv, InHand, Screens
<1>16. JobInv' BY <1>1 DEF StreamInv, JobInv
<1> QED BY <1>13, <1>14, <1>15, <1>16 DEF StreamInv

LEMMA StreamResync ==
  ASSUME "snapshotFails" \notin Faults, Shape, Shape', Order, StreamInv, Resync
  PROVE  StreamInv'
<1> DEFINE add(m) == (m \o <<SnapLine(mirrored)>>) \o <<StatusLine>>
<1>1. /\ UNCHANGED <<job, line, step, cur, todo, mirrored, subs, conn, cancelled, wr, hand, shown, lastReg>>
      /\ job = "free" /\ ResyncDrained
  BY DEF Resync, lockVars, netVars
<1>2. mirrored \in 0..MaxChunk /\ mirrored \in Nat BY Consts DEF Shape
<1>3. /\ SnapLine(mirrored) \in Lines /\ StatusLine \in Lines
      /\ SnapLine(mirrored).kind = "snap" /\ SnapLine(mirrored).upto = mirrored
      /\ ~Screen(StatusLine) /\ StatusLine.upto <= mirrored
  BY <1>2, Consts DEF SnapLine, StatusLine, Screen
<1>4. \A m \in Seq(Lines) : m \o Recovery = add(m)
  <2> SUFFICES ASSUME NEW m \in Seq(Lines) PROVE m \o <<SnapLine(mirrored), StatusLine>> = add(m)
    BY DEF Recovery
  <2> QED BY <1>3
<1>5. \A q \in Regs : mail'[q] = IF q \in Resynced THEN add(mail[q]) ELSE mail[q]
  <2>1. mail' = [q \in Regs |-> IF q \in Resynced THEN mail[q] \o Recovery ELSE mail[q]]
    BY <1>1 DEF ResyncDrained
  <2>2. \A q \in Regs : mail[q] \in Seq(Lines) BY DEF Shape
  <2> QED BY <1>4, <2>1, <2>2
<1>6. \A q \in Regs : (lagSince'[q] <=> lagSince[q] /\ q \notin Resynced) BY <1>1 DEF ResyncDrained
<1>7. ASSUME NEW q \in Regs
      PROVE  /\ Below(add(mail[q]), mirrored) /\ add(mail[q]) # <<>>
             /\ mail[q] # <<>> => add(mail[q])[1] = mail[q][1]
             /\ Flow(mail[q], Front(q)) => Flow(add(mail[q]), Front(q)) /\ Reach(add(mail[q]), Front(q), mirrored)
  <2> DEFINE m == mail[q]
             a == m \o <<SnapLine(mirrored)>>
  <2>1. m \in Seq(Lines) /\ Front(q) \in Int /\ Front(q) <= mirrored BY FrontType DEF StreamInv
  <2>2. Below(m, mirrored) BY DEF StreamInv, Within, Below
  <2>3. a \in Seq(Lines) BY <1>3, <2>1, Added
  <2>4. Below(a, mirrored) /\ a # <<>> /\ (m # <<>> => a[1] = m[1])
    BY <1>2, <1>3, <2>1, <2>2, BelowAdd
  <2>5. \A j \in 1..Len(m) : Screen(m[j]) => m[j].upto <= mirrored BY <2>2 DEF Below
  <2>6. Flow(m, Front(q)) => Flow(a, Front(q)) /\ Reach(a, Front(q), mirrored)
    BY <1>3, <2>1, <2>5, FlowLift
  <2>7. add(m) = a \o <<StatusLine>> OBVIOUS
  <2> HIDE DEF a, add
  <2>8. Below(add(m), mirrored) /\ add(m) # <<>> /\ add(m)[1] = a[1]
    BY <1>2, <1>3, <2>3, <2>4, <2>7, BelowAdd
  <2>9. Flow(a, Front(q)) /\ Reach(a, Front(q), mirrored) =>
          Flow(add(m), Front(q)) /\ Reach(add(m), Front(q), mirrored)
    BY <1>2, <1>3, <2>1, <2>3, <2>7, FlowMute
  <2> QED BY <2>4, <2>6, <2>8, <2>9
<1> HIDE DEF add
<1>8. \A q \in Regs : Front(q)' = Front(q) BY <1>1, FrontSame
<1>9. \A q \in Regs : Given(q)' = Given(q) /\ Given(q) = mirrored BY <1>1 DEF Given
<1>10. \A q \in Regs : Live(q)' => Live(q) BY <1>1 DEF Live
<1>11. Opening' /\ Streams' /\ Reached'
  <2>1. \A q \in Regs \ Resynced : Live(q)' =>
           /\ Live(q) /\ mail'[q] = mail[q] /\ Front(q)' = Front(q)
           /\ wr[q] = "recv" => wr'[q] = "recv"
           /\ q \in subs' /\ ~lagSince'[q] => q \in subs /\ ~lagSince[q] /\ Given(q)' = Given(q)
    BY <1>1, <1>5, <1>6, <1>8, <1>9, <1>10
  <2>2. \A q \in Regs \ Resynced : Live(q)' =>
           /\ Flow(mail'[q], Front(q)')
           /\ Front(q)' = -1 => wr'[q] = "recv" /\ mail'[q] # <<>> /\ mail'[q][1].kind = "snap"
           /\ q \in subs' /\ ~lagSince'[q] => Reach(mail'[q], Front(q)', Given(q)')
    BY <2>1, FlowKept DEF StreamInv
  <2>3. ASSUME NEW q \in Regs, q \in Resynced, Live(q)'
        PROVE  /\ Flow(mail'[q], Front(q)')
               /\ Front(q)' = -1 => wr'[q] = "recv" /\ mail'[q] # <<>> /\ mail'[q][1].kind = "snap"
               /\ Reach(mail'[q], Front(q)', Given(q)')
    <3>1. Live(q) /\ mail'[q] = add(mail[q]) /\ Front(q)' = Front(q) /\ Given(q)' = mirrored /\ wr'[q] = wr[q]
      BY <1>1, <1>5, <1>8, <1>9, <1>10, <2>3
    <3>2. Flow(mail[q], Front(q)) BY <3>1 DEF StreamInv, Streams
    <3>3. Front(q) = -1 => wr[q] = "recv" /\ mail[q] # <<>> /\ mail[q][1].kind = "snap"
      BY <3>1 DEF StreamInv, Opening
    <3> QED BY <1>7, <3>1, <3>2, <3>3
  <2> QED BY <2>2, <2>3, FlowParts
<1>12. Within' BY <1>1, <1>5, <1>7 DEF StreamInv, Within, Below
<1>13. InHand' /\ Screens' BY <1>1 DEF StreamInv, InHand, Screens
<1>14. JobInv' BY <1>1 DEF StreamInv, JobInv, Shape
<1> QED BY <1>11, <1>12, <1>13, <1>14 DEF StreamInv

LEMMA StreamEnds ==
  ASSUME Shape, Shape', Order, StreamInv, SessionEnds
  PROVE  StreamInv'
<1> DEFINE cut == {r \in subs : lagSince[r] \/ Closed(r)}
<1>1. /\ mail' = [r \in Regs |-> IF r \in subs \ cut THEN Append(mail[r], ExitLine)
                                ELSE IF r \in cut THEN <<>> ELSE mail[r]]
      /\ wr' = [r \in Regs |-> IF r \in cut THEN "ended" ELSE wr[r]]
      /\ subs' = {} /\ job = "free"
      /\ UNCHANGED <<lockVars, mirrored, conn, lagSince, cancelled, hand, shown, lastReg>>
  BY DEF SessionEnds
<1> HIDE DEF cut
<1>2. UNCHANGED <<job, line, step, cur, todo>> BY <1>1 DEF lockVars
<1>3. mirrored \in Nat /\ ExitLine \in Lines /\ ~Screen(ExitLine) /\ ExitLine.upto <= mirrored
  BY Consts DEF Shape, ExitLine, Screen
<1>4. \A q \in Regs : Live(q)' => Live(q) /\ q \notin cut /\ wr'[q] = wr[q] BY <1>1 DEF Live
<1>5. ASSUME NEW q \in Regs
      PROVE  \/ mail'[q] = <<>> /\ q \in cut
             \/ mail'[q] = mail[q]
             \/ mail'[q] = mail[q] \o <<ExitLine>>
  <2>1. mail[q] \in Seq(Lines) BY DEF Shape
  <2>2. Append(mail[q], ExitLine) = mail[q] \o <<ExitLine>> BY <1>3, <2>1
  <2> QED BY <1>1, <2>2
<1>6. ASSUME NEW q \in Regs, Live(q)' PROVE Front(q)' = Front(q)
  BY <1>1, <1>4, <1>6, FrontSame
<1>7. ASSUME NEW q \in Regs
      PROVE  Below(mail'[q], mirrored)
  <2>1. mail[q] \in Seq(Lines) /\ Below(mail[q], mirrored) BY DEF Shape, StreamInv, Within, Below
  <2>2. Below(mail[q] \o <<ExitLine>>, mirrored) BY <1>3, <2>1, BelowAdd
  <2>3. Below(<<>>, mirrored) BY DEF Below
  <2> QED BY <1>5, <2>1, <2>2, <2>3
<1>8. ASSUME NEW q \in Regs, Live(q)'
      PROVE  /\ Flow(mail'[q], Front(q)')
             /\ Front(q)' = -1 => wr'[q] = "recv" /\ mail'[q] # <<>> /\ mail'[q][1].kind = "snap"
  <2>1. /\ mail[q] \in Seq(Lines) /\ Below(mail[q], mirrored) /\ Front(q) \in Int
        /\ Live(q) /\ wr'[q] = wr[q] /\ Front(q)' = Front(q)
    BY <1>4, <1>6, <1>8, FrontType DEF StreamInv, Within, Below
  <2>2. Flow(mail[q], Front(q)) BY <2>1 DEF StreamInv, Streams
  <2>3. Front(q) = -1 => wr[q] = "recv" /\ mail[q] # <<>> /\ mail[q][1].kind = "snap"
    BY <2>1 DEF StreamInv, Opening
  <2>4. CASE mail'[q] = mail[q] BY <2>1, <2>2, <2>3, <2>4
  <2>5. CASE mail'[q] = mail[q] \o <<ExitLine>>
    <3>1. Flow(mail'[q], Front(q)) BY <1>3, <2>1, <2>2, <2>5, FlowMute
    <3>2. mail'[q] # <<>> /\ (mail[q] # <<>> => mail'[q][1] = mail[q][1])
      BY <1>3, <2>1, <2>5, BelowAdd
    <3> QED BY <2>1, <2>3, <3>1, <3>2
  <2> QED BY <1>4, <1>5, <1>8, <2>4, <2>5
<1>9. Opening' /\ Streams' /\ Reached' BY <1>1, <1>8, FlowParts
<1>10. Within' BY <1>1, <1>7 DEF StreamInv, Within, Below
<1>11. InHand'
  <2>1. \A q \in Regs : wr'[q] = "writing" => wr[q] = "writing" BY <1>1
  <2> QED BY <1>1, <2>1 DEF StreamInv, InHand
<1>12. Screens' BY <1>1 DEF StreamInv, Screens
<1>13. JobInv' BY <1>1, <1>2 DEF StreamInv, JobInv
<1> QED BY <1>9, <1>10, <1>11, <1>12, <1>13 DEF StreamInv

LEMMA StreamAttach ==
  ASSUME "snapshotFails" \notin Faults, Shape, Shape', Order, StreamInv, NEW c \in Conns, Attach(c)
  PROVE  StreamInv'
<1> PICK r \in Regs : r = nextReg
  BY DEF Attach
<1> DEFINE two == <<SnapLine(mirrored), StatusLine>>
<1>1. /\ job = "free" /\ conn[r] = c /\ subs' = (subs \ OfConn(c)) \cup {r}
      /\ wr' = [wr EXCEPT ![r] = "recv"] /\ mail' = [mail EXCEPT ![r] = two]
      /\ cancelled' = [q \in Regs |-> cancelled[q] \/ q \in OfConn(c)]
      /\ UNCHANGED <<lockVars, mirrored, conn, lagSince, hand, shown, lastReg>>
  BY DEF Attach, Cancel, readVars, netVars
<1>2. UNCHANGED <<job, line, step, cur, todo>> BY <1>1 DEF lockVars
<1>3. mirrored \in 0..MaxChunk /\ mirrored \in Nat BY Consts DEF Shape
<1>4. /\ SnapLine(mirrored) \in Lines /\ StatusLine \in Lines
      /\ SnapLine(mirrored).kind = "snap" /\ SnapLine(mirrored).upto = mirrored
      /\ ~Screen(StatusLine) /\ StatusLine.upto <= mirrored
  BY <1>3, Consts DEF SnapLine, StatusLine, Screen
<1>5. /\ Below(two, mirrored) /\ two # <<>> /\ two[1].kind = "snap"
      /\ Flow(two, -1) /\ Reach(two, -1, mirrored)
  <2>0. PICK e \in Seq(Lines) : e = <<>>
    <3>1. <<>> \in Seq(Lines) OBVIOUS
    <3> QED BY <3>1
  <2> DEFINE one == e \o <<SnapLine(mirrored)>>
  <2>1. two = one \o <<StatusLine>> BY <1>4, <2>0
  <2>2. Flow(e, -1) /\ -1 \in Int /\ -1 <= mirrored /\ Below(e, mirrored) /\ \A j \in 1..Len(e) : FALSE
    BY <1>3, <2>0 DEF Flow, Rise, Linked, Below
  <2>4. one \in Seq(Lines) BY <1>4, Added
  <2>5. Flow(one, -1) /\ Reach(one, -1, mirrored) BY <1>4, <2>2, FlowLift
  <2>6. Below(one, mirrored) BY <1>3, <1>4, <2>2, BelowAdd
  <2>7. two[1] = SnapLine(mirrored) /\ two # <<>> OBVIOUS
  <2> HIDE DEF one, two
  <2>8. Below(two, mirrored) BY <1>3, <1>4, <2>1, <2>4, <2>6, BelowAdd
  <2>9. Flow(two, -1) /\ Reach(two, -1, mirrored) BY <1>3, <1>4, <2>1, <2>2, <2>4, <2>5, FlowMute
  <2> QED BY <1>4, <2>7, <2>8, <2>9
<1> HIDE DEF two
<1>6. /\ mail'[r] = two /\ wr'[r] = "recv"
      /\ \A q \in Regs : q # r => mail'[q] = mail[q] /\ wr'[q] = wr[q]
  BY <1>1 DEF Shape
<1>7. lastReg[c] # r
  <2>1. lastReg[c] < r /\ lastReg[c] \in Nat BY Consts DEF Order, Numbered, Shape
  <2> QED BY <2>1, Consts
<1>8. Front(r)' = -1 BY <1>1, <1>6, <1>7 DEF Front
<1>9. Given(r)' = mirrored /\ \A q \in Regs : Given(q)' = Given(q) BY <1>1, <1>2 DEF Given
<1>10. \A q \in Regs : q # r => Front(q)' = Front(q) BY <1>1, <1>6, FrontSame
<1>11. \A q \in Regs : q # r /\ Live(q)' => Live(q)
  <2>1. \A q \in Regs : cancelled[q] => cancelled'[q] BY <1>1
  <2> QED BY <1>6, <2>1 DEF Live
<1>12. Opening' /\ Streams' /\ Reached'
  <2>1. \A q \in Regs \ {r} : Live(q)' =>
           /\ Live(q) /\ mail'[q] = mail[q] /\ Front(q)' = Front(q)
           /\ wr[q] = "recv" => wr'[q] = "recv"
           /\ q \in subs' /\ ~lagSince'[q] => q \in subs /\ ~lagSince[q] /\ Given(q)' = Given(q)
    BY <1>1, <1>6, <1>9, <1>10, <1>11
  <2>2. \A q \in Regs \ {r} : Live(q)' =>
           /\ Flow(mail'[q], Front(q)')
           /\ Front(q)' = -1 => wr'[q] = "recv" /\ mail'[q] # <<>> /\ mail'[q][1].kind = "snap"
           /\ q \in subs' /\ ~lagSince'[q] => Reach(mail'[q], Front(q)', Given(q)')
    BY <2>1, FlowKept DEF StreamInv
  <2>3. /\ Flow(mail'[r], Front(r)')
        /\ Front(r)' = -1 => wr'[r] = "recv" /\ mail'[r] # <<>> /\ mail'[r][1].kind = "snap"
        /\ Reach(mail'[r], Front(r)', Given(r)')
    BY <1>5, <1>6, <1>8, <1>9
  <2> QED BY <2>2, <2>3, FlowParts
<1>13. Within' BY <1>1, <1>5, <1>6 DEF StreamInv, Within, Below
<1>14. InHand' BY <1>1, <1>6 DEF StreamInv, InHand
<1>15. Screens' BY <1>1 DEF StreamInv, Screens
<1>16. JobInv' BY <1>1, <1>2 DEF StreamInv, JobInv
<1> QED BY <1>12, <1>13, <1>14, <1>15, <1>16 DEF StreamInv
-----------------------------------------------------------------------------
LEMMA StreamTakes ==
  ASSUME Shape, Shape', Order, StreamInv, NEW r \in Regs, WriterTakes(r)
  PROVE  StreamInv'
<1> DEFINE m == mail[r]
           f == Front(r)
           s == Len(shown[conn[r]])
<1>1. /\ wr[r] = "recv" /\ m # <<>> /\ ~cancelled[r]
      /\ hand' = [hand EXCEPT ![r] = Head(m)] /\ mail' = [mail EXCEPT ![r] = Tail(m)]
      /\ wr' = [wr EXCEPT ![r] = "writing"]
      /\ UNCHANGED <<lockVars, mirrored, subs, conn, lagSince, cancelled, shown, lastReg>>
  BY DEF WriterTakes, Writer, readVars, subVars
<1>2. UNCHANGED <<job, line, step, cur, todo>> BY <1>1 DEF lockVars
<1>3. /\ mail'[r] = Tail(m) /\ hand'[r] = m[1] /\ wr'[r] = "writing"
      /\ \A q \in Regs : q # r => mail'[q] = mail[q] /\ hand'[q] = hand[q] /\ wr'[q] = wr[q]
  BY <1>1 DEF Shape
<1>4. Live(r) /\ \A q \in Regs : Live(q)' => Live(q) BY <1>1, <1>3 DEF Live
<1>5. f \in Int /\ s \in Nat /\ m \in Seq(Lines) /\ m[1].upto \in Nat /\ f <= mirrored
  BY <1>1, FrontType, Taken DEF StreamInv
<1>6. Flow(m, f) /\ (f = -1 => m[1].kind = "snap") /\ Below(m, mirrored)
  BY <1>4 DEF StreamInv, Streams, Opening, Within, Below
<1>7. f = s \/ f = -1 BY <1>1 DEF Front
<1>8. Front(r)' = IF Screen(m[1]) THEN m[1].upto ELSE s BY <1>1, <1>3 DEF Front
<1>9. \A q \in Regs : Given(q)' = Given(q) /\ Given(q) \in Int BY <1>1, <1>2, FrontType DEF Given
<1>10. r \in subs /\ ~lagSince[r] => Reach(m, f, Given(r)) BY <1>4 DEF StreamInv, Reached
<1>11. /\ Flow(Tail(m), Front(r)') /\ Front(r)' # -1
       /\ r \in subs /\ ~lagSince[r] => Reach(Tail(m), Front(r)', Given(r))
       /\ m[1].kind = "out" => m[1].upto = s + 1
  <2>1. CASE Screen(m[1])
    <3>1. /\ Flow(Tail(m), m[1].upto) /\ (m[1].kind = "out" => m[1].upto = f + 1)
          /\ Reach(m, f, Given(r)) => Reach(Tail(m), m[1].upto, Given(r))
      BY <1>1, <1>5, <1>6, <1>9, <2>1, FlowTake
    <3>2. m[1].kind = "out" => f = s BY <1>6, <1>7
    <3> QED BY <1>5, <1>8, <1>10, <2>1, <3>1, <3>2
  <2>2. CASE ~Screen(m[1])
    <3>1. f = s /\ m[1].kind # "out" BY <1>6, <1>7, <2>2 DEF Screen
    <3>2. Flow(Tail(m), f) /\ (Reach(m, f, Given(r)) => Reach(Tail(m), f, Given(r)))
      BY <1>1, <1>5, <1>6, <1>9, <2>2, FlowSkip
    <3> QED BY <1>5, <1>8, <1>10, <2>2, <3>1, <3>2
  <2> QED BY <2>1, <2>2
<1>12. Below(Tail(m), mirrored) /\ m[1].upto <= mirrored
  BY <1>1, <1>5, <1>6, Taken DEF Below
<1> HIDE DEF m, f
<1>13. \A q \in Regs : q # r => Front(q)' = Front(q) BY <1>1, <1>3, FrontSame
<1>14. Opening' /\ Streams' /\ Reached'
  <2>1. \A q \in Regs \ {r} : Live(q)' =>
           /\ Live(q) /\ mail'[q] = mail[q] /\ Front(q)' = Front(q)
           /\ wr[q] = "recv" => wr'[q] = "recv"
           /\ q \in subs' /\ ~lagSince'[q] => q \in subs /\ ~lagSince[q] /\ Given(q)' = Given(q)
    BY <1>1, <1>3, <1>4, <1>9, <1>13
  <2>2. \A q \in Regs \ {r} : Live(q)' =>
           /\ Flow(mail'[q], Front(q)')
           /\ Front(q)' = -1 => wr'[q] = "recv" /\ mail'[q] # <<>> /\ mail'[q][1].kind = "snap"
           /\ q \in subs' /\ ~lagSince'[q] => Reach(mail'[q], Front(q)', Given(q)')
    BY <2>1, FlowKept DEF StreamInv
  <2>3. /\ Flow(mail'[r], Front(r)') /\ Front(r)' # -1
        /\ r \in subs' /\ ~lagSince'[r] => Reach(mail'[r], Front(r)', Given(r)')
    BY <1>1, <1>3, <1>9, <1>11
  <2> QED BY <2>2, <2>3, FlowParts
<1>15. Within' BY <1>1, <1>3, <1>12 DEF StreamInv, Within, Below
<1>16. InHand' BY <1>1, <1>3, <1>11 DEF StreamInv, InHand
<1>17. Screens' BY <1>1 DEF StreamInv, Screens
<1>18. JobInv' BY <1>1, <1>2 DEF StreamInv, JobInv
<1> QED BY <1>14, <1>15, <1>16, <1>17, <1>18 DEF StreamInv

\* A chunk behind a prefix, and a snapshot, leave a prefix on the screen.
LEMMA Rendered ==
  ASSUME NEW s \in Seq(Nat), s = [i \in 1..Len(s) |-> i], NEW l \in Lines,
         l.kind = "out" => l.upto = Len(s) + 1
  PROVE  /\ Render(s, l) = [i \in 1..Len(Render(s, l)) |-> i]
         /\ Len(Render(s, l)) = IF Screen(l) THEN l.upto ELSE Len(s)
<1>1. l.upto \in Nat BY DEF Lines
<1>2. CASE l.kind = "snap"
  <2>1. Render(s, l) = [i \in 1..l.upto |-> i] BY <1>2 DEF Render
  <2>2. Len([i \in 1..l.upto |-> i]) = l.upto BY <1>1
  <2> QED BY <1>2, <2>1, <2>2 DEF Screen
<1>3. CASE l.kind = "out"
  <2> DEFINE a == Append(s, Len(s) + 1)
             b == [i \in 1..(Len(s) + 1) |-> i]
  <2>1. Render(s, l) = a BY <1>3 DEF Render
  <2>2. Len(s) \in Nat /\ \A i \in 1..Len(s) : s[i] = i OBVIOUS
  <2>3. a \in Seq(Nat) /\ Len(a) = Len(s) + 1 /\ a[Len(s) + 1] = Len(s) + 1 BY <2>2
  <2>4. \A i \in 1..(Len(s) + 1) : a[i] = i
    <3>1. \A i \in 1..Len(s) : a[i] = s[i] BY <2>2
    <3>2. \A i \in 1..(Len(s) + 1) : i \in 1..Len(s) \/ i = Len(s) + 1 BY <2>2
    <3> QED BY <2>2, <2>3, <3>1, <3>2
  <2>5. b \in Seq(Nat) /\ Len(b) = Len(s) + 1 BY <2>2
  <2>6. a = b BY <2>3, <2>4, <2>5
  <2> QED BY <1>3, <2>1, <2>3, <2>6 DEF Screen
<1>4. CASE ~Screen(l) BY <1>4 DEF Render, Screen
<1> QED BY <1>2, <1>3, <1>4 DEF Screen

LEMMA StreamWrites ==
  ASSUME Shape, Shape', Order, StreamInv, NEW r \in Regs, WriterWrites(r)
  PROVE  StreamInv'
<1> DEFINE c == conn[r]
           s == Render(shown[c], hand[r])
<1>1. /\ wr[r] = "writing" /\ wr'[r] # "writing"
      /\ \A q \in Regs : q # r => wr'[q] = wr[q] /\ hand'[q] = hand[q]
      /\ hand'[r] = StatusLine
      /\ shown' = [shown EXCEPT ![c] = s] /\ lastReg' = [lastReg EXCEPT ![c] = r]
      /\ UNCHANGED <<lockVars, mirrored, subs, conn, lagSince, cancelled, mail>>
  BY DEF WriterWrites, Writer, readVars, subVars, Shape
<1>2. UNCHANGED <<job, line, step, cur, todo>> BY <1>1 DEF lockVars
<1>3. c \in Conns /\ hand[r] \in Lines /\ hand[r].upto \in Nat /\ mirrored \in Nat /\ shown[c] \in Seq(Nat)
  BY FrontType DEF Shape
<1>4. /\ s = [i \in 1..Len(s) |-> i]
      /\ Len(s) = IF Screen(hand[r]) THEN hand[r].upto ELSE Len(shown[c])
  BY <1>1, <1>3, Rendered DEF StreamInv, InHand, Screens
<1>5. hand[r].upto <= mirrored /\ Len(shown[c]) <= mirrored BY <1>3 DEF StreamInv, Within
<1>6. /\ shown'[c] = s /\ lastReg'[c] = r
      /\ \A d \in Conns : d # c => shown'[d] = shown[d] /\ lastReg'[d] = lastReg[d]
  BY <1>1, <1>3 DEF Shape
<1>7. Front(r)' = Front(r)
  BY <1>1, <1>4, <1>6 DEF Front
<1>8. \A q \in Regs : q # r /\ conn[q] = c => wr[q] # "writing" /\ (Live(q) => lastReg[c] # q)
  BY <1>1 DEF Order, Locked, Cutover
<1>9. \A q \in Regs : Live(q)' => Live(q) BY <1>1 DEF Live
<1> HIDE DEF s
<1>10. ASSUME NEW q \in Regs, q # r, Live(q) PROVE Front(q)' = Front(q)
  <2>1. CASE conn[q] = c BY <1>1, <1>6, <1>8, <1>10, <2>1 DEF Front
  <2>2. CASE conn[q] # c
    <3>1. conn[q] \in Conns BY DEF Shape
    <3> QED BY <1>1, <1>6, <1>10, <2>2, <3>1, FrontSame
  <2> QED BY <2>1, <2>2
<1>11. \A q \in Regs : Given(q)' = Given(q) BY <1>1, <1>2 DEF Given
<1>12. Opening' /\ Streams' /\ Reached'
  <2>1. \A q \in Regs : Live(q)' =>
           /\ Live(q) /\ mail'[q] = mail[q] /\ Front(q)' = Front(q)
           /\ wr[q] = "recv" => wr'[q] = "recv"
           /\ q \in subs' /\ ~lagSince'[q] => q \in subs /\ ~lagSince[q] /\ Given(q)' = Given(q)
    BY <1>1, <1>7, <1>9, <1>10, <1>11
  <2> QED BY <2>1, FlowKept, FlowParts DEF StreamInv
<1>13. Within'
  <2>1. \A q \in Regs : hand'[q].upto <= mirrored BY <1>1, <1>3 DEF StreamInv, Within, StatusLine
  <2>2. \A d \in Conns : Len(shown'[d]) <= mirrored BY <1>4, <1>5, <1>6 DEF StreamInv, Within
  <2> QED BY <1>1, <2>1, <2>2 DEF StreamInv, Within
<1>14. InHand'
  <2> SUFFICES ASSUME NEW q \in Regs, wr'[q] = "writing", hand'[q].kind = "out"
               PROVE  hand'[q].upto = Len(shown'[conn[q]]) + 1
    BY <1>1 DEF InHand
  <2>1. q # r /\ conn[q] # c /\ conn[q] \in Conns BY <1>1, <1>8 DEF Shape
  <2> QED BY <1>1, <1>6, <2>1 DEF StreamInv, InHand
<1>15. Screens' BY <1>4, <1>6 DEF StreamInv, Screens
<1>16. JobInv' BY <1>1, <1>2 DEF StreamInv, JobInv
<1> QED BY <1>12, <1>13, <1>14, <1>15, <1>16 DEF StreamInv

\* The task goes back to its mailbox, or returns.
LEMMA StreamRests ==
  ASSUME Shape, Shape', Order, StreamInv, NEW r \in Regs,
         WriterCancelled(r) \/ WriterEnds(r) \/ WriterChecks(r) \/ WriterFails(r)
  PROVE  StreamInv'
<1>1. /\ wr'[r] # "writing" /\ \A q \in Regs : q # r => wr'[q] = wr[q] /\ hand'[q] = hand[q] /\ mail'[q] = mail[q]
      /\ hand'[r] = hand[r] \/ hand'[r] = StatusLine
      /\ mail'[r] = mail[r] \/ mail'[r] = <<>>
      /\ Live(r)' => wr[r] = "check" /\ hand'[r] = hand[r] /\ mail'[r] = mail[r]
      /\ UNCHANGED <<lockVars, mirrored, subs, conn, lagSince, cancelled, shown, lastReg>>
  <2>1. CASE WriterCancelled(r) \/ WriterEnds(r)
    BY <2>1 DEF WriterCancelled, WriterEnds, Return, Writer, readVars, subVars, netVars, Shape, Live
  <2>2. CASE WriterChecks(r)
    BY <2>2 DEF WriterChecks, Writer, readVars, subVars, netVars, Shape, Live
  <2>3. CASE WriterFails(r)
    BY <2>3 DEF WriterFails, Return, Writer, readVars, subVars, netVars, Shape, Live
  <2> QED BY <2>1, <2>2, <2>3
<1>2. UNCHANGED <<job, line, step, cur, todo>> BY <1>1 DEF lockVars
<1>3. \A q \in Regs : Live(q)' => Live(q) BY <1>1 DEF Live
<1>4. \A q \in Regs : Live(q)' => Front(q)' = Front(q) BY <1>1, FrontSame
<1>5. \A q \in Regs : Given(q)' = Given(q) BY <1>1, <1>2 DEF Given
<1>6. Opening' /\ Streams' /\ Reached'
  <2>1. \A q \in Regs : Live(q)' =>
           /\ Live(q) /\ mail'[q] = mail[q] /\ Front(q)' = Front(q)
           /\ wr[q] = "recv" => wr'[q] = "recv"
           /\ q \in subs' /\ ~lagSince'[q] => q \in subs /\ ~lagSince[q] /\ Given(q)' = Given(q)
    BY <1>1, <1>3, <1>4, <1>5
  <2> QED BY <2>1, FlowKept, FlowParts DEF StreamInv
<1>7. Within'
  <2>1. StatusLine.upto <= mirrored /\ \A j \in 1..Len(<<>>) : FALSE BY Consts DEF StatusLine, Shape
  <2>2. \A q \in Regs : hand'[q].upto <= mirrored BY <1>1, <2>1 DEF StreamInv, Within
  <2>3. \A q \in Regs : \A j \in 1..Len(mail'[q]) : mail'[q][j].upto <= mirrored
    BY <1>1, <2>1 DEF StreamInv, Within
  <2> QED BY <1>1, <2>2, <2>3 DEF StreamInv, Within
<1>8. InHand' BY <1>1 DEF StreamInv, InHand
<1>9. Screens' BY <1>1 DEF StreamInv, Screens
<1>10. JobInv' BY <1>1, <1>2 DEF StreamInv, JobInv
<1> QED BY <1>6, <1>7, <1>8, <1>9, <1>10 DEF StreamInv

LEMMA StreamStep ==
  ASSUME {"snapshotFails", "respawn"} \cap Faults = {}, Shape, Order, StreamInv, Next
  PROVE  StreamInv'
<1>1. "snapshotFails" \notin Faults /\ "respawn" \notin Faults OBVIOUS
<1>2. Shape' BY <1>1, ShapeStep
<1>3. CASE LockNext BY <1>2, <1>3, StreamLock, StreamQueue, StreamMark DEF LockNext
<1>4. CASE ReaderNext BY <1>1, <1>2, <1>4, StreamStart, StreamStill, StreamResync DEF ReaderNext
<1>5. CASE ConnNext
  <2>1. ~Respawn BY <1>1 DEF Respawn
  <2> QED BY <1>1, <1>2, <1>5, <2>1, StreamAttach, StreamStill, StreamStart, StreamEnds DEF ConnNext
<1>6. CASE WriterNext BY <1>2, <1>6, StreamTakes, StreamWrites, StreamRests DEF WriterNext, WriterTask
<1> QED BY <1>3, <1>4, <1>5, <1>6 DEF Next

\* What a client shows is at every moment a prefix of the session's output,
\* however attach, detach, lag, resynchronisation, resize and the writer tasks
\* interleave, as long as no snapshot fails (its fallback is blank) and the id
\* is not spawned again (its output starts anew).
THEOREM ScreensArePrefixes ==
  ASSUME {"snapshotFails", "respawn"} \cap Faults = {}
  PROVE  Spec => []ScreenIsPrefix
<1>1. Init => StreamInv
  <2> SUFFICES ASSUME Init PROVE StreamInv
    OBVIOUS
  <2>1. \A r \in Regs : ~Live(r) BY DEF Init, Live
  <2>2. Opening /\ Streams /\ Reached BY <2>1 DEF Opening, Streams, Reached
  <2>3. JobInv /\ InHand BY DEF Init, JobInv, InHand
  <2>4. Len(<<>>) = 0 /\ <<>> = [i \in 1..0 |-> i] OBVIOUS
  <2>5. Screens BY <2>4 DEF Init, Screens
  <2>6. Within BY <2>4 DEF Init, Within, StatusLine
  <2> QED BY <2>2, <2>3, <2>5, <2>6 DEF StreamInv
<1>2. Shape /\ Order /\ (Shape /\ Order)' /\ StreamInv /\ [Next]_vars => StreamInv'
  <2>1. Shape /\ Order /\ StreamInv /\ Next => StreamInv' BY StreamStep
  <2>2. Shape /\ Order /\ Shape' /\ StreamInv /\ UNCHANGED vars => StreamInv' BY StreamStill
  <2> QED BY <2>1, <2>2
<1>3. StreamInv => ScreenIsPrefix BY DEF StreamInv, Within, Screens, ScreenIsPrefix
<1>4. "respawn" \notin Faults OBVIOUS
<1>5. Spec => [](Shape /\ Order) BY <1>4, OrderInvariant
<1> QED BY <1>1, <1>2, <1>3, <1>5, PTL DEF Spec
===============================================================================
