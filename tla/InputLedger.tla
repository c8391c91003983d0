----------------------------- MODULE InputLedger -----------------------------
(* Input to one session's terminal. Connections queue raw input and whole     *)
(* messages; the session's stream task (output.rs) writes them to the PTY,    *)
(* mirrors what comes back and, on its tick, tries to prove from the rendered *)
(* frame that nobody's text is at the prompt. The ledger of session.rs says   *)
(* what the daemon can prove of the composer: typed, not typed, or unknown.   *)
EXTENDS Naturals, Sequences

CONSTANTS
  MaxInputs,     \* bound on the inputs clients send
  MaxNoise,      \* bound on chunks the CLI paints that answer no input
  MaxHandoffs    \* bound on daemons that adopt the session

ASSUME InputAssumption == MaxInputs \in Nat /\ MaxNoise \in Nat /\ MaxHandoffs \in Nat

VARIABLES
  active, known, typed,               \* InputCoordinationState: the draft
  landing,                            \* declared_draft_writes enqueued, less those completed
  fresh,                              \* mirrored_chunks exceeds mirrored_chunks_at_last_draft_write
  queue, offset, pause,               \* input channel and writer: pending_offset, submit_pause
  task, sample,                       \* the stream task; was the frame fresh when it was read?
  frame,                              \* does the mirrored frame show text?
  tty, composer, out,                 \* the CLI: unread input, its composer, unread output
  accepted, noise, handoffs,          \* used up so far of the three bounds
  misled                              \* the ledger was cleared by a frame older than a draft

ledger == <<active, known, typed, landing, fresh>>
writer == <<queue, offset, pause>>
stream == <<task, sample, frame>>
cli    == <<tty, composer, out>>
bounds == <<accepted, noise, handoffs>>
vars   == <<ledger, writer, stream, cli, bounds, misled>>

\* "draft": bytes that can put text at a composer. "key": draft bytes that
\* cannot, and control input. "reply": what the headless terminal answers.
RawKinds == {"draft", "key", "enter"}
Kinds == RawKinds \cup {"message", "reply"}
\* A PTY may take a message in two writes. (It may take a paste so too; what the
\* CLI paints before the second is a chunk of Noise here.)
Parts(kind) == IF kind = "message" THEN 2 ELSE 1
Units == [kind : Kinds, part : 1..2, by : 0..MaxHandoffs]
Chunks == [text : BOOLEAN, echo : BOOLEAN, asks : BOOLEAN]

TypeOK ==
  /\ active \in BOOLEAN /\ known \in BOOLEAN /\ typed \in {"none", "zero", "some"}
  /\ landing \in 0..MaxInputs /\ fresh \in BOOLEAN
  /\ queue \in Seq(Kinds) /\ offset \in 0..1 /\ pause \in BOOLEAN
  /\ task \in {"select", "attest"} /\ sample \in BOOLEAN /\ frame \in BOOLEAN
  /\ tty \in Seq(Units) /\ composer \in [typed : BOOLEAN, message : BOOLEAN]
  /\ out \in Seq(Chunks)
  /\ accepted \in 0..MaxInputs /\ noise \in 0..MaxNoise /\ handoffs \in 0..MaxHandoffs
  /\ misled \in BOOLEAN

\* A session spawned here, or one a predecessor without a ledger handed over,
\* with or without a line already typed.
Init ==
  /\ active = FALSE
  /\ known \in BOOLEAN
  /\ frame \in {FALSE, ~known}
  /\ composer = [typed |-> frame, message |-> FALSE]
  /\ typed = IF known THEN "zero" ELSE "none"
  /\ landing = 0 /\ fresh = FALSE
  /\ queue = <<>> /\ offset = 0 /\ pause = FALSE
  /\ task = "select" /\ sample = FALSE
  /\ tty = <<>> /\ out = <<>>
  /\ accepted = 0 /\ noise = 0 /\ handoffs = 0
  /\ misled = FALSE
-----------------------------------------------------------------------------
(* What connections do. None of it waits for the stream task.                 *)

\* InputCoordinationState::composer_attestation and attestation_unresolved.
NotTyped == known /\ typed = "zero"
Unresolved == ~known \/ active

\* Raw input without a byte is acknowledged and never queued: no step at all.
Enqueue(kind) == queue' = Append(queue, kind)

\* The boundary restarts the ledger when it is queued.
DeclareSubmission ==
  /\ active' = FALSE /\ known' = TRUE /\ typed' = "zero"
  /\ misled' = FALSE
  /\ UNCHANGED <<landing, fresh>>

DeclareDraft ==
  /\ active' = TRUE /\ known' = TRUE
  /\ typed' = IF typed = "none" THEN "none" ELSE "some"
  /\ landing' = landing + 1
  /\ UNCHANGED <<fresh, misled>>

\* enqueue_raw_input_with_ack.
RawInput(kind) ==
  /\ accepted < MaxInputs
  /\ accepted' = accepted + 1
  /\ Enqueue(kind)
  /\ CASE kind = "enter" -> DeclareSubmission
       [] kind = "draft" -> DeclareDraft
       [] OTHER -> UNCHANGED <<ledger, misled>>
  /\ UNCHANGED <<offset, pause, stream, cli, noise, handoffs>>

\* enqueue_logical_input: the ledger is not told.
LogicalInput ==
  /\ accepted < MaxInputs
  /\ accepted' = accepted + 1
  /\ Enqueue("message")
  /\ UNCHANGED <<ledger, offset, pause, stream, cli, noise, handoffs, misled>>
-----------------------------------------------------------------------------
(* The stream task.                                                           *)

\* Mutant: a write the PTY took only a part of counts as the whole.
WriteLoses(kind) ==
  /\ queue' = Tail(queue) /\ offset' = 0
  /\ pause' = (kind = "message")

\* Mutant: no pause after a message.
AdvanceUnpaced(kind) ==
  IF offset + 1 < Parts(kind)
    THEN offset' = offset + 1 /\ UNCHANGED <<queue, pause>>
    ELSE queue' = Tail(queue) /\ offset' = 0 /\ pause' = FALSE

\* The write took the rest of the input, or stopped short of it.
Advance(kind) ==
  IF offset + 1 < Parts(kind)
    THEN offset' = offset + 1 /\ UNCHANGED <<queue, pause>>
    ELSE /\ queue' = Tail(queue) /\ offset' = 0
         /\ pause' = (kind = "message")

\* Mutant: a message waits behind a draft.
WriteHeld ==
  /\ task = "select" /\ queue # <<>> /\ ~pause
  /\ ~(Head(queue) = "message" /\ active)
  /\ tty' = Append(tty, [kind |-> Head(queue), part |-> offset + 1, by |-> handoffs])
  /\ Advance(Head(queue))
  /\ IF Head(queue) = "draft"
       THEN landing' = landing - 1 /\ fresh' = FALSE
       ELSE UNCHANGED <<landing, fresh>>
  /\ UNCHANGED <<active, known, typed, stream, composer, out, bounds, misled>>

\* The writable branch, and complete_declared_draft_write for a draft.
Write ==
  /\ task = "select" /\ queue # <<>> /\ ~pause
  /\ tty' = Append(tty, [kind |-> Head(queue), part |-> offset + 1, by |-> handoffs])
  /\ Advance(Head(queue))
  /\ IF Head(queue) = "draft"
       THEN landing' = landing - 1 /\ fresh' = FALSE
       ELSE UNCHANGED <<landing, fresh>>
  /\ UNCHANGED <<active, known, typed, stream, composer, out, bounds, misled>>

\* LOGICAL_INPUT_SUBMIT_DELAY_MS gives the CLI its processing turn: it has read
\* what was written by then.
PauseElapses ==
  /\ task = "select" /\ pause /\ tty = <<>>
  /\ pause' = FALSE
  /\ UNCHANGED <<ledger, queue, offset, stream, cli, bounds, misled>>

\* The readable branch and mirror_output.
Mirror ==
  /\ task = "select" /\ out # <<>>
  /\ out' = Tail(out)
  /\ frame' = Head(out).text
  /\ fresh' = TRUE
  /\ queue' = IF Head(out).asks THEN Append(queue, "reply") ELSE queue
  /\ UNCHANGED <<active, known, typed, landing, offset, pause, task, sample, tty, composer, bounds, misled>>

\* attest_empty_composer up to the lock. The frame and the count are the
\* stream task's own and hold still; the ledger does not.
AttestBegin ==
  /\ task = "select" /\ Unresolved /\ ~frame
  /\ sample' = fresh
  /\ task' = "attest"
  /\ UNCHANGED <<ledger, writer, frame, cli, bounds, misled>>

\* Mutant: what is still queued is not asked about.
SeenOnly == known => active /\ sample
\* Mutant: a frame resolves an inherited state and nothing else.
InheritedOnly == ~known
\* A draft that is active needs a frame newer than its last write; an inherited
\* state needs only a frame.
Proves == known => active /\ landing = 0 /\ sample

\* A draft the CLI has not read, or has echoed in output not yet mirrored.
DraftUnseen ==
  \/ \E i \in DOMAIN tty : tty[i].kind = "draft"
  \/ \E i \in DOMAIN out : out[i].echo

AttestEnd ==
  /\ task = "attest"
  /\ task' = "select" /\ sample' = FALSE
  /\ IF Proves
       THEN /\ active' = FALSE /\ known' = TRUE /\ typed' = "zero"
            /\ misled' = DraftUnseen
       ELSE UNCHANGED <<active, known, typed, misled>>
  /\ UNCHANGED <<landing, fresh, writer, frame, cli, bounds>>

\* A successor adopts the session: the queue has drained (quiesce), the ledger
\* travels, its evidence and the pause do not.
Handoff ==
  /\ handoffs < MaxHandoffs
  /\ task = "select" /\ queue = <<>>
  /\ handoffs' = handoffs + 1
  /\ landing' = 0 /\ fresh' = FALSE
  /\ pause' = FALSE
  /\ UNCHANGED <<active, known, typed, queue, offset, task, sample, frame, cli, accepted, noise, misled>>
-----------------------------------------------------------------------------
(* The CLI, as far as session.rs relies on it.                                *)

Typed(b) == composer' = [composer EXCEPT !.typed = b]

\* It reads one piece of input and repaints. Draft bytes may or may not leave
\* text; a key may clear the line; Enter, alone or after a message, submits it.
Read ==
  /\ tty # <<>>
  /\ tty' = Tail(tty)
  /\ LET u == Head(tty) IN
     \/ u.kind = "draft" /\ \E b \in BOOLEAN : Typed(b)
     \/ u.kind = "key" /\ \E b \in {FALSE, composer.typed} : Typed(b)
     \/ u.kind = "enter" /\ composer' = [typed |-> FALSE, message |-> FALSE]
     \/ u.kind = "message" /\ u.part = 1 /\ composer' = [composer EXCEPT !.message = TRUE]
     \/ u.kind = "message" /\ u.part = 2 /\ composer' = [typed |-> FALSE, message |-> FALSE]
     \/ u.kind = "reply" /\ UNCHANGED composer
  /\ out' = Append(out, [text |-> composer'.typed \/ composer'.message,
                         echo |-> Head(tty).kind = "draft", asks |-> FALSE])
  /\ UNCHANGED <<ledger, writer, stream, bounds, misled>>

\* A spinner, a suggestion, a repaint, or a question to the terminal.
Noise ==
  /\ noise < MaxNoise
  /\ noise' = noise + 1
  /\ \E asks \in BOOLEAN :
       out' = Append(out, [text |-> composer.typed \/ composer.message,
                           echo |-> FALSE, asks |-> asks])
  /\ UNCHANGED <<ledger, writer, stream, tty, composer, accepted, handoffs, misled>>

Next ==
  \/ \E kind \in RawKinds : RawInput(kind)
  \/ LogicalInput
  \/ Write \/ PauseElapses \/ Mirror \/ AttestBegin \/ AttestEnd \/ Handoff
  \/ Read \/ Noise

Spec == Init /\ [][Next]_vars

\* The select loop serves a ready PTY between two ticks (its branches come
\* first), the tick recurs, and the CLI reads its input.
Fairness ==
  /\ SF_vars(Write) /\ SF_vars(PauseElapses) /\ SF_vars(Mirror)
  /\ WF_vars(AttestBegin) /\ WF_vars(AttestEnd)
  /\ WF_vars(Read)

LiveSpec == Spec /\ Fairness
-----------------------------------------------------------------------------
\* Everything written and not read, then everything queued.
Ahead == [i \in DOMAIN tty |-> tty[i].kind] \o queue

(* "Not typed" is proof that no text a person typed is at the prompt or on its *)
(* way there with no Enter behind it, whatever was queued while a frame was     *)
(* being read, unless the frame was older than a written draft.                  *)
NotTypedHonest == NotTyped /\ ~misled =>
  /\ composer.typed => \E i \in DOMAIN Ahead : Ahead[i] = "enter"
  /\ \A i \in DOMAIN Ahead :
       Ahead[i] = "draft" => \E j \in DOMAIN Ahead : j > i /\ Ahead[j] = "enter"

\* What the CLI has in hand of a message, and what is still unread.
Wire == [i \in DOMAIN tty |-> <<tty[i].kind, tty[i].part>>]
Line == IF composer.message THEN <<<<"message", 1>>>> \o Wire ELSE Wire

(* A message reaches the CLI whole, its Enter included: nothing another client  *)
(* types or sends lands between the two writes of it.                            *)
MessageWhole == \A i \in DOMAIN Line :
  Line[i][2] < Parts(Line[i][1]) =>
    IF i < Len(Line) THEN Line[i + 1] = <<Line[i][1], 2>>
    ELSE offset = 1 /\ queue # <<>> /\ Head(queue) = Line[i][1]

(* A message is not written while the CLI has yet to take its turn on the one  *)
(* this daemon wrote before it.                                                 *)
MessagesApart == \A i, j \in DOMAIN tty :
  i < j /\ tty[i].kind = "message" /\ tty[i].part = 2 /\ tty[j].kind = "message" =>
    tty[i].by # tty[j].by

Settled == tty = <<>> /\ queue = <<>> /\ ~composer.typed

(* A ledger that claims a draft over an empty prompt is cleared in the end, also *)
(* when the draft went in with a delivered message and no Enter was declared,    *)
(* unless a successor has seen no output of the session.                          *)
Unwedged == [](Settled => <>(~Unresolved \/ ~Settled \/ (handoffs > 0 /\ ~fresh)))

(* Every accepted input is written in the end, whatever the ledger says of the  *)
(* composer: no draft holds a message back.                                      *)
Delivered == (queue # <<>>) ~> (queue = <<>>)

(* With nothing on its way to the CLI, "not typed" is proof that nobody's text  *)
(* is at the prompt ("`Some(0)` is positive proof that nothing anybody wrote is *)
(* sitting at that prompt").                                                     *)
PromptProof == NotTyped /\ tty = <<>> /\ queue = <<>> => ~composer.typed
=============================================================================
