------------------------------ MODULE Geometry ------------------------------
(* The size of one live session's terminal: SessionSizeState (client.rs) and *)
(* the commands that change it (connection.rs). A command elects under the   *)
(* sizes lock and applies what it elected under the session's lifecycle      *)
(* lock; a departing client elects before it has that lock.                  *)
EXTENDS Naturals

CONSTANTS
  Clients,         \* writer ids
  NoClient,
  Sizes,           \* <<cols, rows>> a client may report
  SpawnSize,
  MaxGeneration,   \* bound on the generations a viewer registers with
  Faults           \* which failures of session.resize may happen

ASSUME GeometryAssumption ==
  /\ NoClient \notin Clients
  /\ Sizes \subseteq Nat \X Nat
  /\ SpawnSize \in Sizes
  /\ MaxGeneration \in Nat
  /\ Faults \subseteq {"resizeFails", "rollbackFails"}

VARIABLES
  known,                 \* session_sizes has an entry for the session
  lastApplied, viewers, legacy, controller, explicit,   \* SessionSizeState
  lock, pc, pend,        \* the lifecycle lock, and what each connection is doing
  pty, grid, recorded, shown,   \* sizes of the PTY, the headless terminal, the
                         \* recovery session and the last published snapshot
  notes                  \* what has gone wrong since a resize last went through

sizeVars == <<known, lastApplied, viewers, legacy, controller, explicit>>
termVars == <<pty, grid, recorded, shown>>
vars == <<sizeVars, lock, pc, pend, termVars, notes>>

Roles == {"local", "remote"}
Viewers == [role : Roles, size : Sizes, visible : BOOLEAN, generation : 0..MaxGeneration]
NoViewer == [role |-> "none"]
NoSize == <<>>
Dims == {s[1] : s \in Sizes} \cup {s[2] : s \in Sizes}
Grids == Dims \X Dims
Owner == Clients \cup {NoClient}

TypeOK ==
  /\ known \in BOOLEAN
  /\ lastApplied \in Grids
  /\ viewers \in [Clients -> Viewers \cup {NoViewer}]
  /\ legacy \in [Clients -> Sizes \cup {NoSize}]
  /\ controller \in Owner /\ explicit \in Owner
  /\ lock \in Owner
  /\ pc \in [Clients -> {"idle", "leaving", "apply", "mark"}]
  /\ pend \in [Clients -> Grids \cup {NoSize}]
  /\ pty \in Grids /\ grid \in Grids /\ recorded \in Grids /\ shown \in Grids
  /\ notes \subseteq {"failed", "overtaken", "forgotten", "split"}

\* A session just spawned: Command::Spawn enters its size.
Init ==
  /\ known = TRUE
  /\ lastApplied = SpawnSize
  /\ viewers = [c \in Clients |-> NoViewer]
  /\ legacy = [c \in Clients |-> NoSize]
  /\ controller = NoClient /\ explicit = NoClient
  /\ lock = NoClient
  /\ pc = [c \in Clients |-> "idle"]
  /\ pend = [c \in Clients |-> NoSize]
  /\ pty = SpawnSize /\ grid = SpawnSize /\ recorded = SpawnSize /\ shown = SpawnSize
  /\ notes = {}
-----------------------------------------------------------------------------
(* SessionSizeState.                                                         *)

Eligible(vs, c) == vs[c] # NoViewer /\ vs[c].visible /\ vs[c].size[1] > 0 /\ vs[c].size[2] > 0
EligibleIn(vs) == {c \in Clients : Eligible(vs, c)}
LocalIn(vs) == {c \in EligibleIn(vs) : vs[c].role = "local"}
Registered(vs) == {c \in Clients : vs[c] # NoViewer}

\* elected_candidate: locals before remotes. Ties go by viewer id, of which
\* nothing is assumed here.
Candidates(vs) ==
  IF EligibleIn(vs) = {} THEN {NoClient}
  ELSE IF LocalIn(vs) # {} THEN LocalIn(vs) ELSE EligibleIn(vs)

\* elect. A controller that may stay does; a remote gives way to a local.
Elected(vs, current, chosen) ==
  LET stays == current \in EligibleIn(vs) /\ (vs[current].role = "local" \/ LocalIn(vs) = {})
  IN  IF chosen \in EligibleIn(vs) THEN {<<chosen, chosen>>}
      ELSE IF stays THEN {<<current, NoClient>>}
      ELSE {<<c, NoClient>> : c \in Candidates(vs)}

Least(S) == CHOOSE n \in S : \A m \in S : n <= m

\* effective_terminal_size, over what the legacy clients have asked for.
Effective(sizes, fallback) ==
  LET asked == {sizes[c] : c \in Clients} \ {NoSize} IN
  IF asked = {} THEN fallback ELSE <<Least({s[1] : s \in asked}), Least({s[2] : s \in asked})>>

Proposed(vs, sizes, owner, applied) ==
  IF owner # NoClient THEN vs[owner].size
  ELSE IF Registered(vs) = {} THEN Effective(sizes, applied) ELSE applied

Swap(size) == <<size[2], size[1]>>
-----------------------------------------------------------------------------
(* The commands. Each connection handles one at a time.                      *)

\* What every command leaves in the entry, and what its caller must apply:
\* pending_resize, for a caller that asks for it.
Update(c, vs, sizes, election, applied, asks, step) ==
  LET size == Proposed(vs, sizes, election[1], applied) IN
  /\ viewers' = vs /\ legacy' = sizes /\ lastApplied' = applied
  /\ controller' = election[1] /\ explicit' = election[2]
  /\ IF asks /\ size # applied
       THEN /\ pend' = [pend EXCEPT ![c] = size]
            /\ pc' = [pc EXCEPT ![c] = step]
            /\ lock' = IF step = "apply" THEN c ELSE lock
       ELSE UNCHANGED <<pend, pc, lock>>
  /\ UNCHANGED termVars

Ready(c) == pc[c] = "idle" /\ lock = NoClient

\* A session without an entry gets one, from whatever the command has at hand.
Entered == known' = TRUE /\ notes' = IF known THEN notes ELSE notes \cup {"forgotten"}

\* The message of a viewer that has been replaced is dropped.
Fresh(c, v) == viewers[c] # NoViewer => viewers[c].generation <= v.generation

\* RegisterViewer. An entry it creates starts from rows_cols, rows first.
Register(c, v) ==
  LET vs == [viewers EXCEPT ![c] = v] IN
  /\ Ready(c)
  /\ Fresh(c, v)
  /\ \E e \in Elected(vs, controller, explicit) :
       Update(c, vs, legacy, e, IF known THEN lastApplied ELSE Swap(pty), TRUE, "apply")
  /\ Entered

\* Resize and ResizeNoReply from a registered viewer; a hidden one, or an
\* empty size, changes nothing of it.
Measured(c, size) ==
  IF viewers[c].visible /\ size[1] > 0 /\ size[2] > 0
    THEN [viewers EXCEPT ![c].size = size] ELSE viewers

\* Mutant: only a viewer that has taken over may resize.
ResizeFollower(c, size) ==
  /\ Ready(c) /\ viewers[c] # NoViewer
  /\ \E e \in Elected(Measured(c, size), controller, explicit) :
       Update(c, Measured(c, size), legacy, e, lastApplied, e[2] = c, "apply")
  /\ Entered

ResizeViewer(c, size) ==
  /\ Ready(c) /\ viewers[c] # NoViewer
  /\ \E e \in Elected(Measured(c, size), controller, explicit) :
       Update(c, Measured(c, size), legacy, e, lastApplied, e[1] = c, "apply")
  /\ Entered

\* The same commands from a client that never registers.
ResizeLegacy(c, size) ==
  /\ Ready(c) /\ viewers[c] = NoViewer
  /\ Update(c, viewers, [legacy EXCEPT ![c] = size], <<controller, explicit>>,
            IF known THEN lastApplied ELSE size, TRUE, "apply")
  /\ Entered

TakeoverViewer(c) ==
  /\ Ready(c) /\ c \in EligibleIn(viewers)
  /\ Update(c, viewers, legacy, <<c, c>>, lastApplied, TRUE, "apply")
  /\ UNCHANGED <<known, notes>>

\* Mutant: a release that leaves the terminal to nobody.
ReleaseToNobody(c) ==
  /\ Ready(c) /\ explicit = c
  /\ Update(c, viewers, legacy, <<NoClient, NoClient>>, lastApplied, TRUE, "apply")
  /\ UNCHANGED <<known, notes>>

ReleaseViewer(c) ==
  /\ Ready(c) /\ explicit = c
  /\ \E e \in Elected(viewers, NoClient, NoClient) :
       Update(c, viewers, legacy, e, lastApplied, TRUE, "apply")
  /\ UNCHANGED <<known, notes>>

\* remove: a controller that leaves is succeeded at once.
Removed(c) ==
  LET vs == [viewers EXCEPT ![c] = NoViewer]
      sizes == [legacy EXCEPT ![c] = NoSize] IN
  IF c \in {controller, explicit}
    THEN \E e \in Elected(vs, NoClient, NoClient) : Update(c, vs, sizes, e, lastApplied, TRUE, "leaving")
    ELSE Update(c, vs, sizes, <<controller, explicit>>, lastApplied,
                legacy[c] # NoSize /\ Registered(vs) = {}, "leaving")

Detach(c) ==
  /\ pc[c] = "idle" /\ known
  /\ Removed(c)
  /\ UNCHANGED <<known, notes>>

\* cleanup_client_writer_registries: it also drops every entry nobody is left in.
Disconnect(c) ==
  /\ pc[c] = "idle" /\ known
  /\ Removed(c)
  /\ known' = (Registered(viewers') # {} \/ \E d \in Clients : legacy'[d] # NoSize)
  /\ UNCHANGED notes
-----------------------------------------------------------------------------
\* The departed client's connection gets the lifecycle lock.
Acquire(c) ==
  /\ pc[c] = "leaving" /\ lock = NoClient
  /\ lock' = c
  /\ pc' = [pc EXCEPT ![c] = "apply"]
  /\ UNCHANGED <<sizeVars, pend, termVars, notes>>

Finish(c) ==
  /\ lock' = NoClient
  /\ pc' = [pc EXCEPT ![c] = "idle"]
  /\ pend' = [pend EXCEPT ![c] = NoSize]

\* Mutant: no rollback.
KeepKernelSize(c) == pty' = pend[c] /\ UNCHANGED <<grid, recorded, shown>> /\ notes' = notes \cup {"failed"}
\* The kernel refuses the size, or the headless terminal does and the kernel
\* is set back.
ResizeRefused(c) == UNCHANGED termVars /\ notes' = notes \cup {"failed"}

\* SessionHandle::resize.
Apply(c) ==
  /\ pc[c] = "apply"
  /\ \/ /\ pty' = pend[c] /\ grid' = pend[c]
        /\ pc' = [pc EXCEPT ![c] = "mark"]
        /\ UNCHANGED <<lock, pend, recorded, shown, notes>>
     \/ "resizeFails" \in Faults /\ ResizeRefused(c) /\ Finish(c)
     \/ /\ "rollbackFails" \in Faults
        /\ pty' = pend[c] /\ UNCHANGED <<grid, recorded, shown>>
        /\ notes' = notes \cup {"failed", "split"}
        /\ Finish(c)
  /\ UNCHANGED sizeVars

\* Mutant: no mark_applied.
MarkNothing(c) ==
  /\ pc[c] = "mark"
  /\ recorded' = pend[c] /\ shown' = grid /\ notes' = {}
  /\ Finish(c)
  /\ UNCHANGED <<sizeVars, pty, grid>>

\* mark_applied, the recovery manager's resize_session and publish_resize_snapshot.
Mark(c) ==
  /\ pc[c] = "mark"
  /\ lastApplied' = IF known THEN pend[c] ELSE lastApplied
  /\ recorded' = pend[c]
  /\ shown' = grid
  /\ notes' = IF known /\ Proposed(viewers, legacy, controller, pend[c]) # pend[c]
                THEN {"overtaken"} ELSE {}
  /\ Finish(c)
  /\ UNCHANGED <<known, viewers, legacy, controller, explicit, pty, grid>>

Next == \E c \in Clients :
  \/ \E v \in Viewers : Register(c, v)
  \/ \E size \in Sizes : ResizeViewer(c, size) \/ ResizeLegacy(c, size)
  \/ TakeoverViewer(c) \/ ReleaseViewer(c) \/ Detach(c) \/ Disconnect(c)
  \/ Acquire(c) \/ Apply(c) \/ Mark(c)

Spec == Init /\ [][Next]_vars
-----------------------------------------------------------------------------
(* Who controls the terminal is never in doubt, whatever interleaves: a       *)
(* controller is always a visible, measured viewer, there is one whenever such *)
(* a viewer exists, a remote holds it only by takeover while a local could,    *)
(* and a takeover is the controller's (SessionSizeState::elect and its callers). *)
ElectionSound ==
  /\ controller # NoClient => controller \in EligibleIn(viewers)
  /\ controller = NoClient => EligibleIn(viewers) = {}
  /\ explicit \in {NoClient, controller}
  /\ controller # NoClient /\ explicit = NoClient /\ viewers[controller].role = "remote"
       => LocalIn(viewers) = {}

Quiet == lock = NoClient /\ \A c \in Clients : pc[c] = "idle"

(* When no command is in flight the PTY has the size its controller measured,   *)
(* unless the last resize failed, was elected before another command and applied *)
(* after it, or started from an entry that had been dropped.                     *)
Settled == Quiet /\ controller # NoClient /\ notes = {} => pty = viewers[controller].size

(* last_applied is what the PTY was last given, also when a departure elects   *)
(* between another connection's resize and its mark_applied.                    *)
RecordTrue == Quiet /\ known /\ notes \cap {"forgotten", "split"} = {} => lastApplied = pty

(* The headless terminal, the recovery session and the snapshot the viewers     *)
(* were sent have one size once a command has let go of the session, and the    *)
(* PTY has it too unless its rollback failed (SessionHandle::resize).           *)
GridsAgree == lock = NoClient =>
  /\ grid = recorded /\ grid = shown
  /\ "split" \notin notes => pty = grid

(* A session's size state says what its PTY was last given, as long as nothing  *)
(* fails ("last_applied deliberately survives the last detach so an empty       *)
(* session never jumps back to 80x24").                                         *)
RecordSurvives == Quiet /\ known => lastApplied = pty
=============================================================================
