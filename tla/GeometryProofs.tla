--------------------------- MODULE GeometryProofs ---------------------------
(* Theorems about Geometry for every set of clients and sizes and every bound *)
(* on generations, with and without failing resizes.                          *)
EXTENDS Geometry, TLAPS

\* What the election reads and the steps of a command.
Shape ==
  /\ viewers \in [Clients -> Viewers \cup {NoViewer}]
  /\ controller \in Owner /\ explicit \in Owner
  /\ pc \in [Clients -> {"idle", "leaving", "apply", "mark"}]
  /\ pend = [c \in Clients |-> pend[c]]
  /\ lock \in Owner

\* An election for the viewers vs that nobody can argue with.
Sound(vs, owner, chosen) ==
  /\ owner # NoClient => owner \in EligibleIn(vs)
  /\ owner = NoClient => EligibleIn(vs) = {}
  /\ chosen \in {NoClient, owner}
  /\ owner # NoClient /\ chosen = NoClient /\ vs[owner].role = "remote" => LocalIn(vs) = {}

LEMMA ElectedSound ==
  ASSUME NEW vs \in [Clients -> Viewers \cup {NoViewer}], NEW current, NEW chosen,
         NEW e \in Elected(vs, current, chosen)
  PROVE  Sound(vs, e[1], e[2]) /\ e[1] \in Owner /\ e[2] \in Owner
<1>0. NoClient \notin Clients /\ EligibleIn(vs) \subseteq Clients /\ LocalIn(vs) \subseteq EligibleIn(vs)
  BY GeometryAssumption DEF EligibleIn, LocalIn
<1>1. CASE chosen \in EligibleIn(vs)
  BY <1>0, <1>1 DEF Elected, Sound, Owner
<1>2. CASE chosen \notin EligibleIn(vs) /\ current \in EligibleIn(vs) /\ (vs[current].role = "local" \/ LocalIn(vs) = {})
  BY <1>0, <1>2 DEF Elected, Sound, Owner
<1>3. CASE chosen \notin EligibleIn(vs) /\ ~(current \in EligibleIn(vs) /\ (vs[current].role = "local" \/ LocalIn(vs) = {}))
  <2>1. PICK c \in Candidates(vs) : e = <<c, NoClient>> BY <1>3 DEF Elected
  <2>2. c \in LocalIn(vs) => vs[c].role = "local" BY DEF LocalIn
  <2> QED BY <1>0, <2>1, <2>2 DEF Candidates, Sound, Owner
<1> QED BY <1>1, <1>2, <1>3

\* A viewer that leaves and does not hold the terminal leaves the election sound.
LEMMA FollowerLeaves ==
  ASSUME Shape, ElectionSound, NEW c \in Clients, c \notin {controller, explicit}
  PROVE  Sound([viewers EXCEPT ![c] = NoViewer], controller, explicit)
<1> DEFINE vs == [viewers EXCEPT ![c] = NoViewer]
<1>1. \A d \in Clients \ {c} : vs[d] = viewers[d] BY DEF Shape
<1>2. ~Eligible(vs, c) BY DEF Eligible, Shape
<1>3. EligibleIn(vs) = EligibleIn(viewers) \ {c} BY <1>1, <1>2 DEF EligibleIn, Eligible
<1>4. LocalIn(vs) \subseteq LocalIn(viewers) BY <1>1, <1>3 DEF LocalIn, EligibleIn
<1> HIDE DEF vs
<1>5. controller # NoClient => controller \in Clients \ {c} /\ vs[controller] = viewers[controller]
  BY <1>1 DEF Shape, Owner
<1>6. Sound(vs, controller, explicit) BY <1>3, <1>4, <1>5 DEF Sound, ElectionSound
<1> QED BY <1>6 DEF vs

LEMMA RemovedSound ==
  ASSUME Shape, ElectionSound, NEW c \in Clients, Removed(c)
  PROVE  ElectionSound' /\ controller' \in Owner /\ explicit' \in Owner
         /\ viewers' \in [Clients -> Viewers \cup {NoViewer}]
<1> DEFINE vs == [viewers EXCEPT ![c] = NoViewer]
<1>1. vs \in [Clients -> Viewers \cup {NoViewer}] BY DEF Shape
<1>2. CASE c \in {controller, explicit}
  <2>1. PICK e \in Elected(vs, NoClient, NoClient) :
          viewers' = vs /\ controller' = e[1] /\ explicit' = e[2]
    BY <1>2 DEF Removed, Update
  <2> HIDE DEF vs
  <2>2. Sound(vs, e[1], e[2]) /\ e[1] \in Owner /\ e[2] \in Owner BY <1>1, <2>1, ElectedSound
  <2> QED BY <1>1, <2>1, <2>2 DEF Sound, ElectionSound
<1>3. CASE c \notin {controller, explicit}
  <2>1. viewers' = vs /\ UNCHANGED <<controller, explicit>> BY <1>3 DEF Removed, Update
  <2>2. Sound(vs, controller, explicit) BY <1>3, FollowerLeaves
  <2> HIDE DEF vs
  <2> QED BY <1>1, <2>1, <2>2 DEF Sound, ElectionSound, Shape
<1> QED BY <1>2, <1>3
-----------------------------------------------------------------------------
\* The lifecycle lock is held by the one connection that is applying a size.
LockHeld ==
  /\ \A c \in Clients : pc[c] \in {"apply", "mark"} => lock = c
  /\ lock # NoClient => pc[lock] \in {"apply", "mark"}

\* Only the holder of the lock sees the sizes differ.
GridsHeld ==
  /\ lock = NoClient \/ pc[lock] = "apply" =>
       grid = recorded /\ grid = shown /\ ("split" \notin notes => pty = grid)
  /\ lock # NoClient /\ pc[lock] = "mark" => pty = pend[lock] /\ grid = pend[lock]

Inv == Shape /\ ElectionSound /\ LockHeld /\ GridsHeld

LEMMA UpdateFlow ==
  ASSUME Inv, NEW c \in Clients, NEW vs, NEW sizes, NEW election, NEW applied, NEW asks,
         NEW step \in {"apply", "leaving"},
         pc[c] = "idle", step = "apply" => lock = NoClient,
         Update(c, vs, sizes, election, applied, asks, step),
         "split" \in notes' <=> "split" \in notes
  PROVE  /\ LockHeld' /\ GridsHeld'
         /\ pc' \in [Clients -> {"idle", "leaving", "apply", "mark"}]
         /\ pend' = [d \in Clients |-> pend'[d]]
         /\ lock' \in Owner
<1>1. UNCHANGED termVars BY DEF Update
<1>2. NoClient \notin Clients BY GeometryAssumption
<1>3. CASE UNCHANGED <<pend, pc, lock>>
  BY <1>1, <1>3 DEF Inv, Shape, LockHeld, GridsHeld, termVars
<1>4. CASE /\ pc' = [pc EXCEPT ![c] = step]
           /\ lock' = IF step = "apply" THEN c ELSE lock
           /\ \E size : pend' = [pend EXCEPT ![c] = size]
  <2>1. /\ pc' \in [Clients -> {"idle", "leaving", "apply", "mark"}] /\ pc'[c] = step
        /\ \A d \in Clients \ {c} : pc'[d] = pc[d]
    BY <1>4 DEF Inv, Shape
  <2>2. /\ pend' = [d \in Clients |-> pend'[d]]
        /\ \A d \in Clients \ {c} : pend'[d] = pend[d]
    BY <1>4 DEF Inv, Shape
  <2>3. lock # c /\ lock \in Owner BY <1>2 DEF Inv, Shape, LockHeld
  <2>4. CASE step = "apply"
    BY <1>1, <1>2, <1>4, <2>1, <2>2, <2>3, <2>4 DEF Inv, LockHeld, GridsHeld, termVars, Owner
  <2>5. CASE step = "leaving"
    BY <1>1, <1>2, <1>4, <2>1, <2>2, <2>3, <2>5 DEF Inv, LockHeld, GridsHeld, termVars, Owner
  <2> QED BY <2>4, <2>5
<1> QED BY <1>3, <1>4 DEF Update

\* The commands, which elect and ask for a size.
LEMMA CommandInv ==
  ASSUME Inv, NEW c \in Clients, NEW vs \in [Clients -> Viewers \cup {NoViewer}], NEW sizes,
         NEW owner, NEW chosen, NEW applied, NEW asks, NEW step \in {"apply", "leaving"},
         pc[c] = "idle", step = "apply" => lock = NoClient,
         Update(c, vs, sizes, <<owner, chosen>>, applied, asks, step),
         Sound(vs, owner, chosen), owner \in Owner, chosen \in Owner,
         "split" \in notes' <=> "split" \in notes
  PROVE  Inv'
<1>1. viewers' = vs /\ controller' = owner /\ explicit' = chosen BY DEF Update
<1>2. ElectionSound' BY <1>1 DEF Sound, ElectionSound
<1>3. /\ LockHeld' /\ GridsHeld'
      /\ pc' \in [Clients -> {"idle", "leaving", "apply", "mark"}]
      /\ pend' = [d \in Clients |-> pend'[d]]
      /\ lock' \in Owner
  BY UpdateFlow
<1>4. Shape' BY <1>1, <1>3 DEF Shape
<1> QED BY <1>2, <1>3, <1>4 DEF Inv

LEMMA ElectInv ==
  ASSUME Inv, NEW c \in Clients, NEW vs \in [Clients -> Viewers \cup {NoViewer}], NEW sizes,
         NEW current, NEW preferred, NEW applied, NEW step \in {"apply", "leaving"},
         pc[c] = "idle", step = "apply" => lock = NoClient,
         \E e \in Elected(vs, current, preferred), asks \in BOOLEAN :
           Update(c, vs, sizes, e, applied, asks, step),
         "split" \in notes' <=> "split" \in notes
  PROVE  Inv'
<1>1. PICK e \in Elected(vs, current, preferred), asks \in BOOLEAN :
             Update(c, vs, sizes, e, applied, asks, step)
  OBVIOUS
<1>2. Sound(vs, e[1], e[2]) /\ e[1] \in Owner /\ e[2] \in Owner BY ElectedSound
<1>3. Update(c, vs, sizes, <<e[1], e[2]>>, applied, asks, step)
  BY <1>1 DEF Update
<1> QED BY <1>2, <1>3, CommandInv

LEMMA ActionInv ==
  ASSUME Inv, Next
  PROVE  Inv'
<1>1. PICK c \in Clients :
        \/ \E v \in Viewers : Register(c, v)
        \/ \E size \in Sizes : ResizeViewer(c, size) \/ ResizeLegacy(c, size)
        \/ TakeoverViewer(c) \/ ReleaseViewer(c) \/ Detach(c) \/ Disconnect(c)
        \/ Acquire(c) \/ Apply(c) \/ Mark(c)
  BY DEF Next
<1>0. NoClient \notin Clients /\ c # NoClient BY GeometryAssumption
<1>2. ASSUME NEW v \in Viewers, Register(c, v) PROVE Inv'
  <2> DEFINE vs == [viewers EXCEPT ![c] = v]
             applied == IF known THEN lastApplied ELSE Swap(pty)
  <2>1. vs \in [Clients -> Viewers \cup {NoViewer}] BY DEF Inv, Shape
  <2>2. pc[c] = "idle" /\ lock = NoClient /\ ("split" \in notes' <=> "split" \in notes)
    BY <1>2 DEF Register, Ready, Entered
  <2>3. \E e \in Elected(vs, controller, explicit), asks \in BOOLEAN :
          Update(c, vs, legacy, e, applied, asks, "apply")
    BY <1>2 DEF Register
  <2> HIDE DEF vs, applied
  <2> QED BY <2>1, <2>2, <2>3, ElectInv
<1>3. ASSUME NEW size \in Sizes, ResizeViewer(c, size) PROVE Inv'
  <2>1. Measured(c, size) \in [Clients -> Viewers \cup {NoViewer}]
    BY <1>3 DEF ResizeViewer, Measured, Inv, Shape, Viewers
  <2>2. pc[c] = "idle" /\ lock = NoClient /\ ("split" \in notes' <=> "split" \in notes)
    BY <1>3 DEF ResizeViewer, Ready, Entered
  <2>3. \E e \in Elected(Measured(c, size), controller, explicit), asks \in BOOLEAN :
          Update(c, Measured(c, size), legacy, e, lastApplied, asks, "apply")
    BY <1>3 DEF ResizeViewer
  <2> QED BY <2>1, <2>2, <2>3, ElectInv
<1>4. ASSUME NEW size \in Sizes, ResizeLegacy(c, size) PROVE Inv'
  <2>1. Sound(viewers, controller, explicit) BY DEF Inv, ElectionSound, Sound
  <2>2. pc[c] = "idle" /\ lock = NoClient /\ ("split" \in notes' <=> "split" \in notes)
    BY <1>4 DEF ResizeLegacy, Ready, Entered
  <2>3. PICK sizes, applied :
          Update(c, viewers, sizes, <<controller, explicit>>, applied, TRUE, "apply")
    BY <1>4 DEF ResizeLegacy
  <2> QED BY <2>1, <2>2, <2>3, CommandInv DEF Inv, Shape
<1>5. CASE TakeoverViewer(c)
  <2>1. Sound(viewers, c, c) /\ c \in Owner BY <1>0, <1>5 DEF TakeoverViewer, Sound, Owner
  <2>2. /\ pc[c] = "idle" /\ lock = NoClient /\ UNCHANGED notes
        /\ Update(c, viewers, legacy, <<c, c>>, lastApplied, TRUE, "apply")
    BY <1>5 DEF TakeoverViewer, Ready
  <2> QED BY <2>1, <2>2, CommandInv DEF Inv, Shape
<1>6. CASE ReleaseViewer(c)
  <2>1. /\ pc[c] = "idle" /\ lock = NoClient /\ UNCHANGED notes
        /\ \E e \in Elected(viewers, NoClient, NoClient), asks \in BOOLEAN :
             Update(c, viewers, legacy, e, lastApplied, asks, "apply")
    BY <1>6 DEF ReleaseViewer, Ready
  <2>2. viewers \in [Clients -> Viewers \cup {NoViewer}] BY DEF Inv, Shape
  <2> QED BY <2>1, <2>2, ElectInv
<1>7. CASE Detach(c) \/ Disconnect(c)
  <2>1. pc[c] = "idle" /\ UNCHANGED notes /\ Removed(c) BY <1>7 DEF Detach, Disconnect
  <2>2. /\ ElectionSound' /\ controller' \in Owner /\ explicit' \in Owner
        /\ viewers' \in [Clients -> Viewers \cup {NoViewer}]
    BY <2>1, RemovedSound DEF Inv
  <2>3. PICK vs, sizes, election, applied, asks :
          Update(c, vs, sizes, election, applied, asks, "leaving")
    BY <2>1 DEF Removed
  <2>4. /\ LockHeld' /\ GridsHeld'
        /\ pc' \in [Clients -> {"idle", "leaving", "apply", "mark"}]
        /\ pend' = [d \in Clients |-> pend'[d]]
        /\ lock' \in Owner
    BY <2>1, <2>3, UpdateFlow
  <2> QED BY <2>2, <2>4 DEF Inv, Shape
<1>8. CASE Acquire(c)
  <2>1. ElectionSound' BY <1>8 DEF Acquire, sizeVars, Inv, ElectionSound
  <2>2. /\ pc' \in [Clients -> {"idle", "leaving", "apply", "mark"}] /\ pc'[c] = "apply"
        /\ \A d \in Clients \ {c} : pc'[d] = pc[d]
    BY <1>8 DEF Acquire, Inv, Shape
  <2>3. lock = NoClient /\ lock' = c /\ UNCHANGED <<pend, termVars, notes>> BY <1>8 DEF Acquire
  <2>4. LockHeld' /\ GridsHeld'
    BY <1>0, <2>2, <2>3 DEF Inv, LockHeld, GridsHeld, termVars
  <2>5. Shape' BY <1>8, <2>2, <2>3 DEF Acquire, Inv, Shape, Owner, sizeVars
  <2> QED BY <2>1, <2>4, <2>5 DEF Inv
<1>9. CASE Apply(c)
  <2>1. ElectionSound' BY <1>9 DEF Apply, sizeVars, Inv, ElectionSound
  <2>2. lock = c /\ pc[c] = "apply" BY <1>9 DEF Apply, Inv, LockHeld
  <2>3. CASE /\ pty' = pend[c] /\ grid' = pend[c] /\ pc' = [pc EXCEPT ![c] = "mark"]
             /\ UNCHANGED <<lock, pend>>
    <3>1. /\ pc' \in [Clients -> {"idle", "leaving", "apply", "mark"}] /\ pc'[c] = "mark"
          /\ \A d \in Clients \ {c} : pc'[d] = pc[d]
      BY <2>3 DEF Inv, Shape
    <3>2. LockHeld' /\ GridsHeld' BY <1>0, <2>2, <2>3, <3>1 DEF Inv, LockHeld, GridsHeld
    <3>3. Shape' BY <1>9, <2>3, <3>1 DEF Apply, Inv, Shape, sizeVars
    <3> QED BY <2>1, <3>2, <3>3 DEF Inv
  <2>4. CASE Finish(c) /\ (ResizeRefused(c) \/ (UNCHANGED <<grid, recorded, shown>> /\ "split" \in notes'))
    <3>1. /\ pc' \in [Clients -> {"idle", "leaving", "apply", "mark"}] /\ pc'[c] = "idle"
          /\ \A d \in Clients \ {c} : pc'[d] = pc[d]
          /\ pend' = [d \in Clients |-> pend'[d]] /\ lock' = NoClient
      BY <2>4 DEF Finish, Inv, Shape
    <3>2. /\ UNCHANGED <<grid, recorded, shown>>
          /\ "split" \notin notes' => "split" \notin notes /\ UNCHANGED pty
      BY <2>4 DEF ResizeRefused, termVars
    <3>3. LockHeld' BY <1>0, <2>2, <3>1 DEF Inv, LockHeld
    <3>4. GridsHeld' BY <2>2, <3>1, <3>2 DEF Inv, GridsHeld
    <3>5. Shape' BY <1>9, <3>1 DEF Apply, Inv, Shape, sizeVars, Owner
    <3> QED BY <2>1, <3>3, <3>4, <3>5 DEF Inv
  <2> QED BY <1>9, <2>3, <2>4 DEF Apply
<1>10. CASE Mark(c)
  <2>1. ElectionSound' BY <1>10 DEF Mark, Inv, ElectionSound
  <2>2. lock = c /\ pc[c] = "mark" /\ pty = pend[c] /\ grid = pend[c]
    BY <1>0, <1>10 DEF Mark, Inv, LockHeld, GridsHeld
  <2>3. /\ pc' \in [Clients -> {"idle", "leaving", "apply", "mark"}] /\ pc'[c] = "idle"
        /\ \A d \in Clients \ {c} : pc'[d] = pc[d]
        /\ pend' = [d \in Clients |-> pend'[d]] /\ lock' = NoClient
    BY <1>10 DEF Mark, Finish, Inv, Shape
  <2>4. LockHeld' BY <1>0, <2>2, <2>3 DEF Inv, LockHeld
  <2>5. GridsHeld' BY <1>10, <2>2, <2>3 DEF Mark, GridsHeld
  <2>6. Shape' BY <1>10, <2>3 DEF Mark, Inv, Shape, Owner
  <2> QED BY <2>1, <2>4, <2>5, <2>6 DEF Inv
<1> QED BY <1>1, <1>2, <1>3, <1>4, <1>5, <1>6, <1>7, <1>8, <1>9, <1>10

(* Whatever connections interleave, the election of client.rs is sound and the  *)
(* lifecycle lock is held by the one connection applying a size.                *)
THEOREM Invariance == Spec => []Inv
<1>1. Init => Inv
  <2> SUFFICES ASSUME Init PROVE Inv OBVIOUS
  <2>1. \A c \in Clients : viewers[c] = NoViewer /\ ~Eligible(viewers, c) BY DEF Init, Eligible
  <2>2. EligibleIn(viewers) = {} BY <2>1 DEF EligibleIn
  <2>3. ElectionSound BY <2>2 DEF Init, ElectionSound
  <2>4. Shape BY DEF Init, Shape, Owner
  <2>5. LockHeld /\ GridsHeld BY DEF Init, LockHeld, GridsHeld
  <2> QED BY <2>3, <2>4, <2>5 DEF Inv
<1>2. Inv /\ [Next]_vars => Inv'
  <2>1. Inv /\ Next => Inv' BY ActionInv
  <2>2. Inv /\ UNCHANGED vars => Inv'
    BY DEF vars, sizeVars, termVars, Inv, Shape, ElectionSound, LockHeld, GridsHeld
  <2> QED BY <2>1, <2>2
<1> QED BY <1>1, <1>2, PTL DEF Spec

(* SessionSizeState always has a controller when a viewer could be one, that    *)
(* controller is visible and measured, and a remote holds the terminal from a   *)
(* local only by takeover.                                                      *)
THEOREM ElectionAlwaysSound == Spec => []ElectionSound
<1>1. Inv => ElectionSound BY DEF Inv
<1> QED BY <1>1, Invariance, PTL

(* Once no connection holds the session, the headless terminal, the recovery    *)
(* session and the published snapshot have one size, and the PTY has it too     *)
(* unless a rollback failed.                                                    *)
THEOREM GridsAlwaysAgree == Spec => []GridsAgree
<1>1. Inv => GridsAgree BY DEF Inv, GridsHeld, GridsAgree
<1> QED BY <1>1, Invariance, PTL
-----------------------------------------------------------------------------
(* What the size state records and what the PTY has. A command elects for the *)
(* size it last recorded; the record is the PTY's size unless the holder of    *)
(* the lock is between resize and mark_applied.                                *)
Clean == notes \cap {"forgotten", "split"} = {}
Calm == \A c \in Clients : pc[c] = "idle"

\* The record is wrong only between the resize and its mark_applied.
Recorded == known /\ Clean /\ (lock = NoClient \/ pc[lock] = "apply") => lastApplied = pty
\* An entry is dropped only when nobody is registered in it.
Entry == ~known => Registered(viewers) = {}
\* With no size on its way the PTY has the controller's.
Sized == controller # NoClient /\ notes = {} /\ Calm => pty = viewers[controller].size
SizeInv == Recorded /\ Entry /\ Sized

\* A measurement can make its own viewer the controller and nobody else.
LEMMA MeasuredElects ==
  ASSUME Inv, NEW c \in Clients, NEW size \in Sizes, viewers[c] # NoViewer,
         NEW e \in Elected(Measured(c, size), controller, explicit),
         e[1] # c, e[1] # NoClient
  PROVE  e[1] = controller /\ Measured(c, size)[e[1]] = viewers[e[1]]
<1> DEFINE vs == Measured(c, size)
<1>0. NoClient \notin Clients BY GeometryAssumption
<1>1. viewers[c] \in Viewers BY DEF Inv, Shape
<1>2. /\ vs \in [Clients -> Viewers \cup {NoViewer}]
      /\ \A d \in Clients \ {c} : vs[d] = viewers[d]
      /\ vs[c].role = viewers[c].role
      /\ Eligible(viewers, c) => Eligible(vs, c)
  <2>1. CASE vs = viewers
    <3>1. vs = viewers BY <2>1
    <3> HIDE DEF vs
    <3> QED BY <3>1 DEF Inv, Shape
  <2>2. CASE viewers[c].visible /\ size[1] > 0 /\ size[2] > 0
    <3> DEFINE v == [viewers[c] EXCEPT !.size = size]
    <3>1. /\ v \in Viewers /\ v.role = viewers[c].role
          /\ v.visible = viewers[c].visible /\ v.size = size
      BY <1>1 DEF Viewers
    <3>2. vs = [viewers EXCEPT ![c] = v] BY <2>2 DEF Measured
    <3> HIDE DEF v
    <3>3. vs[c] = v /\ vs \in [Clients -> Viewers \cup {NoViewer}]
          /\ \A d \in Clients \ {c} : vs[d] = viewers[d]
      BY <3>1, <3>2 DEF Inv, Shape
    <3>4. v # NoViewer
      BY <1>1, <3>1 DEF Viewers, Roles, NoViewer
    <3> HIDE DEF vs
    <3> QED BY <2>2, <3>1, <3>3, <3>4 DEF Eligible
  <2> QED BY <2>1, <2>2 DEF Measured
<1> HIDE DEF vs
<1>3. /\ EligibleIn(vs) \subseteq EligibleIn(viewers) \cup {c}
      /\ EligibleIn(viewers) \subseteq EligibleIn(vs)
  BY <1>2 DEF EligibleIn, Eligible
<1>4. LocalIn(vs) \subseteq LocalIn(viewers) \cup {c}
  BY <1>2, <1>3 DEF LocalIn, EligibleIn
<1>5. ASSUME controller # NoClient
      PROVE  /\ controller \in EligibleIn(vs) /\ controller \in Clients
             /\ vs[controller].role = viewers[controller].role
             /\ viewers[controller].role \in Roles
  <2>1. controller \in EligibleIn(viewers) BY <1>5 DEF Inv, ElectionSound
  <2>2. controller \in Clients /\ viewers[controller] \in Viewers
    BY <2>1 DEF EligibleIn, Eligible, Inv, Shape
  <2> QED BY <1>2, <1>3, <2>1, <2>2 DEF Viewers
<1>6. EligibleIn(vs) \subseteq Clients BY DEF EligibleIn
<1>7. e[1] = controller
  <2>1. CASE explicit \in EligibleIn(vs)
    <3>1. e[1] = explicit BY <2>1 DEF Elected, vs
    <3> QED BY <1>0, <1>6, <2>1, <3>1 DEF Inv, ElectionSound
  <2>2. CASE explicit \notin EligibleIn(vs) /\ controller \in EligibleIn(vs)
             /\ (vs[controller].role = "local" \/ LocalIn(vs) = {})
    BY <2>2 DEF Elected, vs
  <2>3. CASE explicit \notin EligibleIn(vs)
             /\ ~(controller \in EligibleIn(vs) /\ (vs[controller].role = "local" \/ LocalIn(vs) = {}))
    <3>1. e[1] \in Candidates(vs) BY <2>3 DEF Elected, vs
    <3>2. CASE controller = NoClient
      <4>1. EligibleIn(viewers) = {} BY <3>2 DEF Inv, ElectionSound
      <4>2. LocalIn(vs) \subseteq {c} /\ EligibleIn(vs) \subseteq {c} BY <1>3, <4>1 DEF LocalIn
      <4> QED BY <3>1, <4>2 DEF Candidates
    <3>3. CASE controller # NoClient
      <4>1. LocalIn(vs) # {} /\ viewers[controller].role = "remote"
        BY <1>5, <2>3, <3>3 DEF Roles
      <4>2. explicit = NoClient BY <1>5, <2>3, <3>3 DEF Inv, ElectionSound
      <4>3. LocalIn(viewers) = {} BY <3>3, <4>1, <4>2 DEF Inv, ElectionSound
      <4>4. EligibleIn(vs) # {} /\ e[1] \in LocalIn(vs)
        BY <3>1, <4>1 DEF Candidates, LocalIn
      <4> QED BY <1>4, <4>3, <4>4
    <3> QED BY <3>2, <3>3
  <2> QED BY <2>1, <2>2, <2>3
<1>8. vs[e[1]] = viewers[e[1]] BY <1>2, <1>5, <1>7
<1> QED BY <1>7, <1>8 DEF vs

\* Every command: what it does not have applied, it leaves as it was.
LEMMA CommandSized ==
  ASSUME Inv, SizeInv, Inv', Entry', NEW c \in Clients, NEW vs, NEW sizes, NEW e,
         NEW applied, NEW asks \in BOOLEAN, NEW step \in {"apply", "leaving"},
         pc[c] = "idle", step = "apply" => lock = NoClient,
         Update(c, vs, sizes, e, applied, asks, step),
         known => applied = lastApplied,
         \/ notes' = notes /\ (known' => known)
         \/ "forgotten" \in notes',
         ~asks /\ e[1] # NoClient => e[1] = controller /\ vs[e[1]] = viewers[e[1]]
  PROVE  SizeInv'
<1>1. /\ viewers' = vs /\ lastApplied' = applied /\ controller' = e[1]
      /\ UNCHANGED termVars
  BY DEF Update
<1>2. CASE "forgotten" \in notes'
  BY <1>2 DEF SizeInv, Recorded, Sized, Clean
<1>3. CASE notes' = notes /\ (known' => known)
  <2>1. pty' = pty BY <1>1 DEF termVars
  <2>2. lock # c /\ lock \in Owner BY GeometryAssumption DEF Inv, Shape, LockHeld
  <2>3. lock' = NoClient \/ pc'[lock'] = "apply" => lock = NoClient \/ pc[lock] = "apply"
    <3>1. CASE UNCHANGED <<pc, lock>> BY <3>1
    <3>2. CASE pc' = [pc EXCEPT ![c] = step] /\ lock' = IF step = "apply" THEN c ELSE lock
      <4>1. CASE step = "apply" BY <4>1
      <4>2. CASE step = "leaving" BY <3>2, <4>2, <2>2 DEF Inv, Shape, Owner
      <4> QED BY <4>1, <4>2
    <3> QED BY <3>1, <3>2 DEF Update
  <2>4. Recorded'
    BY <1>1, <1>3, <2>1, <2>3 DEF SizeInv, Recorded, Clean
  <2>5. Sized'
    <3> SUFFICES ASSUME e[1] # NoClient, notes' = {}, Calm' PROVE pty = vs[e[1]].size
      BY <1>1, <2>1 DEF Sized
    <3>1. controller' \in EligibleIn(viewers') BY <1>1 DEF Inv, ElectionSound
    <3>2. controller' \in Registered(viewers') BY <3>1 DEF EligibleIn, Eligible, Registered
    <3>3. known /\ notes = {} BY <1>3, <3>2 DEF Entry
    <3>4. ~(pc' = [pc EXCEPT ![c] = step])
      <4>1. pc' = [pc EXCEPT ![c] = step] => pc'[c] = step BY DEF Inv, Shape
      <4> QED BY <4>1 DEF Calm
    <3>5. UNCHANGED <<pc, lock>> /\ ~(asks /\ Proposed(vs, sizes, e[1], applied) # applied)
      BY <3>4 DEF Update
    <3>6. Calm BY <3>5 DEF Calm
    <3>7. lock = NoClient BY <3>6 DEF Calm, Inv, LockHeld, Shape, Owner
    <3>8. applied = pty BY <3>3, <3>7 DEF SizeInv, Recorded, Clean
    <3>9. CASE asks BY <3>5, <3>8, <3>9 DEF Proposed
    <3>10. CASE ~asks BY <3>3, <3>6, <3>10 DEF SizeInv, Sized
    <3> QED BY <3>9, <3>10
  <2> QED BY <2>4, <2>5 DEF SizeInv
<1> QED BY <1>2, <1>3

LEMMA ActionSized ==
  ASSUME Inv, SizeInv, Next
  PROVE  SizeInv'
<1>i. Inv' BY ActionInv
<1>0. NoClient \notin Clients BY GeometryAssumption
<1>t. viewers \in [Clients -> Viewers \cup {NoViewer}] BY DEF Inv, Shape
<1>1. PICK c \in Clients :
        \/ \E v \in Viewers : Register(c, v)
        \/ \E size \in Sizes : ResizeViewer(c, size) \/ ResizeLegacy(c, size)
        \/ TakeoverViewer(c) \/ ReleaseViewer(c) \/ Detach(c) \/ Disconnect(c)
        \/ Acquire(c) \/ Apply(c) \/ Mark(c)
  BY DEF Next
<1>e. Entered => Entry' /\ (\/ notes' = notes /\ (known' => known)
                            \/ "forgotten" \in notes')
  BY DEF Entered, Entry
<1>2. ASSUME NEW v \in Viewers, Register(c, v) PROVE SizeInv'
  <2> DEFINE vs == [viewers EXCEPT ![c] = v]
             applied == IF known THEN lastApplied ELSE Swap(pty)
  <2>1. PICK e \in Elected(vs, controller, explicit) :
               Update(c, vs, legacy, e, applied, TRUE, "apply")
    BY <1>2 DEF Register
  <2>2. pc[c] = "idle" /\ lock = NoClient /\ Entered BY <1>2 DEF Register, Ready
  <2>3. known => applied = lastApplied OBVIOUS
  <2> HIDE DEF vs, applied
  <2> QED BY <1>i, <1>e, <2>1, <2>2, <2>3, CommandSized
<1>3. ASSUME NEW size \in Sizes, ResizeViewer(c, size) PROVE SizeInv'
  <2>1. PICK e \in Elected(Measured(c, size), controller, explicit) :
               Update(c, Measured(c, size), legacy, e, lastApplied, e[1] = c, "apply")
    BY <1>3 DEF ResizeViewer
  <2>2. pc[c] = "idle" /\ lock = NoClient /\ viewers[c] # NoViewer /\ Entered
    BY <1>3 DEF ResizeViewer, Ready
  <2>3. ~(e[1] = c) /\ e[1] # NoClient
          => e[1] = controller /\ Measured(c, size)[e[1]] = viewers[e[1]]
    BY <2>2, MeasuredElects
  <2>4. (e[1] = c) \in BOOLEAN OBVIOUS
  <2> QED BY <1>i, <1>e, <2>1, <2>2, <2>3, <2>4, CommandSized
<1>4. ASSUME NEW size \in Sizes, ResizeLegacy(c, size) PROVE SizeInv'
  <2> DEFINE applied == IF known THEN lastApplied ELSE size
             sizes == [legacy EXCEPT ![c] = size]
  <2>1. Update(c, viewers, sizes, <<controller, explicit>>, applied, TRUE, "apply")
    BY <1>4 DEF ResizeLegacy
  <2>2. pc[c] = "idle" /\ lock = NoClient /\ Entered BY <1>4 DEF ResizeLegacy, Ready
  <2>3. known => applied = lastApplied OBVIOUS
  <2> HIDE DEF applied, sizes
  <2> QED BY <1>i, <1>e, <2>1, <2>2, <2>3, CommandSized
<1>5. CASE TakeoverViewer(c)
  <2>1. /\ Update(c, viewers, legacy, <<c, c>>, lastApplied, TRUE, "apply")
        /\ pc[c] = "idle" /\ lock = NoClient /\ UNCHANGED <<known, notes>>
    BY <1>5 DEF TakeoverViewer, Ready
  <2>2. Entry' BY <2>1 DEF Update, SizeInv, Entry
  <2> QED BY <1>i, <2>1, <2>2, CommandSized
<1>6. CASE ReleaseViewer(c)
  <2>1. PICK e \in Elected(viewers, NoClient, NoClient) :
               Update(c, viewers, legacy, e, lastApplied, TRUE, "apply")
    BY <1>6 DEF ReleaseViewer
  <2>2. pc[c] = "idle" /\ lock = NoClient /\ UNCHANGED <<known, notes>>
    BY <1>6 DEF ReleaseViewer, Ready
  <2>3. Entry' BY <2>1, <2>2 DEF Update, SizeInv, Entry
  <2> QED BY <1>i, <2>1, <2>2, <2>3, CommandSized
<1>7. CASE Detach(c) \/ Disconnect(c)
  <2> DEFINE vs == [viewers EXCEPT ![c] = NoViewer]
             sizes == [legacy EXCEPT ![c] = NoSize]
             asked == legacy[c] # NoSize /\ Registered(vs) = {}
  <2>1. pc[c] = "idle" /\ known /\ UNCHANGED notes /\ Removed(c)
    BY <1>7 DEF Detach, Disconnect
  <2>2. Entry'
    BY <1>7, <2>1 DEF Detach, Disconnect, Entry
  <2>3. CASE c \in {controller, explicit}
    <3>1. PICK e \in Elected(vs, NoClient, NoClient) :
                 Update(c, vs, sizes, e, lastApplied, TRUE, "leaving")
      BY <2>1, <2>3 DEF Removed
    <3> HIDE DEF vs, sizes
    <3> QED BY <1>i, <2>1, <2>2, <3>1, CommandSized
  <2>4. CASE c \notin {controller, explicit}
    <3>1. Update(c, vs, sizes, <<controller, explicit>>, lastApplied, asked, "leaving")
      BY <2>1, <2>4 DEF Removed
    <3>2. controller # NoClient => vs[controller] = viewers[controller]
      BY <1>t, <2>4 DEF Inv, Shape, Owner
    <3>3. asked \in BOOLEAN OBVIOUS
    <3> HIDE DEF vs, sizes, asked
    <3> QED BY <1>i, <2>1, <2>2, <3>1, <3>2, <3>3, CommandSized
  <2> QED BY <2>3, <2>4
<1>8. CASE Acquire(c)
  <2>1. pc'[c] = "apply" /\ lock = NoClient /\ UNCHANGED <<sizeVars, termVars, notes>>
    BY <1>8 DEF Acquire, Inv, Shape
  <2>2. Recorded' /\ Entry' BY <2>1 DEF SizeInv, Recorded, Clean, Entry, sizeVars, termVars
  <2>3. Sized' BY <2>1 DEF Sized, Calm
  <2> QED BY <2>2, <2>3 DEF SizeInv
<1>9. CASE Apply(c)
  <2>1. Entry' BY <1>9 DEF Apply, SizeInv, Entry, sizeVars
  <2>2. lock = c /\ pc[c] = "apply" /\ UNCHANGED <<known, lastApplied>>
    BY <1>9 DEF Apply, Inv, LockHeld, sizeVars
  <2>3. CASE pc' = [pc EXCEPT ![c] = "mark"] /\ UNCHANGED lock
    <3>1. pc'[c] = "mark" BY <2>3 DEF Inv, Shape
    <3> QED BY <1>0, <2>1, <2>2, <2>3, <3>1 DEF SizeInv, Recorded, Sized, Calm
  <2>4. CASE ResizeRefused(c)
    BY <2>1, <2>2, <2>4 DEF ResizeRefused, SizeInv, Recorded, Clean, Sized, termVars
  <2>5. CASE notes' = notes \cup {"failed", "split"}
    BY <2>1, <2>5 DEF SizeInv, Recorded, Clean, Sized
  <2> QED BY <1>9, <2>3, <2>4, <2>5 DEF Apply
<1>10. CASE Mark(c)
  <2>1. pty = pend[c] BY <1>0, <1>10 DEF Mark, Inv, LockHeld, GridsHeld
  <2>2. Entry' BY <1>10 DEF Mark, SizeInv, Entry
  <2>3. Recorded' BY <1>10, <2>1 DEF Mark, Recorded
  <2>4. Sized'
    <3> SUFFICES ASSUME controller # NoClient, notes' = {} PROVE pty = viewers[controller].size
      BY <1>10 DEF Mark, Sized
    <3>1. controller \in Registered(viewers)
      BY DEF Inv, ElectionSound, EligibleIn, Eligible, Registered
    <3>2. known BY <3>1 DEF SizeInv, Entry
    <3>3. Proposed(viewers, legacy, controller, pend[c]) = pend[c] BY <1>10, <3>2 DEF Mark
    <3> QED BY <2>1, <3>3 DEF Proposed
  <2> QED BY <2>2, <2>3, <2>4 DEF SizeInv
<1> QED BY <1>1, <1>2, <1>3, <1>4, <1>5, <1>6, <1>7, <1>8, <1>9, <1>10

LEMMA SizeInvariant == Spec => []SizeInv
<1>1. Init => SizeInv
  BY DEF Init, SizeInv, Recorded, Entry, Sized, Registered
<1>2. Inv /\ SizeInv /\ [Next]_vars => SizeInv'
  <2>1. Inv /\ SizeInv /\ Next => SizeInv' BY ActionSized
  <2>2. SizeInv /\ UNCHANGED vars => SizeInv'
    BY DEF vars, sizeVars, termVars, SizeInv, Recorded, Entry, Sized, Clean, Calm
  <2> QED BY <2>1, <2>2
<1> QED BY <1>1, <1>2, Invariance, PTL DEF Spec

(* Whatever interleaves and fails, when no command is in flight the PTY has the *)
(* size its controller measured, unless the last resize failed, was overtaken   *)
(* by another command or started from a dropped entry.                          *)
THEOREM TerminalSettles == Spec => []Settled
<1>1. SizeInv => Settled BY DEF SizeInv, Sized, Calm, Settled, Quiet
<1> QED BY <1>1, SizeInvariant, PTL

(* last_applied is the size the PTY was last given whenever nobody holds the    *)
(* session, unless its entry was dropped and made again or a rollback failed.   *)
THEOREM RecordAlwaysTrue == Spec => []RecordTrue
<1>1. SizeInv => RecordTrue BY DEF SizeInv, Recorded, Clean, RecordTrue, Quiet
<1> QED BY <1>1, SizeInvariant, PTL
=============================================================================
