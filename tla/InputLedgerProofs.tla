-------------------------- MODULE InputLedgerProofs --------------------------
(* Theorems about InputLedger for any number of inputs, chunks and daemons.   *)
(* The writer's part: WireInv says what a message looks like on the terminal  *)
(* between its two writes, PauseInv what the pause after one is for.  The     *)
(* ledger's part: CountInv says that the evidence counts what is queued,      *)
(* SightInv what a frame without text proves, HonestInv what "not typed"      *)
(* leaves ahead of the CLI.                                                   *)
EXTENDS InputLedger, FiniteSetTheorems, TLAPS

\* The draft writes enqueued and not completed.
Drafts(q) == {i \in DOMAIN q : q[i] = "draft"}
CountInv ==
  /\ IsFiniteSet(Drafts(queue))
  /\ landing = Cardinality(Drafts(queue))
  /\ landing <= accepted

\* A piece of input is one part of its kind, and a half-written message is the
\* last thing written, or the CLI has its first half in hand.
First(u) == u.kind = "message" /\ u.part = 1
Second(u) == u.kind = "message" /\ u.part = 2
WireInv ==
  /\ \A i \in DOMAIN tty : tty[i].part = 2 => tty[i].kind = "message"
  /\ offset = 1 => queue # <<>> /\ Head(queue) = "message"
  /\ \A i \in DOMAIN tty : First(tty[i]) =>
       IF i < Len(tty) THEN Second(tty[i + 1]) ELSE offset = 1
  /\ composer.message => IF tty # <<>> THEN Second(tty[1]) ELSE offset = 1
  /\ offset = 1 => IF tty # <<>> THEN First(tty[Len(tty)]) ELSE composer.message

\* A daemon that wrote the end of a message pauses until the CLI has read it.
PauseInv ==
  /\ \A i \in DOMAIN tty : tty[i].by <= handoffs
  /\ \A i \in DOMAIN tty : Second(tty[i]) /\ tty[i].by = handoffs => pause
  /\ MessagesApart

\* Text at the prompt is on the frame and in every chunk on its way to it,
\* except before the echo of the latest draft.
SightInv ==
  composer.typed =>
    /\ (\A i \in DOMAIN out : ~out[i].echo) => frame
    /\ \A k \in DOMAIN out :
         (\A i \in DOMAIN out : i > k => ~out[i].echo) => out[k].text

\* What was inherited has seen no draft of this daemon's clients, and the frame
\* an attestation is about is still the one it read.
OriginInv ==
  /\ ~known => /\ ~active
               /\ \A i \in DOMAIN tty : tty[i].kind # "draft"
               /\ \A i \in DOMAIN queue : queue[i] # "draft"
               /\ \A i \in DOMAIN out : ~out[i].echo
  /\ task = "attest" => ~frame

\* NotTypedHonest, told apart by what is written and what is queued.
EnterQueued == \E j \in DOMAIN queue : queue[j] = "enter"
HonestInv == NotTyped /\ ~misled =>
  /\ composer.typed => EnterQueued \/ \E j \in DOMAIN tty : tty[j].kind = "enter"
  /\ \A i \in DOMAIN tty : tty[i].kind = "draft" =>
       EnterQueued \/ \E j \in DOMAIN tty : j > i /\ tty[j].kind = "enter"
  /\ \A i \in DOMAIN queue : queue[i] = "draft" =>
       \E j \in DOMAIN queue : j > i /\ queue[j] = "enter"

Inv == TypeOK /\ CountInv /\ WireInv /\ PauseInv /\ SightInv /\ OriginInv /\ HonestInv
-----------------------------------------------------------------------------
LEMMA AppendFacts ==
  ASSUME NEW S, NEW s \in Seq(S), NEW e \in S
  PROVE  /\ Append(s, e) \in Seq(S) /\ Append(s, e) # <<>>
         /\ Len(s) \in Nat /\ Len(Append(s, e)) = Len(s) + 1
         /\ DOMAIN s = 1..Len(s) /\ DOMAIN Append(s, e) = 1..(Len(s) + 1)
         /\ \A i \in 1..Len(s) : Append(s, e)[i] = s[i]
         /\ Append(s, e)[Len(s) + 1] = e
OBVIOUS

LEMMA EmptyFacts ==
  ASSUME NEW S, NEW s \in Seq(S)
  PROVE  /\ Len(s) \in Nat /\ DOMAIN s = 1..Len(s)
         /\ s = <<>> <=> Len(s) = 0
         /\ \A i \in 1..Len(s) : s[i] \in S
OBVIOUS

LEMMA TailFacts ==
  ASSUME NEW S, NEW s \in Seq(S), s # <<>>
  PROVE  /\ Tail(s) \in Seq(S) /\ Head(s) \in S /\ Head(s) = s[1]
         /\ Len(s) \in Nat \ {0} /\ Len(Tail(s)) = Len(s) - 1
         /\ DOMAIN s = 1..Len(s) /\ DOMAIN Tail(s) = 1..(Len(s) - 1)
         /\ \A i \in 1..(Len(s) - 1) : Tail(s)[i] = s[i + 1]
         /\ Tail(s) = <<>> <=> Len(s) = 1
<1>1. Tail(s) \in Seq(S) /\ Len(s) \in Nat \ {0} /\ Len(Tail(s)) = Len(s) - 1 OBVIOUS
<1>2. Tail(s) = <<>> <=> Len(Tail(s)) = 0 BY <1>1, EmptyFacts
<1>3. DOMAIN s = 1..Len(s) /\ DOMAIN Tail(s) = 1..(Len(s) - 1) BY <1>1
<1>4. Head(s) = s[1] /\ Head(s) \in S BY <1>1
<1>5. \A i \in 1..(Len(s) - 1) : Tail(s)[i] = s[i + 1] BY <1>1
<1> QED BY <1>1, <1>2, <1>3, <1>4, <1>5

LEMMA ConcatFacts ==
  ASSUME NEW S, NEW s \in Seq(S), NEW t \in Seq(S)
  PROVE  /\ Len(s) \in Nat /\ Len(t) \in Nat /\ Len(s \o t) = Len(s) + Len(t)
         /\ DOMAIN (s \o t) = 1..(Len(s) + Len(t))
         /\ \A i \in 1..Len(s) : (s \o t)[i] = s[i]
         /\ \A i \in 1..Len(t) : (s \o t)[Len(s) + i] = t[i]
OBVIOUS

\* Queueing one more input counts one more draft, if it is one.
LEMMA DraftsAppend ==
  ASSUME NEW q \in Seq(Kinds), NEW e \in Kinds, IsFiniteSet(Drafts(q))
  PROVE  /\ IsFiniteSet(Drafts(Append(q, e)))
         /\ Cardinality(Drafts(Append(q, e))) =
              Cardinality(Drafts(q)) + (IF e = "draft" THEN 1 ELSE 0)
         /\ Cardinality(Drafts(q)) \in Nat
<1>1. Cardinality(Drafts(q)) \in Nat BY FS_CardinalityType
<1>2. Len(q) + 1 \notin Drafts(q) BY EmptyFacts DEF Drafts
<1>3. CASE e = "draft"
  <2>1. Drafts(Append(q, e)) = Drafts(q) \cup {Len(q) + 1} BY <1>3, AppendFacts DEF Drafts
  <2> QED BY <1>1, <1>2, <1>3, <2>1, FS_AddElement
<1>4. CASE e # "draft"
  <2>1. Drafts(Append(q, e)) = Drafts(q) BY <1>4, AppendFacts DEF Drafts
  <2> QED BY <1>1, <1>4, <2>1
<1> QED BY <1>3, <1>4

\* Completing the first input counts one draft less, if it was one.
LEMMA DraftsTail ==
  ASSUME NEW q \in Seq(Kinds), q # <<>>, IsFiniteSet(Drafts(q))
  PROVE  /\ IsFiniteSet(Drafts(Tail(q)))
         /\ Cardinality(Drafts(Tail(q))) =
              Cardinality(Drafts(q)) - (IF Head(q) = "draft" THEN 1 ELSE 0)
         /\ Cardinality(Drafts(Tail(q))) \in Nat
<1> DEFINE D == Drafts(q) \ {1}
           T == Drafts(Tail(q))
           f == [i \in D |-> i - 1]
<1>1. IsFiniteSet(D) /\ Cardinality(D) = Cardinality(Drafts(q)) - (IF 1 \in Drafts(q) THEN 1 ELSE 0)
  BY FS_RemoveElement, FS_CardinalityType
<1>2. 1 \in Drafts(q) <=> Head(q) = "draft" BY TailFacts DEF Drafts
<1>3. \A i \in D : i \in 2..Len(q) /\ q[i] = "draft" BY TailFacts DEF Drafts
<1>4. \A i \in T : i + 1 \in D /\ i \in Nat BY TailFacts DEF Drafts
<1>5. \A i \in D : i - 1 \in T BY <1>3, TailFacts DEF Drafts
<1>6. f \in Bijection(D, T)
  <2>1. f \in [D -> T] BY <1>5
  <2>2. \A a, b \in D : f[a] = f[b] => a = b BY <1>3
  <2>3. \A t \in T : \E d \in D : f[d] = t
    <3> TAKE t \in T
    <3>1. t + 1 \in D /\ f[t + 1] = t BY <1>4
    <3> QED BY <3>1
  <2> QED BY <2>1, <2>2, <2>3 DEF Bijection, Injection, Surjection, IsInjective
<1>7. IsFiniteSet(T) /\ Cardinality(T) = Cardinality(D)
  BY <1>1, <1>6, FS_Bijection DEF ExistsBijection
<1> QED BY <1>1, <1>2, <1>7, FS_CardinalityType

\* A write appends the next part of the first input, and completes it unless it
\* was the first half of a message.
Unit == [kind |-> Head(queue), part |-> offset + 1, by |-> handoffs]
Half == Head(queue) = "message" /\ offset = 0 /\ offset' = 1 /\ UNCHANGED <<queue, pause>>
Whole ==
  /\ Head(queue) = "message" => offset = 1
  /\ queue' = Tail(queue) /\ offset' = 0 /\ pause' = (Head(queue) = "message")

LEMMA WriteForms ==
  ASSUME TypeOK, Write
  PROVE  /\ Unit \in Units /\ Head(queue) \in Kinds /\ tty' = Append(tty, Unit)
         /\ Half \/ Whole
<1>1. Head(queue) \in Kinds BY TailFacts DEF TypeOK, Write
<1>2. Unit \in Units BY <1>1, InputAssumption DEF TypeOK, Unit, Units
<1>3. tty' = Append(tty, Unit) BY DEF Write, Unit
<1>4. Half \/ Whole BY <1>1 DEF Write, Advance, Half, Whole, Parts, TypeOK
<1> QED BY <1>1, <1>2, <1>3, <1>4

\* What the CLI's composer is after a piece of input is read.
LEMMA ReadForms ==
  ASSUME TypeOK, Read
  PROVE  /\ Head(tty) \in Units
         /\ composer' \in [typed : BOOLEAN, message : BOOLEAN]
         /\ Head(tty).kind # "message" => (composer'.message => composer.message)
         /\ First(Head(tty)) => composer'.message
         /\ Second(Head(tty)) \/ Head(tty).kind = "enter" => ~composer'.typed /\ ~composer'.message
         /\ Head(tty).kind # "draft" => (composer'.typed => composer.typed)
         /\ Head(tty).kind \in {"draft", "key"} => composer'.message = composer.message
<1>1. Head(tty) \in Units BY TailFacts DEF TypeOK, Read
<1> DEFINE u == Head(tty)
<1>2. u.kind \in Kinds /\ u.part \in 1..2 BY <1>1 DEF Units
<1>3. composer \in [typed : BOOLEAN, message : BOOLEAN] BY DEF TypeOK
<1>4. CASE u.kind = "draft"
  <2>1. PICK b \in BOOLEAN : Typed(b) BY <1>4 DEF Read
  <2> QED BY <1>1, <1>3, <1>4, <2>1 DEF Typed, First, Second
<1>5. CASE u.kind = "key"
  <2>1. PICK b \in {FALSE, composer.typed} : Typed(b) BY <1>5 DEF Read
  <2> QED BY <1>1, <1>3, <1>5, <2>1 DEF Typed, First, Second
<1>6. CASE u.kind = "enter"
  <2>1. composer' = [typed |-> FALSE, message |-> FALSE] BY <1>6 DEF Read
  <2> QED BY <1>1, <1>3, <1>6, <2>1 DEF First, Second
<1>7. CASE Head(tty).kind = "message" /\ Head(tty).part = 1
  <2>1. Head(tty).kind = "message" /\ Head(tty).part # 2 BY <1>7
  <2>2. composer' = [composer EXCEPT !.message = TRUE] BY <2>1 DEF Read
  <2>3. composer'.message /\ composer'.typed = composer.typed BY <1>3, <2>2
  <2> QED BY <1>1, <1>3, <2>1, <2>2, <2>3 DEF First, Second
<1>8. CASE Head(tty).kind = "message" /\ Head(tty).part = 2
  <2>1. Head(tty).kind = "message" /\ Head(tty).part # 1 BY <1>8
  <2>2. composer' = [typed |-> FALSE, message |-> FALSE] BY <2>1 DEF Read
  <2> QED BY <1>1, <1>3, <2>1, <2>2 DEF First, Second
<1>9. CASE u.kind = "reply"
  <2>1. composer' = composer BY <1>9 DEF Read
  <2> QED BY <1>1, <1>3, <1>9, <2>1 DEF First, Second
<1> QED BY <1>2, <1>4, <1>5, <1>6, <1>7, <1>8, <1>9 DEF Kinds, RawKinds

LEMMA CountStep ==
  ASSUME TypeOK, CountInv, OriginInv, Next
  PROVE  CountInv' /\ landing' \in Nat
<1>t. queue \in Seq(Kinds) /\ landing \in Nat /\ accepted \in Nat BY DEF TypeOK
<1>k. RawKinds \subseteq Kinds /\ {"message", "reply"} \subseteq Kinds BY DEF Kinds
<1>1. ASSUME NEW kind \in RawKinds, RawInput(kind) PROVE CountInv' /\ landing' \in Nat
  <2>1. queue' = Append(queue, kind) /\ accepted' = accepted + 1
    BY <1>1 DEF RawInput, Enqueue
  <2>2. landing' = landing + (IF kind = "draft" THEN 1 ELSE 0)
    BY <1>1, <1>t DEF RawInput, DeclareDraft, DeclareSubmission, RawKinds, ledger
  <2> QED BY <1>t, <1>k, <2>1, <2>2, DraftsAppend DEF CountInv
<1>2. CASE LogicalInput
  <2>1. queue' = Append(queue, "message") /\ accepted' = accepted + 1 /\ landing' = landing
    BY <1>2 DEF LogicalInput, Enqueue, ledger
  <2> QED BY <1>t, <1>k, <2>1, DraftsAppend DEF CountInv
<1>3. CASE Write
  <2>1. landing' = (IF Head(queue) = "draft" THEN landing - 1 ELSE landing) /\ accepted' = accepted
    BY <1>3 DEF Write, bounds
  <2>2. CASE Half BY <1>t, <2>1, <2>2 DEF Half, CountInv
  <2>3. CASE Whole
    BY <1>t, <1>3, <2>1, <2>3, DraftsTail DEF Whole, CountInv, Write
  <2> QED BY <1>3, <2>2, <2>3, WriteForms
<1>4. CASE Mirror
  <2>1. UNCHANGED <<landing, accepted>> BY <1>4 DEF Mirror, bounds
  <2>2. queue' = Append(queue, "reply") \/ queue' = queue BY <1>4 DEF Mirror
  <2>3. CASE queue' = Append(queue, "reply")
    BY <1>t, <1>k, <2>1, <2>3, DraftsAppend DEF CountInv
  <2>4. CASE queue' = queue BY <1>t, <2>1, <2>4 DEF CountInv
  <2> QED BY <2>2, <2>3, <2>4
<1>5. CASE Handoff
  <2>1. queue = <<>> /\ queue' = queue /\ landing' = 0 /\ accepted' = accepted
    BY <1>5 DEF Handoff
  <2>2. Drafts(<<>>) = {} BY DEF Drafts
  <2> QED BY <1>t, <2>1, <2>2, FS_EmptySet DEF CountInv
<1>6. CASE PauseElapses \/ AttestBegin \/ AttestEnd \/ Read \/ Noise
  <2>1. UNCHANGED <<landing, queue, accepted>>
    BY <1>6 DEF PauseElapses, AttestBegin, AttestEnd, Read, Noise, ledger, writer, bounds
  <2> QED BY <1>t, <2>1 DEF CountInv
<1> QED BY <1>1, <1>2, <1>3, <1>4, <1>5, <1>6 DEF Next

LEMMA TypeStep ==
  ASSUME Inv, Next
  PROVE  TypeOK'
<1>c. CountInv' /\ landing' \in Nat BY CountStep DEF Inv
<1>l. accepted' \in 0..MaxInputs => landing' \in 0..MaxInputs
  BY <1>c, InputAssumption DEF CountInv
<1>k. RawKinds \subseteq Kinds /\ {"message", "reply"} \subseteq Kinds BY DEF Kinds
<1>t. TypeOK BY DEF Inv
<1>q. queue \in Seq(Kinds) /\ tty \in Seq(Units) /\ out \in Seq(Chunks) BY <1>t DEF TypeOK
<1>1. ASSUME NEW kind \in RawKinds, RawInput(kind) PROVE TypeOK'
  <2>1. queue' \in Seq(Kinds) BY <1>1, <1>k, <1>q, AppendFacts DEF RawInput, Enqueue
  <2>2. accepted' \in 0..MaxInputs BY <1>1, <1>t, InputAssumption DEF RawInput, TypeOK
  <2>3. /\ active' \in BOOLEAN /\ known' \in BOOLEAN /\ typed' \in {"none", "zero", "some"}
        /\ fresh' \in BOOLEAN /\ misled' \in BOOLEAN
    BY <1>1, <1>t DEF RawInput, RawKinds, DeclareSubmission, DeclareDraft, ledger, TypeOK
  <2>4. UNCHANGED <<offset, pause, task, sample, frame, tty, composer, out, noise, handoffs>>
    BY <1>1 DEF RawInput, stream, cli
  <2> QED BY <1>t, <1>l, <2>1, <2>2, <2>3, <2>4 DEF TypeOK
<1>2. CASE LogicalInput
  <2>1. queue' \in Seq(Kinds) BY <1>2, <1>k, <1>q, AppendFacts DEF LogicalInput, Enqueue
  <2>2. accepted' \in 0..MaxInputs BY <1>2, <1>t, InputAssumption DEF LogicalInput, TypeOK
  <2> QED BY <1>2, <1>t, <2>1, <2>2 DEF LogicalInput, ledger, stream, cli, TypeOK
<1>3. CASE Write
  <2>1. tty' \in Seq(Units) BY <1>3, <1>t, <1>q, WriteForms, AppendFacts
  <2>2. queue' \in Seq(Kinds) /\ offset' \in 0..1 /\ pause' \in BOOLEAN
    <3>1. CASE Half BY <3>1, <1>t DEF Half, TypeOK
    <3>2. CASE Whole
      <4>1. queue' \in Seq(Kinds) BY <1>3, <1>q, <3>2, TailFacts DEF Whole, Write
      <4> QED BY <3>2, <4>1 DEF Whole
    <3> QED BY <1>3, <1>t, <3>1, <3>2, WriteForms
  <2>3. UNCHANGED <<active, known, typed, task, sample, frame, composer, out, accepted, noise,
                    handoffs, misled>>
    BY <1>3 DEF Write, stream, bounds
  <2>4. fresh' \in BOOLEAN BY <1>3, <1>t DEF Write, TypeOK
  <2> QED BY <1>l, <1>t, <2>1, <2>2, <2>3, <2>4 DEF TypeOK
<1>4. CASE PauseElapses BY <1>4, <1>t DEF PauseElapses, TypeOK, ledger, stream, cli, bounds
<1>5. CASE Mirror
  <2>1. out' \in Seq(Chunks) /\ Head(out) \in Chunks BY <1>5, <1>q, TailFacts DEF Mirror
  <2>2. queue' \in Seq(Kinds) BY <1>5, <1>k, <1>q, AppendFacts DEF Mirror
  <2>3. frame' \in BOOLEAN BY <1>5, <2>1 DEF Mirror, Chunks
  <2> QED BY <1>5, <1>t, <2>1, <2>2, <2>3 DEF Mirror, TypeOK, bounds
<1>6. CASE AttestBegin
  BY <1>6, <1>t DEF AttestBegin, TypeOK, ledger, writer, cli, bounds
<1>7. CASE AttestEnd
  <2>1. DraftUnseen \in BOOLEAN BY DEF DraftUnseen
  <2>2. UNCHANGED <<landing, fresh, queue, offset, pause, frame, tty, composer, out, accepted,
                    noise, handoffs>>
    BY <1>7 DEF AttestEnd, writer, cli, bounds
  <2>3. /\ active' \in BOOLEAN /\ known' \in BOOLEAN /\ typed' \in {"none", "zero", "some"}
        /\ misled' \in BOOLEAN /\ task' = "select" /\ sample' = FALSE
    BY <1>7, <1>t, <2>1 DEF AttestEnd, TypeOK
  <2> QED BY <1>t, <2>2, <2>3 DEF TypeOK
<1>8. CASE Handoff
  <2>1. handoffs' \in 0..MaxHandoffs BY <1>8, <1>t, InputAssumption DEF Handoff, TypeOK
  <2>2. landing' \in 0..MaxInputs BY <1>8, InputAssumption DEF Handoff
  <2> QED BY <1>8, <1>t, <2>1, <2>2 DEF Handoff, TypeOK, cli
<1>9. CASE Read
  <2>1. tty' \in Seq(Units) /\ Head(tty) \in Units BY <1>9, <1>q, TailFacts DEF Read
  <2>2. composer' \in [typed : BOOLEAN, message : BOOLEAN]
    BY <1>9, <1>t, ReadForms
  <2>3. out' \in Seq(Chunks)
    <3>1. [text |-> composer'.typed \/ composer'.message,
           echo |-> Head(tty).kind = "draft", asks |-> FALSE] \in Chunks
      BY <2>2 DEF Chunks
    <3> QED BY <1>9, <1>q, <3>1, AppendFacts DEF Read
  <2> QED BY <1>9, <1>t, <2>1, <2>2, <2>3 DEF Read, TypeOK, ledger, writer, stream, bounds
<1>10. CASE Noise
  <2>1. noise' \in 0..MaxNoise BY <1>10, <1>t, InputAssumption DEF Noise, TypeOK
  <2>2. out' \in Seq(Chunks)
    <3>1. PICK asks \in BOOLEAN :
            out' = Append(out, [text |-> composer.typed \/ composer.message,
                                echo |-> FALSE, asks |-> asks])
      BY <1>10 DEF Noise
    <3>2. [text |-> composer.typed \/ composer.message, echo |-> FALSE, asks |-> asks] \in Chunks
      BY DEF Chunks
    <3> QED BY <1>q, <3>1, <3>2, AppendFacts
  <2> QED BY <1>10, <1>t, <2>1, <2>2 DEF Noise, TypeOK, ledger, writer, stream
<1> QED BY <1>1, <1>2, <1>3, <1>4, <1>5, <1>6, <1>7, <1>8, <1>9, <1>10 DEF Next

LEMMA WireStep ==
  ASSUME Inv, Next
  PROVE  WireInv'
<1>t. TypeOK /\ WireInv BY DEF Inv
<1>q. queue \in Seq(Kinds) /\ tty \in Seq(Units) /\ offset \in {0, 1} BY <1>t DEF TypeOK
<1>k. RawKinds \subseteq Kinds /\ {"message", "reply"} \subseteq Kinds BY DEF Kinds
\* A longer queue has the same head.
<1>a. ASSUME NEW kind \in Kinds, queue' = Append(queue, kind) \/ queue' = queue,
             UNCHANGED <<offset, tty, composer>>
      PROVE  WireInv'
  <2>1. queue # <<>> => queue' # <<>> /\ Head(queue') = Head(queue)
    BY <1>q, <1>a, AppendFacts, TailFacts, EmptyFacts
  <2> QED BY <1>t, <1>a, <2>1 DEF WireInv
<1>1. ASSUME NEW kind \in RawKinds, RawInput(kind) PROVE WireInv'
  BY <1>1, <1>a, <1>k DEF RawInput, Enqueue, cli
<1>2. CASE LogicalInput BY <1>2, <1>a, <1>k DEF LogicalInput, Enqueue, cli
<1>3. CASE Write
  <2>1. /\ tty' = Append(tty, Unit) /\ Unit \in Units /\ composer' = composer
        /\ queue # <<>> /\ Head(queue) \in Kinds
    BY <1>3, <1>t, WriteForms DEF Write
  <2>2. /\ Len(tty) \in Nat /\ Len(tty') = Len(tty) + 1 /\ tty' # <<>>
        /\ DOMAIN tty = 1..Len(tty) /\ DOMAIN tty' = 1..(Len(tty) + 1)
        /\ \A i \in 1..Len(tty) : tty'[i] = tty[i]
        /\ tty'[Len(tty) + 1] = Unit
        /\ tty = <<>> <=> Len(tty) = 0
    BY <1>q, <2>1, AppendFacts, EmptyFacts
  <2>3. Unit.kind = Head(queue) /\ Unit.part = offset + 1 BY DEF Unit
  <2>4. CASE Half
    <3>1. First(Unit) /\ offset = 0 /\ offset' = 1 /\ queue' = queue BY <2>3, <2>4 DEF Half, First
    <3> QED BY <1>t, <2>1, <2>2, <2>4, <3>1 DEF WireInv, Half, First, Second
  <2>5. CASE Whole
    <3>1. offset' = 0 /\ (offset = 1 => Second(Unit)) /\ ~First(Unit)
          /\ (Unit.part = 2 => Unit.kind = "message")
      BY <1>q, <1>t, <2>3, <2>5 DEF Whole, Second, First, WireInv
    <3> QED BY <1>t, <2>1, <2>2, <3>1 DEF WireInv, First, Second
  <2> QED BY <1>3, <1>t, <2>4, <2>5, WriteForms
<1>4. CASE PauseElapses \/ AttestBegin \/ AttestEnd \/ Handoff \/ Noise
  <2>1. UNCHANGED <<queue, offset, tty, composer>>
    BY <1>4 DEF PauseElapses, AttestBegin, AttestEnd, Handoff, Noise, writer, cli
  <2> QED BY <1>t, <2>1 DEF WireInv
<1>5. CASE Mirror BY <1>5, <1>a, <1>k DEF Mirror
<1>6. CASE Read
  <2>1. tty # <<>> /\ tty' = Tail(tty) /\ UNCHANGED <<queue, offset>> BY <1>6 DEF Read, writer
  <2>2. /\ Len(tty) \in Nat \ {0} /\ Len(tty') = Len(tty) - 1 /\ Head(tty) = tty[1]
        /\ DOMAIN tty = 1..Len(tty) /\ DOMAIN tty' = 1..(Len(tty) - 1)
        /\ \A i \in 1..(Len(tty) - 1) : tty'[i] = tty[i + 1]
        /\ tty' = <<>> <=> Len(tty) = 1
    BY <1>q, <2>1, TailFacts
  <2>3. /\ First(tty[1]) => composer'.message
        /\ composer'.message => First(tty[1])
    <3>1. Head(tty).part \in 1..2 BY <1>6, <1>t, ReadForms DEF Units
    <3>2. composer.message => Second(tty[1]) BY <1>t, <2>1 DEF WireInv
    <3> QED BY <1>6, <1>t, <2>2, <3>1, <3>2, ReadForms DEF First, Second
  <2>4. \A i \in DOMAIN tty' : tty'[i].part = 2 => tty'[i].kind = "message"
    BY <1>t, <2>2 DEF WireInv
  <2>5. \A i \in DOMAIN tty' : First(tty'[i]) =>
          IF i < Len(tty') THEN Second(tty'[i + 1]) ELSE offset' = 1
    BY <1>t, <2>1, <2>2 DEF WireInv
  <2>6. composer'.message => IF tty' # <<>> THEN Second(tty'[1]) ELSE offset' = 1
    BY <1>t, <2>1, <2>2, <2>3 DEF WireInv
  <2>7. offset' = 1 => IF tty' # <<>> THEN First(tty'[Len(tty')]) ELSE composer'.message
    BY <1>t, <2>1, <2>2, <2>3 DEF WireInv
  <2> QED BY <1>t, <2>1, <2>4, <2>5, <2>6, <2>7 DEF WireInv, First, Second
<1> QED BY <1>1, <1>2, <1>3, <1>4, <1>5, <1>6 DEF Next

LEMMA PauseStep ==
  ASSUME Inv, Next
  PROVE  PauseInv'
<1>t. TypeOK /\ PauseInv BY DEF Inv
<1>q. tty \in Seq(Units) /\ handoffs \in Nat /\ queue \in Seq(Kinds) BY <1>t DEF TypeOK
<1>1. CASE Write
  <2>1. /\ tty' = Append(tty, Unit) /\ Unit \in Units /\ ~pause /\ handoffs' = handoffs
    BY <1>1, <1>t, WriteForms DEF Write, bounds
  <2>2. /\ Len(tty) \in Nat
        /\ DOMAIN tty = 1..Len(tty) /\ DOMAIN tty' = 1..(Len(tty) + 1)
        /\ \A i \in 1..Len(tty) : tty'[i] = tty[i]
        /\ tty'[Len(tty) + 1] = Unit
    BY <1>q, <2>1, AppendFacts
  <2>3. Unit.kind = Head(queue) /\ Unit.part = offset + 1 /\ Unit.by = handoffs BY DEF Unit
  <2>4. Second(Unit) => pause'
    <3>1. CASE Half BY <2>3, <3>1 DEF Second, Half
    <3>2. CASE Whole BY <2>3, <3>2 DEF Second, Whole
    <3> QED BY <1>1, <1>t, <3>1, <3>2, WriteForms
  <2>5. \A i \in DOMAIN tty : Second(tty[i]) => tty[i].by # handoffs
    BY <1>t, <2>1 DEF PauseInv
  <2>6. MessagesApart'
    BY <1>t, <2>2, <2>3, <2>5 DEF PauseInv, MessagesApart, Second
  <2> QED BY <1>q, <1>t, <2>1, <2>2, <2>3, <2>4, <2>5, <2>6 DEF PauseInv
<1>2. CASE Read
  <2>1. tty # <<>> /\ tty' = Tail(tty) /\ UNCHANGED <<pause, handoffs>>
    BY <1>2 DEF Read, writer, bounds
  <2>2. /\ Len(tty) \in Nat \ {0}
        /\ DOMAIN tty = 1..Len(tty) /\ DOMAIN tty' = 1..(Len(tty) - 1)
        /\ \A i \in 1..(Len(tty) - 1) : tty'[i] = tty[i + 1]
    BY <1>q, <2>1, TailFacts
  <2> QED BY <1>t, <2>1, <2>2 DEF PauseInv, MessagesApart, Second
<1>3. CASE Handoff
  <2>1. tty' = tty /\ handoffs' = handoffs + 1 BY <1>3 DEF Handoff, cli
  <2>2. \A i \in DOMAIN tty : tty[i].by <= handoffs /\ tty[i].by \in Nat
    <3>1. \A i \in DOMAIN tty : tty[i] \in Units BY <1>q, EmptyFacts
    <3> QED BY <1>t, <3>1 DEF PauseInv, Units
  <2> QED BY <1>q, <1>t, <2>1, <2>2 DEF PauseInv, MessagesApart
<1>4. CASE PauseElapses
  <2>1. tty = <<>> /\ tty' = tty BY <1>4 DEF PauseElapses, cli
  <2> QED BY <2>1 DEF PauseInv, MessagesApart
<1>5. CASE \/ \E kind \in RawKinds : RawInput(kind)
           \/ LogicalInput \/ Mirror \/ AttestBegin \/ AttestEnd \/ Noise
  <2>1. UNCHANGED <<tty, pause, handoffs>>
    BY <1>5 DEF RawInput, LogicalInput, Mirror, AttestBegin, AttestEnd, Noise, writer, cli, bounds
  <2> QED BY <1>t, <2>1 DEF PauseInv, MessagesApart
<1> QED BY <1>1, <1>2, <1>3, <1>4, <1>5 DEF Next

LEMMA SightStep ==
  ASSUME Inv, Next
  PROVE  SightInv'
<1>t. TypeOK /\ SightInv BY DEF Inv
<1>q. out \in Seq(Chunks) BY <1>t DEF TypeOK
<1>1. CASE Mirror
  <2>1. /\ out # <<>> /\ out' = Tail(out) /\ frame' = Head(out).text /\ composer' = composer
    BY <1>1 DEF Mirror
  <2>2. /\ Len(out) \in Nat \ {0} /\ Head(out) = out[1]
        /\ DOMAIN out = 1..Len(out) /\ DOMAIN out' = 1..(Len(out) - 1)
        /\ \A i \in 1..(Len(out) - 1) : out'[i] = out[i + 1]
    BY <1>q, <2>1, TailFacts
  <2>3. \A i \in DOMAIN out : i > 1 => i - 1 \in DOMAIN out' /\ out'[i - 1] = out[i]
    BY <2>2
  <2>4. ASSUME composer.typed, \A i \in DOMAIN out' : ~out'[i].echo PROVE frame'
    <3>1. \A i \in DOMAIN out : i > 1 => ~out[i].echo BY <2>3, <2>4
    <3>2. 1 \in DOMAIN out BY <2>2
    <3> QED BY <1>t, <2>1, <2>2, <2>4, <3>1, <3>2 DEF SightInv
  <2>5. ASSUME composer.typed, NEW k \in DOMAIN out',
               \A i \in DOMAIN out' : i > k => ~out'[i].echo
        PROVE  out'[k].text
    <3>1. k + 1 \in DOMAIN out /\ out'[k] = out[k + 1] BY <2>2
    <3>2. \A i \in DOMAIN out : i > k + 1 => ~out[i].echo BY <2>2, <2>3, <2>5
    <3> QED BY <1>t, <2>5, <3>1, <3>2 DEF SightInv
  <2> QED BY <2>1, <2>4, <2>5 DEF SightInv
<1>2. ASSUME NEW c \in Chunks, out' = Append(out, c), frame' = frame,
             composer'.typed => (c.text /\ (composer.typed \/ c.echo))
      PROVE  SightInv'
  <2>1. /\ Len(out) \in Nat /\ DOMAIN out = 1..Len(out) /\ DOMAIN out' = 1..(Len(out) + 1)
        /\ \A i \in 1..Len(out) : out'[i] = out[i]
        /\ out'[Len(out) + 1] = c
    BY <1>q, <1>2, AppendFacts
  <2>2. ASSUME composer'.typed, \A i \in DOMAIN out' : ~out'[i].echo PROVE frame'
    BY <1>2, <1>t, <2>1, <2>2 DEF SightInv
  <2>3. ASSUME composer'.typed, NEW k \in DOMAIN out',
               \A i \in DOMAIN out' : i > k => ~out'[i].echo
        PROVE  out'[k].text
    BY <1>2, <1>t, <2>1, <2>3 DEF SightInv
  <2> QED BY <2>2, <2>3 DEF SightInv
<1>3. CASE Read
  <2> DEFINE c == [text |-> composer'.typed \/ composer'.message,
                   echo |-> Head(tty).kind = "draft", asks |-> FALSE]
  <2>1. c \in Chunks BY DEF Chunks
  <2>2. out' = Append(out, c) /\ frame' = frame BY <1>3 DEF Read, stream
  <2>3. composer'.typed => c.text /\ (composer.typed \/ c.echo)
    BY <1>3, <1>t, ReadForms
  <2> QED BY <1>2, <2>1, <2>2, <2>3
<1>4. CASE Noise
  <2>1. PICK asks \in BOOLEAN :
          out' = Append(out, [text |-> composer.typed \/ composer.message,
                              echo |-> FALSE, asks |-> asks])
    BY <1>4 DEF Noise
  <2> DEFINE c == [text |-> composer.typed \/ composer.message, echo |-> FALSE, asks |-> asks]
  <2>2. c \in Chunks BY DEF Chunks
  <2>3. frame' = frame /\ composer' = composer BY <1>4 DEF Noise, stream
  <2>4. composer'.typed => c.text /\ (composer.typed \/ c.echo) BY <2>3
  <2> QED BY <1>2, <2>1, <2>2, <2>3, <2>4
<1>5. CASE \/ \E kind \in RawKinds : RawInput(kind)
           \/ LogicalInput \/ Write \/ PauseElapses \/ AttestBegin \/ AttestEnd \/ Handoff
  <2>1. UNCHANGED <<frame, composer, out>>
    BY <1>5 DEF RawInput, LogicalInput, Write, PauseElapses, AttestBegin, AttestEnd, Handoff,
                stream, cli
  <2> QED BY <1>t, <2>1 DEF SightInv
<1> QED BY <1>1, <1>3, <1>4, <1>5 DEF Next

LEMMA OriginStep ==
  ASSUME Inv, Next
  PROVE  OriginInv'
<1>t. TypeOK /\ OriginInv BY DEF Inv
<1>q. /\ queue \in Seq(Kinds) /\ tty \in Seq(Units) /\ out \in Seq(Chunks)
      /\ RawKinds \subseteq Kinds /\ {"message", "reply"} \subseteq Kinds
  BY <1>t DEF TypeOK, Kinds
\* Queueing anything but a draft.
<1>a. ASSUME NEW kind \in Kinds, kind # "draft", queue' = Append(queue, kind) \/ queue' = queue,
             \A i \in DOMAIN queue : queue[i] # "draft"
      PROVE  \A i \in DOMAIN queue' : queue'[i] # "draft"
  <2>1. CASE queue' = queue BY <1>a, <2>1
  <2>2. CASE queue' = Append(queue, kind) BY <1>q, <1>a, <2>2, AppendFacts
  <2> QED BY <1>a, <2>1, <2>2
<1>1. ASSUME NEW kind \in RawKinds, RawInput(kind) PROVE OriginInv'
  <2>1. CASE kind \in {"enter", "draft"}
    BY <1>1, <1>t, <2>1 DEF RawInput, DeclareSubmission, DeclareDraft, OriginInv, stream
  <2>2. CASE kind = "key"
    BY <1>1, <1>a, <1>q, <1>t, <2>2 DEF RawInput, Enqueue, OriginInv, stream, ledger, cli
  <2> QED BY <2>1, <2>2 DEF RawKinds
<1>2. CASE LogicalInput
  BY <1>2, <1>a, <1>q, <1>t DEF LogicalInput, Enqueue, OriginInv, stream, ledger, cli
<1>3. CASE Write
  <2>1. UNCHANGED <<active, known, task, frame, out>> BY <1>3 DEF Write, stream
  <2>2. ASSUME ~known
        PROVE  /\ \A i \in DOMAIN tty' : tty'[i].kind # "draft"
               /\ \A i \in DOMAIN queue' : queue'[i] # "draft"
    <3>1. /\ tty' = Append(tty, Unit) /\ Unit \in Units /\ queue # <<>>
          /\ queue' = queue \/ queue' = Tail(queue)
      BY <1>3, <1>t, WriteForms DEF Half, Whole, Write
    <3>2. \A i \in DOMAIN queue' : queue'[i] # "draft"
      <4>1. \A i \in DOMAIN queue : queue[i] # "draft" BY <1>t, <2>2 DEF OriginInv
      <4>2. CASE queue' = Tail(queue) BY <1>q, <3>1, <4>1, <4>2, TailFacts
      <4> QED BY <3>1, <4>1, <4>2
    <3>3. Unit.kind # "draft"
      <4>1. Head(queue) = queue[1] /\ 1 \in DOMAIN queue BY <1>q, <3>1, TailFacts
      <4> QED BY <1>t, <2>2, <4>1 DEF Unit, OriginInv
    <3>4. \A i \in DOMAIN tty' : tty'[i].kind # "draft"
      BY <1>q, <1>t, <2>2, <3>1, <3>3, AppendFacts DEF OriginInv
    <3> QED BY <3>2, <3>4
  <2> QED BY <1>t, <2>1, <2>2 DEF OriginInv
<1>4. CASE Mirror
  <2>1. out # <<>> /\ out' = Tail(out) BY <1>4 DEF Mirror
  <2>2. (\A i \in DOMAIN out : ~out[i].echo) => \A i \in DOMAIN out' : ~out'[i].echo
    BY <1>q, <2>1, TailFacts
  <2> QED BY <1>4, <1>a, <1>q, <1>t, <2>2 DEF Mirror, OriginInv
<1>5. CASE Read
  <2>1. tty # <<>> /\ tty' = Tail(tty) /\ UNCHANGED <<active, known, queue, task, frame>>
    BY <1>5 DEF Read, ledger, writer, stream
  <2>2. ASSUME ~known
        PROVE  /\ \A i \in DOMAIN tty' : tty'[i].kind # "draft"
               /\ \A i \in DOMAIN out' : ~out'[i].echo
    <3>1. \A i \in DOMAIN tty' : tty'[i].kind # "draft"
      BY <1>q, <1>t, <2>1, <2>2, TailFacts DEF OriginInv
    <3>2. Head(tty) = tty[1] /\ 1 \in DOMAIN tty BY <1>q, <2>1, TailFacts
    <3>3. Head(tty).kind # "draft" BY <1>t, <2>2, <3>2 DEF OriginInv
    <3> DEFINE c == [text |-> composer'.typed \/ composer'.message,
                     echo |-> Head(tty).kind = "draft", asks |-> FALSE]
    <3>4. c \in Chunks /\ ~c.echo BY <3>3 DEF Chunks
    <3>5. out' = Append(out, c) BY <1>5 DEF Read
    <3> HIDE DEF c
    <3> QED BY <1>q, <1>t, <2>2, <3>1, <3>4, <3>5, AppendFacts DEF OriginInv
  <2> QED BY <1>t, <2>1, <2>2 DEF OriginInv
<1>6. CASE Noise
  <2>1. PICK asks \in BOOLEAN :
          out' = Append(out, [text |-> composer.typed \/ composer.message,
                              echo |-> FALSE, asks |-> asks])
    BY <1>6 DEF Noise
  <2> DEFINE c == [text |-> composer.typed \/ composer.message, echo |-> FALSE, asks |-> asks]
  <2>2. c \in Chunks /\ ~c.echo /\ out' = Append(out, c) BY <2>1 DEF Chunks
  <2> HIDE DEF c
  <2>3. (\A i \in DOMAIN out : ~out[i].echo) => \A i \in DOMAIN out' : ~out'[i].echo
    BY <1>q, <2>2, AppendFacts
  <2> QED BY <1>6, <1>t, <2>3 DEF Noise, OriginInv, ledger, writer, stream
<1>7. CASE AttestEnd
  BY <1>7, <1>t DEF AttestEnd, OriginInv, writer, cli
<1>8. CASE PauseElapses \/ AttestBegin \/ Handoff
  BY <1>8, <1>t DEF PauseElapses, AttestBegin, Handoff, OriginInv, ledger, writer, stream, cli
<1> QED BY <1>1, <1>2, <1>3, <1>4, <1>5, <1>6, <1>7, <1>8 DEF Next

LEMMA HonestStep ==
  ASSUME Inv, Next
  PROVE  HonestInv'
<1>t. TypeOK /\ HonestInv BY DEF Inv
<1>q. /\ queue \in Seq(Kinds) /\ tty \in Seq(Units)
      /\ RawKinds \subseteq Kinds /\ {"message", "reply"} \subseteq Kinds
  BY <1>t DEF TypeOK, Kinds
\* Queueing anything but a draft leaves every Enter where it was.
<1>a. ASSUME NEW kind \in Kinds, kind # "draft", queue' = Append(queue, kind),
             UNCHANGED <<known, typed, misled, tty, composer>>
      PROVE  HonestInv'
  <2>1. /\ DOMAIN queue \subseteq DOMAIN queue' /\ \A i \in DOMAIN queue : queue'[i] = queue[i]
        /\ \A i \in DOMAIN queue' : queue'[i] = "draft" => i \in DOMAIN queue
    BY <1>q, <1>a, AppendFacts
  <2>2. EnterQueued => EnterQueued' BY <2>1 DEF EnterQueued
  <2>3. \A i \in DOMAIN queue : (\E j \in DOMAIN queue : j > i /\ queue[j] = "enter") =>
          \E j \in DOMAIN queue' : j > i /\ queue'[j] = "enter"
    BY <2>1
  <2> QED BY <1>a, <1>t, <2>1, <2>2, <2>3 DEF HonestInv, NotTyped
<1>b. ASSUME UNCHANGED <<known, typed, misled, tty, composer, queue>> PROVE HonestInv'
  BY <1>b, <1>t DEF HonestInv, NotTyped, EnterQueued
<1>1. ASSUME NEW kind \in RawKinds, RawInput(kind) PROVE HonestInv'
  <2>1. queue' = Append(queue, kind) /\ UNCHANGED <<tty, composer>>
    BY <1>1 DEF RawInput, Enqueue, cli
  <2>2. CASE kind = "draft"
    <3>1. typed' # "zero" BY <1>1, <2>2 DEF RawInput, DeclareDraft
    <3> QED BY <3>1 DEF HonestInv, NotTyped
  <2>3. CASE kind = "key"
    <3>1. UNCHANGED <<known, typed, misled>> BY <1>1, <2>3 DEF RawInput, ledger
    <3> QED BY <1>a, <1>q, <2>1, <2>3, <3>1
  <2>4. CASE kind = "enter"
    <3>1. /\ Len(queue) \in Nat /\ DOMAIN queue' = 1..(Len(queue) + 1)
          /\ queue'[Len(queue) + 1] = "enter"
      BY <1>q, <2>1, <2>4, AppendFacts
    <3>2. EnterQueued' BY <3>1 DEF EnterQueued
    <3>3. \A i \in DOMAIN queue' : queue'[i] = "draft" =>
            \E j \in DOMAIN queue' : j > i /\ queue'[j] = "enter"
      BY <3>1
    <3> QED BY <3>2, <3>3 DEF HonestInv
  <2> QED BY <2>2, <2>3, <2>4 DEF RawKinds
<1>2. CASE LogicalInput BY <1>2, <1>a, <1>q DEF LogicalInput, Enqueue, ledger, cli
<1>3. CASE Write
  <2>1. /\ UNCHANGED <<known, typed, misled, composer>> /\ queue # <<>>
        /\ tty' = Append(tty, Unit) /\ Unit \in Units /\ Unit.kind = Head(queue)
        /\ \/ queue' = queue /\ Unit.kind = "message"
           \/ queue' = Tail(queue)
    BY <1>3, <1>t, WriteForms DEF Half, Whole, Write, Unit
  <2>2. /\ Len(tty) \in Nat
        /\ DOMAIN tty = 1..Len(tty) /\ DOMAIN tty' = 1..(Len(tty) + 1)
        /\ \A i \in 1..Len(tty) : tty'[i] = tty[i]
        /\ tty'[Len(tty) + 1] = Unit
    BY <1>q, <2>1, AppendFacts
  <2>3. SUFFICES ASSUME NotTyped, ~misled
                 PROVE  /\ composer.typed => EnterQueued' \/ \E j \in DOMAIN tty' : tty'[j].kind = "enter"
                        /\ \A i \in DOMAIN tty' : tty'[i].kind = "draft" =>
                             EnterQueued' \/ \E j \in DOMAIN tty' : j > i /\ tty'[j].kind = "enter"
                        /\ \A i \in DOMAIN queue' : queue'[i] = "draft" =>
                             \E j \in DOMAIN queue' : j > i /\ queue'[j] = "enter"
    BY <2>1 DEF HonestInv, NotTyped
  <2>4. CASE queue' = queue /\ Unit.kind = "message"
    <3>1. EnterQueued' = EnterQueued BY <2>4 DEF EnterQueued
    <3> QED BY <1>t, <2>2, <2>3, <2>4, <3>1 DEF HonestInv
  <2>5. CASE queue' = Tail(queue)
    <3>1. /\ Len(queue) \in Nat \ {0} /\ Head(queue) = queue[1]
          /\ DOMAIN queue = 1..Len(queue) /\ DOMAIN queue' = 1..(Len(queue) - 1)
          /\ \A i \in 1..(Len(queue) - 1) : queue'[i] = queue[i + 1]
      BY <1>q, <2>1, <2>5, TailFacts
    <3>2. \A j \in DOMAIN queue : j > 1 => j - 1 \in DOMAIN queue' /\ queue'[j - 1] = queue[j]
      BY <3>1
    <3>3. EnterQueued => EnterQueued' \/ tty'[Len(tty) + 1].kind = "enter"
      BY <2>1, <2>2, <3>1, <3>2 DEF EnterQueued
    <3>4. Unit.kind = "draft" => EnterQueued'
      <4>1. 1 \in DOMAIN queue /\ Unit.kind = queue[1] BY <2>1, <3>1
      <4>2. SUFFICES ASSUME queue[1] = "draft" PROVE EnterQueued' BY <4>1
      <4>3. PICK j \in DOMAIN queue : j > 1 /\ queue[j] = "enter"
        BY <1>t, <2>3, <4>1, <4>2 DEF HonestInv
      <4> QED BY <3>2, <4>3 DEF EnterQueued
    <3>5. \A i \in DOMAIN queue' : queue'[i] = "draft" =>
            \E j \in DOMAIN queue' : j > i /\ queue'[j] = "enter"
      <4> SUFFICES ASSUME NEW i \in DOMAIN queue', queue'[i] = "draft"
                   PROVE  \E j \in DOMAIN queue' : j > i /\ queue'[j] = "enter"
        OBVIOUS
      <4>1. i + 1 \in DOMAIN queue /\ queue[i + 1] = "draft" BY <3>1
      <4>2. PICK j \in DOMAIN queue : j > i + 1 /\ queue[j] = "enter"
        BY <1>t, <2>3, <4>1 DEF HonestInv
      <4>3. j - 1 \in DOMAIN queue' /\ queue'[j - 1] = "enter" /\ j - 1 > i
        BY <3>1, <3>2, <4>2
      <4> QED BY <4>3
    <3>6. composer.typed => EnterQueued' \/ \E j \in DOMAIN tty' : tty'[j].kind = "enter"
      BY <1>t, <2>2, <2>3, <3>3 DEF HonestInv
    <3>7. \A i \in DOMAIN tty' : tty'[i].kind = "draft" =>
            EnterQueued' \/ \E j \in DOMAIN tty' : j > i /\ tty'[j].kind = "enter"
      BY <1>t, <2>2, <2>3, <3>3, <3>4 DEF HonestInv
    <3> QED BY <3>5, <3>6, <3>7
  <2> QED BY <2>1, <2>4, <2>5
<1>4. CASE Mirror
  <2>1. UNCHANGED <<known, typed, misled, tty, composer>> BY <1>4 DEF Mirror
  <2>2. queue' = queue \/ queue' = Append(queue, "reply") BY <1>4 DEF Mirror
  <2> QED BY <1>a, <1>b, <1>q, <2>1, <2>2
<1>5. CASE Read
  <2>1. tty # <<>> /\ tty' = Tail(tty) /\ UNCHANGED <<known, typed, misled, queue>>
    BY <1>5 DEF Read, ledger, writer
  <2>2. /\ Len(tty) \in Nat \ {0} /\ Head(tty) = tty[1] /\ 1 \in DOMAIN tty
        /\ DOMAIN tty = 1..Len(tty) /\ DOMAIN tty' = 1..(Len(tty) - 1)
        /\ \A i \in 1..(Len(tty) - 1) : tty'[i] = tty[i + 1]
    BY <1>q, <2>1, TailFacts
  <2>3. \A j \in DOMAIN tty : j > 1 => j - 1 \in DOMAIN tty' /\ tty'[j - 1] = tty[j]
    BY <2>2
  <2>4. EnterQueued' = EnterQueued BY <2>1 DEF EnterQueued
  <2>5. /\ tty[1].kind = "enter" => ~composer'.typed
        /\ tty[1].kind # "draft" => (composer'.typed => composer.typed)
    BY <1>5, <1>t, <2>2, ReadForms
  <2>6. SUFFICES ASSUME NotTyped, ~misled
                 PROVE  /\ composer'.typed => EnterQueued \/ \E j \in DOMAIN tty' : tty'[j].kind = "enter"
                        /\ \A i \in DOMAIN tty' : tty'[i].kind = "draft" =>
                             EnterQueued \/ \E j \in DOMAIN tty' : j > i /\ tty'[j].kind = "enter"
    BY <1>t, <2>1, <2>4 DEF HonestInv, NotTyped
  <2>7. ASSUME composer'.typed, ~EnterQueued PROVE \E j \in DOMAIN tty' : tty'[j].kind = "enter"
    <3>1. PICK j \in DOMAIN tty : j > 1 /\ tty[j].kind = "enter"
      BY <1>t, <2>2, <2>5, <2>6, <2>7 DEF HonestInv
    <3> QED BY <2>3, <3>1
  <2>8. ASSUME NEW i \in DOMAIN tty', tty'[i].kind = "draft", ~EnterQueued
        PROVE  \E j \in DOMAIN tty' : j > i /\ tty'[j].kind = "enter"
    <3>1. i + 1 \in DOMAIN tty /\ tty[i + 1].kind = "draft" BY <2>2, <2>8
    <3>2. PICK j \in DOMAIN tty : j > i + 1 /\ tty[j].kind = "enter"
      BY <1>t, <2>6, <2>8, <3>1 DEF HonestInv
    <3>3. j - 1 \in DOMAIN tty' /\ tty'[j - 1].kind = "enter" /\ j - 1 > i
      BY <2>2, <2>3, <3>2
    <3> QED BY <3>3
  <2> QED BY <2>7, <2>8
\* A proof from the frame: nothing is queued or unread, and the frame is empty.
<1>6. CASE AttestEnd
  <2>1. UNCHANGED <<queue, tty, out, frame, composer, landing>> BY <1>6 DEF AttestEnd, writer, cli
  <2>2. CASE Proves /\ ~DraftUnseen
    <3>1. /\ \A i \in DOMAIN tty : tty[i].kind # "draft"
          /\ \A i \in DOMAIN out : ~out[i].echo
      BY <2>2 DEF DraftUnseen
    <3>2. ~composer.typed BY <1>6, <3>1 DEF Inv, SightInv, OriginInv, AttestEnd
    <3>3. \A i \in DOMAIN queue : queue[i] # "draft"
      <4>1. CASE ~known BY <4>1 DEF Inv, OriginInv
      <4>2. CASE known
        <5>1. Drafts(queue) = {} BY <2>2, <4>2, FS_EmptySet DEF Proves, Inv, CountInv
        <5> QED BY <5>1 DEF Drafts
      <4> QED BY <4>1, <4>2
    <3> QED BY <2>1, <3>1, <3>2, <3>3 DEF HonestInv
  <2>3. CASE Proves /\ DraftUnseen
    <3>1. misled' = TRUE BY <1>6, <2>3 DEF AttestEnd
    <3> QED BY <3>1 DEF HonestInv
  <2>4. CASE ~Proves BY <1>6, <1>b, <2>1, <2>4 DEF AttestEnd
  <2> QED BY <2>2, <2>3, <2>4
<1>7. CASE PauseElapses \/ AttestBegin \/ Handoff \/ Noise
  <2>1. UNCHANGED <<known, typed, misled, tty, composer, queue>>
    BY <1>7 DEF PauseElapses, AttestBegin, Handoff, Noise, ledger, writer, cli
  <2> QED BY <1>b, <2>1
<1> QED BY <1>1, <1>2, <1>3, <1>4, <1>5, <1>6, <1>7 DEF Next

LEMMA InitInv ==
  ASSUME Init
  PROVE  Inv
<1>1. TypeOK
  <2>1. 0 \in 0..MaxInputs /\ 0 \in 0..MaxNoise /\ 0 \in 0..MaxHandoffs BY InputAssumption
  <2>2. known \in BOOLEAN /\ frame \in BOOLEAN /\ typed \in {"none", "zero", "some"}
    BY DEF Init
  <2>3. composer \in [typed : BOOLEAN, message : BOOLEAN] BY <2>2 DEF Init
  <2>4. queue \in Seq(Kinds) /\ tty \in Seq(Units) /\ out \in Seq(Chunks) BY DEF Init
  <2>5. /\ active \in BOOLEAN /\ fresh \in BOOLEAN /\ pause \in BOOLEAN /\ sample \in BOOLEAN
        /\ misled \in BOOLEAN
        /\ landing = 0 /\ offset = 0 /\ task = "select"
        /\ accepted = 0 /\ noise = 0 /\ handoffs = 0
    BY DEF Init
  <2>6. offset \in 0..1 /\ task \in {"select", "attest"} BY <2>5
  <2> QED BY <2>1, <2>2, <2>3, <2>4, <2>5, <2>6 DEF TypeOK
<1>2. CountInv
  <2>1. Drafts(queue) = {} BY DEF Init, Drafts
  <2>2. IsFiniteSet(Drafts(queue)) /\ Cardinality(Drafts(queue)) = 0 BY <2>1, FS_EmptySet
  <2>3. landing = 0 /\ landing <= accepted BY DEF Init
  <2> QED BY <2>2, <2>3 DEF CountInv
<1>3. WireInv /\ PauseInv /\ SightInv /\ OriginInv
  BY DEF Init, WireInv, PauseInv, SightInv, OriginInv, MessagesApart
<1>4. HonestInv
  <2>1. NotTyped => ~composer.typed BY DEF Init, NotTyped
  <2>2. queue = <<>> /\ tty = <<>> BY DEF Init
  <2> QED BY <2>1, <2>2 DEF HonestInv
<1> QED BY <1>1, <1>2, <1>3, <1>4 DEF Inv

\* Every step of connections, stream task, successor and CLI keeps Inv.
LEMMA InvHolds == Spec => []Inv
<1>1. Init => Inv BY InitInv
<1>2. Inv /\ [Next]_vars => Inv'
  <2> SUFFICES ASSUME Inv, [Next]_vars PROVE Inv' OBVIOUS
  <2>1. CASE Next
    <3>1. CountInv' BY <2>1, CountStep DEF Inv
    <3> QED BY <2>1, <3>1, TypeStep, WireStep, PauseStep, SightStep, OriginStep, HonestStep DEF Inv
  <2>2. CASE UNCHANGED vars
    BY <2>2 DEF vars, ledger, writer, stream, cli, bounds, Inv, TypeOK, CountInv, WireInv, PauseInv,
                MessagesApart, SightInv, OriginInv, HonestInv, NotTyped, EnterQueued
  <2> QED BY <2>1, <2>2
<1> QED BY <1>1, <1>2, PTL DEF Spec

\* What is written followed by what is queued, position by position.
LEMMA AheadFacts ==
  ASSUME TypeOK
  PROVE  /\ Len(tty) \in Nat /\ DOMAIN tty = 1..Len(tty) /\ DOMAIN queue = 1..Len(queue)
         /\ DOMAIN Ahead = 1..(Len(tty) + Len(queue))
         /\ \A i \in DOMAIN tty : Ahead[i] = tty[i].kind
         /\ \A i \in DOMAIN queue : Ahead[Len(tty) + i] = queue[i]
         /\ Len(queue) \in Nat
<1> DEFINE k == [i \in DOMAIN tty |-> tty[i].kind]
<1>1. tty \in Seq(Units) /\ queue \in Seq(Kinds) BY DEF TypeOK
<1>2. \A i \in DOMAIN tty : tty[i].kind \in Kinds
  <2>1. \A i \in DOMAIN tty : tty[i] \in Units BY <1>1, EmptyFacts
  <2> QED BY <2>1 DEF Units
<1>3. DOMAIN tty = 1..Len(tty) /\ Len(tty) \in Nat BY <1>1, EmptyFacts
<1>4. k \in Seq(Kinds) /\ Len(k) = Len(tty) BY <1>2, <1>3
<1>5. \A i \in 1..Len(tty) : k[i] = tty[i].kind BY <1>3
<1> HIDE DEF k
<1>6. /\ DOMAIN (k \o queue) = 1..(Len(k) + Len(queue))
      /\ \A i \in 1..Len(k) : (k \o queue)[i] = k[i]
      /\ \A i \in 1..Len(queue) : (k \o queue)[Len(k) + i] = queue[i]
  BY <1>1, <1>4
<1>7. Ahead = k \o queue BY DEF Ahead, k
<1> QED BY <1>1, <1>3, <1>4, <1>5, <1>6, <1>7, EmptyFacts

\* For any number of inputs, chunks and daemons: while the ledger says "not typed",
\* whatever text a person typed is at the prompt or on its way there has an Enter
\* behind it, unless the frame it was proved from was older than a written draft.
THEOREM NotTypedIsProof == Spec => []NotTypedHonest
<1>1. Inv => NotTypedHonest
  <2> SUFFICES ASSUME Inv, NotTyped, ~misled
               PROVE  /\ composer.typed => \E i \in DOMAIN Ahead : Ahead[i] = "enter"
                      /\ \A i \in DOMAIN Ahead : Ahead[i] = "draft" =>
                           \E j \in DOMAIN Ahead : j > i /\ Ahead[j] = "enter"
    BY DEF NotTypedHonest
  <2>a. /\ Len(tty) \in Nat /\ Len(queue) \in Nat
        /\ DOMAIN tty = 1..Len(tty) /\ DOMAIN queue = 1..Len(queue)
        /\ DOMAIN Ahead = 1..(Len(tty) + Len(queue))
        /\ \A i \in DOMAIN tty : Ahead[i] = tty[i].kind
        /\ \A i \in DOMAIN queue : Ahead[Len(tty) + i] = queue[i]
    BY AheadFacts DEF Inv
  <2>b. \A i \in DOMAIN tty : i \in DOMAIN Ahead BY <2>a
  <2>c. \A i \in DOMAIN queue : Len(tty) + i \in DOMAIN Ahead /\ Len(tty) + i > Len(tty) BY <2>a
  <2>h. HonestInv BY DEF Inv
  <2>1. ASSUME EnterQueued PROVE \E j \in DOMAIN Ahead : j > Len(tty) /\ Ahead[j] = "enter"
    BY <2>1, <2>a, <2>c DEF EnterQueued
  <2>2. composer.typed => \E i \in DOMAIN Ahead : Ahead[i] = "enter"
    BY <2>a, <2>b, <2>h, <2>1 DEF HonestInv
  <2>3. ASSUME NEW i \in DOMAIN Ahead, Ahead[i] = "draft"
        PROVE  \E j \in DOMAIN Ahead : j > i /\ Ahead[j] = "enter"
    <3>1. CASE i \in DOMAIN tty
      <4>1. EnterQueued \/ \E j \in DOMAIN tty : j > i /\ tty[j].kind = "enter"
        BY <2>3, <2>a, <2>h, <3>1 DEF HonestInv
      <4> QED BY <2>1, <2>a, <2>b, <3>1, <4>1
    <3>2. CASE i \notin DOMAIN tty
      <4>1. i - Len(tty) \in DOMAIN queue /\ Len(tty) + (i - Len(tty)) = i BY <2>a, <3>2
      <4>2. queue[i - Len(tty)] = "draft" BY <2>3, <2>a, <4>1
      <4>3. PICK j \in DOMAIN queue : j > i - Len(tty) /\ queue[j] = "enter"
        BY <2>h, <4>1, <4>2 DEF HonestInv
      <4>4. Len(tty) + j > i BY <2>a, <4>3
      <4> QED BY <2>a, <2>c, <4>3, <4>4
    <3> QED BY <3>1, <3>2
  <2> QED BY <2>2, <2>3
<1> QED BY <1>1, InvHolds, PTL

\* For any number of inputs and daemons: nothing another client types or sends, no
\* reply of the terminal and no handoff comes between the two writes of a message.
THEOREM MessagesWhole == Spec => []MessageWhole
<1>1. Inv => MessageWhole
  <2> SUFFICES ASSUME Inv, NEW i \in DOMAIN Line, Line[i][2] < Parts(Line[i][1])
               PROVE  IF i < Len(Line) THEN Line[i + 1] = <<Line[i][1], 2>>
                      ELSE offset = 1 /\ queue # <<>> /\ Head(queue) = Line[i][1]
    BY DEF MessageWhole
  <2>t. tty \in Seq(Units) /\ WireInv BY DEF Inv, TypeOK
  <2>n. Len(tty) \in Nat /\ DOMAIN tty = 1..Len(tty) /\ (tty = <<>> <=> Len(tty) = 0)
    BY <2>t, EmptyFacts
  <2>w. /\ Wire \in Seq(Kinds \X (1..2)) /\ Len(Wire) = Len(tty)
        /\ \A j \in 1..Len(tty) : Wire[j] = <<tty[j].kind, tty[j].part>>
    <3>1. \A j \in 1..Len(tty) : tty[j].kind \in Kinds /\ tty[j].part \in 1..2
      <4>1. \A j \in 1..Len(tty) : tty[j] \in Units BY <2>t, EmptyFacts
      <4> QED BY <4>1 DEF Units
    <3> QED BY <2>n, <3>1 DEF Wire
  \* Only the first half of a message is short of its parts.
  <2>p. \A j \in 1..Len(tty) : tty[j].part < Parts(tty[j].kind) => First(tty[j])
    <3>1. \A j \in 1..Len(tty) : tty[j] \in Units BY <2>t, EmptyFacts
    <3> QED BY <3>1 DEF Units, Parts, First
  <2>s. \A j \in 1..Len(tty) : Second(tty[j]) => Wire[j] = <<"message", 2>>
    BY <2>w DEF Second
  <2>1. CASE ~composer.message
    <3>1. Line = Wire BY <2>1 DEF Line
    <3>2. i \in 1..Len(tty) /\ Len(Line) = Len(tty) BY <2>w, <3>1
    <3>3. First(tty[i]) /\ Line[i][1] = "message"
      <4>1. Line[i] = <<tty[i].kind, tty[i].part>> BY <2>w, <3>1, <3>2
      <4> QED BY <2>p, <3>2, <4>1 DEF First
    <3>4. IF i < Len(tty) THEN Second(tty[i + 1]) ELSE offset = 1
      BY <2>t, <2>n, <3>2, <3>3 DEF WireInv
    <3>5. CASE i < Len(tty)
      <4>1. i + 1 \in 1..Len(tty) BY <2>n, <3>2, <3>5
      <4> QED BY <2>s, <3>1, <3>2, <3>3, <3>4, <3>5, <4>1
    <3>6. CASE ~(i < Len(tty)) BY <2>t, <3>2, <3>3, <3>4, <3>6 DEF WireInv
    <3> QED BY <3>5, <3>6
  <2>2. CASE composer.message
    <3> DEFINE m == <<<<"message", 1>>>>
    <3>1. Line = m \o Wire BY <2>2 DEF Line
    <3>2. m \in Seq(Kinds \X (1..2)) /\ Len(m) = 1 /\ m[1] = <<"message", 1>> BY DEF Kinds
    <3> HIDE DEF m
    <3>3. /\ Len(Line) = 1 + Len(tty) /\ DOMAIN Line = 1..(1 + Len(tty))
          /\ Line[1] = <<"message", 1>>
          /\ \A j \in 1..Len(tty) : Line[1 + j] = Wire[j]
      <4>1. /\ Len(m \o Wire) = 1 + Len(tty) /\ DOMAIN (m \o Wire) = 1..(1 + Len(tty))
            /\ \A j \in 1..1 : (m \o Wire)[j] = m[j]
            /\ \A j \in 1..Len(tty) : (m \o Wire)[1 + j] = Wire[j]
        BY <2>w, <3>2, ConcatFacts
      <4> QED BY <3>1, <3>2, <4>1
    <3>4. IF tty # <<>> THEN Second(tty[1]) ELSE offset = 1 BY <2>t, <2>2 DEF WireInv
    <3>5. CASE i = 1
      <4>1. Line[i][1] = "message" BY <3>3, <3>5
      <4>2. CASE tty # <<>>
        <5>1. 1 \in 1..Len(tty) /\ i < Len(Line) BY <2>n, <3>3, <3>5, <4>2
        <5>2. Line[1 + 1] = <<"message", 2>> BY <2>s, <3>3, <3>4, <4>2, <5>1
        <5> QED BY <3>5, <4>1, <5>1, <5>2
      <4>3. CASE tty = <<>> BY <2>t, <2>n, <3>3, <3>4, <3>5, <4>1, <4>3 DEF WireInv
      <4> QED BY <4>2, <4>3
    <3>6. CASE i # 1
      <4> DEFINE j == i - 1
      <4>1. j \in 1..Len(tty) /\ i = 1 + j BY <2>n, <3>3, <3>6
      <4>2. Line[i] = <<tty[j].kind, tty[j].part>> BY <2>w, <3>3, <4>1
      <4>3. First(tty[j]) /\ Line[i][1] = "message" BY <2>p, <4>1, <4>2 DEF First
      <4>4. IF j < Len(tty) THEN Second(tty[j + 1]) ELSE offset = 1
        BY <2>t, <2>n, <4>1, <4>3 DEF WireInv
      <4>5. CASE j < Len(tty)
        <5>1. j + 1 \in 1..Len(tty) /\ i + 1 = 1 + (j + 1) /\ i < Len(Line) BY <2>n, <3>3, <4>1, <4>5
        <5>2. Line[i + 1] = <<"message", 2>> BY <2>s, <3>3, <4>4, <4>5, <5>1
        <5> QED BY <4>3, <5>1, <5>2
      <4>6. CASE ~(j < Len(tty))
        <5>1. ~(i < Len(Line)) BY <2>n, <3>3, <4>1, <4>6
        <5> QED BY <2>t, <4>3, <4>4, <4>6, <5>1 DEF WireInv
      <4> QED BY <4>5, <4>6
    <3> QED BY <3>5, <3>6
  <2> QED BY <2>1, <2>2
<1> QED BY <1>1, InvHolds, PTL

\* For any number of inputs and daemons: the CLI has taken its turn on a message
\* before the same daemon writes another.
THEOREM MessagesPaced == Spec => []MessagesApart
<1>1. Inv => MessagesApart BY DEF Inv, PauseInv
<1> QED BY <1>1, InvHolds, PTL
=============================================================================
