------------------------ MODULE RecoveryDataProofs ------------------------
(***************************************************************************)
(* What the sidecars hold and save, for every number of sessions, chunks,  *)
(* restarts and queue slots and under every fault.                         *)
(*                                                                         *)
(* Chunks: a chunk of a session is sent once, to one worker, after every   *)
(* earlier one; so what is on its way to the running sidecar is in order   *)
(* and newer than anything shown or saved (Neat), and everything is at     *)
(* most as new as the session's last sent chunk (Top).                     *)
(*                                                                         *)
(* Shutdown: the worker flush_and_shutdown takes is the last one, the      *)
(* flush is the last thing it sends (FlushLast), and what its sidecar      *)
(* shows and has not marked dirty is in the directory (Clean).             *)
(***************************************************************************)
EXTENDS RecoveryProofs

\* File f has chunk v of session s; each of its files is in order.
Has(f, s, v) == s \in DOMAIN f /\ \E k \in DOMAIN f[s] : f[s][k] = v
Rising(f) == \A s \in DOMAIN f : \A i, j \in DOMAIN f[s] : i < j => f[s][i] < f[s][j]
IsFile(f) == f \in [DOMAIN f -> Seq(Nat)]

\* The chunk a session is about to send is not sent yet.
Top == [s \in Sessions |-> IF ctl[s].op = "write" THEN made[s] - 1 ELSE made[s]]
Low(f, t) == \A s \in Sessions : \A v \in Nat : Has(f, s, v) => v <= t[s]

Chunk(m) == m.op = "write"
Sorted(q) == \A i, j \in DOMAIN q :
    i < j /\ Chunk(q[i]) /\ Chunk(q[j]) /\ q[i].s = q[j].s => q[i].arg < q[j].arg
Newer(m, d, f, t) ==
    /\ m.s \in Sessions /\ m.arg >= 1 /\ m.arg <= t[m.s]
    /\ \A v \in Nat : Has(d, m.s, v) \/ Has(f, m.s, v) => v < m.arg

\* What is on its way to a sidecar, over pipe p and queue q, against the
\* directory d and its screens f.
Neat(d, f, p, q, t) ==
    /\ Low(f, t) /\ Sorted(p) /\ Sorted(q)
    /\ \A i \in DOMAIN p, j \in DOMAIN q :
         Chunk(p[i]) /\ Chunk(q[j]) /\ p[i].s = q[j].s => p[i].arg < q[j].arg
    /\ \A i \in DOMAIN p : Chunk(p[i]) => Newer(p[i], d, f, t)
    /\ \A j \in DOMAIN q : Chunk(q[j]) => Newer(q[j], d, f, t)

\* What is shown and not dirty is saved, or was replaced by a seed.
Clean(d, f, ds) ==
    \A s \in DOMAIN f \ ds : f[s] # <<>> => s \in DOMAIN d /\ d[s] \in {f[s], Seed}

Screens ==
    /\ IsFile(disk) /\ Rising(disk) /\ Low(disk, Top)
    /\ DOMAIN mirrors = Workers /\ DOMAIN dirty = Workers
    /\ \A w \in Workers :
         IsFile(mirrors[w]) /\ Rising(mirrors[w]) /\ dirty[w] \subseteq DOMAIN mirrors[w]

\* A worker not started yet has nothing, and nobody has it in hand.
Born ==
    /\ \A w \in Workers : w > spawned =>
         /\ task[w] = "unborn" /\ child[w] = "unborn"
         /\ queue[w] = <<>> /\ pipe[w] = <<>> /\ mirrors[w] = <<>> /\ dirty[w] = {}
    /\ sender <= spawned /\ \A p \in Callers : ctl[p].w <= spawned

\* Who sends what.
Calls ==
    /\ \A p \in Callers : ctl[p].op = "write" =>
         p \in Sessions /\ ctl[p].s = p /\ ctl[p].arg = made[p] /\ made[p] >= 1
    /\ \A p \in Callers : ctl[p].op = "flush" => p = "stop"

InStep == \A w \in Workers : child[w] = "up" => Neat(disk, mirrors[w], pipe[w], queue[w], Top)

OrderInv == Screens /\ Born /\ Calls /\ InStep

\* Whoever is at work, is installed, is being replayed into or was taken by the
\* shutdown is the last worker started.
Latest ==
    /\ sender \in {0, spawned} /\ ctl["stop"].w \in {0, spawned}
    /\ \A p \in Callers : ctl[p].pc \in {"replay", "replayed"} => ctl[p].w = spawned
    /\ \A w \in Workers : task[w] \in Alive => w = spawned

\* Nothing is sent after the flush.
Ending(w) == Closed(w) \/ (task[w] = "await" /\ current[w] = "stop")
LastOf(w) ==
    /\ \A i \in DOMAIN queue[w] : queue[w][i].op = "flush" => queue[w][i].by = "stop"
    /\ \A i \in DOMAIN pipe[w] : pipe[w][i].op = "flush" => i = Len(pipe[w]) /\ Ending(w)
    /\ child[w] = "exited" => Ending(w)
    /\ child[w] = "exited" /\ w \notin hurt => pipe[w] = <<>> /\ dirty[w] = {}
FlushLast == \A w \in Workers : LastOf(w)

\* Only the last sidecar can have changed the directory since it saved.
Saves ==
    \A w \in Workers : w = spawned /\ child[w] \in {"up", "exited"} =>
        Clean(disk, mirrors[w], dirty[w])

FlushInv == Latest /\ FlushLast /\ Saves
---------------------------------------------------------------------------
LEMMA AppendShape ==
    ASSUME NEW S, NEW q \in Seq(S), NEW m \in S
    PROVE  /\ Append(q, m) \in Seq(S) /\ Len(q) \in Nat
           /\ DOMAIN q = 1..Len(q) /\ DOMAIN Append(q, m) = 1..(Len(q) + 1)
           /\ Len(Append(q, m)) = Len(q) + 1
           /\ \A i \in 1..Len(q) : Append(q, m)[i] = q[i]
           /\ Append(q, m)[Len(q) + 1] = m
OBVIOUS

LEMMA TailShape ==
    ASSUME NEW S, NEW q \in Seq(S), q # <<>>
    PROVE  /\ Tail(q) \in Seq(S) /\ Head(q) \in S /\ Head(q) = q[1] /\ Len(q) \in Nat \ {0}
           /\ DOMAIN q = 1..Len(q) /\ DOMAIN Tail(q) = 1..(Len(q) - 1)
           /\ Len(Tail(q)) = Len(q) - 1
           /\ \A i \in 1..(Len(q) - 1) : Tail(q)[i] = q[i + 1]
<1>1. Tail(q) \in Seq(S) /\ Len(q) \in Nat \ {0} /\ Len(Tail(q)) = Len(q) - 1 OBVIOUS
<1>2. DOMAIN q = 1..Len(q) /\ DOMAIN Tail(q) = 1..(Len(q) - 1) BY <1>1
<1>3. Head(q) = q[1] /\ Head(q) \in S BY <1>1
<1>4. \A i \in 1..(Len(q) - 1) : Tail(q)[i] = q[i + 1] BY <1>1
<1> QED BY <1>1, <1>2, <1>3, <1>4

\* The caller queues a message; a chunk is the session's next one.
LEMMA NeatAppend ==
    ASSUME NEW d, NEW f, NEW p \in Seq(Messages), NEW q \in Seq(Messages),
           NEW t, NEW m \in Messages, Neat(d, f, p, q, t),
           Chunk(m) => /\ Newer(m, d, f, t)
                       /\ \A i \in DOMAIN p : Chunk(p[i]) /\ p[i].s = m.s => p[i].arg < m.arg
                       /\ \A i \in DOMAIN q : Chunk(q[i]) /\ q[i].s = m.s => q[i].arg < m.arg
    PROVE  Neat(d, f, p, Append(q, m), t)
<1> DEFINE a == Append(q, m)
<1>1. /\ Len(q) \in Nat /\ DOMAIN q = 1..Len(q) /\ DOMAIN a = 1..(Len(q) + 1)
      /\ \A i \in 1..Len(q) : a[i] = q[i]
      /\ a[Len(q) + 1] = m
  BY AppendShape
<1> HIDE DEF a
<1>2. Sorted(a) BY <1>1 DEF Sorted, Neat
<1>3. \A i \in DOMAIN p, j \in DOMAIN a :
        Chunk(p[i]) /\ Chunk(a[j]) /\ p[i].s = a[j].s => p[i].arg < a[j].arg
  BY <1>1 DEF Neat
<1>4. \A j \in DOMAIN a : Chunk(a[j]) => Newer(a[j], d, f, t) BY <1>1 DEF Neat
<1>5. Neat(d, f, p, a, t) BY <1>2, <1>3, <1>4 DEF Neat
<1> QED BY <1>5 DEF a

\* The worker task forwards the first message.
LEMMA NeatReceive ==
    ASSUME NEW d, NEW f, NEW p \in Seq(Messages), NEW q \in Seq(Messages),
           NEW t, q # <<>>, Neat(d, f, p, q, t)
    PROVE  Neat(d, f, Append(p, Head(q)), Tail(q), t)
<1> DEFINE a == Append(p, Head(q))
           b == Tail(q)
<1>1. /\ Len(q) \in Nat \ {0} /\ DOMAIN q = 1..Len(q) /\ DOMAIN b = 1..(Len(q) - 1)
      /\ \A i \in 1..(Len(q) - 1) : b[i] = q[i + 1]
      /\ Head(q) = q[1] /\ Head(q) \in Messages
  BY TailShape
<1>2. /\ Len(p) \in Nat /\ DOMAIN p = 1..Len(p) /\ DOMAIN a = 1..(Len(p) + 1)
      /\ \A i \in 1..Len(p) : a[i] = p[i]
      /\ a[Len(p) + 1] = q[1]
  BY <1>1, AppendShape
<1>3. 1 \in DOMAIN q /\ \A i \in DOMAIN b : i + 1 \in DOMAIN q /\ i + 1 > 1 BY <1>1
<1> HIDE DEF a, b
<1>4. Sorted(a) BY <1>2, <1>3 DEF Sorted, Neat
<1>5. Sorted(b)
  <2> SUFFICES ASSUME NEW i \in DOMAIN b, NEW j \in DOMAIN b, i < j, Chunk(b[i]), Chunk(b[j]),
                      b[i].s = b[j].s
               PROVE  b[i].arg < b[j].arg
    BY DEF Sorted
  <2>1. /\ i + 1 \in DOMAIN q /\ j + 1 \in DOMAIN q /\ i + 1 < j + 1
        /\ b[i] = q[i + 1] /\ b[j] = q[j + 1]
    BY <1>1
  <2> QED BY <2>1 DEF Neat, Sorted
<1>6. \A i \in DOMAIN a, j \in DOMAIN b :
        Chunk(a[i]) /\ Chunk(b[j]) /\ a[i].s = b[j].s => a[i].arg < b[j].arg
  <2> SUFFICES ASSUME NEW i \in DOMAIN a, NEW j \in DOMAIN b, Chunk(a[i]), Chunk(b[j]),
                      a[i].s = b[j].s
               PROVE  a[i].arg < b[j].arg
    OBVIOUS
  <2>1. j + 1 \in DOMAIN q /\ 1 < j + 1 /\ b[j] = q[j + 1] BY <1>1
  <2>2. CASE i \in DOMAIN p
    <3>1. a[i] = p[i] BY <1>2, <2>2
    <3> QED BY <2>1, <2>2, <3>1 DEF Neat
  <2>3. CASE i \notin DOMAIN p
    <3>1. a[i] = q[1] BY <1>2, <2>3
    <3> QED BY <1>3, <2>1, <3>1 DEF Neat, Sorted
  <2> QED BY <2>2, <2>3
<1>7. \A i \in DOMAIN a : Chunk(a[i]) => Newer(a[i], d, f, t) BY <1>2, <1>3 DEF Neat
<1>8. \A j \in DOMAIN b : Chunk(b[j]) => Newer(b[j], d, f, t) BY <1>1, <1>3 DEF Neat
<1>9. Neat(d, f, a, b, t) BY <1>4, <1>5, <1>6, <1>7, <1>8 DEF Neat
<1> QED BY <1>9 DEF a, b

\* A closed queue is dropped.
LEMMA NeatDrop ==
    ASSUME NEW d, NEW f, NEW p, NEW q, NEW t, Neat(d, f, p, q, t)
    PROVE  Neat(d, f, p, <<>>, t)
BY DEF Neat, Sorted

\* The sidecar takes its next command; nothing it shows or finds is newer for it.
LEMMA NeatTake ==
    ASSUME NEW d, NEW f, NEW p \in Seq(Messages), NEW q, NEW t, p # <<>>, Neat(d, f, p, q, t)
    PROVE  Neat(d, f, Tail(p), q, t)
<1> DEFINE b == Tail(p)
<1>1. /\ Len(p) \in Nat \ {0} /\ DOMAIN p = 1..Len(p) /\ DOMAIN b = 1..(Len(p) - 1)
      /\ \A i \in 1..(Len(p) - 1) : b[i] = p[i + 1]
  BY TailShape
<1>2. \A i \in DOMAIN b : i + 1 \in DOMAIN p /\ b[i] = p[i + 1] BY <1>1
<1>3. \A i, j \in DOMAIN b : i < j => i + 1 < j + 1 BY <1>1
<1> HIDE DEF b
<1>4. Sorted(b) BY <1>2, <1>3 DEF Sorted, Neat
<1>5. Neat(d, f, b, q, t) BY <1>2, <1>4 DEF Neat
<1> QED BY <1>5 DEF b

\* Screens and files that hold nothing new.
LEMMA NeatData ==
    ASSUME NEW d, NEW f, NEW p \in Seq(Messages), NEW q \in Seq(Messages),
           NEW t \in [Sessions -> Nat], NEW e, NEW g,
           Neat(d, f, p, q, t), Low(d, t),
           \A s \in Sessions : \A v \in Nat :
             Has(e, s, v) \/ Has(g, s, v) => Has(d, s, v) \/ Has(f, s, v) \/ v = 0
    PROVE  Neat(e, g, p, q, t) /\ Low(e, t)
<1>1. Low(e, t) /\ Low(g, t) BY DEF Low, Neat
<1>2. ASSUME NEW m \in Messages, Newer(m, d, f, t) PROVE Newer(m, e, g, t)
  <2>1. m.s \in Sessions /\ m.arg \in Nat /\ m.arg >= 1 BY <1>2 DEF Newer, Messages
  <2>2. \A v \in Nat : Has(e, m.s, v) \/ Has(g, m.s, v) => v < m.arg
    <3> SUFFICES ASSUME NEW v \in Nat, Has(e, m.s, v) \/ Has(g, m.s, v) PROVE v < m.arg
      OBVIOUS
    <3>1. Has(d, m.s, v) \/ Has(f, m.s, v) \/ v = 0 BY <2>1
    <3>2. CASE Has(d, m.s, v) \/ Has(f, m.s, v) BY <1>2, <3>2 DEF Newer
    <3>3. CASE v = 0 BY <2>1, <3>3
    <3> QED BY <3>1, <3>2, <3>3
  <2> QED BY <1>2, <2>2 DEF Newer
<1>3. (\A i \in DOMAIN p : p[i] \in Messages) /\ (\A j \in DOMAIN q : q[j] \in Messages) OBVIOUS
<1> QED BY <1>1, <1>2, <1>3 DEF Neat

\* Sessions that have sent more.
LEMMA NeatRaise ==
    ASSUME NEW d, NEW f, NEW p \in Seq(Messages), NEW q \in Seq(Messages),
           NEW t \in [Sessions -> Nat], NEW u \in [Sessions -> Nat],
           Neat(d, f, p, q, t), \A s \in Sessions : t[s] <= u[s]
    PROVE  Neat(d, f, p, q, u)
<1>1. Low(f, u) BY DEF Low, Neat
<1>2. ASSUME NEW m \in Messages, Newer(m, d, f, t) PROVE Newer(m, d, f, u)
  BY <1>2 DEF Newer, Messages
<1>3. (\A i \in DOMAIN p : p[i] \in Messages) /\ (\A j \in DOMAIN q : q[j] \in Messages) OBVIOUS
<1> QED BY <1>1, <1>2, <1>3 DEF Neat

\* One file is written, or removed.
LEMMA PutFile ==
    ASSUME NEW f, IsFile(f), Rising(f), NEW s, NEW c \in Seq(Nat),
           \A i, j \in DOMAIN c : i < j => c[i] < c[j]
    PROVE  IsFile(Put(f, s, c)) /\ Rising(Put(f, s, c))
<1> DEFINE g == Put(f, s, c)
<1>1. /\ DOMAIN g = DOMAIN f \cup {s} /\ g[s] = c
      /\ \A x \in DOMAIN f : x # s => g[x] = f[x]
      /\ g = [x \in DOMAIN g |-> g[x]]
  BY DEF Put
<1> HIDE DEF g
<1>2. IsFile(g) BY <1>1 DEF IsFile
<1>3. Rising(g) BY <1>1 DEF Rising
<1> QED BY <1>2, <1>3 DEF g

LEMMA WithoutFile ==
    ASSUME NEW f, IsFile(f), Rising(f), NEW s
    PROVE  IsFile(Without(f, s)) /\ Rising(Without(f, s))
<1> DEFINE g == Without(f, s)
<1>1. /\ DOMAIN g = DOMAIN f \ {s}
      /\ \A x \in DOMAIN g : g[x] = f[x]
      /\ g = [x \in DOMAIN g |-> g[x]]
  BY DEF Without
<1> HIDE DEF g
<1>2. IsFile(g) BY <1>1 DEF IsFile
<1>3. Rising(g) BY <1>1 DEF Rising
<1> QED BY <1>2, <1>3 DEF g

\* Some screens f are saved into the directory d.
Merge(d, f, ss) == [s \in DOMAIN d \cup ss |-> IF s \in ss THEN f[s] ELSE d[s]]

LEMMA MergeFile ==
    ASSUME NEW d, NEW f, IsFile(d), IsFile(f), Rising(d), Rising(f), NEW ss, ss \subseteq DOMAIN f
    PROVE  IsFile(Merge(d, f, ss)) /\ Rising(Merge(d, f, ss))
<1> DEFINE e == Merge(d, f, ss)
<1>1. /\ DOMAIN e = DOMAIN d \cup ss
      /\ \A x \in ss : e[x] = f[x]
      /\ \A x \in DOMAIN d \ ss : e[x] = d[x]
      /\ e = [x \in DOMAIN e |-> e[x]]
  BY DEF Merge
<1> HIDE DEF e
<1>2. IsFile(e) BY <1>1 DEF IsFile
<1>3. Rising(e)
  <2> SUFFICES ASSUME NEW s \in DOMAIN e, NEW i \in DOMAIN e[s], NEW j \in DOMAIN e[s], i < j
               PROVE  e[s][i] < e[s][j]
    BY DEF Rising
  <2>1. CASE s \in ss
    <3>1. e[s] = f[s] /\ s \in DOMAIN f BY <1>1, <2>1
    <3> QED BY <3>1 DEF Rising
  <2>2. CASE s \notin ss
    <3>1. e[s] = d[s] /\ s \in DOMAIN d BY <1>1, <2>2
    <3> QED BY <3>1 DEF Rising
  <2> QED BY <2>1, <2>2
<1> QED BY <1>2, <1>3 DEF e

\* The sidecar appends the next chunk to the screen of its session.
LEMMA NeatWrite ==
    ASSUME NEW d, NEW f, NEW p \in Seq(Messages), NEW q \in Seq(Messages),
           NEW t \in [Sessions -> Nat], p # <<>>, Neat(d, f, p, q, t), Chunk(Head(p)),
           IsFile(f), Rising(f), Head(p).s \in DOMAIN f,
           NEW g, g = [f EXCEPT ![Head(p).s] = Append(f[Head(p).s], Head(p).arg)]
    PROVE  IsFile(g) /\ Rising(g) /\ DOMAIN g = DOMAIN f /\ Neat(d, g, Tail(p), q, t)
<1> DEFINE m == Head(p)
           b == Tail(p)
           c == f[m.s]
           a == Append(c, m.arg)
<1>1. /\ Len(p) \in Nat \ {0} /\ DOMAIN p = 1..Len(p) /\ DOMAIN b = 1..(Len(p) - 1)
      /\ \A i \in 1..(Len(p) - 1) : b[i] = p[i + 1]
      /\ m = p[1] /\ m \in Messages
  BY TailShape
<1>2. 1 \in DOMAIN p /\ \A i \in DOMAIN b : i + 1 \in DOMAIN p /\ 1 < i + 1 /\ b[i] = p[i + 1]
  BY <1>1
<1>3. m.arg \in Nat /\ Newer(m, d, f, t) BY <1>1, <1>2 DEF Messages, Neat
<1>4. c \in Seq(Nat) BY DEF IsFile
<1>5. /\ a \in Seq(Nat) /\ Len(c) \in Nat /\ DOMAIN c = 1..Len(c) /\ DOMAIN a = 1..(Len(c) + 1)
      /\ \A i \in 1..Len(c) : a[i] = c[i]
      /\ a[Len(c) + 1] = m.arg
  BY <1>3, <1>4, AppendShape
<1>6. \A k \in DOMAIN c : c[k] < m.arg
  <2> SUFFICES ASSUME NEW k \in DOMAIN c PROVE c[k] < m.arg OBVIOUS
  <2>1. c[k] \in Nat BY <1>4
  <2>2. m.s \in DOMAIN f /\ k \in DOMAIN f[m.s] /\ f[m.s][k] = c[k] OBVIOUS
  <2>3. Has(f, m.s, c[k]) BY <2>2 DEF Has
  <2> QED BY <1>3, <2>1, <2>3 DEF Newer
<1>7. \A i, j \in DOMAIN c : i < j => c[i] < c[j] BY DEF Rising
<1>e. g = [f EXCEPT ![m.s] = a] BY DEF m, a, c
<1>8. DOMAIN g = DOMAIN f /\ g[m.s] = a /\ \A x \in DOMAIN f : x # m.s => g[x] = f[x]
  <2>1. f = [x \in DOMAIN f |-> f[x]] BY DEF IsFile
  <2> QED BY <1>e, <2>1
<1>9. IsFile(g)
  <2>1. g = [x \in DOMAIN g |-> g[x]] BY <1>e DEF IsFile
  <2> QED BY <1>5, <1>8, <2>1 DEF IsFile
<1> HIDE DEF m, b, c, a
<1>10. \A i, j \in DOMAIN a : i < j => a[i] < a[j]
  <2> SUFFICES ASSUME NEW i \in DOMAIN a, NEW j \in DOMAIN a, i < j PROVE a[i] < a[j] OBVIOUS
  <2>1. i \in DOMAIN c /\ a[i] = c[i] BY <1>5
  <2>2. CASE j \in DOMAIN c BY <1>5, <1>7, <2>1, <2>2
  <2>3. CASE j \notin DOMAIN c BY <1>5, <1>6, <2>1, <2>3
  <2> QED BY <2>2, <2>3
<1>11. Rising(g) BY <1>8, <1>10 DEF Rising
<1>12. \A x \in Sessions : \A v \in Nat : Has(g, x, v) => Has(f, x, v) \/ (x = m.s /\ v = m.arg)
  <2> SUFFICES ASSUME NEW x, NEW v \in Nat, Has(g, x, v), ~(x = m.s /\ v = m.arg)
               PROVE  Has(f, x, v)
    OBVIOUS
  <2>1. x \in DOMAIN f BY <1>8 DEF Has
  <2>2. PICK k \in DOMAIN g[x] : g[x][k] = v BY DEF Has
  <2>3. CASE x # m.s BY <1>8, <2>1, <2>2, <2>3 DEF Has
  <2>4. CASE x = m.s
    <3>1. k \in DOMAIN a /\ a[k] = v BY <1>8, <2>2, <2>4
    <3>2. k \in DOMAIN c /\ c[k] = v BY <1>5, <2>4, <3>1
    <3> QED BY <2>1, <2>4, <3>2 DEF Has, c
  <2> QED BY <2>3, <2>4
<1>13. Neat(d, g, b, q, t)
  <2>1. Neat(d, f, b, q, t) BY NeatTake DEF b
  <2>2. Low(g, t)
    <3> SUFFICES ASSUME NEW s \in Sessions, NEW v \in Nat, Has(g, s, v) PROVE v <= t[s]
      BY DEF Low
    <3>1. CASE Has(f, s, v) BY <3>1, <2>1 DEF Neat, Low
    <3>2. CASE s = m.s /\ v = m.arg BY <1>3, <3>2 DEF Newer
    <3> QED BY <1>12, <3>1, <3>2
  <2>3. ASSUME NEW n \in Messages, Newer(n, d, f, t), n.s = m.s => m.arg < n.arg
        PROVE  Newer(n, d, g, t)
    <3>1. \A v \in Nat : Has(d, n.s, v) \/ Has(g, n.s, v) => v < n.arg
      BY <1>12, <2>3 DEF Newer
    <3> QED BY <2>3, <3>1 DEF Newer
  <2>4. \A i \in DOMAIN b : Chunk(b[i]) /\ b[i].s = m.s => m.arg < b[i].arg
    <3> SUFFICES ASSUME NEW i \in DOMAIN b, Chunk(b[i]), b[i].s = m.s PROVE m.arg < b[i].arg
      OBVIOUS
    <3>1. i + 1 \in DOMAIN p /\ 1 < i + 1 /\ b[i] = p[i + 1] /\ Chunk(p[1]) /\ 1 \in DOMAIN p
      BY <1>1, <1>2 DEF m
    <3>2. p[1].arg < p[i + 1].arg BY <1>1, <3>1 DEF Neat, Sorted
    <3> QED BY <1>1, <3>1, <3>2
  <2>5. \A j \in DOMAIN q : Chunk(q[j]) /\ q[j].s = m.s => m.arg < q[j].arg
    <3>1. 1 \in DOMAIN p /\ Chunk(p[1]) /\ m = p[1] BY <1>1, <1>2 DEF m
    <3> QED BY <3>1 DEF Neat
  <2>6. (\A i \in DOMAIN b : b[i] \in Messages) /\ (\A j \in DOMAIN q : q[j] \in Messages)
    <3>1. b \in Seq(Messages) BY TailShape DEF b
    <3> QED BY <3>1
  <2>7. \A i \in DOMAIN b : Chunk(b[i]) => Newer(b[i], d, g, t)
    BY <2>1, <2>3, <2>4, <2>6 DEF Neat
  <2>8. \A j \in DOMAIN q : Chunk(q[j]) => Newer(q[j], d, g, t)
    BY <2>1, <2>3, <2>5, <2>6 DEF Neat
  <2> QED BY <2>1, <2>2, <2>7, <2>8 DEF Neat
<1> QED BY <1>8, <1>9, <1>11, <1>13 DEF b
---------------------------------------------------------------------------
(* Chunks are in order.                                                    *)

LEMMA TopFacts ==
    ASSUME SidecarInv, Calls
    PROVE  /\ Top \in [Sessions -> Nat]
           /\ \A s \in Sessions : Top[s] <= made[s]
           /\ \A s \in Sessions : ctl[s].op = "write" => Top[s] < made[s]
           /\ \A s \in Sessions : ctl[s].op # "write" => Top[s] = made[s]
<1>1. \A s \in Sessions : s \in Callers /\ made[s] \in Nat BY CallerFacts DEF SidecarInv, Types
<1>2. \A s \in Sessions : ctl[s].op = "write" => made[s] >= 1 BY <1>1 DEF Calls
<1> QED BY <1>1, <1>2 DEF Top

\* A caller goes on with the call it makes, or has returned from it.
Kept(p) ==
    \/ ctl'[p].op = "none"
    \/ ctl'[p].op = ctl[p].op /\ ctl'[p].s = ctl[p].s /\ ctl'[p].arg = ctl[p].arg

\* A message caller p may queue on worker v.
Sent(p, v, m) ==
    /\ queue' = [queue EXCEPT ![v] = Append(@, m)]
    /\ v \in Workers /\ v <= spawned /\ m \in Messages
    /\ Chunk(m) => m = Message(p) /\ ctl'[p].op = "none"

\* The step of one caller leaves what is under way in order: a chunk it queues
\* is the next of its session.
LEMMA CallerOrder ==
    ASSUME SidecarInv, StrandInv, OrderInv, SidecarInv', NEW p \in Callers, NEW pc, NEW w,
           Moved(p, pc, w), Kept(p) \/ (p = "stop" /\ ctl'[p].op = "flush"),
           UNCHANGED <<disk, mirrors, dirty, task, child, pipe, made, spawned>>,
           w <= spawned, sender' <= spawned,
           UNCHANGED queue \/ \E v, m : Sent(p, v, m)
    PROVE  OrderInv'
<1>0. Screens /\ Born /\ Calls /\ InStep BY DEF OrderInv
<1>c. "stop" \notin Sessions /\ Sessions \subseteq Callers BY CallerFacts
<1>w. queue \in [Workers -> Seq(Messages)] /\ pipe \in [Workers -> Seq(Messages)]
  BY DEF StrandInv, Wires
<1>1. Calls'
  <2> SUFFICES ASSUME NEW q \in Callers
               PROVE  /\ ctl'[q].op = "write" => q \in Sessions /\ ctl'[q].s = q /\ ctl'[q].arg = made[q] /\ made[q] >= 1
                      /\ ctl'[q].op = "flush" => q = "stop"
    BY DEF Calls
  <2>1. CASE q = p BY <1>0, <2>1 DEF Calls, Kept
  <2>2. CASE q # p BY <1>0, <2>2 DEF Calls, Moved
  <2> QED BY <2>1, <2>2
<1>2. Top' \in [Sessions -> Nat] /\ \A s \in Sessions : Top[s] <= Top'[s]
  <2>1. Top \in [Sessions -> Nat] BY <1>0, TopFacts
  <2>2. \A s \in Sessions : s # p => ctl'[s] = ctl[s] BY <1>c DEF Moved
  <2>3. \A s \in Sessions : ctl'[s].op = "write" => ctl[s].op = "write"
    BY <1>c, <2>2 DEF Kept
  <2>4. \A s \in Sessions : Top[s] = (IF ctl[s].op = "write" THEN made[s] - 1 ELSE made[s])
    BY DEF Top
  <2>5. \A s \in Sessions : Top'[s] = (IF ctl'[s].op = "write" THEN made[s] - 1 ELSE made[s])
    BY DEF Top
  <2>6. \A s \in Sessions : made[s] \in Nat BY DEF SidecarInv, Types
  <2>7. \A s \in Sessions : ctl'[s].op = "write" => made[s] >= 1 BY <1>c, <1>1 DEF Calls
  <2>8. Top' = [s \in Sessions |-> Top'[s]] BY DEF Top
  <2>9. \A s \in Sessions : Top'[s] \in Nat BY <2>5, <2>6, <2>7
  <2>10. \A s \in Sessions : Top[s] <= Top'[s] BY <2>3, <2>4, <2>5, <2>6
  <2> QED BY <2>8, <2>9, <2>10
<1>3. Top \in [Sessions -> Nat] BY <1>0, TopFacts
<1>4. Screens'
  <2>1. \A s \in Sessions : Top[s] \in Nat /\ Top'[s] \in Nat BY <1>2, <1>3
  <2>2. Low(disk, Top) BY <1>0 DEF Screens
  <2>3. Low(disk, Top') BY <1>2, <2>1, <2>2 DEF Low
  <2> QED BY <1>0, <2>3 DEF Screens
<1>5. Born'
  <2>1. \A v \in Workers : v > spawned => queue'[v] = queue[v]
    <3>1. CASE UNCHANGED queue BY <3>1
    <3>2. ASSUME NEW u, NEW m, Sent(p, u, m)
          PROVE  \A v \in Workers : v > spawned => queue'[v] = queue[v]
      <4>1. u \in Workers /\ u <= spawned /\ spawned \in Nat BY <3>2 DEF Sent, SidecarInv, Types
      <4>2. \A v \in Workers : v > spawned => v # u BY <4>1 DEF Workers
      <4> QED BY <1>w, <3>2, <4>2 DEF Sent
    <3> QED BY <3>1, <3>2
  <2> QED BY <1>0, <2>1 DEF Born, Moved
<1>6. InStep'
  <2> SUFFICES ASSUME NEW v \in Workers, child[v] = "up"
               PROVE  Neat(disk, mirrors[v], pipe[v], queue'[v], Top')
    BY DEF InStep
  <2>0. queue[v] \in Seq(Messages) /\ pipe[v] \in Seq(Messages) BY <1>w
  <2>1. Neat(disk, mirrors[v], pipe[v], queue[v], Top) BY <1>0 DEF InStep
  <2>2. Neat(disk, mirrors[v], pipe[v], queue[v], Top') BY <1>2, <1>3, <2>0, <2>1, NeatRaise
  <2>3. CASE queue'[v] = queue[v] BY <2>2, <2>3
  <2>4. ASSUME NEW m, Sent(p, v, m) PROVE Neat(disk, mirrors[v], pipe[v], queue'[v], Top')
    <3>1. queue'[v] = Append(queue[v], m) /\ m \in Messages BY <1>w, <2>4 DEF Sent
    <3>2. ASSUME Chunk(m)
          PROVE  /\ Newer(m, disk, mirrors[v], Top')
                 /\ \A i \in DOMAIN pipe[v] : Chunk(pipe[v][i]) /\ pipe[v][i].s = m.s => pipe[v][i].arg < m.arg
                 /\ \A i \in DOMAIN queue[v] : Chunk(queue[v][i]) /\ queue[v][i].s = m.s => queue[v][i].arg < m.arg
      <4>1. ctl[p].op = "write" /\ m.s = ctl[p].s /\ m.arg = ctl[p].arg /\ ctl'[p].op = "none"
        BY <2>4, <3>2 DEF Sent, Chunk, Message
      <4>2. p \in Sessions /\ m.s = p /\ m.arg = made[p] /\ made[p] >= 1 BY <1>0, <4>1 DEF Calls
      <4>3. Top'[p] = made[p] BY <4>1, <4>2 DEF Top
      <4>4. Top[p] < made[p] /\ made[p] \in Nat /\ Top[p] \in Nat
        BY <1>0, <1>3, <4>1, <4>2, TopFacts DEF SidecarInv, Types
      <4>5. \A n \in Nat : Has(disk, p, n) \/ Has(mirrors[v], p, n) => n < made[p]
        <5>1. Low(disk, Top) /\ Low(mirrors[v], Top) BY <1>0, <2>1 DEF Screens, Neat
        <5> QED BY <4>2, <4>4, <5>1 DEF Low
      <4>6. Newer(m, disk, mirrors[v], Top') BY <4>2, <4>3, <4>4, <4>5 DEF Newer
      <4>7. ASSUME NEW n \in Messages, Newer(n, disk, mirrors[v], Top), n.s = m.s PROVE n.arg < m.arg
        BY <4>2, <4>4, <4>7 DEF Newer, Messages
      <4>8. /\ \A i \in DOMAIN pipe[v] : Chunk(pipe[v][i]) => Newer(pipe[v][i], disk, mirrors[v], Top)
            /\ \A i \in DOMAIN queue[v] : Chunk(queue[v][i]) => Newer(queue[v][i], disk, mirrors[v], Top)
        BY <2>1 DEF Neat
      <4>9. /\ \A i \in DOMAIN pipe[v] : pipe[v][i] \in Messages
            /\ \A i \in DOMAIN queue[v] : queue[v][i] \in Messages
        BY <2>0
      <4> QED BY <4>6, <4>7, <4>8, <4>9
    <3> QED BY <2>0, <2>2, <3>1, <3>2, NeatAppend
  <2>5. ASSUME NEW u, NEW m, Sent(p, u, m), u # v PROVE queue'[v] = queue[v]
    BY <1>w, <2>5 DEF Sent
  <2> QED BY <2>3, <2>4, <2>5
<1> QED BY <1>1, <1>4, <1>5, <1>6 DEF OrderInv

\* What a step of the manager's code may do to the frame of its caller.
Steps(p) == Kept(p) /\ \E pc, w : Moved(p, pc, w) /\ w <= spawned

LEMMA FrameSteps ==
    ASSUME SidecarInv, OrderInv, NEW p \in Callers
    PROVE  /\ \A pc \in CallerPcs \cup StopPcs : Goto(p, pc) => Steps(p)
           /\ GiveUp(p) => Steps(p) /\ ctl'[p].op = "none"
           /\ \A pc \in CallerPcs :
                ctl' = [ctl EXCEPT ![p].pc = pc, ![p].w = sender] => Steps(p)
<1>0. ctl \in [Callers -> Frames] /\ sender \in Nat /\ spawned \in Nat BY DEF SidecarInv, Types
<1>1. ctl[p].w <= spawned /\ sender <= spawned /\ 0 <= spawned BY <1>0 DEF OrderInv, Born
<1>2. ASSUME NEW pc \in CallerPcs \cup StopPcs, Goto(p, pc) PROVE Steps(p)
  <2>1. Moved(p, pc, ctl[p].w) BY <1>0, <1>2, GotoMoves
  <2>2. Kept(p)
    <3> DEFINE f == [ctl[p] EXCEPT !.pc = pc]
    <3>1. f.op = ctl[p].op /\ f.s = ctl[p].s /\ f.arg = ctl[p].arg BY <1>0 DEF Frames
    <3>2. ctl'[p] = f BY <1>0, <1>2 DEF Goto
    <3> HIDE DEF f
    <3> QED BY <3>1, <3>2 DEF Kept
  <2> QED BY <1>1, <2>1, <2>2 DEF Steps
<1>3. ASSUME GiveUp(p) PROVE Steps(p) /\ ctl'[p].op = "none"
  <2>1. Moved(p, "idle", 0) BY <1>0, <1>3, GiveUpMoves
  <2>2. ctl'[p].op = "none" BY <1>0, <1>3 DEF GiveUp, Idle
  <2> QED BY <1>1, <2>1, <2>2 DEF Steps, Kept
<1>4. ASSUME NEW pc \in CallerPcs, ctl' = [ctl EXCEPT ![p].pc = pc, ![p].w = sender] PROVE Steps(p)
  <2>1. Moved(p, pc, sender) BY <1>0, <1>4, HandMoves
  <2>2. Kept(p)
    <3> DEFINE f == [ctl[p] EXCEPT !.pc = pc, !.w = sender]
    <3>1. f.op = ctl[p].op /\ f.s = ctl[p].s /\ f.arg = ctl[p].arg BY <1>0 DEF Frames
    <3>2. ctl'[p] = f BY <1>0, <1>4
    <3> HIDE DEF f
    <3> QED BY <3>1, <3>2 DEF Kept
  <2> QED BY <1>1, <2>1, <2>2 DEF Steps
<1> QED BY <1>2, <1>3, <1>4

\* Callers outside a restart.
LEMMA CallOrder ==
    ASSUME SidecarInv, StrandInv, OrderInv, SidecarInv', NEW p \in Callers,
           Ensure(p) \/ Send(p) \/ Await(p) \/ Track(p)
    PROVE  OrderInv'
<1>0. sender <= spawned /\ ctl[p].w <= spawned BY DEF OrderInv, Born
<1>1. UNCHANGED <<disk, mirrors, dirty, task, child, pipe, made, spawned, sender>>
  BY DEF Ensure, Send, Await, Track, manager, daemon, worker, sidecar
<1>2. /\ \A pc \in {"send", "gate", "await", "track", "invalid"} : Goto(p, pc) => Steps(p)
      /\ GiveUp(p) => Steps(p) /\ ctl'[p].op = "none"
      /\ ctl' = [ctl EXCEPT ![p].pc = "send", ![p].w = sender] => Steps(p)
  BY FrameSteps DEF CallerPcs
<1>3. Steps(p)
  <2>1. CASE Ensure(p) BY <1>2, <2>1 DEF Ensure
  <2>2. CASE Send(p) BY <1>2, <2>2 DEF Send, Invalidate
  <2>3. CASE Await(p) BY <1>2, <2>3 DEF Await, Invalidate
  <2>4. CASE Track(p) BY <1>2, <2>4 DEF Track
  <2> QED BY <2>1, <2>2, <2>3, <2>4
<1>4. UNCHANGED queue \/ \E v, m : Sent(p, v, m)
  <2>1. CASE ~Send(p) BY <2>1 DEF Ensure, Await, Track, worker
  <2>2. CASE Send(p)
    <3>1. CASE UNCHANGED queue BY <3>1
    <3>2. CASE ~UNCHANGED queue
      <4>1. /\ Enqueue(ctl[p].w, Message(p))
            /\ IF ctl[p].op \in Requests THEN Goto(p, "await") ELSE GiveUp(p)
            /\ ctl[p].pc = "send"
        BY <2>2, <3>2 DEF Send, Invalidate
      <4>2. ctl[p].w \in Workers /\ Message(p) \in Messages /\ Message(p).op = ctl[p].op
        BY <4>1, HandTypes DEF Handed
      <4>3. Chunk(Message(p)) => ctl'[p].op = "none"
        BY <1>2, <4>1, <4>2 DEF Chunk, Requests
      <4>4. Sent(p, ctl[p].w, Message(p)) BY <1>0, <4>1, <4>2, <4>3 DEF Sent, Enqueue
      <4> QED BY <4>4
    <3> QED BY <3>1, <3>2
  <2> QED BY <2>1, <2>2
<1>5. PICK pc, w : Moved(p, pc, w) /\ w <= spawned BY <1>3 DEF Steps
<1>6. Kept(p) BY <1>3 DEF Steps
<1> QED BY <1>0, <1>1, <1>4, <1>5, <1>6, CallerOrder

\* Into restart_guard and out of it.
LEMMA GuardOrder ==
    ASSUME SidecarInv, StrandInv, OrderInv, SidecarInv', NEW p \in Callers,
           Gate(p) \/ Uninstall(p) \/ NoWorker(p) \/ Abandon(p) \/ Drain(p)
    PROVE  OrderInv'
<1>t. ctl \in [Callers -> Frames] /\ sender \in Nat /\ spawned \in Nat BY DEF SidecarInv, Types
<1>0. sender <= spawned /\ ctl[p].w <= spawned /\ 0 <= spawned BY <1>t DEF OrderInv, Born
<1>1. /\ UNCHANGED <<disk, mirrors, dirty, task, child, pipe, made, spawned, queue>>
      /\ sender' \in {0, sender}
  BY DEF Gate, Uninstall, NoWorker, Abandon, Drain, daemon, worker, sidecar
<1>2. /\ \A pc \in {"drain"} : Goto(p, pc) => Steps(p)
      /\ GiveUp(p) => Steps(p)
      /\ ctl' = [ctl EXCEPT ![p].pc = "send", ![p].w = sender] => Steps(p)
  BY FrameSteps DEF CallerPcs, Guarding
<1>3. Steps(p)
  <2>1. CASE Gate(p)
    <3>1. CASE shutdown \/ Usable(sender) BY <1>2, <2>1, <3>1 DEF Gate
    <3>2. CASE ~shutdown /\ ~Usable(sender)
      <4> DEFINE f == [ctl[p] EXCEPT !.pc = "reap", !.w = sender, !.todo = tracked, !.due = ~backoff]
      <4>1. ctl' = [ctl EXCEPT ![p] = f] BY <2>1, <3>2 DEF Gate
      <4>2. /\ f \in Frames /\ f.pc = "reap" /\ f.w = sender
            /\ f.op = ctl[p].op /\ f.s = ctl[p].s /\ f.arg = ctl[p].arg
        <5>1. ctl[p] \in Frames /\ tracked \in SUBSET Owners /\ backoff \in BOOLEAN /\ sender \in Nat
          BY <1>t DEF SidecarInv, Types
        <5>2. "reap" \in CallerPcs BY DEF CallerPcs, Guarding, Restarting
        <5> QED BY <5>1, <5>2 DEF Frames
      <4> HIDE DEF f
      <4>3. Moved(p, "reap", sender) BY <1>t, <4>1, <4>2 DEF Moved
      <4>4. Kept(p) BY <1>t, <4>1, <4>2 DEF Kept
      <4> QED BY <1>0, <4>3, <4>4 DEF Steps
    <3> QED BY <3>1, <3>2
  <2>2. CASE Drain(p) /\ ~GiveUp(p)
    <3> DEFINE f == [ctl[p] EXCEPT !.pc = "ensure", !.again = TRUE]
    <3>1. ctl' = [ctl EXCEPT ![p] = f] BY <2>2 DEF Drain
    <3>2. /\ f \in Frames /\ f.pc = "ensure" /\ f.w = ctl[p].w
          /\ f.op = ctl[p].op /\ f.s = ctl[p].s /\ f.arg = ctl[p].arg
      BY <1>t DEF Frames, CallerPcs
    <3> HIDE DEF f
    <3>3. Moved(p, "ensure", ctl[p].w) BY <1>t, <3>1, <3>2 DEF Moved
    <3>4. Kept(p) BY <1>t, <3>1, <3>2 DEF Kept
    <3> QED BY <1>0, <3>3, <3>4 DEF Steps
  <2>3. CASE Uninstall(p) BY <1>2, <2>3 DEF Uninstall
  <2>4. CASE NoWorker(p) BY <1>2, <2>4 DEF NoWorker
  <2>5. CASE Abandon(p) BY <1>2, <2>5 DEF Abandon
  <2> QED BY <1>2, <2>1, <2>2, <2>3, <2>4, <2>5
<1>4. sender' <= spawned BY <1>0, <1>1
<1>5. PICK pc, w : Moved(p, pc, w) /\ w <= spawned BY <1>3 DEF Steps
<1>6. Kept(p) BY <1>3 DEF Steps
<1> QED BY <1>1, <1>4, <1>5, <1>6, CallerOrder

\* A new sidecar has nothing yet; what is replayed into it are no chunks.
LEMMA RestartOrder ==
    ASSUME SidecarInv, StrandInv, OrderInv, SidecarInv', NEW p \in Callers,
           SpawnWorker(p) \/ Replay(p) \/ Replayed(p) \/ Install(p)
    PROVE  OrderInv'
<1>t. ctl \in [Callers -> Frames] /\ sender \in Nat /\ spawned \in Nat BY DEF SidecarInv, Types
<1>0. sender <= spawned /\ ctl[p].w <= spawned BY DEF OrderInv, Born
<1>2. \A pc \in {"replay", "abandon", "discard", "send"} : Goto(p, pc) => Steps(p)
  BY FrameSteps DEF CallerPcs, Guarding, Restarting
<1>3. CASE SpawnWorker(p)
  <2>1. /\ UNCHANGED <<sender, disk, mirrors, dirty, queue, pipe, made>>
        /\ spawned' = spawned + 1
        /\ task' = [task EXCEPT ![spawned + 1] = "recv"]
        /\ child' = [child EXCEPT ![spawned + 1] = "up"]
        /\ ctl' = [ctl EXCEPT ![p].pc = "replay", ![p].w = spawned + 1]
        /\ spawned < MaxWorkers
    BY <1>3 DEF SpawnWorker, manager, daemon
  <2>2. /\ \A q \in Callers : q # p => ctl'[q] = ctl[q]
        /\ ctl'[p].op = ctl[p].op /\ ctl'[p].s = ctl[p].s /\ ctl'[p].arg = ctl[p].arg
        /\ ctl'[p].w = spawned + 1
    <3> DEFINE f == [ctl[p] EXCEPT !.pc = "replay", !.w = spawned + 1]
    <3>1. f.op = ctl[p].op /\ f.s = ctl[p].s /\ f.arg = ctl[p].arg /\ f.w = spawned + 1
      BY <1>t DEF Frames
    <3>2. ctl' = [ctl EXCEPT ![p] = f] BY <2>1
    <3> HIDE DEF f
    <3> QED BY <1>t, <3>1, <3>2
  <2>3. Top' = Top
    <3>1. \A s \in Sessions : ctl'[s].op = ctl[s].op BY <2>2, CallerFacts
    <3> QED BY <2>1, <3>1 DEF Top
  <2>4. Calls'
    <3>1. \A q \in Callers : ctl'[q].op = ctl[q].op /\ ctl'[q].s = ctl[q].s /\ ctl'[q].arg = ctl[q].arg
      BY <2>2
    <3> QED BY <2>1, <3>1 DEF OrderInv, Calls
  <2>5. Screens' BY <2>1, <2>3 DEF OrderInv, Screens
  <2>6. Born'
    <3>1. \A w \in Workers : w \in Nat /\ (w > spawned + 1 => w > spawned /\ w # spawned + 1)
      BY <1>t DEF Workers
    <3>2. \A w \in Workers : w > spawned + 1 => task'[w] = task[w] /\ child'[w] = child[w]
      BY <2>1, <3>1 DEF SidecarInv, Types
    <3>3. sender <= spawned + 1 BY <1>t, <1>0
    <3>4. \A q \in Callers : ctl'[q].w <= spawned + 1
      <4> SUFFICES ASSUME NEW q \in Callers PROVE ctl'[q].w <= spawned + 1 OBVIOUS
      <4>1. CASE q = p BY <1>t, <2>2, <4>1
      <4>2. CASE q # p
        <5>1. ctl[q].w \in Nat /\ ctl[q].w <= spawned BY <1>t DEF Frames, OrderInv, Born
        <5> QED BY <1>t, <2>2, <4>2, <5>1
      <4> QED BY <4>1, <4>2
    <3> QED BY <2>1, <3>1, <3>2, <3>3, <3>4 DEF OrderInv, Born
  <2>7. InStep'
    <3> SUFFICES ASSUME NEW w \in Workers, child'[w] = "up"
                 PROVE  Neat(disk, mirrors[w], pipe[w], queue[w], Top)
      BY <2>1, <2>3 DEF InStep
    <3>1. CASE w = spawned + 1
      <4>1. pipe[w] = <<>> /\ queue[w] = <<>> /\ mirrors[w] = <<>>
        <5>1. w > spawned BY <1>t, <3>1
        <5> QED BY <5>1 DEF OrderInv, Born
      <4>2. \A s, v : ~Has(<<>>, s, v) BY DEF Has
      <4> QED BY <4>1, <4>2 DEF Neat, Low, Sorted
    <3>2. CASE w # spawned + 1 BY <2>1, <3>2 DEF OrderInv, InStep, SidecarInv, Types
    <3> QED BY <3>1, <3>2
  <2> QED BY <2>4, <2>5, <2>6, <2>7 DEF OrderInv
<1>4. CASE ~SpawnWorker(p)
  <2>1. UNCHANGED <<disk, mirrors, dirty, task, child, pipe, made, spawned>>
    BY <1>4 DEF Replay, Replayed, Install, daemon, sidecar
  <2>2. sender' <= spawned
    BY <1>0, <1>4 DEF Replay, Replayed, Install, manager
  <2>3. CASE UNCHANGED queue
    <3>1. Steps(p)
      <4>1. CASE Replay(p)
        <5>1. CASE Goto(p, "abandon") BY <1>2, <5>1
        <5>2. ASSUME NEW m, Enqueue(ctl[p].w, m) PROVE FALSE
          <6>1. ctl[p].w \in Workers BY <4>1, HandTypes DEF Replay, Handed
          <6>2. queue \in [Workers -> Seq(Messages)] BY DEF StrandInv, Wires
          <6>3. queue[ctl[p].w] = Append(queue[ctl[p].w], m) BY <2>3, <5>2, <6>1, <6>2 DEF Enqueue
          <6>4. queue[ctl[p].w] \in Seq(Messages) BY <6>1, <6>2
          <6>5. \A q \in Seq(Messages) : q # Append(q, m)
            <7> SUFFICES ASSUME NEW q \in Seq(Messages), q = Append(q, m) PROVE FALSE OBVIOUS
            <7>1. Len(q) = Len(q) + 1 /\ Len(q) \in Nat OBVIOUS
            <7> QED BY <7>1
          <6> QED BY <6>3, <6>4, <6>5
        <5> QED BY <4>1, <5>1, <5>2 DEF Replay
      <4>2. CASE Replayed(p) BY <1>2, <4>2 DEF Replayed
      <4>3. CASE Install(p) BY <1>2, <4>3 DEF Install
      <4> QED BY <1>4, <4>1, <4>2, <4>3
    <3>2. PICK pc, w : Moved(p, pc, w) /\ w <= spawned BY <3>1 DEF Steps
    <3>3. Kept(p) BY <3>1 DEF Steps
    <3> QED BY <2>1, <2>2, <2>3, <3>2, <3>3, CallerOrder
  <2>4. CASE ~UNCHANGED queue
    <3>1. Replay(p) BY <1>4, <2>4 DEF Replayed, Install
    <3>2. PICK s \in ctl[p].todo :
            /\ Enqueue(ctl[p].w, [op |-> "start", s |-> s, by |-> p,
                                  arg |-> IF s \in DOMAIN disk THEN 1 ELSE 0])
            /\ ctl' = [ctl EXCEPT ![p].pc = "replayed", ![p].todo = @ \ {s}]
      BY <2>4, <3>1 DEF Replay
    <3> DEFINE m == [op |-> "start", s |-> s, by |-> p, arg |-> IF s \in DOMAIN disk THEN 1 ELSE 0]
               f == [ctl[p] EXCEPT !.pc = "replayed", !.todo = @ \ {s}]
    <3>3. ctl[p].w \in Workers BY <3>1, HandTypes DEF Replay, Handed
    <3>4. s \in Owners BY <1>t DEF Frames
    <3>5. m \in Messages /\ ~Chunk(m) BY <3>4 DEF Messages, Ops, Chunk
    <3>6. Enqueue(ctl[p].w, m) /\ ctl' = [ctl EXCEPT ![p] = f] BY <1>t, <3>2
    <3>7. /\ f \in Frames /\ f.pc = "replayed" /\ f.w = ctl[p].w
          /\ f.op = ctl[p].op /\ f.s = ctl[p].s /\ f.arg = ctl[p].arg
      <4>1. ctl[p] \in Frames /\ "replayed" \in CallerPcs
        BY <1>t DEF CallerPcs, Guarding, Restarting
      <4> QED BY <4>1 DEF Frames
    <3> HIDE DEF m, f
    <3>8. Sent(p, ctl[p].w, m) BY <1>0, <3>3, <3>5, <3>6 DEF Sent, Enqueue
    <3>9. Moved(p, "replayed", ctl[p].w) BY <1>t, <3>6, <3>7 DEF Moved
    <3>10. Kept(p) BY <1>t, <3>6, <3>7 DEF Kept
    <3> QED BY <1>0, <2>1, <2>2, <3>8, <3>9, <3>10, CallerOrder
  <2> QED BY <2>3, <2>4
<1> QED BY <1>3, <1>4

LEMMA ShutdownOrder ==
    ASSUME SidecarInv, StrandInv, OrderInv, SidecarInv',
           Shutdown \/ AskFlush \/ Flushed \/ ShutdownDone
    PROVE  OrderInv'
<1>c. "stop" \in Callers /\ "stop" \notin Sessions BY CallerFacts
<1>t. ctl \in [Callers -> Frames] /\ sender \in Nat /\ spawned \in Nat BY DEF SidecarInv, Types
<1>0. sender <= spawned /\ ctl["stop"].w <= spawned /\ 0 <= spawned
  BY <1>c, <1>t DEF OrderInv, Born
<1>1. /\ UNCHANGED <<disk, mirrors, dirty, task, child, pipe, made, spawned>>
      /\ sender' \in {0, sender}
  BY DEF Shutdown, AskFlush, Flushed, ShutdownDone, manager, daemon, worker, sidecar
<1>2. \A pc \in {"flushing", "clear", "done"} : Goto("stop", pc) => Steps("stop")
  BY <1>c, FrameSteps DEF StopPcs
<1>3. sender' <= spawned BY <1>0, <1>1
<1>4. CASE Shutdown
  <2> DEFINE pc == IF sender = 0 THEN "clear" ELSE "ask"
             f == [Idle EXCEPT !.pc = pc, !.op = "flush", !.w = sender]
  <2>1. f \in Frames /\ f.pc = pc /\ f.w = sender /\ f.op = "flush"
    BY <1>t DEF Idle, Frames, StopPcs, Ops, Owners
  <2>2. ctl' = [ctl EXCEPT !["stop"] = f] /\ UNCHANGED queue BY <1>4 DEF Shutdown, worker
  <2> HIDE DEF f
  <2>3. Moved("stop", pc, sender) /\ ctl'["stop"].op = "flush" BY <1>c, <1>t, <2>1, <2>2 DEF Moved
  <2> QED BY <1>c, <1>0, <1>1, <1>3, <2>2, <2>3, CallerOrder
<1>5. CASE ~Shutdown
  <2>1. Steps("stop") BY <1>2, <1>5 DEF AskFlush, Flushed, ShutdownDone
  <2>2. UNCHANGED queue \/ \E v, m : Sent("stop", v, m)
    <3>1. CASE ~UNCHANGED queue
      <4>1. Enqueue(ctl["stop"].w, Message("stop")) /\ ctl["stop"].pc = "ask"
        BY <1>5, <3>1 DEF AskFlush, Flushed, ShutdownDone, worker
      <4>2. /\ ctl["stop"].w \in Workers /\ Message("stop") \in Messages
            /\ Message("stop").op = ctl["stop"].op
        BY <1>c, <4>1, HandTypes DEF Handed
      <4>3. ~Chunk(Message("stop")) BY <1>c, <4>2 DEF Chunk, OrderInv, Calls
      <4>4. Sent("stop", ctl["stop"].w, Message("stop")) BY <1>0, <4>1, <4>2, <4>3 DEF Sent, Enqueue
      <4> QED BY <4>4
    <3> QED BY <3>1
  <2>3. PICK pc, w : Moved("stop", pc, w) /\ w <= spawned BY <2>1 DEF Steps
  <2>4. Kept("stop") BY <2>1 DEF Steps
  <2> QED BY <1>c, <1>1, <1>3, <2>2, <2>3, <2>4, CallerOrder
<1> QED BY <1>4, <1>5

\* A new call: a chunk is counted before it is sent.
LEMMA NewCallOrder ==
    ASSUME SidecarInv, StrandInv, OrderInv, NEW p \in Callers, NEW op \in Ops, NEW s \in Sessions,
           NEW arg \in Nat, Call(p, op, s, arg), op # "flush",
           UNCHANGED <<disk, mirrors, dirty, task, child, pipe, queue, spawned, sender>>,
           \/ op # "write" /\ UNCHANGED made
           \/ op = "write" /\ p = s /\ arg = made[s] + 1 /\ made' = [made EXCEPT ![s] = @ + 1]
    PROVE  OrderInv'
<1>0. Screens /\ Born /\ Calls /\ InStep BY DEF OrderInv
<1>t. /\ ctl \in [Callers -> Frames] /\ made \in [Sessions -> Nat] /\ spawned \in Nat
      /\ Sessions \subseteq Callers
  BY CallerFacts DEF SidecarInv, Types
<1>w. queue \in [Workers -> Seq(Messages)] /\ pipe \in [Workers -> Seq(Messages)]
  BY DEF StrandInv, Wires
<1> DEFINE f == [Idle EXCEPT !.pc = "ensure", !.op = op, !.s = s, !.arg = arg]
<1>1. f.op = op /\ f.s = s /\ f.arg = arg /\ f.w = 0 BY DEF Idle
<1>2. ctl' = [ctl EXCEPT ![p] = f] BY DEF Call
<1> HIDE DEF f
<1>3. ctl'[p] = f /\ \A q \in Callers : q # p => ctl'[q] = ctl[q] BY <1>t, <1>2
<1>4. Calls'
  <2> SUFFICES ASSUME NEW q \in Callers
               PROVE  /\ ctl'[q].op = "write" => q \in Sessions /\ ctl'[q].s = q /\ ctl'[q].arg = made'[q] /\ made'[q] >= 1
                      /\ ctl'[q].op = "flush" => q = "stop"
    BY DEF Calls
  <2>1. CASE q = p
    <3>1. CASE op # "write" BY <1>1, <1>3, <2>1, <3>1
    <3>2. CASE op = "write"
      <4>1. made'[s] = made[s] + 1 /\ made[s] \in Nat BY <1>t, <3>2
      <4> QED BY <1>1, <1>3, <2>1, <3>2, <4>1
    <3> QED BY <3>1, <3>2
  <2>2. CASE q # p
    <3>1. q \in Sessions => made'[q] = made[q] BY <1>t, <2>2
    <3> QED BY <1>0, <1>3, <2>2, <3>1 DEF Calls
  <2> QED BY <2>1, <2>2
<1>5. Top \in [Sessions -> Nat] BY <1>0, TopFacts
<1>6. Top' \in [Sessions -> Nat] /\ \A x \in Sessions : Top[x] <= Top'[x]
  <2>1. \A x \in Sessions : Top'[x] = (IF ctl'[x].op = "write" THEN made'[x] - 1 ELSE made'[x])
    BY DEF Top
  <2>2. ASSUME NEW x \in Sessions PROVE Top'[x] \in Nat /\ Top[x] <= Top'[x]
    <3>0. made[x] \in Nat /\ Top[x] \in Nat /\ Top[x] <= made[x] BY <1>0, <1>t, <1>5, TopFacts
    <3>1. CASE x # p
      <4>1. made'[x] = made[x] /\ ctl'[x] = ctl[x] BY <1>t, <1>3, <3>1
      <4>2. Top'[x] = Top[x] BY <2>1, <4>1 DEF Top
      <4> QED BY <3>0, <4>2
    <3>2. CASE x = p /\ op # "write"
      <4>1. Top'[x] = made[x] BY <1>1, <1>3, <2>1, <3>2
      <4> QED BY <3>0, <4>1
    <3>3. CASE x = p /\ op = "write"
      <4>1. made'[x] = made[x] + 1 BY <1>t, <3>3
      <4>2. Top'[x] = made[x] BY <1>1, <1>3, <2>1, <3>0, <3>3, <4>1
      <4> QED BY <3>0, <4>2
    <3> QED BY <3>1, <3>2, <3>3
  <2>3. Top' = [x \in Sessions |-> Top'[x]] BY DEF Top
  <2> QED BY <2>2, <2>3
<1>7. Screens'
  <2>1. \A x \in Sessions : Top[x] \in Nat /\ Top'[x] \in Nat BY <1>5, <1>6
  <2>2. Low(disk, Top) BY <1>0 DEF Screens
  <2>3. Low(disk, Top') BY <1>6, <2>1, <2>2 DEF Low
  <2> QED BY <1>0, <2>3 DEF Screens
<1>8. Born'
  <2>1. \A q \in Callers : ctl'[q].w <= spawned BY <1>0, <1>t, <1>1, <1>3 DEF Born
  <2> QED BY <1>0, <2>1 DEF Born
<1>9. InStep'
  <2> SUFFICES ASSUME NEW v \in Workers, child[v] = "up"
               PROVE  Neat(disk, mirrors[v], pipe[v], queue[v], Top')
    BY DEF InStep
  <2>0. queue[v] \in Seq(Messages) /\ pipe[v] \in Seq(Messages) BY <1>w
  <2>1. Neat(disk, mirrors[v], pipe[v], queue[v], Top) BY <1>0 DEF InStep
  <2> QED BY <1>5, <1>6, <2>0, <2>1, NeatRaise
<1> QED BY <1>4, <1>7, <1>8, <1>9 DEF OrderInv

\* The seed of the next session is older than anything it will send.
LEMMA SeedOrder ==
    ASSUME SidecarInv, StrandInv, OrderInv, NEW s \in Sessions, SeedSnapshot(s)
    PROVE  OrderInv'
<1>0. Screens /\ Born /\ Calls /\ InStep BY DEF OrderInv
<1>1. /\ disk' = Put(disk, s, Seed)
      /\ UNCHANGED <<made, ctl, mirrors, dirty, task, child, pipe, queue, spawned, sender>>
  BY DEF SeedSnapshot, worker, sidecar
<1>2. Top' = Top /\ Top \in [Sessions -> Nat] BY <1>0, <1>1, TopFacts DEF Top
<1>3. Seed \in Seq(Nat) /\ DOMAIN Seed = {1} /\ Seed[1] = 0 BY DEF Seed
<1>4. /\ IsFile(disk') /\ Rising(disk')
      /\ \A x \in Sessions : \A v \in Nat : Has(disk', x, v) => Has(disk, x, v) \/ v = 0
  <2>1. IsFile(disk) /\ Rising(disk) BY <1>0 DEF Screens
  <2>2. \A i, j \in DOMAIN Seed : i < j => Seed[i] < Seed[j] BY <1>3
  <2> DEFINE e == Put(disk, s, Seed)
  <2>3. /\ IsFile(e) /\ Rising(e)
        /\ \A x \in Sessions : \A v \in Nat : Has(e, x, v) =>
             Has(disk, x, v) \/ (x = s /\ \E k \in DOMAIN Seed : Seed[k] = v)
    <3> DEFINE c == Seed
    <3>1. c \in Seq(Nat) /\ \A i, j \in DOMAIN c : i < j => c[i] < c[j] BY <1>3, <2>2
    <3> HIDE DEF c
    <3>2. IsFile(Put(disk, s, c)) /\ Rising(Put(disk, s, c)) BY <2>1, <3>1, PutFile
    <3>3. \A x \in Sessions : \A v \in Nat : Has(Put(disk, s, c), x, v) =>
            Has(disk, x, v) \/ (x = s /\ \E k \in DOMAIN c : c[k] = v)
      BY DEF Put, Has
    <3> QED BY <3>2, <3>3 DEF c
  <2>4. disk' = e BY <1>1
  <2> HIDE DEF e
  <2> QED BY <1>3, <2>3, <2>4
<1>5. Low(disk', Top)
  <2>1. \A x \in Sessions : Top[x] \in Nat BY <1>2
  <2> QED BY <1>0, <1>4, <2>1 DEF Screens, Low
<1>6. InStep'
  <2> SUFFICES ASSUME NEW v \in Workers, child[v] = "up"
               PROVE  Neat(disk', mirrors[v], pipe[v], queue[v], Top)
    BY <1>1, <1>2 DEF InStep
  <2>0. queue[v] \in Seq(Messages) /\ pipe[v] \in Seq(Messages) BY DEF StrandInv, Wires
  <2>1. Neat(disk, mirrors[v], pipe[v], queue[v], Top) BY <1>0 DEF InStep
  <2>2. Low(disk, Top) BY <1>0 DEF Screens
  <2> QED BY <1>2, <1>4, <2>0, <2>1, <2>2, NeatData
<1>7. Screens' BY <1>0, <1>1, <1>2, <1>4, <1>5 DEF Screens
<1>8. Born' /\ Calls' BY <1>0, <1>1 DEF Born, Calls
<1> QED BY <1>6, <1>7, <1>8 DEF OrderInv

LEMMA AskOrder ==
    ASSUME SidecarInv, StrandInv, OrderInv, Ask
    PROVE  OrderInv'
<1> PICK s \in Sessions :
      \/ SeedSnapshot(s) \/ SpawnSession(s) \/ AdoptSession(s) \/ Output(s)
      \/ EndSession(s) \/ ResizeSession(s) \/ GetSnapshot(s)
  BY DEF Ask
<1>c. s \in Callers /\ "viewer" \in Callers BY CallerFacts
<1>m. made[s] \in Nat BY DEF SidecarInv, Types
<1>o. /\ \A op \in {"start", "write", "end", "get", "resize"} : op \in Ops /\ op # "flush"
      /\ {0, 1} \subseteq Nat
  BY DEF Ops
<1>u. ~SeedSnapshot(s) =>
        UNCHANGED <<disk, mirrors, dirty, task, child, pipe, queue, spawned, sender>>
  BY DEF SpawnSession, AdoptSession, Output, EndSession, ResizeSession, GetSnapshot,
         manager, worker, sidecar
<1>1. CASE SeedSnapshot(s) BY <1>1, SeedOrder
<1>2. CASE ~SeedSnapshot(s) /\ Output(s)
  <2>1. Call(s, "write", s, made[s] + 1) /\ made' = [made EXCEPT ![s] = @ + 1]
    BY <1>2 DEF Output
  <2>2. made[s] + 1 \in Nat /\ "write" \in Ops /\ "write" # "flush" BY <1>m, <1>o
  <2>3. UNCHANGED <<disk, mirrors, dirty, task, child, pipe, queue, spawned, sender>> BY <1>u, <1>2
  <2> QED BY <1>c, <2>1, <2>2, <2>3, NewCallOrder
<1>3. CASE ~SeedSnapshot(s) /\ ~Output(s)
  <2>1. UNCHANGED made
    BY <1>3 DEF SpawnSession, AdoptSession, EndSession, ResizeSession, GetSnapshot, daemon
  <2>2. \E p \in {s, "viewer"}, op \in {"start", "end", "get", "resize"}, arg \in {0, 1} :
          Call(p, op, s, arg)
    <3>1. CASE SpawnSession(s) BY <3>1 DEF SpawnSession
    <3>2. CASE AdoptSession(s) BY <3>2 DEF AdoptSession
    <3>3. CASE EndSession(s) BY <3>3 DEF EndSession
    <3>4. CASE ResizeSession(s) BY <3>4 DEF ResizeSession
    <3>5. CASE GetSnapshot(s) BY <3>5 DEF GetSnapshot
    <3> QED BY <1>3, <3>1, <3>2, <3>3, <3>4, <3>5
  <2>3. PICK p \in {s, "viewer"}, op \in {"start", "end", "get", "resize"}, arg \in {0, 1} :
          Call(p, op, s, arg)
    BY <2>2
  <2>4. p \in Callers /\ op \in Ops /\ op # "flush" /\ op # "write" /\ arg \in Nat BY <1>c, <1>o
  <2> QED BY <1>u, <1>3, <2>1, <2>3, <2>4, NewCallOrder
<1> QED BY <1>1, <1>2, <1>3

\* A step of one worker task or sidecar leaves the others alone.
Alone(w) ==
    /\ DOMAIN mirrors' = Workers /\ DOMAIN dirty' = Workers
    /\ \A v \in Workers : v # w =>
         /\ task'[v] = task[v] /\ child'[v] = child[v] /\ queue'[v] = queue[v]
         /\ pipe'[v] = pipe[v] /\ mirrors'[v] = mirrors[v] /\ dirty'[v] = dirty[v]

\* Only the sidecar that runs writes to the directory.
LEMMA SideOrder ==
    ASSUME SidecarInv, OrderInv, NEW w \in Workers, w <= spawned,
           UNCHANGED <<made, ctl, spawned, sender>>, Alone(w),
           child'[w] = "up" => Neat(disk', mirrors'[w], pipe'[w], queue'[w], Top),
           disk' = disk \/ (child[w] = "up" /\ IsFile(disk') /\ Rising(disk') /\ Low(disk', Top)),
           IsFile(mirrors'[w]) /\ Rising(mirrors'[w]) /\ dirty'[w] \subseteq DOMAIN mirrors'[w]
    PROVE  OrderInv'
<1>0. Screens /\ Born /\ Calls /\ InStep BY DEF OrderInv
<1>1. Top' = Top BY DEF Top
<1>2. Screens'
  <2>1. IsFile(disk') /\ Rising(disk') /\ Low(disk', Top) BY <1>0 DEF Screens
  <2>2. ASSUME NEW v \in Workers
        PROVE  IsFile(mirrors'[v]) /\ Rising(mirrors'[v]) /\ dirty'[v] \subseteq DOMAIN mirrors'[v]
    BY <1>0 DEF Screens, Alone
  <2> QED BY <1>1, <2>1, <2>2 DEF Screens, Alone
<1>3. Born'
  <2>1. \A v \in Workers : v > spawned => v # w BY DEF Workers, SidecarInv, Types
  <2> QED BY <1>0, <2>1 DEF Born, Alone
<1>4. Calls' BY <1>0 DEF Calls
<1>5. InStep'
  <2> SUFFICES ASSUME NEW v \in Workers, child'[v] = "up"
               PROVE  Neat(disk', mirrors'[v], pipe'[v], queue'[v], Top)
    BY <1>1 DEF InStep
  <2>1. CASE v = w BY <2>1
  <2>2. CASE v # w
    <3>1. /\ child[v] = "up" /\ mirrors'[v] = mirrors[v] /\ pipe'[v] = pipe[v]
          /\ queue'[v] = queue[v]
      BY <2>2 DEF Alone
    <3>2. child[w] # "up" BY <2>2, <3>1 DEF SidecarInv, Owned, Unique
    <3> QED BY <1>0, <3>1, <3>2 DEF InStep
  <2> QED BY <2>1, <2>2
<1> QED BY <1>2, <1>3, <1>4, <1>5 DEF OrderInv

\* The state of one worker and its sidecar.
LEMMA SideFacts ==
    ASSUME SidecarInv, StrandInv, OrderInv, NEW w \in Workers
    PROVE  /\ task[w] # "unborn" \/ child[w] # "unborn" => w <= spawned
           /\ queue \in [Workers -> Seq(Messages)] /\ pipe \in [Workers -> Seq(Messages)]
           /\ task \in [Workers -> Alive \cup {"unborn", "stopped"}]
           /\ child \in [Workers -> {"unborn", "up", "exited", "dead"}]
           /\ DOMAIN mirrors = Workers /\ DOMAIN dirty = Workers
           /\ IsFile(mirrors[w]) /\ Rising(mirrors[w]) /\ dirty[w] \subseteq DOMAIN mirrors[w]
           /\ IsFile(disk) /\ Rising(disk) /\ Low(disk, Top) /\ Top \in [Sessions -> Nat]
           /\ child[w] = "up" => Neat(disk, mirrors[w], pipe[w], queue[w], Top)
<1>1. task[w] # "unborn" \/ child[w] # "unborn" => w <= spawned
  <2>1. w \in Nat /\ spawned \in Nat BY CallerFacts DEF SidecarInv, Types
  <2> QED BY <2>1 DEF OrderInv, Born
<1>2. Top \in [Sessions -> Nat] BY TopFacts DEF OrderInv
<1> QED BY <1>1, <1>2 DEF SidecarInv, Types, StrandInv, Wires, OrderInv, Screens, InStep

LEMMA WorkOrder ==
    ASSUME SidecarInv, StrandInv, OrderInv, NEW w \in Workers, Work(w)
    PROVE  OrderInv'
<1>f. /\ task[w] # "unborn" \/ child[w] # "unborn" => w <= spawned
      /\ queue \in [Workers -> Seq(Messages)] /\ pipe \in [Workers -> Seq(Messages)]
      /\ task \in [Workers -> Alive \cup {"unborn", "stopped"}]
      /\ child \in [Workers -> {"unborn", "up", "exited", "dead"}]
      /\ DOMAIN mirrors = Workers /\ DOMAIN dirty = Workers
      /\ IsFile(mirrors[w]) /\ Rising(mirrors[w]) /\ dirty[w] \subseteq DOMAIN mirrors[w]
      /\ child[w] = "up" => Neat(disk, mirrors[w], pipe[w], queue[w], Top)
  BY SideFacts
<1>u. UNCHANGED <<made, ctl, spawned, sender, disk>> /\ task[w] # "unborn"
  BY DEF Work, Receive, WriteFails, Answer, NoAnswer, Cancelled, StopWorker, daemon, manager
<1>1. CASE Receive(w)
  <2>1. /\ queue' = [queue EXCEPT ![w] = Tail(queue[w])] /\ queue[w] # <<>>
        /\ pipe' = [pipe EXCEPT ![w] = Append(pipe[w], Head(queue[w]))]
        /\ task' = task \/ task' = [task EXCEPT ![w] = "await"]
        /\ UNCHANGED <<child, mirrors, dirty>>
    BY <1>1 DEF Receive, sidecar
  <2>2. Alone(w) BY <1>f, <2>1 DEF Alone
  <2>3. child'[w] = "up" => Neat(disk', mirrors'[w], pipe'[w], queue'[w], Top)
    <3>1. queue[w] \in Seq(Messages) /\ pipe[w] \in Seq(Messages) BY <1>f
    <3>2. child[w] = "up" =>
            Neat(disk, mirrors[w], Append(pipe[w], Head(queue[w])), Tail(queue[w]), Top)
      BY <1>f, <2>1, <3>1, NeatReceive
    <3>3. pipe'[w] = Append(pipe[w], Head(queue[w])) /\ queue'[w] = Tail(queue[w])
      BY <1>f, <2>1
    <3> QED BY <1>u, <2>1, <3>2, <3>3
  <2> QED BY <1>f, <1>u, <2>1, <2>2, <2>3, SideOrder
<1>2. CASE \E how, answered : Close(w, how, answered) /\ UNCHANGED <<pipe, child, mirrors, dirty>>
  <2>1. /\ queue' = [queue EXCEPT ![w] = <<>>]
        /\ \E how : task' = [task EXCEPT ![w] = how]
        /\ UNCHANGED <<pipe, child, mirrors, dirty>>
    BY <1>2 DEF Close
  <2>2. Alone(w) BY <1>f, <2>1 DEF Alone
  <2>3. child'[w] = "up" => Neat(disk', mirrors'[w], pipe'[w], queue'[w], Top)
    BY <1>f, <1>u, <2>1, NeatDrop
  <2> QED BY <1>f, <1>u, <2>1, <2>2, <2>3, SideOrder
<1>3. CASE Answer(w) /\ current[w] # "stop"
  <2>1. /\ UNCHANGED <<queue, pipe, child, mirrors, dirty>>
        /\ task' = [task EXCEPT ![w] = "recv"]
    BY <1>3 DEF Answer, sidecar
  <2>2. Alone(w) BY <1>f, <2>1 DEF Alone
  <2> QED BY <1>f, <1>u, <2>1, <2>2, SideOrder
<1>4. CASE StopWorker(w)
  <2>1. UNCHANGED queue /\ task' = [task EXCEPT ![w] = "stopped"] BY <1>4 DEF StopWorker
  <2>2. CASE child[w] = "exited"
    <3>1. UNCHANGED <<pipe, child, mirrors, dirty>> BY <1>4, <2>2 DEF StopWorker, sidecar
    <3>2. Alone(w) BY <1>f, <2>1, <3>1 DEF Alone
    <3> QED BY <1>f, <1>u, <2>1, <2>2, <3>1, <3>2, SideOrder
  <2>3. CASE child[w] # "exited"
    <3>1. /\ pipe' = [pipe EXCEPT ![w] = <<>>]
          /\ child' = [child EXCEPT ![w] = "dead"]
          /\ mirrors' = [mirrors EXCEPT ![w] = <<>>]
          /\ dirty' = [dirty EXCEPT ![w] = {}]
      BY <1>4, <2>3 DEF StopWorker, Dies
    <3>2. Alone(w) BY <1>f, <2>1, <3>1 DEF Alone
    <3>3. child'[w] # "up" /\ mirrors'[w] = <<>> /\ dirty'[w] = {} BY <1>f, <3>1
    <3>4. IsFile(<<>>) /\ Rising(<<>>) BY DEF IsFile, Rising
    <3> QED BY <1>f, <1>u, <3>2, <3>3, <3>4, SideOrder
  <2> QED BY <2>2, <2>3
<1>5. CASE WriteFails(w) \/ NoAnswer(w) \/ Cancelled(w) \/ (Answer(w) /\ current[w] = "stop")
  <2>1. UNCHANGED <<pipe, child, mirrors, dirty>>
    BY <1>5 DEF WriteFails, NoAnswer, Cancelled, Answer, sidecar
  <2>2. Close(w, "killing", FALSE) \/ Close(w, "leaving", TRUE)
    BY <1>5 DEF WriteFails, NoAnswer, Cancelled, Answer
  <2> QED BY <1>2, <2>1, <2>2
<1> QED BY <1>1, <1>3, <1>4, <1>5 DEF Work

\* The sidecar takes a command; screens and files afterwards hold nothing new.
LEMMA ServeData ==
    ASSUME SidecarInv, StrandInv, OrderInv, NEW w \in Workers, child[w] = "up",
           UNCHANGED <<made, ctl, spawned, sender, task, queue>>,
           pipe' = pipe \/ (pipe[w] # <<>> /\ pipe' = [pipe EXCEPT ![w] = Tail(pipe[w])]),
           NEW f, mirrors' = [mirrors EXCEPT ![w] = f] \/ (UNCHANGED mirrors /\ f = mirrors[w]),
           NEW ds, dirty' = [dirty EXCEPT ![w] = ds] \/ (UNCHANGED dirty /\ ds = dirty[w]),
           \A v \in Workers : v # w => child'[v] = child[v],
           IsFile(f), Rising(f), ds \subseteq DOMAIN f, IsFile(disk'), Rising(disk'),
           \A s \in Sessions : \A v \in Nat :
             Has(disk', s, v) \/ Has(f, s, v) => Has(disk, s, v) \/ Has(mirrors[w], s, v)
    PROVE  OrderInv'
<1>f. /\ w <= spawned
      /\ queue \in [Workers -> Seq(Messages)] /\ pipe \in [Workers -> Seq(Messages)]
      /\ DOMAIN mirrors = Workers /\ DOMAIN dirty = Workers
      /\ Low(disk, Top) /\ Top \in [Sessions -> Nat]
      /\ Neat(disk, mirrors[w], pipe[w], queue[w], Top)
  BY SideFacts
<1>1. pipe[w] \in Seq(Messages) /\ queue[w] \in Seq(Messages) /\ pipe'[w] \in Seq(Messages)
  <2>1. pipe[w] \in Seq(Messages) /\ queue[w] \in Seq(Messages) BY <1>f
  <2>2. pipe[w] # <<>> => Tail(pipe[w]) \in Seq(Messages) BY <2>1
  <2> QED BY <1>f, <2>1, <2>2
<1>2. Neat(disk, mirrors[w], pipe'[w], queue[w], Top)
  <2>1. CASE pipe' = pipe BY <1>f, <2>1
  <2>2. CASE pipe[w] # <<>> /\ pipe' = [pipe EXCEPT ![w] = Tail(pipe[w])]
    <3>1. Neat(disk, mirrors[w], Tail(pipe[w]), queue[w], Top) BY <1>f, <1>1, <2>2, NeatTake
    <3>2. pipe'[w] = Tail(pipe[w]) BY <1>f, <2>2
    <3> QED BY <3>1, <3>2
  <2> QED BY <2>1, <2>2
<1>3. Neat(disk', f, pipe'[w], queue[w], Top) /\ Low(disk', Top)
  <2>1. \A s \in Sessions : \A v \in Nat :
          Has(disk', s, v) \/ Has(f, s, v) => Has(disk, s, v) \/ Has(mirrors[w], s, v) \/ v = 0
    OBVIOUS
  <2> QED BY <1>f, <1>1, <1>2, <2>1, NeatData
<1>4. Alone(w) /\ mirrors'[w] = f /\ dirty'[w] = ds BY <1>f DEF Alone
<1>5. child'[w] = "up" => Neat(disk', mirrors'[w], pipe'[w], queue'[w], Top) BY <1>3, <1>4
<1>6. IsFile(mirrors'[w]) /\ Rising(mirrors'[w]) /\ dirty'[w] \subseteq DOMAIN mirrors'[w] BY <1>4
<1> QED BY <1>f, <1>3, <1>4, <1>5, <1>6, SideOrder

LEMMA ServeOrder ==
    ASSUME SidecarInv, StrandInv, OrderInv, NEW w \in Workers, Serve(w) \/ FlushDue(w) \/ Crash(w)
    PROVE  OrderInv'
<1> DEFINE m == Head(pipe[w])
           f == mirrors[w]
<1>u. UNCHANGED <<made, ctl, spawned, sender, task, queue>> /\ child[w] = "up"
  BY DEF Serve, HandleStart, HandleWrite, HandleResize, HandleEnd, HandleGet, HandleFlush,
         EndOfInput, FlushDue, Crash, Take, worker, manager, daemon
<1>f. /\ w <= spawned
      /\ queue \in [Workers -> Seq(Messages)] /\ pipe \in [Workers -> Seq(Messages)]
      /\ child \in [Workers -> {"unborn", "up", "exited", "dead"}]
      /\ DOMAIN mirrors = Workers /\ DOMAIN dirty = Workers
      /\ IsFile(f) /\ Rising(f) /\ dirty[w] \subseteq DOMAIN f
      /\ IsFile(disk) /\ Rising(disk) /\ Low(disk, Top) /\ Top \in [Sessions -> Nat]
      /\ Neat(disk, f, pipe[w], queue[w], Top)
  BY <1>u, SideFacts
<1>t. ~(EndOfInput(w) \/ FlushDue(w) \/ Crash(w)) =>
        pipe[w] # <<>> /\ pipe' = [pipe EXCEPT ![w] = Tail(pipe[w])]
  BY DEF Serve, HandleStart, HandleWrite, HandleResize, HandleEnd, HandleGet, HandleFlush, Take
<1>e. <<>> \in Seq(Nat) /\ \A i, j \in DOMAIN <<>> : i < j => <<>>[i] < <<>>[j] OBVIOUS
<1> HIDE DEF m, f
<1>1. CASE HandleStart(w)
  <2>0. pipe[w] # <<>> /\ pipe' = [pipe EXCEPT ![w] = Tail(pipe[w])] /\ UNCHANGED <<child, dirty>>
    BY <1>1 DEF HandleStart, Take
  <2>1. \/ UNCHANGED <<mirrors, disk>>
        \/ mirrors' = [mirrors EXCEPT ![w] = Put(f, m.s, disk[m.s])] /\ m.s \in DOMAIN disk /\ disk' = disk
        \/ mirrors' = [mirrors EXCEPT ![w] = Put(f, m.s, <<>>)] /\ disk' = Without(disk, m.s)
    BY <1>1 DEF HandleStart, m, f
  <2>2. CASE UNCHANGED <<mirrors, disk>> BY <1>f, <1>u, <2>0, <2>2, ServeData DEF f
  <2>3. ASSUME NEW c \in Seq(Nat), \A i, j \in DOMAIN c : i < j => c[i] < c[j],
               mirrors' = [mirrors EXCEPT ![w] = Put(f, m.s, c)], IsFile(disk'), Rising(disk'),
               \A s \in Sessions : \A v \in Nat : Has(disk', s, v) => Has(disk, s, v),
               \A v \in Nat : (\E k \in DOMAIN c : c[k] = v) => Has(disk, m.s, v)
        PROVE  OrderInv'
    <3> DEFINE g == Put(f, m.s, c)
    <3>1. IsFile(g) /\ Rising(g) BY <1>f, <2>3, PutFile
    <3>6. DOMAIN g = DOMAIN f \cup {m.s} BY DEF Put
    <3>2. \A s \in Sessions : \A v \in Nat : Has(g, s, v) =>
            Has(f, s, v) \/ (s = m.s /\ \E k \in DOMAIN c : c[k] = v)
      BY DEF Put, Has
    <3>3. mirrors' = [mirrors EXCEPT ![w] = g] BY <2>3
    <3> HIDE DEF g
    <3>4. \A s \in Sessions : \A v \in Nat :
            Has(disk', s, v) \/ Has(g, s, v) => Has(disk, s, v) \/ Has(mirrors[w], s, v)
      BY <2>3, <3>2 DEF f
    <3>5. dirty[w] \subseteq DOMAIN g BY <1>f, <3>6
    <3> QED BY <1>u, <2>0, <2>3, <3>1, <3>3, <3>4, <3>5, ServeData
  <2>4. CASE mirrors' = [mirrors EXCEPT ![w] = Put(f, m.s, disk[m.s])] /\ m.s \in DOMAIN disk /\ disk' = disk
    <3> DEFINE c == disk[m.s]
    <3>1. c \in Seq(Nat) /\ \A i, j \in DOMAIN c : i < j => c[i] < c[j]
      BY <1>f, <2>4 DEF IsFile, Rising
    <3>2. \A v \in Nat : (\E k \in DOMAIN c : c[k] = v) => Has(disk, m.s, v) BY <2>4 DEF Has
    <3>3. mirrors' = [mirrors EXCEPT ![w] = Put(f, m.s, c)] BY <2>4
    <3> HIDE DEF c
    <3> QED BY <1>f, <2>3, <2>4, <3>1, <3>2, <3>3
  <2>5. CASE mirrors' = [mirrors EXCEPT ![w] = Put(f, m.s, <<>>)] /\ disk' = Without(disk, m.s)
    <3>1. IsFile(disk') /\ Rising(disk') BY <1>f, <2>5, WithoutFile
    <3>2. \A s \in Sessions : \A v \in Nat : Has(disk', s, v) => Has(disk, s, v)
      BY <2>5 DEF Without, Has
    <3>3. \A v \in Nat : (\E k \in DOMAIN <<>> : <<>>[k] = v) => Has(disk, m.s, v) OBVIOUS
    <3> QED BY <1>e, <2>3, <2>5, <3>1, <3>2, <3>3
  <2> QED BY <2>1, <2>2, <2>4, <2>5
<1>2. CASE HandleWrite(w)
  <2>0. /\ pipe[w] # <<>> /\ pipe' = [pipe EXCEPT ![w] = Tail(pipe[w])] /\ UNCHANGED <<child, disk>>
        /\ m.op = "write"
    BY <1>2 DEF HandleWrite, Take, m
  <2>1. CASE m.s \notin DOMAIN f
    <3>1. UNCHANGED <<mirrors, dirty>> BY <1>2, <2>1 DEF HandleWrite, m, f
    <3> QED BY <1>f, <1>u, <2>0, <3>1, ServeData DEF f
  <2>2. CASE m.s \in DOMAIN f
    <3> DEFINE g == [f EXCEPT ![m.s] = Append(f[m.s], m.arg)]
    <3>1. mirrors' = [mirrors EXCEPT ![w] = g] /\ dirty' = [dirty EXCEPT ![w] = dirty[w] \cup {m.s}]
      BY <1>2, <2>2 DEF HandleWrite, m, f
    <3>2. pipe[w] \in Seq(Messages) /\ queue[w] \in Seq(Messages) BY <1>f
    <3>3. IsFile(g) /\ Rising(g) /\ DOMAIN g = DOMAIN f /\ Neat(disk, g, Tail(pipe[w]), queue[w], Top)
      BY <1>f, <2>0, <2>2, <3>2, NeatWrite DEF m, Chunk
    <3> HIDE DEF g
    <3>4. Alone(w) BY <1>f, <1>u, <2>0, <3>1 DEF Alone
    <3>5. /\ mirrors'[w] = g /\ dirty'[w] = dirty[w] \cup {m.s} /\ pipe'[w] = Tail(pipe[w])
          /\ queue'[w] = queue[w]
      BY <1>f, <1>u, <2>0, <3>1
    <3>6. dirty'[w] \subseteq DOMAIN g BY <1>f, <2>2, <3>3, <3>5
    <3> QED BY <1>f, <1>u, <2>0, <3>3, <3>4, <3>5, <3>6, SideOrder
  <2> QED BY <2>1, <2>2
<1>3. CASE HandleResize(w)
  <2>0. pipe[w] # <<>> /\ pipe' = [pipe EXCEPT ![w] = Tail(pipe[w])] /\ UNCHANGED <<child, disk, mirrors>>
    BY <1>3 DEF HandleResize, Take
  <2>1. UNCHANGED dirty \/ (dirty' = [dirty EXCEPT ![w] = dirty[w] \cup {m.s}] /\ m.s \in DOMAIN f)
    BY <1>3 DEF HandleResize, m, f
  <2>2. CASE UNCHANGED dirty BY <1>f, <1>u, <2>0, <2>2, ServeData DEF f
  <2>3. CASE dirty' = [dirty EXCEPT ![w] = dirty[w] \cup {m.s}] /\ m.s \in DOMAIN f
    <3>1. dirty[w] \cup {m.s} \subseteq DOMAIN f BY <1>f, <2>3
    <3> QED BY <1>f, <1>u, <2>0, <2>3, <3>1, ServeData DEF f
  <2> QED BY <2>1, <2>2, <2>3
<1>4. CASE HandleEnd(w)
  <2> DEFINE g == Without(f, m.s)
  <2>0. pipe[w] # <<>> /\ pipe' = [pipe EXCEPT ![w] = Tail(pipe[w])] /\ UNCHANGED child
    BY <1>4 DEF HandleEnd, Take
  <2>1. /\ mirrors' = [mirrors EXCEPT ![w] = g] /\ dirty' = [dirty EXCEPT ![w] = dirty[w] \ {m.s}]
        /\ disk' = disk \/ disk' = Without(disk, m.s)
    BY <1>4 DEF HandleEnd, m, f
  <2>2. IsFile(g) /\ Rising(g) BY <1>f, WithoutFile
  <2>8. DOMAIN g = DOMAIN f \ {m.s} BY DEF Without
  <2>3. \A s \in Sessions : \A v \in Nat : Has(g, s, v) => Has(f, s, v) BY DEF Without, Has
  <2>4. IsFile(disk') /\ Rising(disk')
    <3>1. CASE disk' = disk BY <1>f, <3>1
    <3>2. CASE disk' = Without(disk, m.s) BY <1>f, <3>2, WithoutFile
    <3> QED BY <2>1, <3>1, <3>2
  <2>5. \A s \in Sessions : \A v \in Nat : Has(disk', s, v) => Has(disk, s, v)
    <3>1. CASE disk' = disk BY <3>1
    <3>2. CASE disk' = Without(disk, m.s) BY <3>2 DEF Without, Has
    <3> QED BY <2>1, <3>1, <3>2
  <2> HIDE DEF g
  <2>6. dirty[w] \ {m.s} \subseteq DOMAIN g BY <1>f, <2>8
  <2>7. \A s \in Sessions : \A v \in Nat :
          Has(disk', s, v) \/ Has(g, s, v) => Has(disk, s, v) \/ Has(mirrors[w], s, v)
    BY <2>3, <2>5 DEF f
  <2> QED BY <1>u, <2>0, <2>1, <2>2, <2>4, <2>6, <2>7, ServeData
<1>5. CASE HandleGet(w)
  <2>0. /\ pipe[w] # <<>> /\ pipe' = [pipe EXCEPT ![w] = Tail(pipe[w])]
        /\ UNCHANGED <<child, disk, mirrors, dirty>>
    BY <1>5 DEF HandleGet, Take, sidecar
  <2> QED BY <1>f, <1>u, <2>0, ServeData DEF f
<1>6. ASSUME NEW ss, ss \subseteq dirty[w], disk' = Persisted(w, ss),
             dirty' = [dirty EXCEPT ![w] = dirty[w] \ ss], UNCHANGED mirrors,
             pipe' = pipe \/ (pipe[w] # <<>> /\ pipe' = [pipe EXCEPT ![w] = Tail(pipe[w])]),
             \A v \in Workers : v # w => child'[v] = child[v]
      PROVE  OrderInv'
  <2>1. ss \subseteq DOMAIN f BY <1>f, <1>6
  <2> DEFINE e == Merge(disk, f, ss)
  <2>2. disk' = e BY <1>6 DEF Persisted, Merge, f
  <2>3. IsFile(e) /\ Rising(e) BY <1>f, <2>1, MergeFile
  <2>4. \A s \in Sessions : \A v \in Nat : Has(e, s, v) => Has(disk, s, v) \/ Has(f, s, v)
    BY <2>1 DEF Has, Merge
  <2> HIDE DEF e
  <2>5. IsFile(disk') /\ Rising(disk') BY <2>2, <2>3
  <2>6. dirty[w] \ ss \subseteq DOMAIN f BY <1>f
  <2>7. \A s \in Sessions : \A v \in Nat :
          Has(disk', s, v) \/ Has(f, s, v) => Has(disk, s, v) \/ Has(mirrors[w], s, v)
    BY <2>2, <2>4 DEF f
  <2> QED BY <1>f, <1>u, <1>6, <2>5, <2>6, <2>7, ServeData DEF f
<1>s. \A ss \in SavedSets(w) : ss \subseteq dirty[w] BY DEF SavedSets
<1>7. CASE HandleFlush(w)
  <2>1. /\ pipe[w] # <<>> /\ pipe' = [pipe EXCEPT ![w] = Tail(pipe[w])] /\ UNCHANGED mirrors
        /\ \A v \in Workers : v # w => child'[v] = child[v]
    BY <1>7, <1>f DEF HandleFlush, Take
  <2>2. PICK ss \in SavedSets(w) : SaveAll(w, ss) BY <1>7 DEF HandleFlush
  <2> QED BY <1>6, <1>s, <2>1, <2>2 DEF SaveAll
<1>8. CASE EndOfInput(w)
  <2>1. UNCHANGED <<pipe, mirrors>> /\ \A v \in Workers : v # w => child'[v] = child[v]
    BY <1>8, <1>f DEF EndOfInput
  <2>2. PICK ss \in SavedSets(w) : SaveAll(w, ss) BY <1>8 DEF EndOfInput
  <2> QED BY <1>6, <1>s, <2>1, <2>2 DEF SaveAll
<1>9. CASE FlushDue(w)
  <2>1. UNCHANGED <<pipe, mirrors, child>> BY <1>9 DEF FlushDue
  <2>2. PICK s \in dirty[w] : disk' = Persisted(w, {s}) /\ dirty' = [dirty EXCEPT ![w] = @ \ {s}]
    BY <1>9 DEF FlushDue
  <2>3. {s} \subseteq dirty[w] BY <2>2
  <2> QED BY <1>6, <2>1, <2>2, <2>3
<1>10. CASE Crash(w)
  <2>1. /\ child' = [child EXCEPT ![w] = "dead"] /\ mirrors' = [mirrors EXCEPT ![w] = <<>>]
        /\ dirty' = [dirty EXCEPT ![w] = {}] /\ UNCHANGED <<pipe, disk>>
    BY <1>10 DEF Crash, Dies
  <2>2. Alone(w) BY <1>f, <1>u, <2>1 DEF Alone
  <2>3. child'[w] # "up" /\ mirrors'[w] = <<>> /\ dirty'[w] = {} BY <1>f, <2>1
  <2>4. IsFile(<<>>) /\ Rising(<<>>) BY DEF IsFile, Rising
  <2> QED BY <1>f, <1>u, <2>1, <2>2, <2>3, <2>4, SideOrder
<1> QED BY <1>1, <1>2, <1>3, <1>4, <1>5, <1>7, <1>8, <1>9, <1>10 DEF Serve

LEMMA OrderInit ==
    ASSUME Init
    PROVE  OrderInv
<1>1. /\ \A p \in Callers : ctl[p].op = "none" /\ ctl[p].w = 0
      /\ disk = [s \in Saved |-> Seed] /\ made = [s \in Sessions |-> 0] /\ spawned = 0 /\ sender = 0
      /\ mirrors = [w \in Workers |-> <<>>] /\ dirty = [w \in Workers |-> {}]
      /\ task = [w \in Workers |-> "unborn"] /\ child = [w \in Workers |-> "unborn"]
      /\ queue = [w \in Workers |-> <<>>] /\ pipe = [w \in Workers |-> <<>>]
  BY DEF Init, Idle
<1>2. Calls /\ InStep /\ Born BY <1>1 DEF Calls, InStep, Born
<1>3. Screens
  <2>1. Seed \in Seq(Nat) /\ DOMAIN Seed = {1} /\ Seed[1] = 0 BY DEF Seed
  <2>2. DOMAIN disk = Saved /\ \A s \in Saved : disk[s] = Seed BY <1>1
  <2>3. IsFile(disk) BY <1>1, <2>1 DEF IsFile
  <2>4. Rising(disk) BY <2>1, <2>2 DEF Rising
  <2>5. \A s \in Sessions : Top[s] = 0
    <3>1. \A s \in Sessions : ctl[s].op = "none" /\ made[s] = 0 BY <1>1, CallerFacts
    <3> QED BY <3>1 DEF Top
  <2>6. Low(disk, Top) BY <2>1, <2>2, <2>5 DEF Low, Has
  <2>7. IsFile(<<>>) /\ Rising(<<>>) BY DEF IsFile, Rising
  <2> QED BY <1>1, <2>3, <2>4, <2>6, <2>7 DEF Screens
<1> QED BY <1>2, <1>3 DEF OrderInv

LEMMA OrderStep ==
    ASSUME SidecarInv, StrandInv, OrderInv, [Next]_vars
    PROVE  OrderInv'
<1>s. SidecarInv' BY SidecarStep
<1>1. CASE Ask BY <1>1, AskOrder
<1>2. ASSUME NEW p \in Callers, Manage(p) PROVE OrderInv'
  BY <1>s, <1>2, CallOrder, GuardOrder, RestartOrder DEF Manage
<1>3. CASE BackoffElapses \/ UNCHANGED vars
  <2>1. UNCHANGED <<sender, ctl, made, spawned, task, child, queue, pipe, mirrors, dirty, disk>>
    BY <1>3 DEF BackoffElapses, vars, manager, daemon, worker, sidecar
  <2> QED BY <2>1 DEF OrderInv, Screens, Born, Calls, InStep, Top
<1>4. CASE Shutdown \/ AskFlush \/ Flushed \/ ShutdownDone BY <1>s, <1>4, ShutdownOrder
<1>5. ASSUME NEW w \in Workers, Work(w) \/ Serve(w) \/ FlushDue(w) \/ Crash(w)
      PROVE  OrderInv'
  BY <1>5, WorkOrder, ServeOrder
<1> QED BY <1>1, <1>2, <1>3, <1>4, <1>5 DEF Next

\* A screen or a file holds each chunk of its session at most once and in the order the
\* session produced them: for any number of sessions, chunks, restarts and queue slots, through
\* retries, resumed and seeded files, and whatever crashes, times out or cannot be saved.
THEOREM ChunksInOrder == Spec => []InOrder
<1>1. Init => SidecarInv /\ StrandInv /\ OrderInv BY SidecarInit, StrandInit, OrderInit
<1>2. SidecarInv /\ StrandInv /\ OrderInv /\ [Next]_vars => (SidecarInv /\ StrandInv /\ OrderInv)'
  BY SidecarStep, StrandStep, OrderStep
<1>3. OrderInv => InOrder BY DEF OrderInv, Screens, Rising, InOrder
<1> QED BY <1>1, <1>2, <1>3, PTL DEF Spec
---------------------------------------------------------------------------
(* What the shutdown leaves behind.                                        *)

\* A step of the callers: the sidecars are as they were.
LEMMA CallerFlush ==
    ASSUME FlushInv, Latest', UNCHANGED <<task, child, current, pipe, mirrors, dirty, hurt, spawned>>,
           \A w \in Workers : \A i \in DOMAIN queue'[w] :
             queue'[w][i].op = "flush" => queue'[w][i].by = "stop",
           disk' = disk \/ \E s : disk' = Put(disk, s, Seed)
    PROVE  FlushInv'
<1>1. FlushLast'
  <2> SUFFICES ASSUME NEW w \in Workers PROVE LastOf(w)' BY DEF FlushLast
  <2>1. LastOf(w) BY DEF FlushInv, FlushLast
  <2> QED BY <2>1 DEF LastOf, Ending, Closed
<1>2. Saves'
  <2> SUFFICES ASSUME NEW w \in Workers, w = spawned, child[w] \in {"up", "exited"}
               PROVE  Clean(disk', mirrors[w], dirty[w])
    BY DEF Saves
  <2>1. Clean(disk, mirrors[w], dirty[w]) BY DEF FlushInv, Saves
  <2>2. CASE disk' = disk BY <2>1, <2>2
  <2>3. ASSUME NEW s, disk' = Put(disk, s, Seed) PROVE Clean(disk', mirrors[w], dirty[w])
    <3>1. /\ DOMAIN disk' = DOMAIN disk \cup {s}
          /\ \A x \in DOMAIN disk : disk'[x] \in {disk[x], Seed}
      BY <2>3 DEF Put
    <3> QED BY <2>1, <3>1 DEF Clean
  <2> QED BY <2>2, <2>3
<1> QED BY <1>1, <1>2 DEF FlushInv

\* Only a shutdown asks for a flush.
LEMMA FlushQueued ==
    ASSUME StrandInv, FlushInv,
           \/ UNCHANGED queue
           \/ \E v \in Workers, m \in Messages :
                queue' = [queue EXCEPT ![v] = Append(@, m)] /\ (m.op = "flush" => m.by = "stop")
    PROVE  \A w \in Workers : \A i \in DOMAIN queue'[w] :
             queue'[w][i].op = "flush" => queue'[w][i].by = "stop"
<1> SUFFICES ASSUME NEW w \in Workers, NEW i \in DOMAIN queue'[w], queue'[w][i].op = "flush"
             PROVE  queue'[w][i].by = "stop"
  OBVIOUS
<1>1. \A j \in DOMAIN queue[w] : queue[w][j].op = "flush" => queue[w][j].by = "stop"
  BY DEF FlushInv, FlushLast, LastOf
<1>2. CASE queue'[w] = queue[w] BY <1>1, <1>2
<1>3. ASSUME NEW m \in Messages, queue'[w] = Append(queue[w], m), m.op = "flush" => m.by = "stop"
      PROVE  queue'[w][i].by = "stop"
  <2>0. queue[w] \in Seq(Messages) BY DEF StrandInv, Wires
  <2>1. (i \in DOMAIN queue[w] /\ queue'[w][i] = queue[w][i]) \/ queue'[w][i] = m
    BY <1>3, <2>0, AppendShape
  <2> QED BY <1>1, <1>3, <2>1
<1>4. queue \in [Workers -> Seq(Messages)] BY DEF StrandInv, Wires
<1> QED BY <1>2, <1>3, <1>4

\* The worker a caller replays into stays the one it started.
LEMMA ReplaysOn ==
    ASSUME SidecarInv, NEW p \in Callers, Manage(p), ~SpawnWorker(p)
    PROVE  \A q \in Callers : ctl'[q].pc \in {"replay", "replayed"} =>
             ctl[q].pc \in {"replay", "replayed"} /\ ctl'[q].w = ctl[q].w
<1>0. ctl \in [Callers -> Frames] BY DEF SidecarInv, Types
<1> DEFINE Goal == \A q \in Callers : ctl'[q].pc \in {"replay", "replayed"} =>
                     ctl[q].pc \in {"replay", "replayed"} /\ ctl'[q].w = ctl[q].w
<1>g. ASSUME NEW pc \in {"gate", "await", "track", "invalid", "drain", "abandon", "discard", "send"},
             Goto(p, pc)
      PROVE  Goal
  BY <1>0, <1>g DEF Goto, Frames
<1>h. GiveUp(p) => Goal BY <1>0 DEF GiveUp, Idle
<1>i. \A x : ctl' = [ctl EXCEPT ![p].pc = "send", ![p].w = x] => Goal BY <1>0 DEF Frames
<1> SUFFICES Goal OBVIOUS
<1> HIDE DEF Goal
<1>1. CASE Ensure(p) BY <1>1, <1>g, <1>h, <1>i DEF Ensure
<1>2. CASE Gate(p)
  <2>1. CASE ctl' = [ctl EXCEPT ![p].pc = "reap", ![p].w = sender, ![p].todo = tracked, ![p].due = ~backoff]
    BY <1>0, <2>1 DEF Frames, Goal
  <2> QED BY <1>2, <1>h, <1>i, <2>1 DEF Gate
<1>3. CASE NoWorker(p) BY <1>3, <1>h DEF NoWorker
<1>4. CASE Replay(p)
  <2>1. ctl[p].pc = "replay" BY <1>4 DEF Replay
  <2>2. ASSUME NEW s, ctl' = [ctl EXCEPT ![p].pc = "replayed", ![p].todo = @ \ {s}] PROVE Goal
    BY <1>0, <2>1, <2>2 DEF Frames, Goal
  <2> QED BY <1>4, <1>g, <2>2 DEF Replay
<1>5. CASE Replayed(p)
  <2>1. ctl[p].pc = "replayed" BY <1>5 DEF Replayed
  <2>2. Goto(p, "replay") => Goal BY <1>0, <2>1 DEF Goto, Frames, Goal
  <2> QED BY <1>5, <1>g, <2>2 DEF Replayed
<1>6. CASE Abandon(p) BY <1>6, <1>h DEF Abandon
<1>7. CASE Install(p) BY <1>7, <1>g DEF Install
<1>8. CASE Send(p) BY <1>8, <1>g, <1>h DEF Send, Invalidate
<1>9. CASE Await(p) BY <1>9, <1>g, <1>h DEF Await, Invalidate
<1>10. CASE Track(p) BY <1>10, <1>h DEF Track
<1>11. CASE Uninstall(p) BY <1>11, <1>g DEF Uninstall
<1>12. CASE Drain(p)
  <2>1. ctl' = [ctl EXCEPT ![p].pc = "ensure", ![p].again = TRUE] => Goal BY <1>0 DEF Frames, Goal
  <2> QED BY <1>12, <1>h, <2>1 DEF Drain
<1> QED BY <1>1, <1>2, <1>3, <1>4, <1>5, <1>6, <1>7, <1>8, <1>9, <1>10, <1>11, <1>12
        DEF Manage

LEMMA ManageFlush ==
    ASSUME SidecarInv, StrandInv, OrderInv, FlushInv, NEW p \in Callers, Manage(p), ~SpawnWorker(p)
    PROVE  FlushInv'
<1>s. p # "stop" /\ ctl'["stop"] = ctl["stop"]
  <2>1. p # "stop"
    BY DEF SidecarInv, Roles, StopPcs, Manage, Ensure, Gate, NoWorker, Replay, Replayed, Abandon,
           Install, Send, Await, Track, Uninstall, Drain
  <2>2. \E f : ctl' = [ctl EXCEPT ![p] = f]
    <3>1. \A pc : Goto(p, pc) => \E f : ctl' = [ctl EXCEPT ![p] = f] BY DEF Goto
    <3>2. GiveUp(p) => \E f : ctl' = [ctl EXCEPT ![p] = f] BY DEF GiveUp
    <3>3. CASE Ensure(p) BY <3>1, <3>2, <3>3 DEF Ensure
    <3>4. CASE Gate(p) BY <3>1, <3>2, <3>4 DEF Gate
    <3>5. CASE NoWorker(p) \/ Abandon(p) \/ Track(p) BY <3>2, <3>5 DEF NoWorker, Abandon, Track
    <3>6. CASE Replay(p) BY <3>1, <3>6 DEF Replay
    <3>7. CASE Replayed(p) \/ Install(p) \/ Uninstall(p) BY <3>1, <3>7 DEF Replayed, Install, Uninstall
    <3>8. CASE Send(p) \/ Await(p) BY <3>1, <3>2, <3>8 DEF Send, Await, Invalidate
    <3>9. CASE Drain(p) BY <3>2, <3>9 DEF Drain
    <3> QED BY <3>3, <3>4, <3>5, <3>6, <3>7, <3>8, <3>9 DEF Manage
  <2> QED BY <2>1, <2>2, CallerFacts DEF SidecarInv, Types
<1>1. UNCHANGED <<task, child, current, pipe, mirrors, dirty, hurt, spawned, disk>>
  BY DEF Manage, Ensure, Gate, NoWorker, Replay, Replayed, Abandon, Install, Send, Await, Track,
         Uninstall, Drain, worker, sidecar
<1>2. sender' \in {0, spawned}
  <2>1. sender \in {0, spawned} BY DEF FlushInv, Latest
  <2>2. CASE Install(p)
    <3>1. ctl[p].w = spawned BY <2>2 DEF Install, FlushInv, Latest
    <3> QED BY <2>1, <2>2, <3>1 DEF Install
  <2>3. CASE ~Install(p)
    <3>1. sender' \in {0, sender}
      BY <2>3 DEF Manage, Ensure, Gate, NoWorker, Replay, Replayed, Abandon, Send, Await, Track,
                  Uninstall, Drain, manager
    <3> QED BY <2>1, <3>1
  <2> QED BY <2>2, <2>3
<1>3. Latest'
  <2>1. \A q \in Callers : ctl'[q].pc \in {"replay", "replayed"} => ctl'[q].w = spawned
    BY ReplaysOn DEF FlushInv, Latest
  <2> QED BY <1>s, <1>1, <1>2, <2>1 DEF FlushInv, Latest
<1>4. \/ UNCHANGED queue
      \/ \E v \in Workers, m \in Messages :
           queue' = [queue EXCEPT ![v] = Append(@, m)] /\ (m.op = "flush" => m.by = "stop")
  <2>1. CASE Send(p)
    <3>1. CASE ~UNCHANGED queue
      <4>1. Enqueue(ctl[p].w, Message(p)) /\ ctl[p].pc = "send" BY <2>1, <3>1 DEF Send
      <4>2. /\ ctl[p].w \in Workers /\ Message(p) \in Messages
            /\ Message(p).op = ctl[p].op /\ Message(p).by = p
        BY <4>1, HandTypes DEF Handed
      <4>3. Message(p).op = "flush" => Message(p).by = "stop" BY <4>2 DEF OrderInv, Calls
      <4>4. queue' = [queue EXCEPT ![ctl[p].w] = Append(@, Message(p))] BY <4>1 DEF Enqueue
      <4> QED BY <4>2, <4>3, <4>4
    <3> QED BY <3>1
  <2>2. CASE Replay(p)
    <3>1. CASE ~UNCHANGED queue
      <4>1. PICK s \in ctl[p].todo :
              Enqueue(ctl[p].w, [op |-> "start", s |-> s, by |-> p,
                                 arg |-> IF s \in DOMAIN disk THEN 1 ELSE 0])
        BY <2>2, <3>1 DEF Replay
      <4> DEFINE m == [op |-> "start", s |-> s, by |-> p, arg |-> IF s \in DOMAIN disk THEN 1 ELSE 0]
      <4>2. ctl[p].w \in Workers BY <2>2, HandTypes DEF Replay, Handed
      <4>3. s \in Owners BY DEF SidecarInv, Types, Frames
      <4>4. m \in Messages /\ m.op # "flush" BY <4>3 DEF Messages, Ops
      <4>5. queue' = [queue EXCEPT ![ctl[p].w] = Append(@, m)] BY <4>1 DEF Enqueue
      <4> HIDE DEF m
      <4> QED BY <4>2, <4>4, <4>5
    <3> QED BY <3>1
  <2>3. CASE ~Send(p) /\ ~Replay(p)
    BY <2>3 DEF Manage, Ensure, Gate, NoWorker, Replayed, Abandon, Install, Await, Track,
                Uninstall, Drain, worker
  <2> QED BY <2>1, <2>2, <2>3
<1>5. \A w \in Workers : \A i \in DOMAIN queue'[w] :
        queue'[w][i].op = "flush" => queue'[w][i].by = "stop"
  BY <1>4, FlushQueued
<1> QED BY <1>1, <1>3, <1>5, CallerFlush

LEMMA ShutdownFlush ==
    ASSUME SidecarInv, StrandInv, OrderInv, FlushInv, Shutdown \/ AskFlush \/ Flushed \/ ShutdownDone
    PROVE  FlushInv'
<1>c. "stop" \in Callers BY CallerFacts
<1>t. ctl \in [Callers -> Frames] BY DEF SidecarInv, Types
<1>1. UNCHANGED <<task, child, current, pipe, mirrors, dirty, hurt, spawned, disk>>
  BY DEF Shutdown, AskFlush, Flushed, ShutdownDone, worker, sidecar
<1>2. /\ sender' \in {0, sender}
      /\ \A q \in Callers : q # "stop" => ctl'[q] = ctl[q]
      /\ ctl'["stop"].pc \notin {"replay", "replayed"}
      /\ ctl'["stop"].w \in {sender, ctl["stop"].w}
  <2>1. \A pc \in {"flushing", "clear", "done"} : Goto("stop", pc) =>
          /\ \A q \in Callers : q # "stop" => ctl'[q] = ctl[q]
          /\ ctl'["stop"].pc = pc /\ ctl'["stop"].w = ctl["stop"].w
    BY <1>c, <1>t DEF Goto, Frames
  <2>2. CASE Shutdown
    <3> DEFINE f == [Idle EXCEPT !.pc = IF sender = 0 THEN "clear" ELSE "ask",
                                 !.op = "flush", !.w = sender]
    <3>1. f.pc \in {"clear", "ask"} /\ f.w = sender BY DEF Idle
    <3>2. ctl' = [ctl EXCEPT !["stop"] = f] /\ sender' = 0 BY <2>2 DEF Shutdown
    <3> HIDE DEF f
    <3> QED BY <1>c, <1>t, <3>1, <3>2
  <2>3. CASE AskFlush BY <2>1, <2>3 DEF AskFlush, manager
  <2>4. CASE Flushed BY <2>1, <2>4 DEF Flushed, manager
  <2>5. CASE ShutdownDone BY <2>1, <2>5 DEF ShutdownDone
  <2> QED BY <2>2, <2>3, <2>4, <2>5
<1>3. Latest' BY <1>1, <1>2 DEF FlushInv, Latest
<1>4. \/ UNCHANGED queue
      \/ \E v \in Workers, m \in Messages :
           queue' = [queue EXCEPT ![v] = Append(@, m)] /\ (m.op = "flush" => m.by = "stop")
  <2>1. CASE ~UNCHANGED queue
    <3>1. Enqueue(ctl["stop"].w, Message("stop")) /\ ctl["stop"].pc = "ask"
      BY <2>1 DEF Shutdown, AskFlush, Flushed, ShutdownDone, worker
    <3>2. /\ ctl["stop"].w \in Workers /\ Message("stop") \in Messages
          /\ Message("stop").by = "stop"
      BY <1>c, <3>1, HandTypes DEF Handed
    <3>3. queue' = [queue EXCEPT ![ctl["stop"].w] = Append(@, Message("stop"))] BY <3>1 DEF Enqueue
    <3> QED BY <3>2, <3>3
  <2> QED BY <2>1
<1>5. \A w \in Workers : \A i \in DOMAIN queue'[w] :
        queue'[w][i].op = "flush" => queue'[w][i].by = "stop"
  BY <1>4, FlushQueued
<1> QED BY <1>1, <1>3, <1>5, CallerFlush

LEMMA AskFlushes ==
    ASSUME SidecarInv, StrandInv, FlushInv, Ask
    PROVE  FlushInv'
<1> PICK s \in Sessions :
      \/ SeedSnapshot(s) \/ SpawnSession(s) \/ AdoptSession(s) \/ Output(s)
      \/ EndSession(s) \/ ResizeSession(s) \/ GetSnapshot(s)
  BY DEF Ask
<1>c. s \in Callers /\ "viewer" \in Callers /\ "stop" \in Callers /\ s # "stop" BY CallerFacts
<1>t. ctl \in [Callers -> Frames] BY DEF SidecarInv, Types
<1>1. UNCHANGED <<task, child, current, pipe, queue, mirrors, dirty, hurt, spawned, sender>>
  BY DEF SeedSnapshot, SpawnSession, AdoptSession, Output, EndSession, ResizeSession, GetSnapshot,
         manager, worker, sidecar
<1>2. disk' = disk \/ disk' = Put(disk, s, Seed)
  BY DEF SeedSnapshot, SpawnSession, AdoptSession, Output, EndSession, ResizeSession, GetSnapshot
<1>3. Latest'
  <2>1. CASE UNCHANGED ctl BY <1>1, <2>1 DEF FlushInv, Latest
  <2>2. ASSUME NEW p \in {s, "viewer"}, NEW op, NEW arg, Call(p, op, s, arg) PROVE Latest'
    <3> DEFINE f == [Idle EXCEPT !.pc = "ensure", !.op = op, !.s = s, !.arg = arg]
    <3>1. f.pc = "ensure" BY DEF Idle
    <3>2. ctl' = [ctl EXCEPT ![p] = f] BY <2>2 DEF Call
    <3> HIDE DEF f
    <3>3. ctl'[p].pc = "ensure" /\ \A q \in Callers : q # p => ctl'[q] = ctl[q]
      BY <1>c, <1>t, <3>1, <3>2
    <3>4. ctl'["stop"] = ctl["stop"] BY <1>c, <3>3
    <3> QED BY <1>1, <3>3, <3>4 DEF FlushInv, Latest
  <2> QED BY <2>1, <2>2 DEF SeedSnapshot, SpawnSession, AdoptSession, Output, EndSession,
                            ResizeSession, GetSnapshot
<1>4. \A w \in Workers : \A i \in DOMAIN queue'[w] :
        queue'[w][i].op = "flush" => queue'[w][i].by = "stop"
  BY <1>1, FlushQueued
<1> QED BY <1>1, <1>2, <1>3, <1>4, CallerFlush

\* A new worker is the last one started, and its sidecar shows nothing.
LEMMA SpawnFlush ==
    ASSUME SidecarInv, StrandInv, OrderInv, FlushInv, NEW p \in Callers, SpawnWorker(p)
    PROVE  FlushInv'
<1>t. ctl \in [Callers -> Frames] /\ spawned \in Nat /\ "stop" \in Callers
  BY CallerFacts DEF SidecarInv, Types
<1>s. /\ p # "stop" /\ guard = p /\ sender = 0 /\ ctl["stop"].w = 0
      /\ \A q \in Callers : q # p => ctl[q].pc \notin {"replay", "replayed"}
  BY DEF SidecarInv, Roles, Quiet, StopPcs, Guarding, Restarting, SpawnWorker
<1>1. /\ UNCHANGED <<sender, current, pipe, queue, mirrors, dirty, hurt, disk>>
      /\ spawned' = spawned + 1
      /\ task' = [task EXCEPT ![spawned + 1] = "recv"]
      /\ child' = [child EXCEPT ![spawned + 1] = "up"]
      /\ ctl' = [ctl EXCEPT ![p].pc = "replay", ![p].w = spawned + 1]
      /\ Stopped(ctl[p].w)
  BY DEF SpawnWorker, manager
<1>2. \A w \in Workers : task[w] \notin Alive
  BY <1>s, <1>1, CallerFacts DEF Stopped, Alive, SidecarInv, Held
<1>3. Latest'
  <2>1. ctl'["stop"] = ctl["stop"] BY <1>t, <1>s, <1>1
  <2>2. \A q \in Callers : ctl'[q].pc \in {"replay", "replayed"} => ctl'[q].w = spawned + 1
    <3> SUFFICES ASSUME NEW q \in Callers, ctl'[q].pc \in {"replay", "replayed"}
                 PROVE  ctl'[q].w = spawned + 1
      OBVIOUS
    <3>1. CASE q # p BY <1>t, <1>s, <1>1, <3>1
    <3>2. CASE q = p
      <4>1. ctl'[p] = [ctl[p] EXCEPT !.pc = "replay", !.w = spawned + 1] BY <1>t, <1>1
      <4> QED BY <1>t, <3>2, <4>1 DEF Frames
    <3> QED BY <3>1, <3>2
  <2>3. \A w \in Workers : task'[w] \in Alive => w = spawned + 1
    BY <1>1, <1>2 DEF SidecarInv, Types
  <2> QED BY <1>s, <1>1, <2>1, <2>2, <2>3 DEF Latest
<1>4. FlushLast'
  <2> SUFFICES ASSUME NEW w \in Workers PROVE LastOf(w)' BY DEF FlushLast
  <2>1. CASE w # spawned + 1
    <3>1. LastOf(w) BY DEF FlushInv, FlushLast
    <3>2. task'[w] = task[w] /\ child'[w] = child[w] BY <1>1, <2>1 DEF SidecarInv, Types
    <3> QED BY <1>1, <3>1, <3>2 DEF LastOf, Ending, Closed
  <2>2. CASE w = spawned + 1
    <3>1. w > spawned BY <1>t, <2>2
    <3>2. pipe[w] = <<>> /\ queue[w] = <<>> BY <3>1 DEF OrderInv, Born
    <3>3. child'[w] = "up" BY <1>1, <2>2 DEF SidecarInv, Types
    <3> QED BY <1>1, <3>2, <3>3 DEF LastOf
  <2> QED BY <2>1, <2>2
<1>5. Saves'
  <2> SUFFICES ASSUME NEW w \in Workers, w = spawned + 1 PROVE Clean(disk, mirrors[w], dirty[w])
    BY <1>1 DEF Saves
  <2>1. w > spawned BY <1>t
  <2>2. mirrors[w] = <<>> BY <2>1 DEF OrderInv, Born
  <2> QED BY <2>2 DEF Clean
<1> QED BY <1>3, <1>4, <1>5 DEF FlushInv

\* A step of one worker task or sidecar.
LEMMA SideFlush ==
    ASSUME FlushInv, NEW w \in Workers, Alone(w), UNCHANGED <<ctl, spawned, sender>>,
           task'[w] \in Alive => task[w] \in Alive,
           \A v \in Workers : v # w => current'[v] = current[v] /\ (v \in hurt' <=> v \in hurt),
           disk' = disk \/ w = spawned,
           LastOf(w)',
           w = spawned /\ child'[w] \in {"up", "exited"} => Clean(disk', mirrors'[w], dirty'[w])
    PROVE  FlushInv'
<1>1. Latest' BY DEF FlushInv, Latest, Alone
<1>2. FlushLast'
  <2> SUFFICES ASSUME NEW v \in Workers, v # w PROVE LastOf(v)' BY DEF FlushLast
  <2>1. LastOf(v) BY DEF FlushInv, FlushLast
  <2> QED BY <2>1 DEF LastOf, Ending, Closed, Alone
<1>3. Saves'
  <2> SUFFICES ASSUME NEW v \in Workers, v = spawned, v # w, child'[v] \in {"up", "exited"}
               PROVE  Clean(disk', mirrors'[v], dirty'[v])
    BY DEF Saves
  <2>1. disk' = disk /\ mirrors'[v] = mirrors[v] /\ dirty'[v] = dirty[v] /\ child'[v] = child[v]
    BY DEF Alone
  <2> QED BY <2>1 DEF FlushInv, Saves
<1> QED BY <1>1, <1>2, <1>3 DEF FlushInv

LEMMA WorkFlush ==
    ASSUME SidecarInv, StrandInv, OrderInv, FlushInv, NEW w \in Workers, Work(w)
    PROVE  FlushInv'
<1>f. /\ queue \in [Workers -> Seq(Messages)] /\ pipe \in [Workers -> Seq(Messages)]
      /\ task \in [Workers -> Alive \cup {"unborn", "stopped"}]
      /\ child \in [Workers -> {"unborn", "up", "exited", "dead"}]
      /\ DOMAIN mirrors = Workers /\ DOMAIN dirty = Workers
  BY SideFacts
<1>c. current \in [Workers -> Callers \cup {"nobody"}] BY DEF StrandInv, Wires
<1>l. /\ LastOf(w)
      /\ w = spawned /\ child[w] \in {"up", "exited"} => Clean(disk, mirrors[w], dirty[w])
  BY DEF FlushInv, FlushLast, Saves
<1>u. UNCHANGED <<ctl, spawned, sender, disk>> /\ task[w] \in Alive
  BY DEF Work, Receive, WriteFails, Answer, NoAnswer, Cancelled, StopWorker, manager, Alive
<1>1. CASE Receive(w)
  <2> DEFINE m == Head(queue[w])
  <2>1. /\ queue' = [queue EXCEPT ![w] = Tail(queue[w])] /\ queue[w] # <<>>
        /\ pipe' = [pipe EXCEPT ![w] = Append(pipe[w], m)]
        /\ task[w] = "recv" /\ UNCHANGED <<child, mirrors, dirty, hurt>>
        /\ IF m.op \in Requests
             THEN /\ task' = [task EXCEPT ![w] = "await"]
                  /\ current' = [current EXCEPT ![w] = m.by]
             ELSE UNCHANGED <<task, current>>
    BY <1>1 DEF Receive, sidecar
  <2>2. queue[w] \in Seq(Messages) /\ pipe[w] \in Seq(Messages) BY <1>f
  <2>3. /\ m \in Messages /\ m = queue[w][1] /\ 1 \in DOMAIN queue[w]
        /\ \A i \in DOMAIN Tail(queue[w]) :
             i + 1 \in DOMAIN queue[w] /\ Tail(queue[w])[i] = queue[w][i + 1]
    BY <2>1, <2>2, TailShape
  <2> HIDE DEF m
  <2>4. Alone(w) BY <1>f, <2>1 DEF Alone
  <2>5. ~Ending(w)
    <3>1. current[w] # "stop" \/ task[w] # "await" BY <2>1
    <3> QED BY <2>1 DEF Ending, Closed
  <2>6. child[w] # "exited" /\ \A i \in DOMAIN pipe[w] : pipe[w][i].op # "flush"
    BY <1>l, <2>5 DEF LastOf
  <2>7. m.op = "flush" => m.by = "stop" BY <1>l, <2>3 DEF LastOf
  <2>8. m.op = "flush" => Ending(w)'
    <3> SUFFICES ASSUME m.op = "flush" PROVE task'[w] = "await" /\ current'[w] = "stop"
      BY DEF Ending
    <3> QED BY <1>f, <1>c, <2>1, <2>7 DEF Requests
  <2>9. LastOf(w)'
    <3>1. \A i \in DOMAIN queue'[w] : queue'[w][i].op = "flush" => queue'[w][i].by = "stop"
      <4>1. queue'[w] = Tail(queue[w]) BY <1>f, <2>1
      <4> QED BY <1>l, <2>3, <4>1 DEF LastOf
    <3>2. \A i \in DOMAIN pipe'[w] : pipe'[w][i].op = "flush" => i = Len(pipe'[w]) /\ Ending(w)'
      <4>1. pipe'[w] = Append(pipe[w], m) BY <1>f, <2>1
      <4>2. /\ DOMAIN pipe[w] = 1..Len(pipe[w]) /\ DOMAIN pipe'[w] = 1..(Len(pipe[w]) + 1)
            /\ Len(pipe'[w]) = Len(pipe[w]) + 1 /\ Len(pipe[w]) \in Nat
            /\ \A i \in 1..Len(pipe[w]) : pipe'[w][i] = pipe[w][i]
            /\ pipe'[w][Len(pipe[w]) + 1] = m
        BY <2>2, <2>3, <4>1, AppendShape
      <4>3. \A i \in DOMAIN pipe'[w] : i \in DOMAIN pipe[w] \/ i = Len(pipe'[w]) BY <4>2
      <4> QED BY <2>6, <2>8, <4>2, <4>3
    <3>3. child'[w] # "exited" BY <2>1, <2>6
    <3> QED BY <3>1, <3>2, <3>3 DEF LastOf
  <2>10. \A v \in Workers : v # w => current'[v] = current[v] BY <1>c, <2>1
  <2> QED BY <1>l, <1>u, <2>1, <2>4, <2>9, <2>10, SideFlush
<1>2. ASSUME NEW how \in {"killing", "leaving"}, NEW answered, Close(w, how, answered),
             UNCHANGED <<pipe, child, mirrors, dirty, hurt>>
      PROVE  FlushInv'
  <2>1. /\ queue' = [queue EXCEPT ![w] = <<>>] /\ task' = [task EXCEPT ![w] = how]
        /\ current' = [current EXCEPT ![w] = "nobody"]
    BY <1>2 DEF Close
  <2>2. Alone(w) BY <1>f, <1>2, <2>1 DEF Alone
  <2>3. Ending(w)' /\ queue'[w] = <<>> BY <1>f, <2>1 DEF Ending, Closed
  <2>4. LastOf(w)' BY <1>l, <1>2, <2>3 DEF LastOf
  <2>5. \A v \in Workers : v # w => current'[v] = current[v] BY <1>c, <2>1
  <2> QED BY <1>l, <1>u, <1>2, <2>2, <2>4, <2>5, SideFlush
<1>3. CASE Answer(w) /\ current[w] # "stop"
  <2>1. /\ UNCHANGED <<queue, pipe, child, mirrors, dirty, hurt>> /\ task[w] = "await"
        /\ task' = [task EXCEPT ![w] = "recv"] /\ current' = [current EXCEPT ![w] = "nobody"]
    BY <1>3 DEF Answer, sidecar
  <2>2. Alone(w) BY <1>f, <2>1 DEF Alone
  <2>3. ~Ending(w) BY <1>3, <2>1 DEF Ending, Closed
  <2>4. LastOf(w)' BY <1>l, <2>1, <2>3 DEF LastOf
  <2>5. \A v \in Workers : v # w => current'[v] = current[v] BY <1>c, <2>1
  <2> QED BY <1>l, <1>u, <2>1, <2>2, <2>4, <2>5, SideFlush
<1>4. CASE StopWorker(w)
  <2>1. UNCHANGED <<queue, current, hurt>> /\ task' = [task EXCEPT ![w] = "stopped"]
    BY <1>4 DEF StopWorker, sidecar, Dies
  <2>e. Ending(w)' BY <1>f, <2>1 DEF Ending, Closed
  <2>2. CASE child[w] = "exited"
    <3>1. UNCHANGED <<pipe, child, mirrors, dirty>> BY <1>4, <2>2 DEF StopWorker, sidecar
    <3>2. Alone(w) BY <1>f, <2>1, <3>1 DEF Alone
    <3>3. LastOf(w)' BY <1>l, <2>1, <2>e, <3>1 DEF LastOf
    <3> QED BY <1>l, <1>u, <2>1, <3>1, <3>2, <3>3, SideFlush
  <2>3. CASE child[w] # "exited"
    <3>1. /\ pipe' = [pipe EXCEPT ![w] = <<>>]
          /\ child' = [child EXCEPT ![w] = "dead"]
          /\ mirrors' = [mirrors EXCEPT ![w] = <<>>]
          /\ dirty' = [dirty EXCEPT ![w] = {}]
      BY <1>4, <2>3 DEF StopWorker, Dies
    <3>2. Alone(w) BY <1>f, <2>1, <3>1 DEF Alone
    <3>3. child'[w] = "dead" /\ pipe'[w] = <<>> BY <1>f, <3>1
    <3>4. LastOf(w)' BY <1>l, <2>1, <3>3 DEF LastOf
    <3> QED BY <1>u, <2>1, <3>2, <3>3, <3>4, SideFlush
  <2> QED BY <2>2, <2>3
<1>5. CASE WriteFails(w) \/ NoAnswer(w) \/ Cancelled(w) \/ (Answer(w) /\ current[w] = "stop")
  <2>1. UNCHANGED <<pipe, child, mirrors, dirty, hurt>>
    BY <1>5 DEF WriteFails, NoAnswer, Cancelled, Answer, sidecar
  <2>2. Close(w, "killing", FALSE) \/ Close(w, "leaving", TRUE)
    BY <1>5 DEF WriteFails, NoAnswer, Cancelled, Answer
  <2> QED BY <1>2, <2>1, <2>2
<1> QED BY <1>1, <1>3, <1>4, <1>5 DEF Work

\* A command that is no flush is taken off the pipe of a running sidecar.
LEMMA TakeLast ==
    ASSUME SidecarInv, StrandInv, FlushInv, NEW w \in Workers, pipe[w] # <<>>,
           pipe' = [pipe EXCEPT ![w] = Tail(pipe[w])], UNCHANGED <<task, current, queue>>,
           child'[w] = "up"
    PROVE  LastOf(w)'
<1>1. pipe[w] \in Seq(Messages) /\ pipe'[w] = Tail(pipe[w]) BY DEF StrandInv, Wires
<1>2. /\ DOMAIN pipe[w] = 1..Len(pipe[w]) /\ DOMAIN pipe'[w] = 1..(Len(pipe[w]) - 1)
      /\ Len(pipe'[w]) = Len(pipe[w]) - 1 /\ Len(pipe[w]) \in Nat
      /\ \A i \in 1..(Len(pipe[w]) - 1) : pipe'[w][i] = pipe[w][i + 1]
  BY <1>1, TailShape
<1>3. \A i \in DOMAIN pipe'[w] : i + 1 \in DOMAIN pipe[w] /\ pipe'[w][i] = pipe[w][i + 1] BY <1>2
<1>4. LastOf(w) BY DEF FlushInv, FlushLast
<1>5. \A i \in DOMAIN pipe'[w] : pipe'[w][i].op = "flush" => i = Len(pipe'[w]) /\ Ending(w)
  <2> SUFFICES ASSUME NEW i \in DOMAIN pipe'[w], pipe'[w][i].op = "flush"
               PROVE  i = Len(pipe'[w]) /\ Ending(w)
    OBVIOUS
  <2>1. i + 1 = Len(pipe[w]) /\ Ending(w) BY <1>3, <1>4 DEF LastOf
  <2> QED BY <1>2, <2>1
<1>6. Ending(w)' = Ending(w) BY DEF Ending, Closed
<1> QED BY <1>4, <1>5, <1>6 DEF LastOf

LEMMA ServeFlush ==
    ASSUME SidecarInv, StrandInv, OrderInv, FlushInv, NEW w \in Workers,
           Serve(w) \/ FlushDue(w) \/ Crash(w)
    PROVE  FlushInv'
<1> DEFINE m == Head(pipe[w])
           f == mirrors[w]
           ds == dirty[w]
<1>u. UNCHANGED <<ctl, spawned, sender, task, queue, current>> /\ child[w] = "up"
  BY DEF Serve, HandleStart, HandleWrite, HandleResize, HandleEnd, HandleGet, HandleFlush,
         EndOfInput, FlushDue, Crash, Take, worker, manager
<1>f. /\ queue \in [Workers -> Seq(Messages)] /\ pipe \in [Workers -> Seq(Messages)]
      /\ child \in [Workers -> {"unborn", "up", "exited", "dead"}]
      /\ DOMAIN mirrors = Workers /\ DOMAIN dirty = Workers
      /\ IsFile(f) /\ ds \subseteq DOMAIN f /\ IsFile(disk)
  BY SideFacts
<1>n. w = spawned BY <1>u DEF SidecarInv, Owned, FlushInv, Latest
<1>l. LastOf(w) /\ Clean(disk, f, ds) BY <1>n, <1>u DEF FlushInv, FlushLast, Saves
<1> HIDE DEF m, f, ds
<1>s. ASSUME pipe[w] # <<>>, pipe' = [pipe EXCEPT ![w] = Tail(pipe[w])], UNCHANGED <<child, hurt>>,
             NEW g, mirrors' = [mirrors EXCEPT ![w] = g] \/ (UNCHANGED mirrors /\ g = f),
             NEW es, dirty' = [dirty EXCEPT ![w] = es] \/ (UNCHANGED dirty /\ es = ds),
             Clean(disk', g, es)
      PROVE  FlushInv'
  <2>1. Alone(w) /\ mirrors'[w] = g /\ dirty'[w] = es BY <1>f, <1>u, <1>s DEF Alone, f, ds
  <2>2. LastOf(w)' BY <1>u, <1>s, TakeLast
  <2> QED BY <1>n, <1>u, <1>s, <2>1, <2>2, SideFlush
<1>1. CASE HandleStart(w)
  <2>0. pipe[w] # <<>> /\ pipe' = [pipe EXCEPT ![w] = Tail(pipe[w])] /\ UNCHANGED <<child, hurt, dirty>>
    BY <1>1 DEF HandleStart, Take
  <2>1. \/ UNCHANGED <<mirrors, disk>>
        \/ /\ mirrors' = [mirrors EXCEPT ![w] = Put(f, m.s, disk[m.s])]
           /\ m.s \in DOMAIN disk /\ m.s \notin DOMAIN f /\ disk' = disk
        \/ /\ mirrors' = [mirrors EXCEPT ![w] = Put(f, m.s, <<>>)]
           /\ m.s \notin DOMAIN f /\ disk' = Without(disk, m.s)
    BY <1>1 DEF HandleStart, m, f
  <2>2. CASE UNCHANGED <<mirrors, disk>> BY <1>l, <1>s, <2>0, <2>2
  <2>3. CASE /\ mirrors' = [mirrors EXCEPT ![w] = Put(f, m.s, disk[m.s])]
             /\ m.s \in DOMAIN disk /\ m.s \notin DOMAIN f /\ disk' = disk
    <3> DEFINE g == Put(f, m.s, disk[m.s])
    <3>1. /\ DOMAIN g = DOMAIN f \cup {m.s} /\ g[m.s] = disk[m.s]
          /\ \A x \in DOMAIN f : g[x] = f[x]
      BY <2>3 DEF Put
    <3>2. mirrors' = [mirrors EXCEPT ![w] = g] BY <2>3
    <3> HIDE DEF g
    <3>3. Clean(disk', g, ds) BY <1>l, <2>3, <3>1 DEF Clean
    <3> QED BY <1>s, <2>0, <3>2, <3>3
  <2>4. CASE /\ mirrors' = [mirrors EXCEPT ![w] = Put(f, m.s, <<>>)]
             /\ m.s \notin DOMAIN f /\ disk' = Without(disk, m.s)
    <3> DEFINE g == Put(f, m.s, <<>>)
    <3>1. /\ DOMAIN g = DOMAIN f \cup {m.s} /\ g[m.s] = <<>>
          /\ \A x \in DOMAIN f : x # m.s /\ g[x] = f[x]
      BY <2>4 DEF Put
    <3>2. mirrors' = [mirrors EXCEPT ![w] = g] BY <2>4
    <3> HIDE DEF g
    <3>3. DOMAIN disk' = DOMAIN disk \ {m.s} /\ \A x \in DOMAIN disk' : disk'[x] = disk[x]
      BY <2>4 DEF Without
    <3>4. Clean(disk', g, ds) BY <1>l, <3>1, <3>3 DEF Clean
    <3> QED BY <1>s, <2>0, <3>2, <3>4
  <2> QED BY <2>1, <2>2, <2>3, <2>4
<1>2. CASE HandleWrite(w)
  <2>0. /\ pipe[w] # <<>> /\ pipe' = [pipe EXCEPT ![w] = Tail(pipe[w])]
        /\ UNCHANGED <<child, hurt, disk>>
    BY <1>2 DEF HandleWrite, Take
  <2>1. CASE m.s \notin DOMAIN f
    <3>1. UNCHANGED <<mirrors, dirty>> BY <1>2, <2>1 DEF HandleWrite, m, f
    <3> QED BY <1>l, <1>s, <2>0, <3>1
  <2>2. CASE m.s \in DOMAIN f
    <3> DEFINE g == [f EXCEPT ![m.s] = Append(f[m.s], m.arg)]
    <3>1. mirrors' = [mirrors EXCEPT ![w] = g] /\ dirty' = [dirty EXCEPT ![w] = ds \cup {m.s}]
      BY <1>2, <2>2 DEF HandleWrite, m, f, ds
    <3>2. DOMAIN g = DOMAIN f /\ \A x \in DOMAIN f : x # m.s => g[x] = f[x] OBVIOUS
    <3> HIDE DEF g
    <3>3. Clean(disk', g, ds \cup {m.s}) BY <1>l, <2>0, <3>2 DEF Clean
    <3> QED BY <1>s, <2>0, <3>1, <3>3
  <2> QED BY <2>1, <2>2
<1>3. CASE HandleResize(w)
  <2>0. /\ pipe[w] # <<>> /\ pipe' = [pipe EXCEPT ![w] = Tail(pipe[w])]
        /\ UNCHANGED <<child, hurt, disk, mirrors>>
        /\ UNCHANGED dirty \/ dirty' = [dirty EXCEPT ![w] = ds \cup {m.s}]
    BY <1>3 DEF HandleResize, Take, m, ds
  <2>1. Clean(disk', f, ds) /\ Clean(disk', f, ds \cup {m.s}) BY <1>l, <2>0 DEF Clean
  <2>2. CASE UNCHANGED dirty BY <1>s, <2>0, <2>1, <2>2
  <2>3. CASE dirty' = [dirty EXCEPT ![w] = ds \cup {m.s}] BY <1>s, <2>0, <2>1, <2>3
  <2> QED BY <2>0, <2>2, <2>3
<1>4. CASE HandleEnd(w)
  <2> DEFINE g == Without(f, m.s)
  <2>0. pipe[w] # <<>> /\ pipe' = [pipe EXCEPT ![w] = Tail(pipe[w])] /\ UNCHANGED <<child, hurt>>
    BY <1>4 DEF HandleEnd, Take
  <2>1. /\ mirrors' = [mirrors EXCEPT ![w] = g] /\ dirty' = [dirty EXCEPT ![w] = ds \ {m.s}]
        /\ disk' = disk \/ disk' = Without(disk, m.s)
    BY <1>4 DEF HandleEnd, m, f, ds
  <2>2. DOMAIN g = DOMAIN f \ {m.s} /\ \A x \in DOMAIN g : g[x] = f[x] BY DEF Without
  <2>3. /\ DOMAIN disk \ {m.s} \subseteq DOMAIN disk'
        /\ \A x \in DOMAIN disk \ {m.s} : disk'[x] = disk[x]
    BY <2>1 DEF Without
  <2> HIDE DEF g
  <2>4. Clean(disk', g, ds \ {m.s}) BY <1>l, <2>2, <2>3 DEF Clean
  <2> QED BY <1>s, <2>0, <2>1, <2>4
<1>5. CASE HandleGet(w)
  <2>0. /\ pipe[w] # <<>> /\ pipe' = [pipe EXCEPT ![w] = Tail(pipe[w])]
        /\ UNCHANGED <<child, hurt, disk, mirrors, dirty>>
    BY <1>5 DEF HandleGet, Take, sidecar
  <2> QED BY <1>l, <1>s, <2>0
<1>d. ASSUME NEW ss, ss \subseteq ds, disk' = Persisted(w, ss) PROVE Clean(disk', f, ds \ ss)
  <2>1. /\ DOMAIN disk' = DOMAIN disk \cup ss /\ \A x \in ss : disk'[x] = f[x]
        /\ \A x \in DOMAIN disk \ ss : disk'[x] = disk[x]
    BY <1>d DEF Persisted, f
  <2> QED BY <1>l, <2>1 DEF Clean
<1>v. \A ss \in SavedSets(w) : ss \subseteq ds BY DEF SavedSets, ds
<1>6. CASE HandleFlush(w)
  <2>1. /\ pipe[w] # <<>> /\ pipe' = [pipe EXCEPT ![w] = Tail(pipe[w])] /\ UNCHANGED mirrors
        /\ m.op = "flush"
    BY <1>6 DEF HandleFlush, Take, m
  <2>2. PICK ss \in SavedSets(w) :
          SaveAll(w, ss) /\ child' = [child EXCEPT ![w] = IF ss = dirty[w] THEN "exited" ELSE @]
    BY <1>6 DEF HandleFlush
  <2>3. /\ disk' = Persisted(w, ss) /\ dirty' = [dirty EXCEPT ![w] = ds \ ss]
        /\ child'[w] = (IF ss = ds THEN "exited" ELSE "up")
        /\ ss = ds => hurt' = hurt
        /\ hurt' = hurt \/ hurt' = hurt \cup {w}
    BY <1>f, <1>u, <2>2 DEF SaveAll, ds
  <2>4. Alone(w) /\ mirrors'[w] = f /\ dirty'[w] = ds \ ss
    BY <1>f, <1>u, <2>1, <2>2, <2>3 DEF Alone, f
  <2>5. Clean(disk', mirrors'[w], dirty'[w]) BY <1>d, <1>v, <2>3, <2>4
  <2>6. LastOf(w)'
    <3>1. CASE ss # ds BY <1>u, <2>1, <2>3, <3>1, TakeLast
    <3>2. CASE ss = ds
      <4>1. pipe[w] \in Seq(Messages) BY <1>f
      <4>2. m = pipe[w][1] /\ 1 \in DOMAIN pipe[w] BY <2>1, <4>1 DEF m
      <4>3. 1 = Len(pipe[w]) /\ Ending(w) BY <1>l, <2>1, <4>2 DEF LastOf
      <4>4. pipe'[w] = <<>> BY <1>f, <2>1, <4>1, <4>3
      <4>5. Ending(w)' = Ending(w) BY <1>u DEF Ending, Closed
      <4>6. dirty'[w] = {} BY <2>4, <3>2
      <4> QED BY <1>l, <1>u, <4>3, <4>4, <4>5, <4>6 DEF LastOf
    <3> QED BY <3>1, <3>2
  <2>7. \A v \in Workers : v # w => current'[v] = current[v] /\ (v \in hurt' <=> v \in hurt)
    BY <1>u, <2>3
  <2> QED BY <1>n, <1>u, <2>4, <2>5, <2>6, <2>7, SideFlush
<1>7. CASE EndOfInput(w)
  <2>1. /\ UNCHANGED <<pipe, mirrors>> /\ pipe[w] = <<>> /\ Closed(w)
        /\ child' = [child EXCEPT ![w] = "exited"]
    BY <1>7 DEF EndOfInput
  <2>2. PICK ss \in SavedSets(w) : SaveAll(w, ss) BY <1>7 DEF EndOfInput
  <2>3. /\ disk' = Persisted(w, ss) /\ dirty' = [dirty EXCEPT ![w] = ds \ ss]
        /\ ss # ds => w \in hurt'
        /\ hurt' = hurt \/ hurt' = hurt \cup {w}
    BY <2>2 DEF SaveAll, ds
  <2>4. Alone(w) /\ mirrors'[w] = f /\ dirty'[w] = ds \ ss
    BY <1>f, <1>u, <2>1, <2>3 DEF Alone, f
  <2>5. Clean(disk', mirrors'[w], dirty'[w]) BY <1>d, <1>v, <2>3, <2>4
  <2>6. LastOf(w)'
    <3>1. Ending(w)' BY <1>u, <2>1 DEF Ending, Closed
    <3>2. w \notin hurt' => dirty'[w] = {} BY <2>3, <2>4
    <3> QED BY <1>l, <1>u, <2>1, <3>1, <3>2 DEF LastOf
  <2>7. \A v \in Workers : v # w => current'[v] = current[v] /\ (v \in hurt' <=> v \in hurt)
    BY <1>u, <2>3
  <2> QED BY <1>n, <1>u, <2>4, <2>5, <2>6, <2>7, SideFlush
<1>8. CASE FlushDue(w)
  <2>1. UNCHANGED <<pipe, mirrors, child, hurt>> BY <1>8 DEF FlushDue
  <2>2. PICK s \in ds : disk' = Persisted(w, {s}) /\ dirty' = [dirty EXCEPT ![w] = ds \ {s}]
    BY <1>8 DEF FlushDue, ds
  <2>3. Alone(w) /\ mirrors'[w] = f /\ dirty'[w] = ds \ {s}
    BY <1>f, <1>u, <2>1, <2>2 DEF Alone, f
  <2>4. {s} \subseteq ds BY <2>2
  <2>5. Clean(disk', mirrors'[w], dirty'[w]) BY <1>d, <2>2, <2>3, <2>4
  <2>6. LastOf(w)'
    <3>1. Ending(w)' = Ending(w) BY <1>u DEF Ending, Closed
    <3> QED BY <1>l, <1>u, <2>1, <3>1 DEF LastOf
  <2> QED BY <1>n, <1>u, <2>1, <2>3, <2>5, <2>6, SideFlush
<1>9. CASE Crash(w)
  <2>1. /\ child' = [child EXCEPT ![w] = "dead"] /\ mirrors' = [mirrors EXCEPT ![w] = <<>>]
        /\ dirty' = [dirty EXCEPT ![w] = {}] /\ UNCHANGED <<pipe, disk, hurt>>
    BY <1>9 DEF Crash, Dies
  <2>2. Alone(w) BY <1>f, <1>u, <2>1 DEF Alone
  <2>3. child'[w] = "dead" BY <1>f, <2>1
  <2>4. LastOf(w)'
    <3>1. Ending(w)' = Ending(w) BY <1>u DEF Ending, Closed
    <3> QED BY <1>l, <1>u, <2>1, <2>3, <3>1 DEF LastOf
  <2> QED BY <1>n, <1>u, <2>1, <2>2, <2>3, <2>4, SideFlush
<1> QED BY <1>1, <1>2, <1>3, <1>4, <1>5, <1>6, <1>7, <1>8, <1>9 DEF Serve

LEMMA FlushInit ==
    ASSUME Init
    PROVE  FlushInv
<1>1. /\ \A p \in Callers : ctl[p].pc = "idle" /\ ctl[p].w = 0
      /\ spawned = 0 /\ sender = 0 /\ "stop" \in Callers
      /\ task = [w \in Workers |-> "unborn"] /\ child = [w \in Workers |-> "unborn"]
      /\ queue = [w \in Workers |-> <<>>] /\ pipe = [w \in Workers |-> <<>>]
  BY CallerFacts DEF Init, Idle
<1>2. Latest BY <1>1 DEF Latest, Alive
<1>3. FlushLast BY <1>1 DEF FlushLast, LastOf
<1>4. Saves BY <1>1 DEF Saves
<1> QED BY <1>2, <1>3, <1>4 DEF FlushInv

LEMMA FlushStep ==
    ASSUME SidecarInv, StrandInv, OrderInv, FlushInv, [Next]_vars
    PROVE  FlushInv'
<1>1. CASE Ask BY <1>1, AskFlushes
<1>2. ASSUME NEW p \in Callers, Manage(p) PROVE FlushInv' BY <1>2, ManageFlush, SpawnFlush
<1>3. CASE BackoffElapses \/ UNCHANGED vars
  <2>1. UNCHANGED <<sender, ctl, spawned, task, child, queue, current, pipe, mirrors, dirty, hurt, disk>>
    BY <1>3 DEF BackoffElapses, vars, manager, worker, sidecar
  <2> QED BY <2>1 DEF FlushInv, Latest, FlushLast, LastOf, Ending, Closed, Saves
<1>4. CASE Shutdown \/ AskFlush \/ Flushed \/ ShutdownDone BY <1>4, ShutdownFlush
<1>5. ASSUME NEW w \in Workers, Work(w) \/ Serve(w) \/ FlushDue(w) \/ Crash(w)
      PROVE  FlushInv'
  BY <1>5, WorkFlush, ServeFlush
<1> QED BY <1>1, <1>2, <1>3, <1>4, <1>5 DEF Next

\* When flush_and_shutdown has returned and the sidecar it stopped exited by itself and could
\* save, that sidecar has handled all it was sent and every screen it held is in the directory,
\* or a seed for the next session of the id is: no restart under way, timeout, late caller or
\* debounced save can lose one, for any number of sessions, chunks, restarts and queue slots.
THEOREM ShutdownSaves == Spec => []FlushSaves
<1>1. Init => SidecarInv /\ StrandInv /\ OrderInv /\ FlushInv
  BY SidecarInit, StrandInit, OrderInit, FlushInit
<1>2. SidecarInv /\ StrandInv /\ OrderInv /\ FlushInv /\ [Next]_vars
        => (SidecarInv /\ StrandInv /\ OrderInv /\ FlushInv)'
  BY SidecarStep, StrandStep, OrderStep, FlushStep
<1>3. StrandInv /\ FlushInv => FlushSaves
  <2> SUFFICES ASSUME StrandInv, FlushInv, NEW w, w = ctl["stop"].w, w # 0,
                      child[w] = "exited", w \notin hurt
               PROVE  /\ pipe[w] = <<>> /\ dirty[w] = {}
                      /\ \A s \in DOMAIN mirrors[w] : mirrors[w][s] # <<>> =>
                           s \in DOMAIN disk /\ disk[s] \in {mirrors[w][s], Seed}
    BY DEF FlushSaves
  <2>1. w \in Workers /\ w = spawned BY CallerFacts DEF StrandInv, Hands, FlushInv, Latest
  <2>2. pipe[w] = <<>> /\ dirty[w] = {} BY <2>1 DEF FlushInv, FlushLast, LastOf
  <2>3. Clean(disk, mirrors[w], dirty[w]) BY <2>1 DEF FlushInv, Saves
  <2> QED BY <2>2, <2>3 DEF Clean
<1> QED BY <1>1, <1>2, <1>3, PTL DEF Spec
===========================================================================
