------------------------- MODULE AttnStreams_proofs -------------------------
(***************************************************************************)
(* Proofs about AttnStreams. An operation is before another in any order    *)
(* the streams may take if a record behind it and a wait before the other   *)
(* tie them, directly or by way of a third. The invariant: kernels that     *)
(* conflict are tied, and where the host leaves a fan-out the default       *)
(* stream is tied to everything pending.                                    *)
(***************************************************************************)
EXTENDS AttnStreams, SumLemmas

\* A record behind a and a wait before b, of the pending operations P, tie a to b.
Fence(P, a, b) ==
  \E r, w \in P : /\ r.op = "record" /\ r.stream = a.stream /\ a.at <= r.at
                  /\ w.op = "wait" /\ w.stream = b.stream /\ w.at <= b.at
                  /\ w.of = r.at
Tied(P, a, b) == Fence(P, a, b) \/ \E c \in P : Fence(P, a, c) /\ Fence(P, c, b)

\* Whatever is enqueued on stream s comes after x.
Covered(P, x, s) == x.stream = s \/ \E y \in P : y.stream = s /\ Tied(P, x, y)

\* What the host has enqueued is numbered, and conflicting kernels come one after the other.
HostOK(h) ==
  /\ h.enqueued \in Nat /\ h.last \in [Events -> 0 .. h.enqueued]
  /\ \A x \in h.pending : /\ x.op \in {"kernel", "record", "wait"} /\ x.stream \in Streams
                          /\ x.at \in 1 .. h.enqueued
                          /\ x.op = "wait" => x.of \in 1 .. x.at - 1
  /\ \A x, y \in h.pending : x.at = y.at => x = y
  /\ \A a, b \in h.pending :
       a.op = "kernel" /\ b.op = "kernel" /\ a.at < b.at /\ Conflict(a, b) =>
         a.stream = b.stream \/ Tied(h.pending, a, b)

\* The default stream comes after everything pending.
Joined(P, x) == x.stream = "main" \/ \E y \in P : y.stream = "main" /\ Fence(P, x, y)
AllJoined(h) == \A x \in h.pending : Joined(h.pending, x)

-----------------------------------------------------------------------------
(* Fences.                                                                  *)

\* More operations loosen no fence, and a later operation is behind it too.
LEMMA FenceStays ==
  ASSUME NEW P, NEW Q, P \subseteq Q, NEW a, NEW b
  PROVE  /\ Fence(P, a, b) => Fence(Q, a, b)
         /\ Tied(P, a, b) => Tied(Q, a, b)
<1>1. ASSUME NEW x, NEW y, Fence(P, x, y) PROVE Fence(Q, x, y)
  BY <1>1 DEF Fence
<1>2. QED
  BY <1>1 DEF Tied

\* More operations cover and join no less.
LEMMA CoveredStays ==
  ASSUME NEW P, NEW Q, P \subseteq Q, NEW x
  PROVE  /\ \A s : Covered(P, x, s) => Covered(Q, x, s)
         /\ Joined(P, x) => Joined(Q, x)
<1>1. \A y : (Tied(P, x, y) => Tied(Q, x, y)) /\ (Fence(P, x, y) => Fence(Q, x, y))
  BY FenceStays
<1>2. QED
  BY <1>1 DEF Covered, Joined

\* What comes before an operation comes before all later ones of its stream.
LEMMA FenceLater ==
  ASSUME NEW P, NEW a, NEW b, NEW c, b.stream = c.stream, b.at <= c.at, b.at \in Nat, c.at \in Nat,
         \A x \in P : x.at \in Nat
  PROVE  /\ Fence(P, a, b) => Fence(P, a, c)
         /\ Tied(P, a, b) => Tied(P, a, c)
<1>1. ASSUME NEW x, Fence(P, x, b) PROVE Fence(P, x, c)
  <2>1. PICK r \in P, w \in P : /\ r.op = "record" /\ r.stream = x.stream /\ x.at <= r.at
                                /\ w.op = "wait" /\ w.stream = b.stream /\ w.at <= b.at
                                /\ w.of = r.at
    BY <1>1 DEF Fence
  <2>2. w.at <= c.at
    BY <2>1
  <2>3. QED
    BY <2>1, <2>2 DEF Fence
<1>2. QED
  BY <1>1 DEF Tied

\* What the default stream comes after is covered there.
LEMMA JoinedIsCovered ==
  ASSUME NEW P, NEW x, Joined(P, x)
  PROVE  Covered(P, x, "main")
BY DEF Joined, Covered, Tied

-----------------------------------------------------------------------------
(* The host's operations, one after the other.                              *)

OpSet(B) == [op : {"kernel", "record", "wait"}, stream : Streams, event : Events \cup {<<>>},
             reads : SUBSET B, writes : SUBSET B, at : {0}, of : {0}]

\* Kernels on stream s that read only R and write only W.
KernelSet(s, R, W) == [op : {"kernel"}, stream : {s}, event : {<<>>},
                       reads : SUBSET R, writes : SUBSET W, at : {0}, of : {0}]
KernelsOn(w, s, R, W) == w \in Seq(KernelSet(s, R, W))

Issued(host, work, f) ==
  f = [i \in 0 .. Len(work) |-> IF i = 0 THEN host ELSE Issue(f[i - 1], work[i])]

\* f[n] for every n, from f[n - 1].
LEMMA IssuesExist ==
  ASSUME NEW host, NEW work, Len(work) \in Nat
  PROVE  \E f : Issued(host, work, f)
<1> DEFINE NextOK(s, k) == IF k = 0 THEN host ELSE Issue(s, work[k])
           Upto(m, f) == f = [k \in 0 .. m |-> NextOK(f[k - 1], k)]
           T == {m \in Nat : \E f : Upto(m, f)}
<1>1. 0 \in T
  <2> DEFINE f == [k \in 0 .. 0 |-> host]
  <2>1. \A k \in 0 .. 0 : k = 0
    OBVIOUS
  <2>2. f = [k \in 0 .. 0 |-> NextOK(f[k - 1], k)]
    BY <2>1
  <2>3. QED
    BY <2>2
<1>2. ASSUME NEW m \in Nat, m \in T PROVE m + 1 \in T
  <2>1. PICK f : Upto(m, f)
    BY <1>2
  <2> DEFINE g == [k \in 0 .. m + 1 |-> IF k = m + 1 THEN NextOK(f[m], k) ELSE f[k]]
  <2>2. \A k \in 0 .. m : f[k] = NextOK(f[k - 1], k)
    BY <2>1
  <2>3. ASSUME NEW k \in 0 .. m + 1 PROVE g[k] = NextOK(g[k - 1], k)
    <3> HIDE DEF NextOK
    <3>1. CASE k = m + 1
      <4>1. k - 1 = m /\ m \in 0 .. m + 1 /\ m # m + 1
        BY <3>1
      <4>2. g[k - 1] = f[m]
        BY <4>1
      <4>3. QED
        BY <3>1, <4>2
    <3>2. CASE k # m + 1 /\ k # 0
      <4>1. k \in 0 .. m /\ k - 1 \in 0 .. m /\ k - 1 # m + 1 /\ k - 1 \in 0 .. m + 1
        BY <3>2
      <4>2. g[k] = f[k] /\ g[k - 1] = f[k - 1]
        BY <3>2, <4>1
      <4>3. QED
        BY <2>2, <4>1, <4>2
    <3>3. CASE k = 0
      <4>1. k \in 0 .. m /\ k # m + 1
        BY <3>3
      <4>2. g[k] = f[k]
        BY <4>1
      <4>3. f[k] = host /\ NextOK(g[k - 1], k) = host
        BY <2>2, <3>3, <4>1 DEF NextOK
      <4>4. QED
        BY <4>2, <4>3
    <3>4. QED
      BY <3>1, <3>2, <3>3
  <2>4. g = [k \in 0 .. m + 1 |-> NextOK(g[k - 1], k)]
    <3>1. g = [k \in 0 .. m + 1 |-> g[k]]
      OBVIOUS
    <3> HIDE DEF g, NextOK
    <3>2. QED
      BY <2>3, <3>1
  <2> HIDE DEF g
  <2>5. QED
    BY <2>4
<1> HIDE DEF T
<1>3. Len(work) \in T
  BY <1>1, <1>2, Induction
<1>4. QED
  BY <1>3 DEF T, Issued

\* f[i] is the host's state after i of work's operations.
Runs(f, host, work) ==
  f[0] = host /\ \A i \in 1 .. Len(work) : f[i] = Issue(f[i - 1], work[i])

\* IssueAll is the last of the hosts that issuing one operation after the other makes.
LEMMA IssueAllIs ==
  ASSUME NEW host, NEW work, Len(work) \in Nat
  PROVE  \E f : IssueAll(host, work) = f[Len(work)] /\ Runs(f, host, work)
<1> DEFINE f == CHOOSE x : Issued(host, work, x)
<1>1. Issued(host, work, f)
  BY IssuesExist
<1>2. IssueAll(host, work) = f[Len(work)]
  BY Zenon DEF IssueAll, Issued
<1> HIDE DEF f
<1>3. \A i \in 0 .. Len(work) : f[i] = IF i = 0 THEN host ELSE Issue(f[i - 1], work[i])
  BY <1>1 DEF Issued
<1>4. 0 \in 0 .. Len(work) /\ \A i \in 1 .. Len(work) : i \in 0 .. Len(work) /\ i # 0
  OBVIOUS
<1>5. f[0] = host
  BY <1>3, <1>4
<1>6. \A i \in 1 .. Len(work) : f[i] = Issue(f[i - 1], work[i])
  BY <1>3, <1>4
<1>7. Runs(f, host, work)
  BY <1>5, <1>6 DEF Runs
<1>8. QED
  BY <1>2, <1>7

\* The host runs one piece of code after the other.
LEMMA IssueConcat ==
  ASSUME NEW S, NEW host, NEW v \in Seq(S), NEW w \in Seq(S)
  PROVE  IssueAll(host, v \o w) = IssueAll(IssueAll(host, v), w)
<1>1. Len(v) \in Nat /\ Len(w) \in Nat /\ Len(v \o w) \in Nat
  OBVIOUS
<1>2. PICK f : IssueAll(host, v \o w) = f[Len(v \o w)] /\ Runs(f, host, v \o w)
  <2>1. PICK u : u = v \o w
    OBVIOUS
  <2>2. Len(u) \in Nat
    BY <1>1, <2>1
  <2>3. \E f : IssueAll(host, u) = f[Len(u)] /\ Runs(f, host, u)
    BY <2>2, IssueAllIs
  <2>4. QED
    BY Zenon, <2>1, <2>3
<1>3. PICK g : IssueAll(host, v) = g[Len(v)] /\ Runs(g, host, v)
  BY <1>1, IssueAllIs
<1>4. PICK k : IssueAll(g[Len(v)], w) = k[Len(w)] /\ Runs(k, g[Len(v)], w)
  BY <1>1, IssueAllIs
<1> DEFINE m == Len(v)
           n == Len(w)
<1>0. /\ m \in Nat /\ n \in Nat /\ Len(v \o w) = m + n
      /\ \A i \in 1 .. m : (v \o w)[i] = v[i]
      /\ \A i \in 1 .. n : (v \o w)[m + i] = w[i]
  OBVIOUS
<1>a. /\ IssueAll(host, v \o w) = f[m + n] /\ f[0] = host
      /\ \A i \in 1 .. m + n : f[i] = Issue(f[i - 1], (v \o w)[i])
  BY <1>0, <1>2 DEF Runs
<1>b. /\ IssueAll(host, v) = g[m] /\ g[0] = host
      /\ \A i \in 1 .. m : g[i] = Issue(g[i - 1], v[i])
  BY <1>3 DEF Runs
<1>c. /\ IssueAll(g[m], w) = k[n] /\ k[0] = g[m]
      /\ \A i \in 1 .. n : k[i] = Issue(k[i - 1], w[i])
  BY <1>4 DEF Runs
<1> HIDE DEF m, n
<1> DEFINE T == {i \in Nat : i <= m => f[i] = g[i]}
           U == {i \in Nat : i <= n => f[m + i] = k[i]}
<1>5. m \in T
  <2>1. 0 \in T
    BY <1>a, <1>b
  <2>2. ASSUME NEW i \in Nat, i \in T PROVE i + 1 \in T
    <3>1. ASSUME i + 1 <= m PROVE f[i + 1] = g[i + 1]
      <4>1. i + 1 \in 1 .. m /\ i + 1 \in 1 .. m + n /\ (i + 1) - 1 = i /\ i <= m
        BY <1>0, <3>1
      <4>2. f[i + 1] = Issue(f[i], v[i + 1]) /\ g[i + 1] = Issue(g[i], v[i + 1])
        BY <1>0, <1>a, <1>b, <4>1
      <4>3. QED
        BY <2>2, <4>1, <4>2
    <3>2. QED
      BY <3>1
  <2> HIDE DEF T
  <2>3. QED
    BY <1>0, <2>1, <2>2, Induction
<1>6. n \in U
  <2>1. 0 \in U
    BY <1>0, <1>c, <1>5
  <2>2. ASSUME NEW i \in Nat, i \in U PROVE i + 1 \in U
    <3>1. ASSUME i + 1 <= n PROVE f[m + (i + 1)] = k[i + 1]
      <4>1. i + 1 \in 1 .. n /\ m + (i + 1) \in 1 .. m + n /\ (i + 1) - 1 = i /\ i <= n
            /\ (m + (i + 1)) - 1 = m + i
        BY <1>0, <3>1
      <4>2. f[m + (i + 1)] = Issue(f[m + i], w[i + 1]) /\ k[i + 1] = Issue(k[i], w[i + 1])
        BY <1>0, <1>a, <1>c, <4>1
      <4>3. QED
        BY <2>2, <4>1, <4>2
    <3>2. QED
      BY <3>1
  <2> HIDE DEF U
  <2>3. QED
    BY <1>0, <2>1, <2>2, Induction
<1>7. QED
  BY <1>a, <1>b, <1>c, <1>6

\* No work changes nothing.
LEMMA IssueNone ==
  ASSUME NEW host
  PROVE  IssueAll(host, <<>>) = host
<1>1. Len(<<>>) = 0
  OBVIOUS
<1>2. PICK f : IssueAll(host, <<>>) = f[0] /\ Runs(f, host, <<>>)
  BY <1>1, IssueAllIs
<1>3. QED
  BY <1>2 DEF Runs

\* Work of one operation issues that one.
LEMMA IssueOne ==
  ASSUME NEW host, NEW o
  PROVE  IssueAll(host, <<o>>) = Issue(host, o)
<1>1. Len(<<o>>) = 1 /\ <<o>>[1] = o /\ 1 \in 1 .. 1 /\ 1 - 1 = 0 /\ 1 \in Nat
  OBVIOUS
<1>2. PICK f : IssueAll(host, <<o>>) = f[1] /\ Runs(f, host, <<o>>)
  BY <1>1, IssueAllIs
<1>3. f[1] = Issue(f[0], o) /\ f[0] = host
  BY <1>1, <1>2 DEF Runs
<1>4. QED
  BY <1>2, <1>3

-----------------------------------------------------------------------------
(* One more operation.                                                      *)

\* From h to g the host has enqueued operations on stream s only.
Adds(h, g, s) ==
  /\ h.pending \subseteq g.pending /\ h.enqueued <= g.enqueued
  /\ \A x \in g.pending \ h.pending : x.stream = s /\ x.at > h.enqueued

\* What an enqueued operation is.
Appended(h, g, x, o) ==
  /\ g.pending = h.pending \cup {x} /\ g.enqueued = h.enqueued + 1
  /\ g.last = IF o.op = "record" THEN [h.last EXCEPT ![o.event] = h.enqueued + 1] ELSE h.last
  /\ x.op = o.op /\ x.stream = o.stream /\ x.reads = o.reads /\ x.writes = o.writes
  /\ x.at = h.enqueued + 1
  /\ o.op = "wait" => x.of = h.last[o.event]

\* An operation issued is pending, under the next number.
LEMMA IssueIs ==
  ASSUME NEW B, NEW h, NEW o \in OpSet(B)
  PROVE  \E x : Appended(h, Issue(h, o), x, o)
<1> DEFINE x == [o EXCEPT !.at = h.enqueued + 1,
                          !.of = IF o.op = "wait" THEN h.last[o.event] ELSE 0]
<1>1. /\ x.op = o.op /\ x.stream = o.stream
      /\ x.reads = o.reads /\ x.writes = o.writes
      /\ x.at = h.enqueued + 1
      /\ o.op = "wait" => x.of = h.last[o.event]
  BY DEF OpSet
<1>2. /\ Issue(h, o).pending = h.pending \cup {x}
      /\ Issue(h, o).enqueued = h.enqueued + 1
      /\ Issue(h, o).last = IF o.op = "record"
                            THEN [h.last EXCEPT ![o.event] = h.enqueued + 1] ELSE h.last
  BY DEF Issue
<1> HIDE DEF x
<1>3. QED
  BY <1>1, <1>2 DEF Appended

\* A kernel may follow what it does not conflict with and what its stream comes after;
\* a record or a wait may follow anything.
LEMMA HostStays ==
  ASSUME NEW h, NEW g, NEW x, HostOK(h),
         g.pending = h.pending \cup {x}, g.enqueued = h.enqueued + 1,
         g.last \in [Events -> 0 .. g.enqueued],
         x.op \in {"kernel", "record", "wait"}, x.stream \in Streams, x.at = g.enqueued,
         x.op = "wait" => x.of \in 1 .. x.at - 1,
         x.op = "kernel" =>
           \A a \in h.pending : a.op = "kernel" /\ Conflict(a, x) => Covered(h.pending, a, x.stream)
  PROVE  HostOK(g)
<1>1. h.enqueued \in Nat /\ g.enqueued \in Nat
  BY DEF HostOK
<1>2. \A a \in h.pending : a.at \in 1 .. h.enqueued /\ a.at < x.at /\ a.at \in 1 .. g.enqueued
  BY <1>1 DEF HostOK
<1>3. \A y \in g.pending : /\ y.op \in {"kernel", "record", "wait"} /\ y.stream \in Streams
                           /\ y.at \in 1 .. g.enqueued
                           /\ y.op = "wait" => y.of \in 1 .. y.at - 1
  BY <1>1, <1>2 DEF HostOK
<1>4. \A y, z \in g.pending : y.at = z.at => y = z
  <2>1. \A y, z \in h.pending : y.at = z.at => y = z
    BY DEF HostOK
  <2>2. \A y \in h.pending : y.at # x.at
    BY <1>1, <1>2
  <2>3. QED
    BY <2>1, <2>2
<1>5. ASSUME NEW a \in g.pending, NEW b \in g.pending,
             a.op = "kernel", b.op = "kernel", a.at < b.at, Conflict(a, b)
      PROVE  a.stream = b.stream \/ Tied(g.pending, a, b)
  <2>1. a \in h.pending
    BY <1>1, <1>2, <1>5
  <2>2. CASE b \in h.pending
    <3>1. a.stream = b.stream \/ Tied(h.pending, a, b)
      BY <1>5, <2>1, <2>2 DEF HostOK
    <3>2. QED
      BY <3>1, FenceStays
  <2>3. CASE b = x
    <3>1. Covered(h.pending, a, x.stream)
      BY <1>5, <2>1, <2>3
    <3>2. CASE a.stream = x.stream
      BY <2>3, <3>2
    <3>3. CASE a.stream # x.stream
      <4>1. PICK y \in h.pending : y.stream = x.stream /\ Tied(h.pending, a, y)
        BY <3>1, <3>3 DEF Covered
      <4>2. Tied(g.pending, a, y)
        BY <4>1, FenceStays
      <4>3. y.at <= x.at /\ y.at \in Nat /\ x.at \in Nat /\ \A z \in g.pending : z.at \in Nat
        BY <1>1, <1>2
      <4>4. Tied(g.pending, a, x)
        BY <4>1, <4>2, <4>3, FenceLater
      <4>5. QED
        BY <2>3, <4>4
    <3>4. QED
      BY <3>2, <3>3
  <2>4. QED
    BY <2>2, <2>3
<1>6. QED
  BY <1>1, <1>3, <1>4, <1>5 DEF HostOK

\* The same of Issue; the operations are on one stream.
LEMMA IssueStays ==
  ASSUME NEW B, NEW h, NEW o \in OpSet(B), HostOK(h),
         o.op # "kernel" => o.event \in Events,
         o.op = "wait" => h.last[o.event] # 0,
         o.op = "kernel" =>
           \A a \in h.pending : a.op = "kernel" /\ Conflict(a, o) => Covered(h.pending, a, o.stream)
  PROVE  /\ HostOK(Issue(h, o))
         /\ Adds(h, Issue(h, o), o.stream)
         /\ o.op # "record" => Issue(h, o).last = h.last
<1> DEFINE g == Issue(h, o)
<1>p. PICK x : Appended(h, g, x, o)
  BY IssueIs
<1>1. /\ g.pending = h.pending \cup {x} /\ g.enqueued = h.enqueued + 1
      /\ g.last = IF o.op = "record" THEN [h.last EXCEPT ![o.event] = h.enqueued + 1]
                    ELSE h.last
      /\ x.op = o.op /\ x.stream = o.stream
      /\ x.reads = o.reads /\ x.writes = o.writes
      /\ x.at = h.enqueued + 1
      /\ o.op = "wait" => x.of = h.last[o.event]
  BY <1>p DEF Appended
<1> HIDE DEF g
<1>2. o.op \in {"kernel", "record", "wait"} /\ o.stream \in Streams
  BY DEF OpSet
<1>3. h.enqueued \in Nat /\ h.last \in [Events -> 0 .. h.enqueued]
  BY DEF HostOK
<1>4. g.last \in [Events -> 0 .. g.enqueued]
  BY <1>1, <1>3
<1>5. x.op = "wait" => x.of \in 1 .. x.at - 1
  <2>1. x.op = "wait" => x.of \in 0 .. h.enqueued /\ x.of # 0
    BY <1>1, <1>3
  <2>2. QED
    BY <1>1, <1>3, <2>1
<1>6. \A a : Conflict(a, x) = Conflict(a, o)
  BY <1>1 DEF Conflict
<1>7. HostOK(g)
  BY <1>1, <1>2, <1>4, <1>5, <1>6, HostStays
<1>8. Adds(h, g, o.stream)
  BY <1>1, <1>3 DEF Adds
<1>9. QED
  BY <1>1, <1>7, <1>8 DEF g

\* What two pieces of code one after the other add.
LEMMA AddsTwice ==
  ASSUME NEW h, NEW g, NEW f, NEW s, HostOK(h), HostOK(g), HostOK(f), Adds(h, g, s), Adds(g, f, s)
  PROVE  Adds(h, f, s)
<1>1. h.enqueued \in Nat /\ g.enqueued \in Nat /\ f.enqueued \in Nat
  BY DEF HostOK
<1>2. \A x \in f.pending \ g.pending : x.at \in Nat
  BY DEF HostOK
<1>3. QED
  BY <1>1, <1>2 DEF Adds

-----------------------------------------------------------------------------
(* Outside a fan-out: only the default stream works.                        *)

Good(h) == HostOK(h) /\ AllJoined(h)

\* A kernel on a stream is an operation.
LEMMA KernelOps ==
  ASSUME NEW B, NEW s \in Streams, NEW R \in SUBSET B, NEW W \in SUBSET B, NEW o \in KernelSet(s, R, W)
  PROVE  /\ o \in OpSet(B)
         /\ o.op = "kernel" /\ o.stream = s /\ o.reads \subseteq R /\ o.writes \subseteq W
BY DEF KernelSet, OpSet

\* A kernel on the default stream keeps everything joined.
LEMMA MainOne ==
  ASSUME NEW B, NEW h, Good(h), NEW o \in KernelSet("main", B, B)
  PROVE  Good(Issue(h, o))
<1> DEFINE g == Issue(h, o)
<1>1. o \in OpSet(B) /\ o.op = "kernel" /\ o.stream = "main"
  BY KernelOps DEF Streams
<1>2. \A a \in h.pending : Covered(h.pending, a, "main")
  BY JoinedIsCovered DEF Good, AllJoined
<1>3. HostOK(g) /\ Adds(h, g, "main")
  BY <1>1, <1>2, IssueStays DEF Good
<1> HIDE DEF g
<1>4. ASSUME NEW x \in g.pending PROVE Joined(g.pending, x)
  <2>1. CASE x \in h.pending
    <3>1. Joined(h.pending, x)
      BY <2>1 DEF Good, AllJoined
    <3>2. QED
      BY <1>3, <3>1, CoveredStays DEF Adds
  <2>2. CASE x \notin h.pending
    BY <1>3, <2>2 DEF Adds, Joined
  <2>3. QED
    BY <2>1, <2>2
<1>5. QED
  BY <1>3, <1>4 DEF Good, AllJoined, g

\* The default stream's kernels follow everything.
LEMMA MainWork ==
  ASSUME NEW B, NEW h, Good(h), NEW w, KernelsOn(w, "main", B, B)
  PROVE  Good(IssueAll(h, w))
<1> DEFINE K == KernelSet("main", B, B)
<1>1. w \in Seq(K)
  BY DEF KernelsOn
<1> HIDE DEF K
<1>2. Len(w) \in Nat /\ \A i \in 1 .. Len(w) : w[i] \in K
  BY <1>1
<1>a. PICK f : IssueAll(h, w) = f[Len(w)] /\ Runs(f, h, w)
  BY <1>2, IssueAllIs
<1>3. /\ IssueAll(h, w) = f[Len(w)] /\ f[0] = h
      /\ \A i \in 1 .. Len(w) : f[i] = Issue(f[i - 1], w[i])
  BY <1>a DEF Runs
<1> DEFINE n == Len(w)
           T == {i \in Nat : i <= n => Good(f[i])}
<1>0. n \in Nat
  BY <1>2
<1>4. 0 \in T
  BY <1>3
<1>5. ASSUME NEW i \in Nat, i \in T PROVE i + 1 \in T
  <2>1. ASSUME i + 1 <= n PROVE Good(f[i + 1])
    <3>1. i + 1 \in 1 .. Len(w) /\ (i + 1) - 1 = i /\ i <= n
      BY <1>0, <2>1
    <3>2. f[i + 1] = Issue(f[i], w[i + 1]) /\ w[i + 1] \in K /\ Good(f[i])
      BY <1>2, <1>3, <1>5, <3>1
    <3>3. QED
      BY <3>2, MainOne DEF K
  <2>2. QED
    BY <2>1
<1> HIDE DEF T, n
<1>6. n \in T
  BY <1>0, <1>4, <1>5, Induction
<1>7. QED
  BY <1>3, <1>6, <1>0 DEF T, n

-----------------------------------------------------------------------------
(* A fan-out. Main's record has number n; since then the kernels on stream  *)
(* s read R[s] and write W[s].                                              *)

Apart(R, W) ==
  \A s, t \in Streams : s # t => W[s] \cap (R[t] \cup W[t]) = {}

Open(h, n, R, W) ==
  /\ HostOK(h)
  /\ \E r \in h.pending :
       /\ r.op = "record" /\ r.stream = "main" /\ r.at = n
       /\ \A x \in h.pending : x.at <= n => x.stream = "main" \/ Fence(h.pending, x, r)
  /\ \A x \in h.pending : x.op = "kernel" /\ x.at > n =>
       x.reads \subseteq R[x.stream] /\ x.writes \subseteq W[x.stream]

\* Stream s has waited for main's record.
Entered(h, n, s) == \E w \in h.pending : w.op = "wait" /\ w.stream = s /\ w.of = n

\* Stream s has recorded event e behind all its work.
Left(h, n, s, e) ==
  \E r \in h.pending : /\ r.op = "record" /\ r.stream = s /\ r.at = h.last[e]
                       /\ \A x \in h.pending : x.stream = s /\ x.at > n => x.at <= r.at

\* The default stream comes after the work of stream s.
Back(h, n, s) == \A x \in h.pending : x.stream = s /\ x.at > n => Joined(h.pending, x)

\* What the others enqueue keeps how far stream s is.
LEMMA OthersStay ==
  ASSUME NEW h, NEW g, NEW s, NEW t, Adds(h, g, t), NEW n
  PROVE  /\ Entered(h, n, s) => Entered(g, n, s)
         /\ s # t /\ Back(h, n, s) => Back(g, n, s)
         /\ \A e : s # t /\ g.last[e] = h.last[e] /\ Left(h, n, s, e) => Left(g, n, s, e)
<1>1. h.pending \subseteq g.pending /\ \A x \in g.pending : x.stream # t => x \in h.pending
  BY DEF Adds
<1>2. Entered(h, n, s) => Entered(g, n, s)
  BY <1>1 DEF Entered
<1>3. ASSUME s # t, Back(h, n, s) PROVE Back(g, n, s)
  <2>1. \A x : Joined(h.pending, x) => Joined(g.pending, x)
    BY <1>1, CoveredStays
  <2>2. QED
    BY <1>1, <1>3, <2>1 DEF Back
<1>4. ASSUME NEW e, s # t, g.last[e] = h.last[e], Left(h, n, s, e) PROVE Left(g, n, s, e)
  BY <1>1, <1>4 DEF Left
<1>5. QED
  BY <1>2, <1>3, <1>4

\* In a fan-out, one more operation: a record, a wait, or a kernel of the stream's
\* own, once the stream has waited.
LEMMA OpenOne ==
  ASSUME NEW B, NEW h, NEW n, NEW R, NEW W, Apart(R, W), Open(h, n, R, W),
         NEW o \in OpSet(B),
         o.op # "kernel" => o.event \in Events,
         o.op = "wait" => h.last[o.event] # 0,
         o.op = "kernel" => /\ o.reads \subseteq R[o.stream] /\ o.writes \subseteq W[o.stream]
                            /\ o.stream = "main" \/ Entered(h, n, o.stream)
  PROVE  /\ Open(Issue(h, o), n, R, W)
         /\ Adds(h, Issue(h, o), o.stream)
         /\ o.op # "record" => Issue(h, o).last = h.last
<1> DEFINE g == Issue(h, o)
<1>0. HostOK(h) /\ o.stream \in Streams /\ h.enqueued \in Nat
  BY DEF Open, OpSet, HostOK
<1>1. PICK r \in h.pending :
        /\ r.op = "record" /\ r.stream = "main" /\ r.at = n
        /\ \A x \in h.pending : x.at <= n => x.stream = "main" \/ Fence(h.pending, x, r)
  BY DEF Open
<1>2. n \in Nat /\ n <= h.enqueued /\ \A x \in h.pending : x.at \in Nat
  BY <1>0, <1>1 DEF HostOK
<1>3. ASSUME o.op = "kernel", NEW a \in h.pending, a.op = "kernel", Conflict(a, o)
      PROVE  Covered(h.pending, a, o.stream)
  <2>1. CASE a.at > n
    <3>1. a.reads \subseteq R[a.stream] /\ a.writes \subseteq W[a.stream] /\ a.stream \in Streams
      BY <1>0, <1>3, <2>1 DEF Open, HostOK
    <3>2. o.reads \subseteq R[o.stream] /\ o.writes \subseteq W[o.stream]
      BY <1>3
    <3>3. a.stream = o.stream
      <4> SUFFICES ASSUME a.stream # o.stream PROVE FALSE
        OBVIOUS
      <4>1. W[a.stream] \cap (R[o.stream] \cup W[o.stream]) = {}
        BY <1>0, <3>1 DEF Apart
      <4>2. W[o.stream] \cap (R[a.stream] \cup W[a.stream]) = {}
        BY <1>0, <3>1 DEF Apart
      <4>3. QED
        BY <1>3, <3>1, <3>2, <4>1, <4>2 DEF Conflict
    <3>4. QED
      BY <3>3 DEF Covered
  <2>2. CASE a.at <= n
    <3>1. a.stream = "main" \/ Fence(h.pending, a, r)
      BY <1>1, <2>2
    <3>2. CASE o.stream = "main"
      BY <1>1, <3>1, <3>2 DEF Covered, Tied
    <3>3. CASE o.stream # "main"
      <4>1. PICK w \in h.pending : w.op = "wait" /\ w.stream = o.stream /\ w.of = n
        BY <1>3, <3>3 DEF Entered
      <4>2. \A y \in h.pending : y.stream = "main" /\ y.at <= n => Fence(h.pending, y, w)
        BY <1>1, <1>2, <4>1 DEF Fence
      <4>3. Fence(h.pending, r, w)
        BY <1>1, <1>2, <4>2
      <4>4. Tied(h.pending, a, w)
        BY <2>2, <3>1, <4>2, <4>3 DEF Tied
      <4>5. QED
        BY <4>1, <4>4 DEF Covered
    <3>4. QED
      BY <3>2, <3>3
  <2>3. QED
    BY <1>2, <2>1, <2>2
<1>4. HostOK(g) /\ Adds(h, g, o.stream) /\ (o.op # "record" => g.last = h.last)
  BY <1>0, <1>3, IssueStays
<1>p. PICK x : Appended(h, g, x, o)
  BY IssueIs
<1>5. /\ g.pending = h.pending \cup {x} /\ g.enqueued = h.enqueued + 1
      /\ g.last = IF o.op = "record" THEN [h.last EXCEPT ![o.event] = h.enqueued + 1]
                    ELSE h.last
      /\ x.op = o.op /\ x.stream = o.stream
      /\ x.reads = o.reads /\ x.writes = o.writes
      /\ x.at = h.enqueued + 1
      /\ o.op = "wait" => x.of = h.last[o.event]
  BY <1>p DEF Appended
<1> HIDE DEF g
<1>6. ASSUME NEW y \in g.pending, y.at <= n PROVE y.stream = "main" \/ Fence(g.pending, y, r)
  <2>1. y \in h.pending
    BY <1>0, <1>2, <1>5, <1>6
  <2>2. Fence(h.pending, y, r) => Fence(g.pending, y, r)
    BY <1>5, FenceStays
  <2>3. QED
    BY <1>1, <1>6, <2>1, <2>2
<1>7. ASSUME NEW y \in g.pending, y.op = "kernel", y.at > n
      PROVE  y.reads \subseteq R[y.stream] /\ y.writes \subseteq W[y.stream]
  BY <1>5, <1>7 DEF Open
<1>8. r \in g.pending
  BY <1>5
<1>9. Open(g, n, R, W)
  BY <1>1, <1>4, <1>6, <1>7, <1>8 DEF Open
<1>10. QED
  BY <1>4, <1>9 DEF g

\* The same of a stream's kernels.
LEMMA OpenWork ==
  ASSUME NEW h, NEW n, NEW R, NEW W, Apart(R, W), Open(h, n, R, W), NEW s \in Streams,
         s = "main" \/ Entered(h, n, s), NEW w, KernelsOn(w, s, R[s], W[s])
  PROVE  /\ Open(IssueAll(h, w), n, R, W)
         /\ Adds(h, IssueAll(h, w), s)
         /\ IssueAll(h, w).last = h.last
<1> DEFINE K == KernelSet(s, R[s], W[s])
           B == R[s] \cup W[s]
<1>1. w \in Seq(K)
  BY DEF KernelsOn
<1> HIDE DEF K
<1>2. Len(w) \in Nat /\ \A i \in 1 .. Len(w) : w[i] \in K
  BY <1>1
<1>a. PICK f : IssueAll(h, w) = f[Len(w)] /\ Runs(f, h, w)
  BY <1>2, IssueAllIs
<1>3. /\ IssueAll(h, w) = f[Len(w)] /\ f[0] = h
      /\ \A i \in 1 .. Len(w) : f[i] = Issue(f[i - 1], w[i])
  BY <1>a DEF Runs
<1> DEFINE m == Len(w)
           Fits(g) == Open(g, n, R, W) /\ Adds(h, g, s) /\ g.last = h.last
           T == {i \in Nat : i <= m => Fits(f[i])}
<1>0. m \in Nat
  BY <1>2
<1>4. 0 \in T
  <2>1. Adds(h, h, s)
    BY DEF Adds, Open, HostOK
  <2>2. QED
    BY <1>3, <2>1
<1>5. ASSUME NEW i \in Nat, i \in T PROVE i + 1 \in T
  <2>1. ASSUME i + 1 <= m PROVE Fits(f[i + 1])
    <3>1. i + 1 \in 1 .. Len(w) /\ (i + 1) - 1 = i /\ i <= m
      BY <1>0, <2>1
    <3>2. f[i + 1] = Issue(f[i], w[i + 1]) /\ w[i + 1] \in K /\ Fits(f[i])
      BY <1>2, <1>3, <1>5, <3>1
    <3> DEFINE g == f[i]
               o == w[i + 1]
    <3>3. /\ o \in OpSet(B) /\ o.op = "kernel" /\ o.stream = s
          /\ o.reads \subseteq R[s] /\ o.writes \subseteq W[s]
      <4>1. o \in KernelSet(s, R[s], W[s])
        BY <3>2 DEF K
      <4>2. R[s] \in SUBSET B /\ W[s] \in SUBSET B
        OBVIOUS
      <4> HIDE DEF B
      <4> HIDE DEF o
      <4>3. QED
        BY <4>1, <4>2 DEF KernelSet, OpSet
    <3>4. Open(g, n, R, W) /\ Adds(h, g, s) /\ g.last = h.last
      BY <3>2
    <3>5. s = "main" \/ Entered(g, n, s)
      BY <3>4, OthersStay
    <3> HIDE DEF g, o, B
    <3>6. Open(Issue(g, o), n, R, W) /\ Adds(g, Issue(g, o), s) /\ Issue(g, o).last = g.last
      BY <3>3, <3>4, <3>5, OpenOne
    <3>7. Adds(h, Issue(g, o), s)
      BY <3>4, <3>6, AddsTwice DEF Open
    <3>8. QED
      BY <3>2, <3>4, <3>6, <3>7 DEF g, o
  <2>2. QED
    BY <2>1
<1> HIDE DEF T, m
<1>6. m \in T
  BY <1>0, <1>4, <1>5, Induction
<1>7. QED
  BY <1>3, <1>6, <1>0 DEF T, m

\* Records and waits.
LEMMA SyncOps ==
  ASSUME NEW B, NEW s \in Streams, NEW e \in Events
  PROVE  /\ \E o \in OpSet(B) : Record(s, e) = <<o>> /\ o.op = "record" /\ o.stream = s /\ o.event = e
         /\ \E o \in OpSet(B) : Await(s, e) = <<o>> /\ o.op = "wait" /\ o.stream = s /\ o.event = e
         /\ Record(s, e) \in Seq(OpSet(B)) /\ Await(s, e) \in Seq(OpSet(B))
<1> DEFINE r == [op |-> "record", stream |-> s, event |-> e, reads |-> {}, writes |-> {},
                 at |-> 0, of |-> 0]
           w == [op |-> "wait", stream |-> s, event |-> e, reads |-> {}, writes |-> {},
                 at |-> 0, of |-> 0]
<1>1. Record(s, e) = <<r>> /\ Await(s, e) = <<w>>
  BY DEF Record, Await, Operation
<1>2. r \in OpSet(B) /\ r.op = "record" /\ r.stream = s /\ r.event = e
  BY DEF OpSet
<1>3. w \in OpSet(B) /\ w.op = "wait" /\ w.stream = s /\ w.event = e
  BY DEF OpSet
<1> HIDE DEF r, w
<1> DEFINE S == OpSet(B)
<1>4. r \in S /\ w \in S
  BY <1>2, <1>3
<1> HIDE DEF S
<1>5. <<r>> \in Seq(S) /\ <<w>> \in Seq(S)
  BY <1>4
<1>6. QED
  BY <1>1, <1>2, <1>3, <1>5 DEF S

\* What the host's state is when it has enqueued a record.
LEMMA RecordIs ==
  ASSUME NEW h, HostOK(h), NEW s \in Streams, NEW e \in Events
  PROVE  \E x : /\ IssueAll(h, Record(s, e)).pending = h.pending \cup {x}
                /\ IssueAll(h, Record(s, e)).enqueued = h.enqueued + 1
                /\ IssueAll(h, Record(s, e)).last[e] = h.enqueued + 1
                /\ \A c \in Events : c # e => IssueAll(h, Record(s, e)).last[c] = h.last[c]
                /\ x.op = "record" /\ x.stream = s /\ x.at = h.enqueued + 1
<1>1. PICK o \in OpSet({}) : Record(s, e) = <<o>> /\ o.op = "record" /\ o.stream = s /\ o.event = e
  BY SyncOps
<1>2. IssueAll(h, Record(s, e)) = Issue(h, o)
  BY <1>1, IssueOne
<1>p. PICK x : Appended(h, Issue(h, o), x, o)
  BY IssueIs
<1>3. /\ Issue(h, o).pending = h.pending \cup {x} /\ Issue(h, o).enqueued = h.enqueued + 1
      /\ Issue(h, o).last = IF o.op = "record" THEN [h.last EXCEPT ![o.event] = h.enqueued + 1]
                    ELSE h.last
      /\ x.op = o.op /\ x.stream = o.stream
      /\ x.reads = o.reads /\ x.writes = o.writes
      /\ x.at = h.enqueued + 1
      /\ o.op = "wait" => x.of = h.last[o.event]
  BY <1>p DEF Appended
<1>4. /\ Issue(h, o).pending = h.pending \cup {x} /\ Issue(h, o).enqueued = h.enqueued + 1
      /\ Issue(h, o).last[e] = h.enqueued + 1
      /\ \A c \in Events : c # e => Issue(h, o).last[c] = h.last[c]
      /\ x.op = "record" /\ x.stream = s /\ x.at = h.enqueued + 1
  BY <1>1, <1>3 DEF HostOK
<1>5. QED
  BY <1>2, <1>4

\* When it has enqueued a wait, x.
Awaited(h, g, x, s, e) ==
  /\ g.pending = h.pending \cup {x} /\ g.enqueued = h.enqueued + 1 /\ g.last = h.last
  /\ x.op = "wait" /\ x.stream = s /\ x.at = h.enqueued + 1 /\ x.of = h.last[e]

\* A wait is enqueued for the last record of its event.
LEMMA WaitIs ==
  ASSUME NEW h, NEW s \in Streams, NEW e \in Events
  PROVE  \E x : Awaited(h, IssueAll(h, Await(s, e)), x, s, e)
<1>1. PICK o \in OpSet({}) : Await(s, e) = <<o>> /\ o.op = "wait" /\ o.stream = s /\ o.event = e
  BY SyncOps
<1>2. IssueAll(h, Await(s, e)) = Issue(h, o)
  BY <1>1, IssueOne
<1>p. PICK x : Appended(h, Issue(h, o), x, o)
  BY IssueIs
<1>3. /\ Issue(h, o).pending = h.pending \cup {x} /\ Issue(h, o).enqueued = h.enqueued + 1
      /\ Issue(h, o).last = IF o.op = "record" THEN [h.last EXCEPT ![o.event] = h.enqueued + 1]
                    ELSE h.last
      /\ x.op = o.op /\ x.stream = o.stream
      /\ x.reads = o.reads /\ x.writes = o.writes
      /\ x.at = h.enqueued + 1
      /\ o.op = "wait" => x.of = h.last[o.event]
  BY <1>p DEF Appended
<1>4. /\ Issue(h, o).pending = h.pending \cup {x} /\ Issue(h, o).enqueued = h.enqueued + 1
      /\ Issue(h, o).last = h.last
      /\ x.op = "wait" /\ x.stream = s /\ x.at = h.enqueued + 1 /\ x.of = h.last[e]
  BY <1>1, <1>3
<1>5. Awaited(h, Issue(h, o), x, s, e)
  BY <1>4 DEF Awaited
<1>6. QED
  BY <1>2, <1>5

\* A fan-out stays one with a record or a wait.
LEMMA OpenRecord ==
  ASSUME NEW h, NEW n, NEW R, NEW W, Apart(R, W), Open(h, n, R, W), NEW s \in Streams, NEW e \in Events
  PROVE  LET g == IssueAll(h, Record(s, e)) IN
         /\ Open(g, n, R, W) /\ Adds(h, g, s) /\ Left(g, n, s, e)
         /\ \A c \in Events : c # e => g.last[c] = h.last[c]
<1> DEFINE g == IssueAll(h, Record(s, e))
<1>1. PICK o \in OpSet({}) : Record(s, e) = <<o>> /\ o.op = "record" /\ o.stream = s /\ o.event = e
  BY SyncOps
<1>2. Open(g, n, R, W) /\ Adds(h, g, s)
  <2>1. g = Issue(h, o)
    BY <1>1, IssueOne
  <2>2. Open(Issue(h, o), n, R, W) /\ Adds(h, Issue(h, o), s)
    BY <1>1, OpenOne
  <2>3. QED
    BY <2>1, <2>2
<1>3. HostOK(h)
  BY DEF Open
<1>4. PICK x : /\ g.pending = h.pending \cup {x}
               /\ g.enqueued = h.enqueued + 1
               /\ g.last[e] = h.enqueued + 1
               /\ \A c \in Events : c # e => g.last[c] = h.last[c]
               /\ x.op = "record" /\ x.stream = s /\ x.at = h.enqueued + 1
  BY <1>3, RecordIs
<1> HIDE DEF g
<1>5. \A y \in g.pending : y.at <= x.at
  BY <1>2, <1>4 DEF Open, HostOK
<1>6. Left(g, n, s, e)
  BY <1>4, <1>5 DEF Left
<1>7. QED
  BY <1>2, <1>4, <1>6 DEF g

\* A wait within a fan-out; a wait for its first record enters it.
LEMMA OpenWait ==
  ASSUME NEW h, NEW n, NEW R, NEW W, Apart(R, W), Open(h, n, R, W), NEW s \in Streams, NEW e \in Events,
         h.last[e] # 0
  PROVE  LET g == IssueAll(h, Await(s, e)) IN
         /\ Open(g, n, R, W) /\ Adds(h, g, s) /\ g.last = h.last
         /\ h.last[e] = n => Entered(g, n, s)
<1> DEFINE g == IssueAll(h, Await(s, e))
<1>1. PICK o \in OpSet({}) : Await(s, e) = <<o>> /\ o.op = "wait" /\ o.stream = s /\ o.event = e
  BY SyncOps
<1>2. Open(g, n, R, W) /\ Adds(h, g, s)
  <2>1. g = Issue(h, o)
    BY <1>1, IssueOne
  <2>2. Open(Issue(h, o), n, R, W) /\ Adds(h, Issue(h, o), s)
    BY <1>1, OpenOne
  <2>3. QED
    BY <2>1, <2>2
<1>6. PICK x : Awaited(h, g, x, s, e)
  BY WaitIs
<1> HIDE DEF g
<1>3. /\ g.pending = h.pending \cup {x} /\ g.last = h.last
      /\ x.op = "wait" /\ x.stream = s /\ x.of = h.last[e]
  BY <1>6 DEF Awaited
<1>4. h.last[e] = n => Entered(g, n, s)
  BY <1>3 DEF Entered
<1>5. QED
  BY <1>2, <1>3, <1>4 DEF g

\* The main stream records event e behind everything: a fan-out begins.
LEMMA Opens ==
  ASSUME NEW h, Good(h), NEW e \in Events, NEW R, NEW W
  PROVE  \E n : LET g == IssueAll(h, Record("main", e)) IN
                /\ Open(g, n, R, W) /\ g.last[e] = n
                /\ \A s : Back(g, n, s)
<1> DEFINE g == IssueAll(h, Record("main", e))
<1>3. PICK x : /\ g.pending = h.pending \cup {x}
               /\ g.enqueued = h.enqueued + 1
               /\ g.last[e] = h.enqueued + 1
               /\ \A c \in Events : c # e => g.last[c] = h.last[c]
               /\ x.op = "record" /\ x.stream = "main" /\ x.at = h.enqueued + 1
  <2>1. "main" \in Streams
    BY DEF Streams
  <2>2. QED
    BY <2>1, RecordIs DEF Good
<1>1. PICK o \in OpSet({}) : Record("main", e) = <<o>> /\ o.op = "record" /\ o.stream = "main"
                             /\ o.event = e
  BY SyncOps DEF Streams
<1>4. HostOK(g)
  <2>1. g = Issue(h, o)
    BY <1>1, IssueOne
  <2>2. QED
    BY <1>1, <2>1, IssueStays DEF Good
<1> DEFINE n == h.enqueued + 1
<1> HIDE DEF g
<1>5. g.last[e] = n
  BY <1>3 DEF Good, HostOK
<1>6. x \in g.pending /\ x.op = "record" /\ x.stream = "main" /\ x.at = n
  BY <1>3
<1>7. h.enqueued \in Nat /\ \A y \in g.pending : y.at \in Nat /\ y.at <= n
  BY <1>3, <1>4 DEF HostOK, Good
<1>8. ASSUME NEW y \in g.pending PROVE y.stream = "main" \/ Fence(g.pending, y, x)
  <2>1. CASE y = x
    BY <1>6, <2>1
  <2>2. CASE y \in h.pending /\ y.stream # "main"
    <3>1. PICK z \in h.pending : z.stream = "main" /\ Fence(h.pending, y, z)
      BY <2>2 DEF Good, AllJoined, Joined
    <3>2. Fence(g.pending, y, z)
      BY <1>3, <3>1, FenceStays
    <3>3. z.at \in Nat /\ z.at <= x.at /\ x.at \in Nat
      BY <1>3, <1>6, <1>7, <3>1
    <3>4. QED
      BY <1>6, <1>7, <3>1, <3>2, <3>3, FenceLater
  <2>3. QED
    BY <1>3, <2>1, <2>2
<1>9. Open(g, n, R, W)
  <2>1. \A y \in g.pending : ~ (y.at > n)
    BY <1>7
  <2>2. QED
    BY <1>4, <1>6, <1>8, <2>1 DEF Open
<1>10. \A s : Back(g, n, s)
  BY <1>7 DEF Back
<1> HIDE DEF n
<1>11. QED
  BY <1>5, <1>9, <1>10 DEF g

\* Stream s waits for it, works, and records event e.
LEMMA Forks ==
  ASSUME NEW h, NEW n, NEW R, NEW W, Apart(R, W), Open(h, n, R, W), NEW s \in Streams,
         NEW d \in Events, h.last[d] = n, NEW e \in Events, NEW w, KernelsOn(w, s, R[s], W[s])
  PROVE  LET g == IssueAll(IssueAll(IssueAll(h, Await(s, d)), w), Record(s, e)) IN
         /\ Open(g, n, R, W) /\ Adds(h, g, s) /\ Left(g, n, s, e)
         /\ \A c \in Events : c # e => g.last[c] = h.last[c]
<1> DEFINE a == IssueAll(h, Await(s, d))
           b == IssueAll(a, w)
           g == IssueAll(b, Record(s, e))
<1>4. n # 0
  BY DEF Open, HostOK
<1>5. Open(a, n, R, W) /\ Adds(h, a, s) /\ a.last = h.last /\ Entered(a, n, s)
  BY <1>4, OpenWait
<1> HIDE DEF a
<1>6. Open(b, n, R, W) /\ Adds(a, b, s) /\ b.last = a.last
  BY <1>5, OpenWork
<1> HIDE DEF b
<1>7. Open(g, n, R, W) /\ Adds(b, g, s) /\ Left(g, n, s, e)
      /\ \A c \in Events : c # e => g.last[c] = b.last[c]
  BY <1>6, OpenRecord
<1> HIDE DEF g
<1>8. Adds(h, g, s)
  BY <1>5, <1>6, <1>7, AddsTwice DEF Open
<1>9. QED
  BY <1>5, <1>6, <1>7, <1>8 DEF a, b, g

\* The main stream waits for event e: it comes after the work of stream s.
LEMMA Joins ==
  ASSUME NEW h, NEW n, NEW R, NEW W, Apart(R, W), Open(h, n, R, W),
         NEW s \in Streams, NEW e \in Events, Left(h, n, s, e)
  PROVE  LET g == IssueAll(h, Await("main", e)) IN
         /\ Open(g, n, R, W) /\ Adds(h, g, "main") /\ Back(g, n, s) /\ g.last = h.last
<1> DEFINE g == IssueAll(h, Await("main", e))
<1>1. "main" \in Streams
  BY DEF Streams
<1>2. PICK w : Awaited(h, g, w, "main", e)
  BY <1>1, WaitIs
<1>6. /\ g.pending = h.pending \cup {w} /\ g.enqueued = h.enqueued + 1 /\ g.last = h.last
      /\ w.op = "wait" /\ w.stream = "main" /\ w.at = h.enqueued + 1 /\ w.of = h.last[e]
  BY <1>2 DEF Awaited
<1>3. PICK r \in h.pending : /\ r.op = "record" /\ r.stream = s /\ r.at = h.last[e]
                             /\ \A x \in h.pending : x.stream = s /\ x.at > n => x.at <= r.at
  BY DEF Left
<1>4. h.last[e] # 0
  BY <1>3 DEF Open, HostOK
<1>5. Open(g, n, R, W) /\ Adds(h, g, "main")
  BY <1>1, <1>4, OpenWait
<1> HIDE DEF g
<1>7. w \in g.pending /\ w.op = "wait" /\ w.stream = "main" /\ w.of = r.at /\ w.at \in Nat
  BY <1>3, <1>6 DEF Open, HostOK
<1>8. ASSUME NEW x \in g.pending, x.stream = s, x.at > n PROVE Joined(g.pending, x)
  <2>1. CASE x = w
    BY <1>7, <2>1 DEF Joined
  <2>2. CASE x \in h.pending
    <3>1. x.at <= r.at /\ r \in g.pending
      BY <1>3, <1>6, <1>8, <2>2
    <3>2. Fence(g.pending, x, w)
      BY <1>3, <1>7, <1>8, <3>1 DEF Fence
    <3>3. QED
      BY <1>7, <3>2 DEF Joined
  <2>3. QED
    BY <1>6, <2>1, <2>2
<1>9. QED
  BY <1>5, <1>6, <1>8 DEF Back, g

\* When it comes after the work of every stream, the fan-out is over.
LEMMA Closes ==
  ASSUME NEW h, NEW n, NEW R, NEW W, Open(h, n, R, W), \A s \in Streams : Back(h, n, s)
  PROVE  Good(h)
<1>1. PICK r \in h.pending :
        /\ r.op = "record" /\ r.stream = "main" /\ r.at = n
        /\ \A x \in h.pending : x.at <= n => x.stream = "main" \/ Fence(h.pending, x, r)
  BY DEF Open
<1>2. HostOK(h) /\ \A x \in h.pending : x.at \in Nat /\ x.stream \in Streams
  BY DEF Open, HostOK
<1>3. ASSUME NEW x \in h.pending PROVE Joined(h.pending, x)
  <2>1. CASE x.at <= n
    BY <1>1, <2>1 DEF Joined
  <2>2. CASE x.at > n
    BY <1>2, <2>2 DEF Back
  <2>3. QED
    BY <1>1, <1>2, <2>1, <2>2
<1>4. QED
  BY <1>2, <1>3 DEF Good, AllJoined

-----------------------------------------------------------------------------
(* A layer's work, piece by piece.                                          *)

WorkOf(w, B) == w \in Seq(OpSet(B))

\* u is v and then w.
Concat(u, v, w) == u = v \o w

\* Work in two parts is issued part after part.
LEMMA ConcatIs ==
  ASSUME NEW B, NEW u, NEW v, NEW w, Concat(u, v, w), WorkOf(v, B), WorkOf(w, B), NEW h
  PROVE  WorkOf(u, B) /\ IssueAll(h, u) = IssueAll(IssueAll(h, v), w)
<1> DEFINE S == OpSet(B)
<1>1. v \in Seq(S) /\ w \in Seq(S)
  BY DEF WorkOf
<1> HIDE DEF S
<1>2. u = v \o w
  BY DEF Concat
<1>3. u \in Seq(S)
  BY <1>1, <1>2
<1>4. IssueAll(h, v \o w) = IssueAll(IssueAll(h, v), w)
  BY <1>1, IssueConcat
<1>5. QED
  BY <1>2, <1>3, <1>4 DEF WorkOf, S

\* w is six pieces, one after the other.
Concat6(w, v1, v2, v3, v4, v5, v6) == w = v1 \o v2 \o v3 \o v4 \o v5 \o v6

\* Work in six parts is issued part after part.
LEMMA SixPieces ==
  ASSUME NEW B, NEW v1, NEW v2, NEW v3, NEW v4, NEW v5, NEW v6, NEW w, NEW h,
         WorkOf(v1, B), WorkOf(v2, B), WorkOf(v3, B), WorkOf(v4, B), WorkOf(v5, B), WorkOf(v6, B),
         Concat6(w, v1, v2, v3, v4, v5, v6)
  PROVE  /\ WorkOf(w, B)
         /\ IssueAll(h, w) =
              IssueAll(IssueAll(IssueAll(IssueAll(IssueAll(IssueAll(h, v1), v2), v3), v4), v5), v6)
<1>1. PICK w2, w3, w4, w5, w6 : /\ Concat(w2, v1, v2) /\ Concat(w3, w2, v3) /\ Concat(w4, w3, v4)
                                /\ Concat(w5, w4, v5) /\ Concat(w6, w5, v6)
  BY DEF Concat
<1>2. WorkOf(w2, B) /\ IssueAll(h, w2) = IssueAll(IssueAll(h, v1), v2)
  BY <1>1, ConcatIs
<1>3. WorkOf(w3, B) /\ IssueAll(h, w3) = IssueAll(IssueAll(h, w2), v3)
  BY <1>1, <1>2, ConcatIs
<1>4. WorkOf(w4, B) /\ IssueAll(h, w4) = IssueAll(IssueAll(h, w3), v4)
  BY <1>1, <1>3, ConcatIs
<1>5. WorkOf(w5, B) /\ IssueAll(h, w5) = IssueAll(IssueAll(h, w4), v5)
  BY <1>1, <1>4, ConcatIs
<1>6. WorkOf(w6, B) /\ IssueAll(h, w6) = IssueAll(IssueAll(h, w5), v6)
  BY <1>1, <1>5, ConcatIs
<1>7. w6 = w
  BY <1>1 DEF Concat, Concat6
<1>8. QED
  BY <1>2, <1>3, <1>4, <1>5, <1>6, <1>7

\* Kernels of one stream, one part after another.
LEMMA KernelsConcat ==
  ASSUME NEW s, NEW R, NEW W, NEW v, NEW w, KernelsOn(v, s, R, W), KernelsOn(w, s, R, W)
  PROVE  KernelsOn(v \o w, s, R, W)
<1> DEFINE S == KernelSet(s, R, W)
<1>1. v \in Seq(S) /\ w \in Seq(S)
  BY DEF KernelsOn
<1> HIDE DEF S
<1>2. v \o w \in Seq(S)
  BY <1>1
<1>3. QED
  BY <1>2 DEF KernelsOn, S

\* Work with other sets of buffers.
LEMMA KernelsMore ==
  ASSUME NEW s, NEW R, NEW W, NEW w, KernelsOn(w, s, R, W),
         NEW Q, NEW V, R \subseteq Q, W \subseteq V
  PROVE  KernelsOn(w, s, Q, V)
<1> DEFINE S == KernelSet(s, R, W)
           T == KernelSet(s, Q, V)
<1>1. S \subseteq T
  BY DEF KernelSet
<1>2. w \in Seq(S)
  BY DEF KernelsOn
<1> HIDE DEF S, T
<1>3. w \in Seq(T)
  BY <1>1, <1>2
<1>4. QED
  BY <1>3 DEF KernelsOn, T

\* Kernels of one stream are work.
LEMMA KernelsWork ==
  ASSUME NEW s \in Streams, NEW R, NEW W, NEW w, KernelsOn(w, s, R, W),
         NEW B, R \subseteq B, W \subseteq B
  PROVE  WorkOf(w, B)
<1> DEFINE S == KernelSet(s, R, W)
           T == OpSet(B)
<1>1. S \subseteq T
  BY DEF KernelSet, OpSet
<1>2. w \in Seq(S)
  BY DEF KernelsOn
<1> HIDE DEF S, T
<1>3. w \in Seq(T)
  BY <1>1, <1>2
<1>4. QED
  BY <1>3 DEF WorkOf, T

\* A kernel, and none.
LEMMA KernelIs ==
  ASSUME NEW s, NEW R, NEW W, NEW r \in SUBSET R, NEW w \in SUBSET W
  PROVE  KernelsOn(Kernel(s, r, w), s, R, W) /\ KernelsOn(<<>>, s, R, W)
<1> DEFINE S == KernelSet(s, R, W)
           o == [op |-> "kernel", stream |-> s, event |-> <<>>, reads |-> r, writes |-> w,
                 at |-> 0, of |-> 0]
<1>1. Kernel(s, r, w) = <<o>>
  BY DEF Kernel, Operation
<1>2. o \in S
  BY DEF KernelSet
<1> HIDE DEF S, o
<1>3. <<o>> \in Seq(S) /\ <<>> \in Seq(S)
  BY <1>2
<1>4. QED
  BY <1>1, <1>3 DEF KernelsOn, S

\* Kernels of any streams, on the default stream instead.
Kernels(w, R, W) == w \in Seq(UNION {KernelSet(s, R, W) : s \in Streams})

\* Kernels of one stream are kernels of some stream.
LEMMA KernelsAnywhere ==
  ASSUME NEW s \in Streams, NEW R, NEW W, NEW w, KernelsOn(w, s, R, W)
  PROVE  Kernels(w, R, W)
<1> DEFINE S == KernelSet(s, R, W)
           T == UNION {KernelSet(t, R, W) : t \in Streams}
<1>1. S \subseteq T
  OBVIOUS
<1>2. w \in Seq(S)
  BY DEF KernelsOn
<1> HIDE DEF S, T
<1>3. w \in Seq(T)
  BY <1>1, <1>2
<1>4. QED
  BY <1>3 DEF Kernels, T

\* OnMain makes kernels of any streams kernels of the default stream.
LEMMA OnMainIs ==
  ASSUME NEW R, NEW W, NEW v, NEW w, Kernels(v, R, W), Kernels(w, R, W)
  PROVE  KernelsOn(OnMain(v \o w), "main", R, W) /\ KernelsOn(OnMain(w), "main", R, W)
<1> DEFINE S == UNION {KernelSet(s, R, W) : s \in Streams}
           T == KernelSet("main", R, W)
<1>1. \A o \in S : [o EXCEPT !.stream = "main"] \in T
  BY DEF KernelSet
<1>2. v \in Seq(S) /\ w \in Seq(S)
  BY DEF Kernels
<1> HIDE DEF S, T
<1>3. ASSUME NEW u \in Seq(S) PROVE OnMain(u) \in Seq(T)
  <2>1. Len(u) \in Nat /\ DOMAIN u = 1 .. Len(u) /\ \A i \in 1 .. Len(u) : u[i] \in S
    OBVIOUS
  <2>2. QED
    BY <1>1, <2>1 DEF OnMain
<1>4. v \o w \in Seq(S)
  BY <1>2
<1>5. OnMain(v \o w) \in Seq(T) /\ OnMain(w) \in Seq(T)
  BY <1>2, <1>3, <1>4
<1>6. QED
  BY <1>5 DEF KernelsOn, T

\* The streams by their names.
LEMMA MainIs == {"main", "aux0", "aux1"} = Streams
BY DEF Streams

\* Neither of two parts writes what the other touches, and all of it is of B.
Clear(R0, W0, R1, W1, B) ==
  /\ W0 \cap (R1 \cup W1) = {} /\ W1 \cap (R0 \cup W0) = {}
  /\ R0 \subseteq B /\ W0 \subseteq B /\ R1 \subseteq B /\ W1 \subseteq B

\* maybe_execute_in_parallel: whatever its two parts are, if neither writes what the
\* other touches.
LEMMA OverlapGood ==
  ASSUME NEW l \in AttnLayers, NEW R0, NEW W0, NEW R1, NEW W1,
         NEW first, KernelsOn(first, "main", R0, W0), NEW second, KernelsOn(second, "aux0", R1, W1),
         NEW B, Clear(R0, W0, R1, W1, B), NEW h, Good(h)
  PROVE  /\ WorkOf(Overlap(l, first, second), B)
         /\ Good(IssueAll(h, Overlap(l, first, second)))
<1>1. WorkOf(first, B) /\ WorkOf(second, B)
  BY KernelsWork, MainIs DEF Clear
<1>2. CASE ~Aux
  <2>1. KernelsOn(OnMain(second), "main", R1, W1)
    BY KernelsAnywhere, OnMainIs, MainIs
  <2>2. KernelsOn(OnMain(second), "main", B, B) /\ KernelsOn(first, "main", B, B)
    BY <2>1, KernelsMore DEF Clear
  <2>3. KernelsOn(first \o OnMain(second), "main", B, B)
    BY <2>2, KernelsConcat
  <2>4. Overlap(l, first, second) = first \o OnMain(second)
    BY <1>2 DEF Overlap
  <2>5. Good(IssueAll(h, first \o OnMain(second)))
    BY <2>3, MainWork
  <2>6. WorkOf(first \o OnMain(second), B)
    BY <2>3, KernelsWork, MainIs
  <2>7. QED
    BY <2>4, <2>5, <2>6
<1>3. CASE Aux
  <2> DEFINE R == [s \in Streams |-> IF s = "main" THEN R0 ELSE IF s = "aux0" THEN R1 ELSE {}]
             W == [s \in Streams |-> IF s = "main" THEN W0 ELSE IF s = "aux0" THEN W1 ELSE {}]
             d == <<l, 0>>
             e == <<l, 1>>
             w1 == Record("main", d)
             w2 == w1 \o first
             w3 == w2 \o Await("aux0", d)
             w4 == w3 \o second
             w5 == w4 \o Record("aux0", e)
             w6 == w5 \o Await("main", e)
  <2>1. /\ "main" \in Streams /\ "aux0" \in Streams /\ "aux1" \in Streams
        /\ d \in Events /\ e \in Events /\ d # e
    <3>1. d \in Events /\ e \in Events
      BY DEF Events
    <3>2. QED
      BY <3>1, MainIs
  <2>2. Apart(R, W)
    BY DEF Apart, Streams, Clear
  <2>3. /\ R["main"] = R0 /\ W["main"] = W0 /\ R["aux0"] = R1 /\ W["aux0"] = W1
        /\ R["aux1"] = {} /\ W["aux1"] = {}
    BY <2>1
  <2>4. Overlap(l, first, second) = w6
    BY <1>3 DEF Overlap
  <2> HIDE DEF R, W, d, e
  <2>5. WorkOf(w1, B) /\ WorkOf(Await("aux0", d), B) /\ WorkOf(Record("aux0", e), B)
        /\ WorkOf(Await("main", e), B)
    BY <2>1, SyncOps DEF WorkOf
  <2> DEFINE a == IssueAll(h, w1)
             b == IssueAll(a, first)
             c == IssueAll(IssueAll(IssueAll(b, Await("aux0", d)), second), Record("aux0", e))
             g == IssueAll(c, Await("main", e))
  <2>6. WorkOf(w6, B) /\ IssueAll(h, w6) = g
    <3> DEFINE v2 == Await("aux0", d)
               v3 == Record("aux0", e)
               v4 == Await("main", e)
    <3>1. Concat6(w6, w1, first, v2, second, v3, v4)
      BY Zenon DEF Concat6
    <3>2. WorkOf(w1, B) /\ WorkOf(v2, B) /\ WorkOf(v3, B) /\ WorkOf(v4, B)
      BY <2>5
    <3>3. g = IssueAll(IssueAll(IssueAll(IssueAll(IssueAll(IssueAll(h, w1), first), v2), second),
                                v3), v4)
      OBVIOUS
    <3> HIDE DEF w1, v2, v3, v4, w6, g
    <3>4. QED
      BY <1>1, <3>1, <3>2, <3>3, SixPieces
  <2>7. PICK n : Open(a, n, R, W) /\ a.last[d] = n /\ \A s : Back(a, n, s)
    BY <2>1, Opens
  <2> HIDE DEF a
  <2>8. Open(b, n, R, W) /\ Adds(a, b, "main") /\ b.last = a.last
    BY <2>1, <2>2, <2>3, <2>7, OpenWork
  <2> HIDE DEF b
  <2>9. Open(c, n, R, W) /\ Adds(b, c, "aux0") /\ Left(c, n, "aux0", e)
    BY <2>1, <2>2, <2>3, <2>7, <2>8, Forks
  <2> HIDE DEF c
  <2>10. Open(g, n, R, W) /\ Adds(c, g, "main") /\ Back(g, n, "aux0")
    BY <2>1, <2>2, <2>9, Joins
  <2> HIDE DEF g
  <2>11. Back(g, n, "aux1")
    <3>1. Back(b, n, "aux1")
      BY <2>7, <2>8, OthersStay
    <3>2. Back(c, n, "aux1")
      BY <2>9, <3>1, OthersStay
    <3>3. QED
      BY <2>10, <3>2, OthersStay
  <2>12. Back(g, n, "main")
    BY DEF Back, Joined
  <2>13. \A s \in Streams : Back(g, n, s)
    BY <2>10, <2>11, <2>12 DEF Streams
  <2>14. Good(g)
    BY <2>10, <2>13, Closes
  <2>15. QED
    BY <2>4, <2>6, <2>14
<1>4. QED
  BY <1>2, <1>3, StreamsAssumption

\* Stream s has done its part, work, of the fan-out, up to event e: the default stream
\* comes after it, once it waits for e, or there was nothing to do.
Ready(h, n, s, e, work) == IF work = <<>> THEN Back(h, n, s) ELSE Left(h, n, s, e)

\* Work of another stream does not undo it.
LEMMA ReadyStays ==
  ASSUME NEW h, NEW g, NEW s, NEW t, Adds(h, g, t), s # t, NEW n, NEW e, g.last[e] = h.last[e],
         NEW work, Ready(h, n, s, e, work)
  PROVE  Ready(g, n, s, e, work)
<1>1. /\ Back(h, n, s) => Back(g, n, s)
      /\ Left(h, n, s, e) => Left(g, n, s, e)
  BY OthersStay
<1>2. QED
  BY <1>1 DEF Ready

\* A host that does nothing adds nothing to any stream.
LEMMA AddsNothing ==
  ASSUME NEW h, HostOK(h), NEW s
  PROVE  Adds(h, h, s)
BY DEF Adds, HostOK

\* Event i of layer l.
Event(l, i) == <<l, i>>

\* Fork enters the fan-out on a stream, does the work there and records it.
LEMMA ForkIs ==
  ASSUME NEW l \in AttnLayers, NEW s \in Streams, NEW i \in 1 .. 3,
         NEW h, NEW n, NEW R, NEW W, Apart(R, W), Open(h, n, R, W), h.last[Event(l, 0)] = n,
         Back(h, n, s), NEW work, KernelsOn(work, s, R[s], W[s]),
         NEW B, R[s] \subseteq B, W[s] \subseteq B
  PROVE  /\ WorkOf(Fork(l, s, i, work), B)
         /\ LET g == IssueAll(h, Fork(l, s, i, work)) IN
            /\ Open(g, n, R, W) /\ Adds(h, g, s) /\ Ready(g, n, s, Event(l, i), work)
            /\ \A j \in 0 .. 3 : j # i => g.last[Event(l, j)] = h.last[Event(l, j)]
<1>1. CASE work = <<>>
  <2>1. Fork(l, s, i, work) = <<>>
    BY <1>1 DEF Fork
  <2>2. IssueAll(h, <<>>) = h
    BY IssueNone
  <2>3. Adds(h, h, s)
    BY AddsNothing DEF Open
  <2>4. Ready(h, n, s, Event(l, i), work)
    BY <1>1 DEF Ready
  <2>5. WorkOf(<<>>, B)
    BY <1>1, KernelsWork
  <2>6. QED
    BY <2>1, <2>2, <2>3, <2>4, <2>5
<1>2. CASE work # <<>>
  <2> DEFINE d == <<l, 0>>
             e == <<l, i>>
             u == Await(s, d)
             v == Record(s, e)
             g == IssueAll(IssueAll(IssueAll(h, u), work), v)
  <2>1. d \in Events /\ e \in Events
    BY DEF Events
  <2>2. Fork(l, s, i, work) = u \o work \o v
    BY <1>2 DEF Fork
  <2>3. h.last[d] = n
    BY DEF Event
  <2> HIDE DEF d, e
  <2>4. Open(g, n, R, W) /\ Adds(h, g, s) /\ Left(g, n, s, e)
        /\ \A c \in Events : c # e => g.last[c] = h.last[c]
    BY <2>1, <2>3, Forks
  <2>5. WorkOf(u, B) /\ WorkOf(v, B)
    BY <2>1, SyncOps DEF WorkOf
  <2>6. WorkOf(work, B)
    BY KernelsWork
  <2>7. PICK p, q : Concat(p, u, work) /\ Concat(q, p, v)
    BY DEF Concat
  <2>8. q = Fork(l, s, i, work)
    BY <2>2, <2>7 DEF Concat
  <2> HIDE DEF u, v
  <2>9. WorkOf(p, B) /\ IssueAll(h, p) = IssueAll(IssueAll(h, u), work)
    BY <2>5, <2>6, <2>7, ConcatIs
  <2>10. WorkOf(q, B) /\ IssueAll(h, q) = IssueAll(IssueAll(h, p), v)
    BY <2>5, <2>7, <2>9, ConcatIs
  <2>11. IssueAll(h, q) = g
    BY <2>9, <2>10
  <2> HIDE DEF g
  <2>12. Ready(g, n, s, e, work)
    BY <1>2, <2>4 DEF Ready
  <2>13. g = IssueAll(h, Fork(l, s, i, work)) /\ WorkOf(Fork(l, s, i, work), B)
    BY <2>8, <2>10, <2>11
  <2>14. ASSUME NEW j \in 0 .. 3, j # i PROVE g.last[Event(l, j)] = h.last[Event(l, j)]
    <3>1. Event(l, j) \in Events /\ Event(l, j) # e
      BY <2>14 DEF Event, Events, e
    <3>2. QED
      BY <2>4, <3>1
  <2>15. Event(l, i) = e
    BY DEF Event, e
  <2>16. QED
    BY <2>4, <2>12, <2>13, <2>14, <2>15
<1>3. QED
  BY <1>1, <1>2

\* Join brings a stream back to the default stream.
LEMMA JoinIs ==
  ASSUME NEW l \in AttnLayers, NEW s \in Streams, NEW i \in 1 .. 3,
         NEW h, NEW n, NEW R, NEW W, Apart(R, W), Open(h, n, R, W),
         NEW work, Ready(h, n, s, Event(l, i), work), NEW B
  PROVE  /\ WorkOf(Join(l, i, work), B)
         /\ LET g == IssueAll(h, Join(l, i, work)) IN
            /\ Open(g, n, R, W) /\ Adds(h, g, "main") /\ Back(g, n, s) /\ g.last = h.last
<1> DEFINE e == <<l, i>>
<1>1. CASE work = <<>>
  <2>1. Join(l, i, work) = <<>>
    BY <1>1 DEF Join
  <2>2. IssueAll(h, <<>>) = h
    BY IssueNone
  <2>3. Adds(h, h, "main")
    BY AddsNothing DEF Open
  <2>4. Back(h, n, s)
    BY <1>1 DEF Ready
  <2>5. WorkOf(<<>>, B)
    BY KernelIs, KernelsWork, MainIs
  <2>6. QED
    BY <2>1, <2>2, <2>3, <2>4, <2>5
<1>2. CASE work # <<>>
  <2>1. Join(l, i, work) = Await("main", e)
    BY <1>2 DEF Join
  <2>2. e \in Events /\ "main" \in Streams
    BY MainIs DEF Events
  <2>3. Left(h, n, s, e)
    BY <1>2 DEF Ready, Event
  <2> HIDE DEF e
  <2>4. WorkOf(Await("main", e), B)
    BY <2>2, SyncOps DEF WorkOf
  <2> DEFINE g == IssueAll(h, Await("main", e))
  <2>5. Open(g, n, R, W) /\ Adds(h, g, "main") /\ Back(g, n, s) /\ g.last = h.last
    BY <2>2, <2>3, Joins
  <2> HIDE DEF g
  <2>6. QED
    BY <2>1, <2>4, <2>5 DEF g
<1>3. QED
  BY <1>1, <1>2

-----------------------------------------------------------------------------
(* A layer.                                                                 *)

\* The buffers a layer touches.
Buffers(l) ==
  {<<"hidden">>, <<"qr_kv">>, <<"kv_score">>, <<"weights">>, <<"qr">>, <<"kv">>, <<"q">>,
   <<"swa", l>>, <<"latent">>, <<"state", l>>, <<"index_k", l>>, <<"topk">>, <<"index_q">>,
   <<"compressed", l>>, <<"index_k", KvSource(l)>>, <<"compressed", KvSource(l)>>, <<"o_padded">>}

\* _run_parallel_input_projections: the branches read "hidden" and write apart; after it
\* everything is joined, fanned out or not.
LEMMA ProjectionsGood ==
  ASSUME NEW l \in AttnLayers, NEW fan, NEW h, Good(h)
  PROVE  /\ WorkOf(Projections(l, fan), Buffers(l))
         /\ Good(IssueAll(h, Projections(l, fan)))
<1> DEFINE B == Buffers(l)
           H == {<<"hidden">>}
           R == [s \in Streams |-> H]
           W == [s \in Streams |-> IF s = "main" THEN {<<"qr_kv">>}
                                   ELSE IF s = "aux0" THEN {<<"kv_score">>} ELSE {<<"weights">>}]
<1>1. "main" \in Streams /\ "aux0" \in Streams /\ "aux1" \in Streams
  BY MainIs
<1>2. /\ R["main"] = H /\ R["aux0"] = H /\ R["aux1"] = H
      /\ W["main"] = {<<"qr_kv">>} /\ W["aux0"] = {<<"kv_score">>} /\ W["aux1"] = {<<"weights">>}
  BY <1>1
<1>3. H \subseteq B /\ {<<"qr_kv">>} \subseteq B /\ {<<"kv_score">>} \subseteq B
      /\ {<<"weights">>} \subseteq B
  BY DEF Buffers
<1>4. KernelsOn(Gemm, "main", H, {<<"qr_kv">>})
  BY KernelIs DEF Gemm
<1>5. KernelsOn(KvScore(l), "aux0", H, {<<"kv_score">>})
  BY KernelIs DEF KvScore
<1>6. KernelsOn(Weights(l), "aux1", H, {<<"weights">>})
  BY KernelIs DEF Weights
<1>7. Apart(R, W)
  <2>1. /\ <<"qr_kv">> # <<"kv_score">> /\ <<"qr_kv">> # <<"weights">>
        /\ <<"kv_score">> # <<"weights">> /\ <<"hidden">> # <<"qr_kv">>
        /\ <<"hidden">> # <<"kv_score">> /\ <<"hidden">> # <<"weights">>
    OBVIOUS
  <2> HIDE DEF H, B
  <2>2. \A s \in Streams : R[s] = H
    OBVIOUS
  <2>3. \A s, t \in Streams : s # t => W[s] \cap W[t] = {}
    BY <2>1 DEF Streams
  <2>4. \A s, t \in Streams : W[s] \cap H = {}
    BY <2>1 DEF Streams, H
  <2>5. QED
    BY <2>2, <2>3, <2>4 DEF Apart
<1> HIDE DEF R, W
<1>12. /\ KernelsOn(Gemm, "main", R["main"], W["main"])
       /\ KernelsOn(KvScore(l), "aux0", R["aux0"], W["aux0"])
       /\ KernelsOn(Weights(l), "aux1", R["aux1"], W["aux1"])
       /\ R["aux0"] \subseteq B /\ W["aux0"] \subseteq B /\ R["aux1"] \subseteq B /\ W["aux1"] \subseteq B
  BY <1>2, <1>3, <1>4, <1>5, <1>6
<1> HIDE DEF H
<1>8. WorkOf(Gemm, B) /\ WorkOf(KvScore(l), B) /\ WorkOf(Weights(l), B)
  BY <1>1, <1>3, <1>4, <1>5, <1>6, KernelsWork
<1>9. CASE ~Aux \/ ~fan
  <2>1. KernelsOn(OnMain(KvScore(l) \o Weights(l)), "main", B, B)
    <3>1. KernelsOn(KvScore(l), "aux0", B, B) /\ KernelsOn(Weights(l), "aux1", B, B)
      BY <1>3, <1>5, <1>6, KernelsMore
    <3>2. Kernels(KvScore(l), B, B) /\ Kernels(Weights(l), B, B)
      BY <1>1, <3>1, KernelsAnywhere
    <3>3. QED
      BY <3>2, OnMainIs
  <2>2. KernelsOn(Gemm, "main", B, B)
    BY <1>3, <1>4, KernelsMore
  <2>3. KernelsOn(Gemm \o OnMain(KvScore(l) \o Weights(l)), "main", B, B)
    BY <2>1, <2>2, KernelsConcat
  <2>4. Projections(l, fan) = Gemm \o OnMain(KvScore(l) \o Weights(l))
    BY <1>9 DEF Projections
  <2>5. WorkOf(Projections(l, fan), B)
    BY <1>1, <2>3, <2>4, KernelsWork
  <2>6. Good(IssueAll(h, Projections(l, fan)))
    BY <2>3, <2>4, MainWork
  <2>7. QED
    BY <2>5, <2>6
<1>10. CASE Aux /\ fan
  <2> DEFINE d == Event(l, 0)
             v1 == Record("main", d)
             v2 == Fork(l, "aux0", 1, KvScore(l))
             v3 == Fork(l, "aux1", 2, Weights(l))
             v4 == Gemm
             v5 == Join(l, 1, KvScore(l))
             v6 == Join(l, 2, Weights(l))
             w == Projections(l, fan)
             a == IssueAll(h, v1)
             b == IssueAll(a, v2)
             c == IssueAll(b, v3)
             f == IssueAll(c, v4)
             k == IssueAll(f, v5)
             g == IssueAll(k, v6)
  <2>1. Concat6(w, v1, v2, v3, v4, v5, v6)
    BY <1>10 DEF Concat6, Projections, Event
  <2>3. d \in Events
    BY DEF Events, Event
  <2>4. WorkOf(v1, B)
    BY <1>1, <2>3, SyncOps DEF WorkOf
  <2>5. PICK n : Open(a, n, R, W) /\ a.last[d] = n /\ \A s : Back(a, n, s)
    BY <2>3, Opens
  <2> HIDE DEF a, w, B
  <2>6. /\ WorkOf(v2, B) /\ Open(b, n, R, W) /\ Adds(a, b, "aux0")
        /\ Ready(b, n, "aux0", Event(l, 1), KvScore(l))
        /\ \A j \in 0 .. 3 : j # 1 => b.last[Event(l, j)] = a.last[Event(l, j)]
    <3>1. Back(a, n, "aux0") /\ a.last[Event(l, 0)] = n /\ Open(a, n, R, W)
      BY <2>5
    <3>2. QED
      BY <1>1, <1>7, <1>12, <3>1, ForkIs
  <2>7. Back(b, n, "aux1")
    BY <2>5, <2>6, OthersStay
  <2> HIDE DEF b
  <2>8. b.last[d] = n
    BY <2>5, <2>6
  <2>9. /\ WorkOf(v3, B) /\ Open(c, n, R, W) /\ Adds(b, c, "aux1")
        /\ Ready(c, n, "aux1", Event(l, 2), Weights(l))
        /\ \A j \in 0 .. 3 : j # 2 => c.last[Event(l, j)] = b.last[Event(l, j)]
    BY <1>1, <1>7, <1>12, <2>6, <2>7, <2>8, ForkIs
  <2> HIDE DEF c
  <2>10. Ready(c, n, "aux0", Event(l, 1), KvScore(l))
    BY <2>6, <2>9, ReadyStays
  <2>11. Open(f, n, R, W) /\ Adds(c, f, "main") /\ f.last = c.last
    BY <1>1, <1>7, <1>12, <2>9, OpenWork
  <2> HIDE DEF f
  <2>12. Ready(f, n, "aux0", Event(l, 1), KvScore(l)) /\ Ready(f, n, "aux1", Event(l, 2), Weights(l))
    BY <2>9, <2>10, <2>11, ReadyStays
  <2>13. WorkOf(v5, B) /\ Open(k, n, R, W) /\ Adds(f, k, "main") /\ Back(k, n, "aux0")
         /\ k.last = f.last
    BY <1>1, <1>7, <2>11, <2>12, JoinIs
  <2> HIDE DEF k
  <2>14. Ready(k, n, "aux1", Event(l, 2), Weights(l))
    BY <2>12, <2>13, ReadyStays
  <2>15. WorkOf(v6, B) /\ Open(g, n, R, W) /\ Adds(k, g, "main") /\ Back(g, n, "aux1")
    BY <1>1, <1>7, <2>13, <2>14, JoinIs
  <2> HIDE DEF g
  <2>16. Back(g, n, "aux0")
    BY <2>13, <2>15, OthersStay
  <2>17. Back(g, n, "main")
    BY DEF Back, Joined
  <2>18. \A s \in Streams : Back(g, n, s)
    BY <2>15, <2>16, <2>17 DEF Streams
  <2>19. Good(g)
    BY <2>15, <2>18, Closes
  <2>20. WorkOf(w, B) /\ IssueAll(h, w) = g
    <3>1. WorkOf(v2, B) /\ WorkOf(v3, B) /\ WorkOf(v4, B) /\ WorkOf(v5, B) /\ WorkOf(v6, B)
      BY <1>8, <2>6, <2>9, <2>13, <2>15
    <3>2. g = IssueAll(IssueAll(IssueAll(IssueAll(IssueAll(IssueAll(h, v1), v2), v3), v4), v5), v6)
      BY DEF a, b, c, f, k, g
    <3> HIDE DEF v1, v2, v3, v4, v5, v6
    <3>3. QED
      BY <2>1, <2>4, <3>1, <3>2, SixPieces
  <2>21. QED
    BY <2>19, <2>20 DEF w, B
<1>11. QED
  BY <1>9, <1>10

\* Work after which the default stream again comes after everything.
Keeps(w, B) == WorkOf(w, B) /\ \A h : Good(h) => Good(IssueAll(h, w))

\* Two parts that keep everything joined do so together.
LEMMA KeepsBoth ==
  ASSUME NEW B, NEW u, NEW v, NEW w, Concat(u, v, w), Keeps(v, B), Keeps(w, B)
  PROVE  Keeps(u, B)
<1>1. WorkOf(v, B) /\ WorkOf(w, B)
  BY DEF Keeps
<1>2. WorkOf(u, B)
  BY <1>1, ConcatIs
<1>3. ASSUME NEW h, Good(h) PROVE Good(IssueAll(h, u))
  <2>1. Good(IssueAll(h, v))
    BY <1>3 DEF Keeps
  <2>2. Good(IssueAll(IssueAll(h, v), w))
    BY <2>1 DEF Keeps
  <2>3. IssueAll(h, u) = IssueAll(IssueAll(h, v), w)
    BY <1>1, ConcatIs
  <2>4. QED
    BY <2>2, <2>3
<1>4. QED
  BY <1>2, <1>3 DEF Keeps

\* Kernels on the default stream keep everything joined.
LEMMA MainKeeps ==
  ASSUME NEW B, NEW R, NEW W, R \subseteq B, W \subseteq B, NEW w, KernelsOn(w, "main", R, W)
  PROVE  Keeps(w, B)
<1>1. KernelsOn(w, "main", B, B)
  BY KernelsMore
<1>2. WorkOf(w, B)
  BY KernelsWork, MainIs
<1>3. \A h : Good(h) => Good(IssueAll(h, w))
  BY <1>1, MainWork
<1>4. QED
  BY <1>2, <1>3 DEF Keeps

\* maybe_execute_in_parallel keeps everything joined.
LEMMA OverlapKeeps ==
  ASSUME NEW l \in AttnLayers, NEW R0, NEW W0, NEW R1, NEW W1,
         NEW first, KernelsOn(first, "main", R0, W0), NEW second, KernelsOn(second, "aux0", R1, W1),
         NEW B, Clear(R0, W0, R1, W1, B)
  PROVE  Keeps(Overlap(l, first, second), B)
<1>1. ASSUME NEW h, Good(h)
      PROVE  WorkOf(Overlap(l, first, second), B) /\ Good(IssueAll(h, Overlap(l, first, second)))
  BY <1>1, OverlapGood
<1>2. \E h : Good(h)
  <2> DEFINE h == [enqueued |-> 0, last |-> [e \in Events |-> 0], pending |-> {}]
  <2>1. Good(h)
    BY DEF Good, HostOK, AllJoined
  <2>2. QED
    BY <2>1
<1>3. QED
  BY <1>1, <1>2 DEF Keeps

\* _run_parallel_input_projections keeps everything joined.
LEMMA ProjectionsKeep ==
  ASSUME NEW l \in AttnLayers, NEW fan
  PROVE  Keeps(Projections(l, fan), Buffers(l))
<1>1. ASSUME NEW h, Good(h)
      PROVE  WorkOf(Projections(l, fan), Buffers(l)) /\ Good(IssueAll(h, Projections(l, fan)))
  BY <1>1, ProjectionsGood
<1>2. \E h : Good(h)
  <2> DEFINE h == [enqueued |-> 0, last |-> [e \in Events |-> 0], pending |-> {}]
  <2>1. Good(h)
    BY DEF Good, HostOK, AllJoined
  <2>2. QED
    BY <2>1
<1>3. QED
  BY <1>1, <1>2 DEF Keeps

\* Buffers of different names are different.
LEMMA Names ==
  ASSUME NEW x, NEW y, x[1] # y[1]
  PROVE  x # y
OBVIOUS

\* DeepseekV4Indexer.forward.
LEMMA IndexerIs ==
  ASSUME NEW l, NEW short
  PROVE  KernelsOn(Indexer(l, short), "main", {<<"latent">>, <<"qr">>, <<"weights">>},
                   {<<"index_k", l>>, <<"topk">>, <<"index_q">>})
<1> DEFINE R == {<<"latent">>, <<"qr">>, <<"weights">>}
           W == {<<"index_k", l>>, <<"topk">>, <<"index_q">>}
           keys == IF l \in KvSourceLayers THEN Kernel("main", {<<"latent">>}, {<<"index_k", l>>})
                   ELSE <<>>
           rows == IF short THEN Kernel("main", {}, {<<"topk">>})
                   ELSE Kernel("main", {<<"qr">>, <<"weights">>}, {<<"index_q">>})
<1>1. /\ {<<"latent">>} \in SUBSET R /\ {<<"index_k", l>>} \in SUBSET W
      /\ {} \in SUBSET R /\ {<<"topk">>} \in SUBSET W
      /\ {<<"qr">>, <<"weights">>} \in SUBSET R /\ {<<"index_q">>} \in SUBSET W
  OBVIOUS
<1> HIDE DEF R, W
<1>2. KernelsOn(keys, "main", R, W) /\ KernelsOn(rows, "main", R, W) /\ KernelsOn(<<>>, "main", R, W)
  BY <1>1, KernelIs
<1> HIDE DEF keys, rows
<1>3. KernelsOn(keys \o rows, "main", R, W)
  BY <1>2, KernelsConcat
<1>4. Indexer(l, short) = IF l \notin IndexSourceLayers THEN <<>> ELSE keys \o rows
  BY DEF Indexer, keys, rows
<1>5. QED
  BY <1>2, <1>3, <1>4 DEF R, W

\* _prepare_and_attn, up to the attention.
LEMMA PrepareKeeps ==
  ASSUME NEW l \in AttnLayers, NEW short
  PROVE  Keeps(Prepare(l, short), Buffers(l))
<1> DEFINE query == Kernel("main", {<<"qr">>, <<"kv">>}, {<<"q">>, <<"swa", l>>})
           compress == Kernel("aux0", {<<"kv_score">>}, {<<"latent">>, <<"state", l>>})
           insert == Kernel("aux0", {<<"latent">>}, {<<"compressed", l>>})
           R == {<<"latent">>, <<"qr">>, <<"weights">>}
           W == {<<"index_k", l>>, <<"topk">>, <<"index_q">>}
           index == Indexer(l, short)
           B == Buffers(l)
<1>1. KernelsOn(query, "main", {<<"qr">>, <<"kv">>}, {<<"q">>, <<"swa", l>>})
  BY KernelIs
<1>2. KernelsOn(compress, "aux0", {<<"kv_score">>}, {<<"latent">>, <<"state", l>>})
  BY KernelIs
<1>3. KernelsOn(insert, "aux0", {<<"latent">>}, {<<"compressed", l>>})
  BY KernelIs
<1>4. KernelsOn(index, "main", R, W)
  BY IndexerIs
<1>5. Prepare(l, short) = IF l \in KvSourceLayers
                          THEN Overlap(l, query, compress) \o Overlap(l, index, insert)
                          ELSE query \o index
  BY DEF Prepare
<1> HIDE DEF query, compress, insert, index
<1>6. Keeps(Overlap(l, query, compress), B)
  <2>1. /\ {<<"q">>, <<"swa", l>>} \cap ({<<"kv_score">>} \cup {<<"latent">>, <<"state", l>>}) = {}
        /\ {<<"latent">>, <<"state", l>>} \cap
             ({<<"qr">>, <<"kv">>} \cup {<<"q">>, <<"swa", l>>}) = {}
    BY Names
  <2>2. {<<"qr">>, <<"kv">>} \cup {<<"q">>, <<"swa", l>>} \cup {<<"kv_score">>}
          \cup {<<"latent">>, <<"state", l>>} \subseteq B
    BY DEF Buffers
  <2>4. Clear({<<"qr">>, <<"kv">>}, {<<"q">>, <<"swa", l>>},
              {<<"kv_score">>}, {<<"latent">>, <<"state", l>>}, B)
    BY <2>1, <2>2 DEF Clear
  <2> HIDE DEF B
  <2>3. QED
    BY <1>1, <1>2, <2>4, OverlapKeeps
<1>7. Keeps(Overlap(l, index, insert), B)
  <2>1. W \cap ({<<"latent">>} \cup {<<"compressed", l>>}) = {}
        /\ {<<"compressed", l>>} \cap (R \cup W) = {}
    BY Names
  <2>2. R \cup W \cup {<<"latent">>} \cup {<<"compressed", l>>} \subseteq B
    BY DEF Buffers
  <2>4. Clear(R, W, {<<"latent">>}, {<<"compressed", l>>}, B)
    BY <2>1, <2>2 DEF Clear
  <2> HIDE DEF R, W, B
  <2>3. QED
    BY <1>3, <1>4, <2>4, OverlapKeeps
<1>8. Keeps(query, B) /\ Keeps(index, B)
  <2>1. /\ {<<"qr">>, <<"kv">>} \subseteq B /\ {<<"q">>, <<"swa", l>>} \subseteq B
        /\ R \subseteq B /\ W \subseteq B
    BY DEF Buffers
  <2> HIDE DEF R, W, B
  <2>2. QED
    BY <1>1, <1>4, <2>1, MainKeeps
<1> HIDE DEF B
<1>9. QED
  <2>1. CASE l \in KvSourceLayers
    <3>1. Concat(Prepare(l, short), Overlap(l, query, compress), Overlap(l, index, insert))
      BY <1>5, <2>1 DEF Concat
    <3>2. QED
      BY <1>6, <1>7, <3>1, KeepsBoth DEF B
  <2>2. CASE l \notin KvSourceLayers
    <3>1. Concat(Prepare(l, short), query, index)
      BY <1>5, <2>2 DEF Concat
    <3>2. QED
      BY <1>8, <3>1, KeepsBoth DEF B
  <2>3. QED
    BY <2>1, <2>2

\* _sparse_indexer_and_attn runs on the default stream.
LEMMA AttentionKeeps ==
  ASSUME NEW l, NEW short
  PROVE  Keeps(Attention(l, short), Buffers(l))
<1> DEFINE B == Buffers(l)
           score == IF l \in IndexSourceLayers /\ ~short
                    THEN Kernel("main", {<<"index_q">>, <<"index_k", KvSource(l)>>}, {<<"topk">>})
                    ELSE <<>>
           reads == {<<"q">>, <<"swa", l>>} \cup
                      (IF l \in Compressed THEN {<<"topk">>, <<"compressed", KvSource(l)>>} ELSE {})
           attend == Kernel("main", reads, {<<"o_padded">>})
<1>1. /\ {<<"index_q">>, <<"index_k", KvSource(l)>>} \in SUBSET B /\ {<<"topk">>} \in SUBSET B
      /\ reads \in SUBSET B /\ {<<"o_padded">>} \in SUBSET B
  BY DEF Buffers
<1>2. Attention(l, short) = score \o attend
  BY DEF Attention
<1> HIDE DEF B, reads
<1>3. KernelsOn(score, "main", B, B) /\ KernelsOn(attend, "main", B, B)
  BY <1>1, KernelIs
<1> HIDE DEF score, attend
<1>4. KernelsOn(score \o attend, "main", B, B)
  BY <1>3, KernelsConcat
<1>5. Keeps(score \o attend, B)
  BY <1>4, MainKeeps
<1>6. QED
  BY <1>2, <1>5 DEF B

\* A layer keeps everything joined, whatever its branches.
LEMMA LayerKeeps ==
  ASSUME NEW l \in AttnLayers, NEW fan, NEW short
  PROVE  Keeps(Layer(l, fan, short), Buffers(l))
<1> DEFINE B == Buffers(l)
           v1 == Projections(l, fan)
           v2 == Kernel("main", {<<"qr_kv">>}, {<<"qr">>, <<"kv">>})
           v3 == Prepare(l, short)
           v4 == Attention(l, short)
           v5 == Kernel("main", {<<"o_padded">>}, {<<"hidden">>})
<1>1. Keeps(v1, B) /\ Keeps(v3, B) /\ Keeps(v4, B)
  BY ProjectionsKeep, PrepareKeeps, AttentionKeeps
<1>2. Keeps(v2, B) /\ Keeps(v5, B)
  <2>1. /\ {<<"qr_kv">>} \in SUBSET B /\ {<<"qr">>, <<"kv">>} \in SUBSET B
        /\ {<<"o_padded">>} \in SUBSET B /\ {<<"hidden">>} \in SUBSET B
    BY DEF Buffers
  <2> HIDE DEF B
  <2>2. KernelsOn(v2, "main", B, B) /\ KernelsOn(v5, "main", B, B)
    BY <2>1, KernelIs
  <2>3. QED
    BY <2>2, MainKeeps
<1>3. Layer(l, fan, short) = v1 \o v2 \o v3 \o v4 \o v5
  BY DEF Layer
<1> HIDE DEF B, v1, v2, v3, v4, v5
<1>4. PICK w2, w3, w4, w5 : Concat(w2, v1, v2) /\ Concat(w3, w2, v3) /\ Concat(w4, w3, v4)
                            /\ Concat(w5, w4, v5)
  BY DEF Concat
<1>5. Keeps(w2, B)
  BY <1>1, <1>2, <1>4, KeepsBoth
<1>6. Keeps(w3, B)
  BY <1>1, <1>4, <1>5, KeepsBoth
<1>7. Keeps(w4, B)
  BY <1>1, <1>4, <1>6, KeepsBoth
<1>8. Keeps(w5, B)
  BY <1>2, <1>4, <1>7, KeepsBoth
<1>9. w5 = Layer(l, fan, short)
  BY <1>3, <1>4 DEF Concat
<1>10. QED
  BY <1>8, <1>9 DEF B

\* The host only adds operations, with new numbers.
Grown(h, g) ==
  /\ h.pending \subseteq g.pending /\ g.enqueued \in Nat /\ h.enqueued <= g.enqueued
  /\ \A x \in g.pending \ h.pending : x.at \in Nat /\ x.at > h.enqueued

\* What the host enqueues gets numbers past those given.
LEMMA HostGrows ==
  ASSUME NEW B, NEW w, WorkOf(w, B), NEW h, HostOK(h)
  PROVE  Grown(h, IssueAll(h, w))
<1> DEFINE S == OpSet(B)
<1>1. w \in Seq(S)
  BY DEF WorkOf
<1> HIDE DEF S
<1>2. Len(w) \in Nat /\ \A i \in 1 .. Len(w) : w[i] \in S
  BY <1>1
<1>a. PICK f : IssueAll(h, w) = f[Len(w)] /\ Runs(f, h, w)
  BY <1>2, IssueAllIs
<1>3. /\ IssueAll(h, w) = f[Len(w)] /\ f[0] = h
      /\ \A i \in 1 .. Len(w) : f[i] = Issue(f[i - 1], w[i])
  BY <1>a DEF Runs
<1> DEFINE n == Len(w)
           T == {i \in Nat : i <= n => Grown(h, f[i])}
<1>0. n \in Nat
  BY <1>2
<1>4. 0 \in T
  <2>1. Grown(h, h)
    BY DEF Grown, HostOK
  <2>2. QED
    BY <1>3, <2>1
<1>5. ASSUME NEW i \in Nat, i \in T PROVE i + 1 \in T
  <2>1. ASSUME i + 1 <= n PROVE Grown(h, f[i + 1])
    <3>1. i + 1 \in 1 .. Len(w) /\ (i + 1) - 1 = i /\ i <= n
      BY <1>0, <2>1
    <3>2. f[i + 1] = Issue(f[i], w[i + 1]) /\ w[i + 1] \in S /\ Grown(h, f[i])
      BY <1>2, <1>3, <1>5, <3>1
    <3> DEFINE g == f[i]
               o == w[i + 1]
    <3>3. o \in OpSet(B) /\ Grown(h, g) /\ f[i + 1] = Issue(g, o)
      BY <3>2 DEF S
    <3> HIDE DEF g, o
    <3>p. PICK x : Appended(g, Issue(g, o), x, o)
      BY <3>3, IssueIs
    <3>4. /\ Issue(g, o).pending = g.pending \cup {x} /\ Issue(g, o).enqueued = g.enqueued + 1
          /\ Issue(g, o).last = IF o.op = "record" THEN [g.last EXCEPT ![o.event] = g.enqueued + 1]
                        ELSE g.last
          /\ x.op = o.op /\ x.stream = o.stream
          /\ x.reads = o.reads /\ x.writes = o.writes
          /\ x.at = g.enqueued + 1
          /\ o.op = "wait" => x.of = g.last[o.event]
      BY <3>p DEF Appended
    <3>5. Grown(h, Issue(g, o))
      BY <3>3, <3>4 DEF Grown, HostOK
    <3>6. QED
      BY <3>3, <3>5
  <2>2. QED
    BY <2>1
<1> HIDE DEF T, n
<1>6. n \in T
  BY <1>0, <1>4, <1>5, Induction
<1>7. QED
  BY <1>3, <1>6, <1>0 DEF T, n

-----------------------------------------------------------------------------
(* The streams take the first operation of their own.                       *)

\* The operation o, which its stream takes from those pending, is none that ties two
\* others: a record of its stream is behind all its stream has, and a wait was for a
\* record that is no longer pending.
Takes(P, o) ==
  /\ o \in P
  /\ \A x \in P : x.at \in Nat
  /\ \A x, y \in P : x.at = y.at => x = y
  /\ \A x \in P : x.stream = o.stream => o.at <= x.at
  /\ o.op = "wait" => \A x \in P : x.at # o.of

\* A fence behind a pending operation stays: its record is behind that one, its wait
\* behind its record.
LEMMA FenceKept ==
  ASSUME NEW P, NEW o, Takes(P, o), NEW a \in P \ {o}, NEW b, Fence(P, a, b)
  PROVE  Fence(P \ {o}, a, b) /\ b # o
<1>1. PICK r \in P, w \in P : /\ r.op = "record" /\ r.stream = a.stream /\ a.at <= r.at
                              /\ w.op = "wait" /\ w.stream = b.stream /\ w.at <= b.at
                              /\ w.of = r.at
  BY DEF Fence
<1>2. r # o
  <2> SUFFICES ASSUME r = o PROVE FALSE
    OBVIOUS
  <2>1. o.at <= a.at /\ a.at <= o.at /\ a.at \in Nat /\ o.at \in Nat
    BY <1>1 DEF Takes
  <2>2. a.at = o.at
    BY <2>1
  <2>3. QED
    BY <2>2 DEF Takes
<1>3. w # o
  BY <1>1 DEF Takes
<1>4. b # o
  <2> SUFFICES ASSUME b = o PROVE FALSE
    OBVIOUS
  <2>1. o.at <= w.at /\ w.at <= o.at /\ w.at \in Nat /\ o.at \in Nat
    BY <1>1 DEF Takes
  <2>2. w.at = o.at
    BY <2>1
  <2>3. w = o
    BY <2>2 DEF Takes
  <2>4. QED
    BY <1>3, <2>3
<1>5. Fence(P \ {o}, a, b)
  BY <1>1, <1>2, <1>3 DEF Fence
<1>6. QED
  BY <1>4, <1>5

\* So does a tie.
LEMMA TiedKept ==
  ASSUME NEW P, NEW o, Takes(P, o), NEW a \in P \ {o}, NEW b \in P, Tied(P, a, b)
  PROVE  Tied(P \ {o}, a, b)
<1>1. CASE Fence(P, a, b)
  BY <1>1, FenceKept DEF Tied
<1>2. CASE ~Fence(P, a, b)
  <2>1. PICK c \in P : Fence(P, a, c) /\ Fence(P, c, b)
    BY <1>2 DEF Tied
  <2>2. Fence(P \ {o}, a, c) /\ c # o
    BY <2>1, FenceKept
  <2>3. c \in P \ {o}
    BY <2>2
  <2>4. Fence(P \ {o}, c, b)
    BY <2>1, <2>3, FenceKept
  <2>5. QED
    BY <2>2, <2>3, <2>4 DEF Tied
<1>3. QED
  BY <1>1, <1>2

\* So does what joins an operation to the default stream.
LEMMA JoinedKept ==
  ASSUME NEW P, NEW o, Takes(P, o), NEW x \in P \ {o}, Joined(P, x)
  PROVE  Joined(P \ {o}, x)
<1>1. CASE x.stream = "main"
  BY <1>1 DEF Joined
<1>2. CASE x.stream # "main"
  <2>1. PICK y \in P : y.stream = "main" /\ Fence(P, x, y)
    BY <1>2 DEF Joined
  <2>2. Fence(P \ {o}, x, y) /\ y # o
    BY <2>1, FenceKept
  <2>3. QED
    BY <2>1, <2>2 DEF Joined
<1>3. QED
  BY <1>1, <1>2

\* What is left is as good as before.
LEMMA TakesGood ==
  ASSUME NEW h, Good(h), NEW o, Takes(h.pending, o),
         NEW g, g.pending = h.pending \ {o}, g.enqueued = h.enqueued, g.last = h.last
  PROVE  Good(g)
<1> DEFINE P == h.pending
           Q == P \ {o}
<1>1. ASSUME NEW a \in Q, NEW b \in Q,
             a.op = "kernel", b.op = "kernel", a.at < b.at, Conflict(a, b)
      PROVE  a.stream = b.stream \/ Tied(Q, a, b)
  <2>1. a.stream = b.stream \/ Tied(P, a, b)
    BY <1>1 DEF Good, HostOK
  <2>2. b \in P
    OBVIOUS
  <2>3. Tied(P, a, b) => Tied(Q, a, b)
    BY <2>2, TiedKept
  <2>4. QED
    BY <2>1, <2>3
<1>2. ASSUME NEW x \in Q PROVE Joined(Q, x)
  <2>1. Joined(P, x)
    BY DEF Good, AllJoined
  <2>2. QED
    BY <2>1, JoinedKept
<1>3. /\ h.enqueued \in Nat /\ h.last \in [Events -> 0 .. h.enqueued]
      /\ \A x \in Q : /\ x.op \in {"kernel", "record", "wait"} /\ x.stream \in Streams
                      /\ x.at \in 1 .. h.enqueued
                      /\ x.op = "wait" => x.of \in 1 .. x.at - 1
      /\ \A x, y \in Q : x.at = y.at => x = y
  BY DEF Good, HostOK
<1>4. g.pending = Q
  OBVIOUS
<1> HIDE DEF P, Q
<1>5. QED
  BY <1>1, <1>2, <1>3, <1>4 DEF Good, HostOK, AllJoined

-----------------------------------------------------------------------------
(* The invariant.                                                           *)

\* What Host is.
LEMMA HostIs ==
  Host.enqueued = enqueued /\ Host.last = last /\ Host.pending = pending
BY DEF Host

\* A step that leaves the host's part of the state alone.
LEMMA SameHost ==
  ASSUME UNCHANGED <<enqueued, last, pending>>
  PROVE  Host' = Host
BY DEF Host

\* StreamsTypeOK but for next and running, from HostOK.
LEMMA HostTypes ==
  ASSUME Good(Host)
  PROVE  /\ enqueued \in Nat /\ last \in [Events -> 0 .. enqueued]
         /\ \A o \in pending :
              /\ o.op \in {"kernel", "record", "wait"} /\ o.stream \in Streams
              /\ o.at \in 1 .. enqueued
              /\ o.op = "wait" => o.of \in 1 .. o.at - 1
BY HostIs DEF Good, HostOK

\* The inductive invariant: only a stream's first kernel runs, and what the host has
\* enqueued is good.
NextOK == next \in [step : 1 .. MaxAttnSteps + 1, layer : AttnLayers]
FirstRuns == running \subseteq {o \in pending : o.op = "kernel" /\ First(o)}

Inv == NextOK /\ FirstRuns /\ Good(Host)

\* The types are part of the invariant.
LEMMA InvTypes ==
  ASSUME Inv
  PROVE  StreamsTypeOK
BY HostTypes DEF Inv, NextOK, FirstRuns, StreamsTypeOK

\* Before the first layer nothing is pending.
LEMMA InitInv ==
  ASSUME StreamsInit
  PROVE  Inv
<1>1. NextOK
  BY StreamsAssumption DEF StreamsInit, NextOK, AttnLayers
<1>2. FirstRuns
  BY DEF StreamsInit, FirstRuns
<1>3. Good(Host)
  BY HostIs DEF StreamsInit, Good, HostOK, AllJoined
<1>4. QED
  BY <1>1, <1>2, <1>3 DEF Inv

\* The host enqueues a layer.
LEMMA EnqueueInv ==
  ASSUME Inv, NEW fan, NEW short, Enqueue(fan, short)
  PROVE  Inv'
<1> DEFINE l == next.layer
           w == Layer(l, fan, short)
           h == Host
           g == IssueAll(h, w)
<1>1. next \in [step : 1 .. MaxAttnSteps + 1, layer : AttnLayers] /\ l \in AttnLayers
  BY DEF Inv, NextOK
<1>2. /\ next.step <= MaxAttnSteps
      /\ enqueued' = g.enqueued /\ last' = g.last /\ pending' = g.pending
      /\ next' = IF next.layer < NumAttnLayers THEN [next EXCEPT !.layer = @ + 1]
                 ELSE [step |-> next.step + 1, layer |-> 1]
      /\ running' = running
  BY DEF Enqueue
<1>3. NextOK'
  <2>1. \A i \in AttnLayers : i < NumAttnLayers => i + 1 \in AttnLayers
    BY StreamsAssumption DEF AttnLayers
  <2>2. 1 \in AttnLayers /\ next.step + 1 \in 1 .. MaxAttnSteps + 1
    BY <1>1, <1>2, StreamsAssumption DEF AttnLayers
  <2>3. QED
    BY <1>1, <1>2, <2>1, <2>2 DEF NextOK
<1>4. Keeps(w, Buffers(l))
  BY <1>1, LayerKeeps
<1> HIDE DEF w
<1>5. Good(h)
  BY DEF Inv
<1>6. Good(g)
  BY <1>4, <1>5 DEF Keeps
<1>7. Grown(h, g)
  BY <1>4, <1>5, HostGrows DEF Keeps, Good
<1>8. h.enqueued = enqueued /\ h.pending = pending
  BY HostIs
<1> HIDE DEF h, g
<1>9. Good(Host')
  <2>1. Host'.enqueued = g.enqueued /\ Host'.last = g.last /\ Host'.pending = g.pending
    BY <1>2 DEF Host
  <2> DEFINE k == Host'
  <2> HIDE DEF k
  <2>2. k.enqueued = g.enqueued /\ k.last = g.last /\ k.pending = g.pending
    BY <2>1 DEF k
  <2>3. Good(k)
    BY <1>6, <2>2 DEF Good, HostOK, AllJoined
  <2>4. QED
    BY <2>3 DEF k
<1>10. FirstRuns'
  <2> SUFFICES ASSUME NEW o \in running
               PROVE  o \in pending' /\ o.op = "kernel"
                      /\ \A x \in pending' : x.stream = o.stream => o.at <= x.at
    BY <1>2 DEF FirstRuns, First
  <2>1. o \in pending /\ o.op = "kernel" /\ \A x \in pending : x.stream = o.stream => o.at <= x.at
    BY DEF Inv, FirstRuns, First
  <2>2. enqueued \in Nat /\ \A x \in pending : x.at \in 1 .. enqueued
    BY HostTypes DEF Inv
  <2>3. pending \subseteq pending' /\ \A x \in pending' \ pending : x.at \in Nat /\ x.at > enqueued
    BY <1>2, <1>7, <1>8 DEF Grown
  <2>4. QED
    BY <2>1, <2>2, <2>3
<1>11. QED
  BY <1>3, <1>9, <1>10 DEF Inv

\* A stream is done with its first operation.
LEMMA DoneInv ==
  ASSUME Inv, NEW o \in pending, First(o), o.op = "wait" => \A x \in pending : x.at # o.of,
         Done(o), running' = running \ {o}
  PROVE  Inv'
<1>1. pending' = pending \ {o} /\ next' = next /\ enqueued' = enqueued /\ last' = last
  BY DEF Done
<1>2. NextOK'
  BY <1>1 DEF Inv, NextOK
<1>3. FirstRuns'
  BY <1>1 DEF Inv, FirstRuns, First
<1>4. Takes(pending, o)
  <2>1. \A x \in pending : x.at \in Nat
    BY HostTypes DEF Inv
  <2>2. \A x, y \in pending : x.at = y.at => x = y
    BY HostIs DEF Inv, Good, HostOK
  <2>3. \A x \in pending : x.stream = o.stream => o.at <= x.at
    BY DEF First
  <2>4. QED
    BY <2>1, <2>2, <2>3 DEF Takes
<1>5. Good(Host')
  <2>1. Host'.enqueued = enqueued /\ Host'.last = last /\ Host'.pending = pending \ {o}
    BY <1>1 DEF Host
  <2> DEFINE k == Host'
             h == Host
  <2>2. Good(h) /\ h.enqueued = enqueued /\ h.last = last /\ h.pending = pending
    BY HostIs DEF Inv
  <2>3. k.enqueued = enqueued /\ k.last = last /\ k.pending = pending \ {o}
    BY <2>1
  <2> HIDE DEF h, k
  <2>4. Takes(h.pending, o) /\ k.pending = h.pending \ {o} /\ k.enqueued = h.enqueued
        /\ k.last = h.last
    BY <1>4, <2>2, <2>3
  <2>5. Good(k)
    BY <2>2, <2>4, TakesGood
  <2>6. QED
    BY <2>5 DEF k
<1>6. QED
  BY <1>2, <1>3, <1>5 DEF Inv

\* Every step keeps the invariant.
LEMMA StepInv ==
  ASSUME Inv, [StreamsNext]_streamsVars
  PROVE  Inv'
<1>1. CASE \E fan, short \in BOOLEAN : Enqueue(fan, short)
  BY <1>1, EnqueueInv
<1>2. CASE \E o \in pending : Begin(o) \/ Finish(o) \/ RecordEvent(o) \/ WaitEvent(o)
  <2>1. PICK o \in pending : Begin(o) \/ Finish(o) \/ RecordEvent(o) \/ WaitEvent(o)
    BY <1>2
  <2>2. running \subseteq {x \in pending : x.op = "kernel" /\ First(x)}
    BY DEF Inv, FirstRuns
  <2>3. CASE Begin(o)
    <3>1. UNCHANGED <<next, enqueued, last, pending>> /\ running' = running \cup {o}
          /\ o.op = "kernel" /\ First(o)
      BY <2>3 DEF Begin
    <3>2. Host' = Host
      BY <3>1, SameHost
    <3>3. Good(Host')
      BY <3>2 DEF Inv
    <3>4. NextOK'
      BY <3>1 DEF Inv, NextOK
    <3>5. FirstRuns'
      BY <2>2, <3>1 DEF FirstRuns, First
    <3>6. QED
      BY <3>3, <3>4, <3>5 DEF Inv
  <2>4. CASE Finish(o)
    <3>1. First(o) /\ o.op = "kernel" /\ Done(o) /\ running' = running \ {o}
      BY <2>2, <2>4 DEF Finish
    <3>2. QED
      BY <3>1, DoneInv
  <2>5. CASE RecordEvent(o)
    <3>1. First(o) /\ o.op = "record" /\ Done(o) /\ running' = running \ {o}
      BY <2>2, <2>5 DEF RecordEvent
    <3>2. QED
      BY <3>1, DoneInv
  <2>6. CASE WaitEvent(o)
    <3>1. First(o) /\ Done(o) /\ running' = running \ {o} /\ \A x \in pending : x.at # o.of
      BY <2>2, <2>6 DEF WaitEvent
    <3>2. QED
      BY <3>1, DoneInv
  <2>7. QED
    BY <2>1, <2>3, <2>4, <2>5, <2>6
<1>3. CASE UNCHANGED streamsVars
  <2>1. UNCHANGED <<next, enqueued, last, pending, running>>
    BY <1>3 DEF streamsVars
  <2>2. Host' = Host
    BY <2>1, SameHost
  <2>3. Good(Host')
    BY <2>2 DEF Inv
  <2>4. NextOK' /\ FirstRuns'
    BY <2>1 DEF Inv, NextOK, FirstRuns, First
  <2>5. QED
    BY <2>3, <2>4 DEF Inv
<1>4. QED
  BY <1>1, <1>2, <1>3 DEF StreamsNext

\* What the host of the attention layers enqueues on the three streams is always in
\* good order.
THEOREM SpecInv == StreamsSpec => []Inv
<1>1. StreamsInit => Inv
  BY InitInv
<1>2. Inv /\ [StreamsNext]_streamsVars => Inv'
  BY StepInv
<1>3. QED
  BY <1>1, <1>2, PTL DEF StreamsSpec

\* The variables have their types, only a stream's first kernel runs, and whatever the
\* layers, the fan-outs and the steps, no stream waits for an event that has not been
\* recorded before (_run_parallel_input_projections, maybe_execute_in_parallel).
THEOREM TypeCorrect == StreamsSpec => []StreamsTypeOK
<1>1. Inv => StreamsTypeOK
  BY InvTypes
<1>2. QED
  BY <1>1, SpecInv, PTL

\* In whatever order the streams take their work, a running kernel has nothing before
\* it in program order that it conflicts with: a kernel that did would be before it on
\* its stream, or have a wait between them that its stream would still have to do.
LEMMA InvNoRace ==
  ASSUME Inv
  PROVE  NoRace
<1> SUFFICES ASSUME NEW k \in running, NEW o \in pending, o.op = "kernel", o.at < k.at,
                    Conflict(o, k)
             PROVE  FALSE
  BY DEF NoRace
<1>1. k \in pending /\ k.op = "kernel" /\ \A x \in pending : x.stream = k.stream => k.at <= x.at
  BY DEF Inv, FirstRuns, First
<1>2. \A x \in pending : x.at \in Nat
  BY HostTypes DEF Inv
<1>3. \A x, y \in pending : x.at = y.at => x = y
  BY HostIs DEF Inv, Good, HostOK
<1>4. o.stream = k.stream \/ Tied(pending, o, k)
  BY <1>1, HostIs DEF Inv, Good, HostOK
<1>5. o.stream # k.stream
  BY <1>1, <1>2
<1>6. ASSUME NEW c, Fence(pending, c, k) PROVE FALSE
  <2>1. PICK w \in pending : w.op = "wait" /\ w.stream = k.stream /\ w.at <= k.at
    BY <1>6 DEF Fence
  <2>2. w.at = k.at
    BY <1>1, <1>2, <2>1
  <2>3. w = k
    BY <1>1, <1>3, <2>2
  <2>4. QED
    BY <1>1, <2>1, <2>3
<1>7. QED
  BY <1>4, <1>5, <1>6 DEF Tied

\* No two kernels of the attention layers race: each runs only when every kernel before
\* it in program order that it conflicts with is done, for every number of layers and
\* placing of the sources, with auxiliary streams and without, across layers and steps.
THEOREM KernelsNeverRace == StreamsSpec => []NoRace
<1>1. Inv => NoRace
  BY InvNoRace
<1>2. QED
  BY <1>1, SpecInv, PTL
=============================================================================
