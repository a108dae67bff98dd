----------------------------- MODULE WireProofs -----------------------------
(***************************************************************************)
(* Proofs about what travels between a device slot and its pads.           *)
(*                                                                         *)
(* What has been sent and not yet been handled, in report6_buffer and on   *)
(* its way, is a sequence of packets.  The invariant follows what the      *)
(* reassembler will make of it.                                            *)
(***************************************************************************)
EXTENDS Wire, ProtocolProofs, FiniteSetTheorems

-----------------------------------------------------------------------------
(* Runs of the reassembler *)

IsInfo(raw) == HasFlag(raw[2], DeviceInfo)

\* What is under way after a packet, and what the packet completes.
After(c, raw) == IF IsInfo(raw) THEN c ELSE UnderWay(c, raw)
Made(c, raw)  == IF IsInfo(raw) THEN {} ELSE ToSet(Completed(c, raw))

\* From position k of a stream of packets on, run[j] is under way after packet
\* j, and everything that gets completed is in A.
Runs(c, in, k, A, run) ==
  /\ run \in [0..Len(in) -> Seq(Nat)]
  /\ run[k] = c
  /\ \A j \in 1..Len(in) : j > k =>
       run[j] = After(run[j - 1], in[j]) /\ Made(run[j - 1], in[j]) \subseteq A

Sound(c, in, k, A) == \E run : Runs(c, in, k, A, run)

\* A stream that breaks off.
LEMMA SoundPrefix ==
  ASSUME NEW c, NEW A, NEW in \in Seq(Packet), NEW pre \in Seq(Packet),
         NEW k \in 0..Len(pre), Len(pre) <= Len(in),
         \A j \in 1..Len(pre) : pre[j] = in[j],
         Sound(c, in, k, A)
  PROVE  Sound(c, pre, k, A)
<1>1. PICK run : Runs(c, in, k, A, run)
  BY DEF Sound
<1> DEFINE cut == [j \in 0..Len(pre) |-> run[j]]
           m == Len(pre)
           n == Len(in)
<1>2. m \in Nat /\ n \in Nat /\ m <= n /\ k \in 0..m
  OBVIOUS
<1>3. /\ run \in [0..n -> Seq(Nat)] /\ run[k] = c
      /\ \A j \in 1..n : j > k =>
           run[j] = After(run[j - 1], in[j]) /\ Made(run[j - 1], in[j]) \subseteq A
  BY <1>1 DEF Runs
<1>4. \A j \in 1..m : pre[j] = in[j]
  OBVIOUS
<1> HIDE DEF m, n
<1>5. cut \in [0..m -> Seq(Nat)] /\ \A j \in 0..m : cut[j] = run[j]
  <2>1. \A j \in 0..m : j \in 0..n
    BY <1>2
  <2> QED
    BY <1>3, <2>1 DEF m
<1> HIDE DEF cut
<1>6. ASSUME NEW j \in 1..m, j > k
      PROVE  cut[j] = After(cut[j - 1], pre[j]) /\ Made(cut[j - 1], pre[j]) \subseteq A
  <2>1. j \in 1..n /\ j \in 0..m /\ j - 1 \in 0..m
    BY <1>2
  <2> QED
    BY <1>3, <1>4, <1>5, <1>6, <2>1
<1>7. cut[k] = c
  BY <1>2, <1>3, <1>5
<1> QED
  BY <1>5, <1>6, <1>7 DEF Sound, Runs, m

\* A report on the pad's identity comes in between.
LEMMA SoundInsert ==
  ASSUME NEW c, NEW A, NEW in \in Seq(Packet), NEW out \in Seq(Packet),
         NEW m \in 0..Len(in), Len(out) = Len(in) + 1,
         \A j \in 1..m : out[j] = in[j], IsInfo(out[m + 1]),
         \A j \in (m + 2)..Len(out) : out[j] = in[j - 1],
         NEW k \in 0..Len(out),
         Sound(c, in, IF k <= m THEN k ELSE k - 1, A)
  PROVE  Sound(c, out, k, A)
<1> DEFINE n == Len(in)
           q == IF k <= m THEN k ELSE k - 1
           w == [j \in 0..(n + 1) |-> IF j <= m THEN j ELSE j - 1]
<1>1. n \in Nat /\ Len(out) = n + 1 /\ m \in 0..n /\ k \in 0..(n + 1)
  OBVIOUS
<1>2. PICK run : Runs(c, in, q, A, run)
  BY DEF Sound
<1>3. /\ run \in [0..n -> Seq(Nat)] /\ run[q] = c
      /\ \A j \in 1..n : j > q =>
           run[j] = After(run[j - 1], in[j]) /\ Made(run[j - 1], in[j]) \subseteq A
  BY <1>2 DEF Runs
<1> DEFINE long == [j \in 0..(n + 1) |-> run[w[j]]]
<1>4. /\ \A j \in 1..m : out[j] = in[j]
      /\ \A j \in (m + 2)..(n + 1) : out[j] = in[j - 1]
  BY <1>1
<1> HIDE DEF n
<1>5. \A j \in 0..(n + 1) : w[j] \in 0..n
  BY <1>1
<1>6. long \in [0..(n + 1) -> Seq(Nat)] /\ \A j \in 0..(n + 1) : long[j] = run[w[j]]
  BY <1>3, <1>5
<1> HIDE DEF long
<1>7. ASSUME NEW j \in 1..(n + 1), j > k
      PROVE  /\ long[j] = After(long[j - 1], out[j])
             /\ Made(long[j - 1], out[j]) \subseteq A
  <2>1. j \in 0..(n + 1) /\ j - 1 \in 0..(n + 1)
    BY <1>1
  <2>2. long[j] = run[w[j]] /\ long[j - 1] = run[w[j - 1]]
    BY <1>6, <2>1
  <2>3. CASE j <= m
    <3>1. w[j] = j /\ w[j - 1] = j - 1 /\ j \in 1..n /\ j > q /\ j \in 1..m
      BY <1>1, <1>7, <2>1, <2>3
    <3>2. out[j] = in[j]
      BY <1>4, <3>1
    <3> HIDE DEF w, q
    <3> QED
      BY <1>3, <2>2, <3>1, <3>2
  <2>4. CASE j = m + 1
    <3>1. w[j] = m /\ w[j - 1] = m
      BY <1>1, <2>1, <2>4
    <3>2. long[j] = long[j - 1]
      BY <2>2, <3>1
    <3> QED
      BY <2>4, <3>2 DEF After, Made
  <2>5. CASE j >= m + 2
    <3>1. /\ w[j] = j - 1 /\ w[j - 1] = (j - 1) - 1 /\ j - 1 \in 1..n
          /\ j - 1 > q /\ j \in (m + 2)..(n + 1)
      BY <1>1, <1>7, <2>1, <2>5
    <3>2. out[j] = in[j - 1]
      BY <1>4, <3>1
    <3> HIDE DEF w, q
    <3> QED
      BY <1>3, <2>2, <3>1, <3>2
  <2> QED
    BY <1>1, <2>3, <2>4, <2>5
<1>8. long[k] = c
  <2>1. w[k] = q
    BY <1>1
  <2> QED
    BY <1>1, <1>3, <1>6, <2>1
<1> QED
  BY <1>1, <1>6, <1>7, <1>8 DEF Sound, Runs

\* What has been handled is behind.
LEMMA SoundRest ==
  ASSUME NEW c, NEW A, NEW in \in Seq(Packet), NEW rest \in Seq(Packet),
         NEW m \in 0..Len(in), Len(rest) = Len(in) - m,
         \A j \in 1..Len(rest) : rest[j] = in[m + j],
         NEW k \in 0..Len(rest), Sound(c, in, m + k, A)
  PROVE  Sound(c, rest, k, A)
<1> DEFINE n == Len(in)
           r == Len(rest)
<1>1. n \in Nat /\ r \in Nat /\ m \in 0..n /\ r = n - m /\ k \in 0..r
  OBVIOUS
<1>2. PICK run : Runs(c, in, m + k, A, run)
  BY DEF Sound
<1>3. /\ run \in [0..n -> Seq(Nat)] /\ run[m + k] = c
      /\ \A j \in 1..n : j > m + k =>
           run[j] = After(run[j - 1], in[j]) /\ Made(run[j - 1], in[j]) \subseteq A
  BY <1>2 DEF Runs
<1>4. \A j \in 1..r : rest[j] = in[m + j]
  OBVIOUS
<1> DEFINE after == [j \in 0..r |-> run[m + j]]
<1> HIDE DEF n, r
<1>5. after \in [0..r -> Seq(Nat)] /\ \A j \in 0..r : after[j] = run[m + j]
  <2>1. \A j \in 0..r : m + j \in 0..n
    BY <1>1
  <2> QED
    BY <1>3, <2>1
<1> HIDE DEF after
<1>6. ASSUME NEW j \in 1..r, j > k
      PROVE  /\ after[j] = After(after[j - 1], rest[j])
             /\ Made(after[j - 1], rest[j]) \subseteq A
  <2>1. j \in 0..r /\ j - 1 \in 0..r /\ m + j \in 1..n /\ m + j > m + k
    BY <1>1, <1>6
  <2>2. m + (j - 1) = (m + j) - 1
    BY <1>1
  <2> QED
    BY <1>3, <1>4, <1>5, <2>1, <2>2
<1>7. after[k] = c
  BY <1>1, <1>3, <1>5
<1> QED
  BY <1>5, <1>6, <1>7 DEF Sound, Runs, r

\* Where one stream ends another one begins, whatever is under way there.
LEMMA SoundJoin ==
  ASSUME NEW c, NEW A, NEW B, A \subseteq B,
         NEW in \in Seq(Packet), NEW out \in Seq(Packet), Len(in) <= Len(out),
         \A j \in 1..Len(in) : out[j] = in[j],
         NEW k \in 0..Len(in), Sound(c, in, k, A),
         \A d \in Seq(Nat) : Sound(d, out, Len(in), B)
  PROVE  Sound(c, out, k, B)
<1> DEFINE m == Len(in)
           n == Len(out)
<1>1. m \in Nat /\ n \in Nat /\ m <= n /\ k \in 0..m
  OBVIOUS
<1>2. PICK one : Runs(c, in, k, A, one)
  BY DEF Sound
<1>3. /\ one \in [0..m -> Seq(Nat)] /\ one[k] = c
      /\ \A j \in 1..m : j > k =>
           one[j] = After(one[j - 1], in[j]) /\ Made(one[j - 1], in[j]) \subseteq A
  BY <1>2 DEF Runs
<1>4. one[m] \in Seq(Nat)
  BY <1>1, <1>3
<1>5. PICK two : Runs(one[m], out, m, B, two)
  BY <1>4 DEF Sound
<1>6. /\ two \in [0..n -> Seq(Nat)] /\ two[m] = one[m]
      /\ \A j \in 1..n : j > m =>
           two[j] = After(two[j - 1], out[j]) /\ Made(two[j - 1], out[j]) \subseteq B
  BY <1>5 DEF Runs
<1>7. \A j \in 1..m : out[j] = in[j]
  OBVIOUS
<1> DEFINE run == [j \in 0..n |-> IF j <= m THEN one[j] ELSE two[j]]
<1> HIDE DEF m, n
<1>8. /\ run \in [0..n -> Seq(Nat)]
      /\ \A j \in 0..n : run[j] = IF j <= m THEN one[j] ELSE two[j]
  BY <1>1, <1>3, <1>6
<1> HIDE DEF run
<1>9. ASSUME NEW j \in 1..n, j > k
      PROVE  run[j] = After(run[j - 1], out[j]) /\ Made(run[j - 1], out[j]) \subseteq B
  <2>1. j \in 0..n /\ j - 1 \in 0..n
    BY <1>1
  <2>2. CASE j <= m
    <3>1. run[j] = one[j] /\ run[j - 1] = one[j - 1] /\ j \in 1..m
      BY <1>1, <1>8, <2>1, <2>2
    <3> QED
      BY <1>3, <1>7, <1>9, <3>1
  <2>3. CASE j > m
    <3>1. run[j] = two[j]
      BY <1>1, <1>8, <2>1, <2>3
    <3>2. run[j - 1] = two[j - 1]
      <4>1. CASE j - 1 = m
        BY <1>6, <1>8, <2>1, <4>1
      <4>2. CASE j - 1 # m
        <5>1. ~(j - 1 <= m)
          BY <1>1, <2>1, <2>3, <4>2
        <5> QED
          BY <1>8, <2>1, <5>1
      <4> QED
        BY <4>1, <4>2
    <3> QED
      BY <1>6, <2>3, <3>1, <3>2
  <2> QED
    BY <1>1, <2>2, <2>3
<1>10. run[k] = c
  BY <1>1, <1>3, <1>8
<1> QED
  BY <1>8, <1>9, <1>10 DEF Sound, Runs, n

\* Packets that make up one answer, up to the last one: f[j] is what has been
\* gathered after the j-th.
LEMMA SoundTail ==
  ASSUME NEW c \in Seq(Nat), NEW A, NEW in \in Seq(Packet),
         NEW k \in 0..Len(in), NEW f, f[0] = c, k < Len(in),
         \A j \in 1..(Len(in) - k) :
           /\ ~IsInfo(in[k + j]) /\ f[j] \in Seq(Nat)
           /\ Gathered(f[j - 1], in[k + j]) = f[j]
           /\ HasFlag(in[k + j][2], EndOfCommand) <=> j = Len(in) - k,
         f[Len(in) - k] \in A
  PROVE  Sound(c, in, k, A)
<1> DEFINE n == Len(in)
           run == [j \in 0..n |-> IF j = n \/ j < k THEN <<>> ELSE f[j - k]]
<1>1. n \in Nat /\ k \in 0..n /\ k < n
  OBVIOUS
<1>2. \A j \in 1..(n - k) :
        /\ ~IsInfo(in[k + j]) /\ f[j] \in Seq(Nat)
        /\ Gathered(f[j - 1], in[k + j]) = f[j]
        /\ HasFlag(in[k + j][2], EndOfCommand) <=> j = n - k
  OBVIOUS
<1>3. f[n - k] \in A
  OBVIOUS
<1> HIDE DEF n
<1>4. \A j \in 0..(n - k) : f[j] \in Seq(Nat)
  BY <1>1, <1>2
<1>5. /\ run \in [0..n -> Seq(Nat)]
      /\ \A j \in 0..n : run[j] = IF j = n \/ j < k THEN <<>> ELSE f[j - k]
  <2>1. ASSUME NEW j \in 0..n, ~(j < k) PROVE f[j - k] \in Seq(Nat)
    <3>1. j - k \in 0..(n - k)
      BY <1>1, <2>1
    <3> QED
      BY <1>4, <3>1
  <2>2. <<>> \in Seq(Nat)
    OBVIOUS
  <2> QED
    BY <2>1, <2>2
<1> HIDE DEF run
<1>6. ASSUME NEW j \in 1..n, j > k
      PROVE  run[j] = After(run[j - 1], in[j]) /\ Made(run[j - 1], in[j]) \subseteq A
  <2> DEFINE i == j - k
  <2>1. /\ i \in 1..(n - k) /\ k + i = j /\ i - 1 = (j - 1) - k
        /\ j \in 0..n /\ j - 1 \in 0..n /\ j - 1 # n /\ ~(j - 1 < k) /\ ~(j < k)
        /\ (i = n - k <=> j = n)
    BY <1>1, <1>6
  <2>2. run[j - 1] = f[i - 1] /\ run[j] = IF j = n THEN <<>> ELSE f[i]
    BY <1>5, <2>1
  <2> HIDE DEF i
  <2>3. /\ ~IsInfo(in[j]) /\ Gathered(f[i - 1], in[j]) = f[i]
        /\ HasFlag(in[j][2], EndOfCommand) <=> j = n
    BY <1>2, <2>1
  <2>4. UnderWay(f[i - 1], in[j]) = IF j = n THEN <<>> ELSE f[i]
    BY <2>3 DEF UnderWay
  <2>5. ToSet(Completed(f[i - 1], in[j])) \subseteq A
    <3>1. Completed(f[i - 1], in[j]) \in {<<>>, <<f[i]>>}
      BY <2>3 DEF Completed
    <3>2. CASE j = n
      <4>1. f[i] \in A
        BY <1>3, <2>1, <3>2
      <4>2. ToSet(<<f[i]>>) = {f[i]} /\ ToSet(<<>>) = {}
        BY DEF ToSet
      <4> QED
        BY <3>1, <4>1, <4>2
    <3>3. CASE j # n
      <4>1. Completed(f[i - 1], in[j]) = <<>>
        BY <2>3, <3>3 DEF Completed
      <4>2. ToSet(<<>>) = {}
        BY DEF ToSet
      <4> QED
        BY <4>1, <4>2
    <3> QED
      BY <3>2, <3>3
  <2> QED
    BY <2>2, <2>3, <2>4, <2>5 DEF After, Made
<1>7. run[k] = c
  <2>1. k \in 0..n /\ k # n /\ ~(k < k) /\ k - k = 0
    BY <1>1
  <2> QED
    BY <1>5, <2>1
<1> QED
  BY <1>1, <1>5, <1>6, <1>7 DEF Sound, Runs, n

-----------------------------------------------------------------------------
(* Answers, commands and their reports *)

\* What Received has put together after each packet.
Gathers(packets, V, f) ==
  /\ f \in [0..Len(packets) -> Seq(V)] /\ f[0] = <<>>
  /\ \A j \in 1..Len(packets) : f[j] = Gathered(f[j - 1], packets[j])
  /\ Received(packets) = f[Len(packets)]

LEMMA ReceivedFold ==
  ASSUME NEW V, NEW X, NEW p \in Seq(X),
         \A i \in 1..Len(p) : Payload(p[i]) \in Seq(V)
  PROVE  \E f : Gathers(p, V, f)
<1> DEFINE n == Len(p)
           step == [i \in 1..n |-> [v \in Seq(V) |-> Gathered(v, p[i])]]
           Iter(h) == h = [s \in SUBSET DOMAIN p |->
                            IF s = {} THEN <<>>
                            ELSE Gathered(h[s \ {Max(s)}], p[Max(s)])]
<1>1. n \in Nat /\ DOMAIN p = 1..n
  OBVIOUS
<1>2. \A i \in 1..n : Payload(p[i]) \in Seq(V)
  OBVIOUS
<1>3. ASSUME NEW i \in 1..n, NEW v \in Seq(V) PROVE Gathered(v, p[i]) \in Seq(V)
  <2>1. Payload(p[i]) \in Seq(V) /\ <<>> \in Seq(V)
    BY <1>2
  <2> DEFINE t == Payload(p[i])
             s == IF HasFlag(p[i][2], StartOfCommand) THEN <<>> ELSE v
  <2>2. s \in Seq(V) /\ t \in Seq(V)
    BY <2>1
  <2>3. Gathered(v, p[i]) = s \o t
    BY DEF Gathered
  <2> HIDE DEF s, t
  <2> QED
    BY <2>2, <2>3
<1>4. /\ Received(p) = (CHOOSE h : Iter(h))[DOMAIN p]
  BY DEF Received, FoldLeft, MapThenFoldSet, Gathered
<1> HIDE DEF n
<1>5. step \in [1..n -> [Seq(V) -> Seq(V)]]
  BY <1>3
<1>6. \A i \in 1..n, v \in Seq(V) : step[i][v] = Gathered(v, p[i])
  OBVIOUS
<1> HIDE DEF step
<1>7. PICK h \in [SUBSET (1..n) -> Seq(V)] : FoldsTo(n, <<>>, step, h)
  <2>1. <<>> \in Seq(V)
    OBVIOUS
  <2> QED
    BY <1>1, <1>5, <2>1, FoldTable
<1>8. Iter(h)
  <2>1. ASSUME NEW s \in SUBSET (1..n)
        PROVE  h[s] = IF s = {} THEN <<>> ELSE Gathered(h[s \ {Max(s)}], p[Max(s)])
    <3>1. CASE s = {}
      BY <1>7, <3>1 DEF FoldsTo
    <3>2. CASE s # {}
      <4>1. Max(s) \in 1..n
        BY <1>1, <3>2, MaxOf
      <4>2. h[s \ {Max(s)}] \in Seq(V)
        BY <1>7
      <4>3. h[s] = step[Max(s)][h[s \ {Max(s)}]]
        BY <1>7, <3>2 DEF FoldsTo
      <4> QED
        BY <1>6, <3>2, <4>1, <4>2, <4>3
    <3> QED
      BY <3>1, <3>2
  <2>2. h = [s \in SUBSET (1..n) |-> h[s]]
    BY <1>7
  <2>3. h = [s \in SUBSET (1..n) |->
              IF s = {} THEN <<>> ELSE Gathered(h[s \ {Max(s)}], p[Max(s)])]
    BY <2>1, <2>2, Zenon
  <2> QED
    BY <1>1, <2>3
<1> DEFINE g == CHOOSE h2 : Iter(h2)
<1>9. Iter(g)
  <2> HIDE DEF Iter
  <2> QED
    BY <1>8
<1>10. Received(p) = g[1..n]
  BY <1>1, <1>4
<1> HIDE DEF g
<1>11. ASSUME NEW s \in SUBSET (1..n)
       PROVE  g[s] = IF s = {} THEN <<>> ELSE Gathered(g[s \ {Max(s)}], p[Max(s)])
  BY <1>1, <1>9
<1> DEFINE f == [k \in 0..n |-> g[1..k]]
<1>12. f[0] = <<>>
  <2>1. 1..0 = {} /\ 0 \in 0..n
    BY <1>1
  <2> QED
    BY <1>11, <2>1
<1>13. ASSUME NEW k \in 1..n PROVE f[k] = Gathered(f[k - 1], p[k])
  <2>1. /\ 1..k \in SUBSET (1..n) /\ 1..k # {} /\ Max(1..k) = k
        /\ (1..k) \ {k} = 1..(k - 1)
    BY <1>1, Initial
  <2>2. g[1..k] = Gathered(g[1..(k - 1)], p[k])
    BY <1>11, <2>1
  <2>3. k \in 0..n /\ k - 1 \in 0..n
    BY <1>1
  <2> QED
    BY <2>2, <2>3
<1>14. \A k \in 0..n : f[k] \in Seq(V)
  <2> HIDE DEF f
  <2>1. f[0] \in Seq(V)
    BY <1>12
  <2>2. \A k \in 1..n : f[k - 1] \in Seq(V) => f[k] \in Seq(V)
    BY <1>3, <1>13
  <2> DEFINE S == Seq(V)
  <2>3. f[0] \in S /\ \A k \in 1..n : f[k - 1] \in S => f[k] \in S
    BY <2>1, <2>2
  <2> HIDE DEF S
  <2>4. \A k \in 0..n : f[k] \in S
    BY <1>1, <2>3, Along
  <2> QED
    BY <2>4 DEF S
<1>15. f \in [0..n -> Seq(V)] /\ f[n] = g[1..n]
  BY <1>1, <1>14
<1> HIDE DEF f
<1>16. Gathers(p, V, f)
  BY <1>10, <1>12, <1>13, <1>15 DEF Gathers, n
<1> QED
  BY <1>16

LEMMA FlagTable ==
  /\ \A f \in {0, 1, 3} : ~HasFlag(f, StartOfCommand)
  /\ \A f \in {4, 5, 7} : HasFlag(f, StartOfCommand)
  /\ \A f \in {0, 4} : ~HasFlag(f, EndOfCommand)
  /\ \A f \in {1, 3, 5, 7} : HasFlag(f, EndOfCommand)
  /\ \A f \in {0, 1, 3, 4, 5, 7} : ~HasFlag(f, DeviceInfo)
  /\ \A f \in {3, 7} : HasFlag(f, HostCmdFinished)
BY DEF HasFlag, StartOfCommand, EndOfCommand, DeviceInfo, HostCmdFinished

\* A command that is cut up into reports arrives as it was: the pad puts
\* together what send_command has been given.
THEOREM CommandArrives ==
  ASSUME NEW V, Nat \subseteq V, NEW cmd \in Seq(V)
  PROVE  Received(BuildCommandPackets(cmd)) = cmd
<1> DEFINE chunks == Chunks(cmd, MaxPayload)
           n == Len(chunks)
           flags(i) == FlagIf(i = 1, StartOfCommand) + FlagIf(i = n, EndOfCommand)
           report(i) == HidReport(HidReportCommand, flags(i), chunks[i])
           p == [i \in 1..n |-> report(i)]
<1>1. MaxPayload \in Nat \ {0}
  BY ProtocolAssumption
<1>2. /\ chunks \in Seq(Seq(V))
      /\ \E got \in [0..n -> Seq(V)] : Assembles(chunks, MaxPayload, cmd, got)
  BY <1>1, ChunkFacts
<1>3. PICK got \in [0..n -> Seq(V)] : Assembles(chunks, MaxPayload, cmd, got)
  BY <1>2
<1>4. n \in Nat /\ n >= 1 /\ DOMAIN chunks = 1..n
  BY <1>2, <1>3 DEF Assembles
<1>5. BuildCommandPackets(cmd) = p
  BY <1>4 DEF BuildCommandPackets
<1>6. /\ got[0] = <<>> /\ got[n] = cmd
      /\ \A k \in 1..n : /\ Len(chunks[k]) <= MaxPayload
                         /\ got[k] = got[k - 1] \o chunks[k]
  BY <1>3 DEF Assembles
<1>7. \A i \in 1..n : chunks[i] \in Seq(V)
  BY <1>2
<1> HIDE DEF chunks, n
<1>8. ASSUME NEW i \in 1..n
      PROVE  /\ report(i) \in Seq(V)
             /\ Payload(report(i)) = chunks[i]
             /\ HasFlag(report(i)[2], StartOfCommand) <=> i = 1
  <2>1. /\ flags(i) \in Nat
        /\ HasFlag(flags(i), StartOfCommand) <=> i = 1
    <3>1. CASE i = 1
      <4>1. flags(i) \in {4, 5}
        BY <3>1 DEF FlagIf, StartOfCommand, EndOfCommand
      <4> QED
        BY <3>1, <4>1, FlagTable
    <3>2. CASE i # 1
      <4>1. flags(i) \in {0, 1}
        BY <3>2 DEF FlagIf, StartOfCommand, EndOfCommand
      <4> QED
        BY <3>2, <4>1, FlagTable
    <3> QED
      BY <3>1, <3>2
  <2>2. HidReportCommand \in Nat
    BY DEF HidReportCommand
  <2> HIDE DEF flags
  <2>3. IsReport(report(i), V, HidReportCommand, flags(i), chunks[i])
    BY <1>6, <1>7, <2>1, <2>2, ReportFacts
  <2> QED
    BY <2>1, <2>3 DEF IsReport
<1> HIDE DEF report
<1>9. /\ p \in Seq(Seq(V)) /\ Len(p) = n /\ \A i \in 1..n : p[i] = report(i)
  BY <1>4, <1>8
<1> HIDE DEF p
<1>10. \A i \in 1..Len(p) : Payload(p[i]) \in Seq(V)
  <2>1. ASSUME NEW i \in 1..n PROVE Payload(p[i]) \in Seq(V)
    <3>1. p[i] = report(i) /\ Payload(report(i)) = chunks[i] /\ chunks[i] \in Seq(V)
      BY <1>7, <1>8, <1>9
    <3> QED
      BY <3>1
  <2> QED
    BY <1>9, <2>1
<1>11. PICK f : Gathers(p, V, f)
  BY <1>9, <1>10, ReceivedFold
<1>12. /\ f[0] = <<>> /\ \A j \in 1..n : f[j] = Gathered(f[j - 1], p[j])
       /\ Received(p) = f[n]
  BY <1>9, <1>11 DEF Gathers
<1> DEFINE Good == {k \in Nat : k <= n => f[k] = got[k]}
<1>13. 0 \in Good
  BY <1>6, <1>12
<1>14. ASSUME NEW k \in Good PROVE k + 1 \in Good
  <2>1. k \in Nat /\ k + 1 \in Nat
    OBVIOUS
  <2>2. ASSUME k + 1 <= n PROVE f[k + 1] = got[k + 1]
    <3>1. k + 1 \in 1..n /\ (k + 1) - 1 = k /\ f[k] = got[k] /\ k <= n
      BY <1>4, <2>1, <2>2
    <3>2. f[k + 1] = Gathered(got[k], p[k + 1])
      BY <1>12, <3>1
    <3>3. got[k + 1] = got[k] \o chunks[k + 1]
      BY <1>6, <3>1
    <3>4. /\ Payload(p[k + 1]) = chunks[k + 1]
          /\ HasFlag(p[k + 1][2], StartOfCommand) <=> k + 1 = 1
      BY <1>8, <1>9, <3>1
    <3>5. k + 1 = 1 => got[k] = <<>>
      BY <1>6, <2>1
    <3> HIDE DEF Good
    <3> QED
      BY <3>2, <3>3, <3>4, <3>5 DEF Gathered
  <2> QED
    BY <2>1, <2>2
<1>15. Good = Nat
  <2> HIDE DEF Good
  <2>1. Good \subseteq Nat
    BY DEF Good
  <2> QED
    BY <1>13, <1>14, <2>1, SetInduction
<1>16. f[n] = got[n]
  <2>1. n \in Good
    <3> HIDE DEF Good
    <3> QED
      BY <1>4, <1>15
  <2>2. n <= n
    BY <1>4
  <2> QED
    BY <2>1, <2>2
<1> QED
  BY <1>5, <1>6, <1>12, <1>16

\* Reports of which poll() keeps a packet.
Report == {r \in Seq(Nat) : Kept(r) \in Packet}

\* What ends an answer says that the command is finished.
Ending(raw) == HasFlag(raw[2], EndOfCommand) => HasFlag(raw[2], HostCmdFinished)

\* The reports carry that answer; got[j] is what has come of it with the j-th.
Carries(reports, answer, got) ==
  /\ reports \in Seq(Report) /\ Len(reports) >= 1
  /\ got \in [0..Len(reports) -> Seq(Nat)]
  /\ got[0] = <<>> /\ got[Len(reports)] = answer
  /\ \A j \in 1..Len(reports) :
       /\ ~IsInfo(Kept(reports[j]))
       /\ Kept(reports[j])[2] = reports[j][2]
       /\ Payload(Kept(reports[j])) = Payload(reports[j])
       /\ HasFlag(reports[j][2], StartOfCommand) <=> j = 1
       /\ HasFlag(reports[j][2], EndOfCommand) <=> j = Len(reports)
       /\ Ending(reports[j])
       /\ got[j] = got[j - 1] \o Payload(reports[j])

LEMMA AnswerReports ==
  ASSUME NEW answer \in Seq(Nat)
  PROVE  \E got : Carries(Reports(answer), answer, got)
<1> DEFINE chunks == Chunks(answer, MaxPayload)
           n == Len(chunks)
           flags(i) == FlagIf(i = 1, StartOfCommand)
                         + FlagIf(i = n, EndOfCommand + HostCmdFinished)
           report(i) == HidReport(HidReportData, flags(i), chunks[i])
           p == [i \in 1..n |-> report(i)]
<1>1. MaxPayload \in Nat \ {0}
  BY ProtocolAssumption
<1>2. /\ chunks \in Seq(Seq(Nat))
      /\ \E got \in [0..n -> Seq(Nat)] : Assembles(chunks, MaxPayload, answer, got)
  BY <1>1, ChunkFacts
<1>3. PICK got \in [0..n -> Seq(Nat)] : Assembles(chunks, MaxPayload, answer, got)
  BY <1>2
<1>4. n \in Nat /\ n >= 1 /\ DOMAIN chunks = 1..n
  BY <1>2, <1>3 DEF Assembles
<1>5. Reports(answer) = p
  BY <1>4 DEF Reports
<1>6. /\ got[0] = <<>> /\ got[n] = answer
      /\ \A k \in 1..n : /\ Len(chunks[k]) <= MaxPayload
                         /\ got[k] = got[k - 1] \o chunks[k]
  BY <1>3 DEF Assembles
<1>7. \A i \in 1..n : chunks[i] \in Seq(Nat)
  BY <1>2
<1> HIDE DEF chunks, n
<1>8. ASSUME NEW i \in 1..n
      PROVE  /\ report(i) \in Report /\ ~IsInfo(Kept(report(i)))
             /\ Kept(report(i))[2] = report(i)[2]
             /\ Payload(report(i)) = chunks[i] /\ Payload(Kept(report(i))) = chunks[i]
             /\ HasFlag(report(i)[2], StartOfCommand) <=> i = 1
             /\ HasFlag(report(i)[2], EndOfCommand) <=> i = n
             /\ Ending(report(i))
  <2>1. /\ flags(i) \in Nat
        /\ HasFlag(flags(i), StartOfCommand) <=> i = 1
        /\ HasFlag(flags(i), EndOfCommand) <=> i = n
        /\ HasFlag(flags(i), EndOfCommand) => HasFlag(flags(i), HostCmdFinished)
        /\ ~HasFlag(flags(i), DeviceInfo)
    <3>1. CASE i = 1 /\ i = n
      <4>1. flags(i) = 7
        BY <3>1 DEF FlagIf, StartOfCommand, EndOfCommand, HostCmdFinished
      <4> HIDE DEF flags
      <4> QED
        BY <3>1, <4>1, FlagTable
    <3>2. CASE i = 1 /\ i # n
      <4>1. flags(i) = 4
        BY <3>2 DEF FlagIf, StartOfCommand, EndOfCommand, HostCmdFinished
      <4> HIDE DEF flags
      <4> QED
        BY <3>2, <4>1, FlagTable
    <3>3. CASE i # 1 /\ i = n
      <4>1. flags(i) = 3
        BY <3>3 DEF FlagIf, StartOfCommand, EndOfCommand, HostCmdFinished
      <4> HIDE DEF flags
      <4> QED
        BY <3>3, <4>1, FlagTable
    <3>4. CASE i # 1 /\ i # n
      <4>1. flags(i) = 0
        BY <3>4 DEF FlagIf, StartOfCommand, EndOfCommand, HostCmdFinished
      <4> HIDE DEF flags
      <4> QED
        BY <3>4, <4>1, FlagTable
    <3> QED
      BY <3>1, <3>2, <3>3, <3>4
  <2>2. HidReportData \in Nat
    BY DEF HidReportData
  <2> HIDE DEF flags
  <2>3. IsReport(report(i), Nat, HidReportData, flags(i), chunks[i])
    BY <1>6, <1>7, <2>1, <2>2, ReportFacts
  <2>4. IsPacket(Kept(report(i)), flags(i), chunks[i])
    BY <1>6, <1>7, <2>1, KeptFacts
  <2> HIDE DEF report
  <2> QED
    BY <2>1, <2>3, <2>4 DEF IsReport, IsPacket, Report, IsInfo, Ending
<1> HIDE DEF report
<1>9. /\ p \in Seq(Report) /\ Len(p) = n /\ \A i \in 1..n : p[i] = report(i)
  BY <1>4, <1>8
<1> HIDE DEF p
<1>10. ASSUME NEW j \in 1..n
       PROVE  /\ ~IsInfo(Kept(p[j])) /\ Kept(p[j])[2] = p[j][2]
              /\ Payload(Kept(p[j])) = Payload(p[j])
              /\ HasFlag(p[j][2], StartOfCommand) <=> j = 1
              /\ HasFlag(p[j][2], EndOfCommand) <=> j = n
              /\ Ending(p[j])
              /\ got[j] = got[j - 1] \o Payload(p[j])
  <2> DEFINE r == report(j)
  <2>1. p[j] = r /\ got[j] = got[j - 1] \o chunks[j]
    BY <1>6, <1>9
  <2>2. /\ r \in Report /\ ~IsInfo(Kept(r)) /\ Kept(r)[2] = r[2]
        /\ Payload(r) = chunks[j] /\ Payload(Kept(r)) = chunks[j]
        /\ HasFlag(r[2], StartOfCommand) <=> j = 1
        /\ HasFlag(r[2], EndOfCommand) <=> j = n
        /\ Ending(r)
    BY <1>8
  <2> HIDE DEF r
  <2> QED
    BY <2>1, <2>2
<1>11. got \in [0..Len(p) -> Seq(Nat)]
  BY <1>9
<1>12. Carries(p, answer, got)
  BY <1>4, <1>6, <1>9, <1>10, <1>11 DEF Carries
<1> QED
  BY <1>5, <1>12

\* The packets poll() makes of reports.
KeptOf(reports) == [i \in 1..Len(reports) |-> Kept(reports[i])]

LEMMA KeptOfType ==
  ASSUME NEW reports \in Seq(Report)
  PROVE  /\ KeptOf(reports) \in Seq(Packet)
         /\ Len(KeptOf(reports)) = Len(reports)
         /\ \A j \in 1..Len(reports) : KeptOf(reports)[j] = Kept(reports[j])
<1>1. Len(reports) \in Nat /\ \A j \in 1..Len(reports) : reports[j] \in Report
  OBVIOUS
<1>2. \A j \in 1..Len(reports) : Kept(reports[j]) \in Packet
  BY <1>1 DEF Report
<1> QED
  BY <1>1, <1>2 DEF KeptOf

\* An answer is sent after what is on its way already.
LEMMA SoundAnswered ==
  ASSUME NEW c, NEW A, NEW in \in Seq(Packet), NEW out \in Seq(Packet),
         NEW answer, NEW reports, NEW got, Carries(reports, answer, got),
         Len(out) = Len(in) + Len(reports),
         \A j \in 1..Len(in) : out[j] = in[j],
         \A j \in 1..Len(reports) : out[Len(in) + j] = Kept(reports[j]),
         NEW k \in 0..Len(in), Sound(c, in, k, A)
  PROVE  Sound(c, out, k, A \cup {answer})
<1> DEFINE m == Len(in)
           n == Len(reports)
           B == A \cup {answer}
<1>1. m \in Nat /\ n \in Nat /\ n >= 1 /\ Len(out) = m + n
  BY DEF Carries
<1>2. /\ got \in [0..n -> Seq(Nat)] /\ got[0] = <<>> /\ got[n] = answer
      /\ \A j \in 1..n :
           /\ ~IsInfo(Kept(reports[j]))
           /\ Kept(reports[j])[2] = reports[j][2]
           /\ Payload(Kept(reports[j])) = Payload(reports[j])
           /\ HasFlag(reports[j][2], StartOfCommand) <=> j = 1
           /\ HasFlag(reports[j][2], EndOfCommand) <=> j = n
           /\ got[j] = got[j - 1] \o Payload(reports[j])
  BY DEF Carries
<1>3. \A j \in 1..n : out[m + j] = Kept(reports[j])
  OBVIOUS
<1>4. ASSUME NEW d \in Seq(Nat) PROVE Sound(d, out, m, B)
  <2> DEFINE f == [j \in 0..n |-> IF j = 0 THEN d ELSE got[j]]
  <2>1. m \in 0..Len(out) /\ m < Len(out) /\ Len(out) - m = n
    BY <1>1
  <2>2. f[0] = d /\ \A j \in 1..n : f[j] = got[j] /\ got[j] \in Seq(Nat)
    BY <1>1, <1>2
  <2>3. ASSUME NEW j \in 1..n
        PROVE  /\ ~IsInfo(out[m + j]) /\ f[j] \in Seq(Nat)
               /\ Gathered(f[j - 1], out[m + j]) = f[j]
               /\ HasFlag(out[m + j][2], EndOfCommand) <=> j = n
    <3> DEFINE raw == Kept(reports[j])
               t == Payload(reports[j])
    <3>1. /\ out[m + j] = raw /\ ~IsInfo(raw) /\ Payload(raw) = t
          /\ HasFlag(raw[2], StartOfCommand) <=> j = 1
          /\ HasFlag(raw[2], EndOfCommand) <=> j = n
          /\ got[j] = got[j - 1] \o t
      BY <1>2, <1>3
    <3>2. f[j] = got[j] /\ f[j] \in Seq(Nat)
      BY <2>2
    <3> HIDE DEF raw, t
    <3>3. CASE j = 1
      <4>1. got[j - 1] = <<>>
        BY <1>2, <3>3
      <4>2. Gathered(f[j - 1], raw) = <<>> \o t
        BY <3>1, <3>3 DEF Gathered
      <4> QED
        BY <3>1, <3>2, <4>1, <4>2
    <3>4. CASE j # 1
      <4>1. f[j - 1] = got[j - 1]
        <5>1. j - 1 \in 1..n
          BY <1>1, <3>4
        <5> QED
          BY <2>2, <5>1
      <4>2. Gathered(f[j - 1], raw) = f[j - 1] \o t
        BY <3>1, <3>4 DEF Gathered
      <4> QED
        BY <3>1, <3>2, <4>1, <4>2
    <3> QED
      BY <3>3, <3>4
  <2>4. f[n] \in B
    BY <1>1, <1>2, <2>2
  <2> HIDE DEF f, B, n, m
  <2> QED
    BY <2>1, <2>2, <2>3, <2>4, SoundTail
<1> HIDE DEF B
<1>5. A \subseteq B
  BY DEF B
<1>6. Len(in) <= Len(out)
  BY <1>1
<1>7. \A d \in Seq(Nat) : Sound(d, out, Len(in), B)
  BY <1>4
<1>8. Sound(c, out, k, B)
  BY <1>5, <1>6, <1>7, SoundJoin
<1> QED
  BY <1>8 DEF B

\* Reports that belong to one answer, up to its end.
OneAnswer(reports) ==
  /\ reports \in Seq(Report)
  /\ \A j \in 1..Len(reports) :
       /\ ~IsInfo(Kept(reports[j]))
       /\ Kept(reports[j])[2] = reports[j][2]
       /\ Payload(Kept(reports[j])) = Payload(reports[j])
       /\ HasFlag(reports[j][2], EndOfCommand) <=> j = Len(reports)
       /\ Ending(reports[j])

LEMMA SoundNone ==
  ASSUME NEW c \in Seq(Nat), NEW A, NEW in \in Seq(Packet)
  PROVE  Sound(c, in, Len(in), A)
<1> DEFINE n == Len(in)
           run == [j \in 0..n |-> c]
<1>1. n \in Nat
  OBVIOUS
<1> HIDE DEF n
<1>2. run \in [0..n -> Seq(Nat)] /\ run[n] = c /\ \A j \in 1..n : ~(j > n)
  BY <1>1
<1> HIDE DEF run
<1>3. Runs(c, in, n, A, run)
  BY <1>2 DEF Runs, n
<1> QED
  BY <1>3 DEF Sound, n

\* Wherever the device comes in, it gets an end of what the pad was sending.
LEMMA SoundLeft ==
  ASSUME NEW reports, OneAnswer(reports), NEW k \in 0..Len(reports)
  PROVE  Sound(<<>>, KeptOf(reports), k, Ends(reports))
<1> DEFINE in == KeptOf(reports)
           n == Len(reports)
           p == SubSeq(reports, k + 1, n)
<1>1. reports \in Seq(Report) /\ n \in Nat /\ k \in 0..n /\ <<>> \in Seq(Nat)
  BY DEF OneAnswer
<1>2. in \in Seq(Packet) /\ Len(in) = n /\ \A j \in 1..n : in[j] = Kept(reports[j])
  BY <1>1, KeptOfType
<1>3. \A j \in 1..n :
        /\ ~IsInfo(Kept(reports[j]))
        /\ Kept(reports[j])[2] = reports[j][2]
        /\ Payload(Kept(reports[j])) = Payload(reports[j])
        /\ HasFlag(reports[j][2], EndOfCommand) <=> j = n
  BY DEF OneAnswer
<1>4. CASE k = n
  <2> HIDE DEF in, n
  <2>1. Sound(<<>>, in, Len(in), Ends(reports))
    BY <1>1, <1>2, SoundNone
  <2> QED
    BY <1>2, <1>4, <2>1 DEF in
<1>5. CASE k # n
  <2>1. k < n /\ n - k \in Nat
    BY <1>1, <1>5
  <2>2. \A i \in 1..n : reports[i] \in Report
    BY <1>1
  <2>3. /\ p \in Seq(Report) /\ Len(p) = n - k
        /\ \A j \in 1..(n - k) : p[j] = reports[k + j]
    <3> HIDE DEF n
    <3>1. \A i \in (k + 1)..n : reports[i] \in Report
      BY <1>1, <2>2
    <3>2. /\ p \in Seq(Report)
          /\ Len(p) = IF k + 1 <= n THEN n - (k + 1) + 1 ELSE 0
          /\ \A i \in 1..(n - (k + 1) + 1) : p[i] = reports[k + 1 + i - 1]
      BY <1>1, <3>1, SubSeqProperties
    <3> HIDE DEF p
    <3>3. Len(p) = n - k
      BY <1>1, <2>1, <3>2
    <3>4. ASSUME NEW j \in 1..(n - k) PROVE p[j] = reports[k + j]
      <4>1. j \in 1..(n - (k + 1) + 1) /\ k + 1 + j - 1 = k + j
        BY <1>1, <2>1
      <4> QED
        BY <3>2, <4>1
    <3> QED
      BY <3>2, <3>3, <3>4
  <2>4. Received(p) \in Ends(reports)
    <3>1. k + 1 \in DOMAIN reports
      BY <1>1, <2>1
    <3> QED
      BY <3>1 DEF Ends
  <2> HIDE DEF p, n, in
  <2>5. ASSUME NEW j \in 1..(n - k)
        PROVE  /\ k + j \in 1..n /\ in[k + j] = Kept(p[j])
               /\ ~IsInfo(in[k + j]) /\ in[k + j][2] = p[j][2]
               /\ Payload(in[k + j]) = Payload(p[j])
               /\ HasFlag(in[k + j][2], EndOfCommand) <=> j = n - k
    <3>1. k + j \in 1..n /\ (k + j = n <=> j = n - k)
      BY <1>1, <2>1
    <3>2. p[j] = reports[k + j] /\ in[k + j] = Kept(reports[k + j])
      BY <1>2, <2>3, <3>1
    <3>3. /\ ~IsInfo(Kept(reports[k + j]))
          /\ Kept(reports[k + j])[2] = reports[k + j][2]
          /\ Payload(Kept(reports[k + j])) = Payload(reports[k + j])
          /\ HasFlag(reports[k + j][2], EndOfCommand) <=> k + j = n
      BY <1>3, <3>1
    <3> QED
      BY <3>1, <3>2, <3>3
  <2>6. \A j \in 1..(n - k) : Payload(p[j]) \in Seq(Nat)
    <3>1. ASSUME NEW raw \in Packet PROVE Payload(raw) \in Seq(Nat)
      <4>1. raw \in Seq(Nat) /\ Len(raw) = 3 + raw[3] /\ raw[3] \in Nat
        BY DEF Packet
      <4>2. \A i \in 4..(3 + raw[3]) : raw[i] \in Nat
        <5>1. \A i \in 1..Len(raw) : raw[i] \in Nat
          BY <4>1
        <5>2. \A i \in 4..(3 + raw[3]) : i \in 1..Len(raw)
          BY <4>1
        <5> QED
          BY <5>1, <5>2
      <4>3. 4 \in Int /\ 3 + raw[3] \in Int
        BY <4>1
      <4>4. SubSeq(raw, 4, 3 + raw[3]) \in Seq(Nat)
        BY <4>2, <4>3, SubSeqProperties
      <4> QED
        BY <4>4 DEF Payload
    <3>2. ASSUME NEW j \in 1..(n - k) PROVE Payload(p[j]) \in Seq(Nat)
      <4>1. k + j \in 1..n /\ in[k + j] \in Packet /\ Payload(in[k + j]) = Payload(p[j])
        BY <1>2, <2>5
      <4> QED
        BY <3>1, <4>1
    <3> QED
      BY <3>2
  <2>7. \A i \in 1..Len(p) : Payload(p[i]) \in Seq(Nat)
    BY <2>3, <2>6
  <2>8. PICK f : Gathers(p, Nat, f)
    BY <2>3, <2>7, ReceivedFold
  <2>9. /\ f \in [0..(n - k) -> Seq(Nat)] /\ f[0] = <<>>
        /\ \A j \in 1..(n - k) : f[j] = Gathered(f[j - 1], p[j])
        /\ f[n - k] \in Ends(reports)
    BY <2>3, <2>4, <2>8 DEF Gathers
  <2>10. ASSUME NEW j \in 1..(Len(in) - k)
         PROVE  /\ ~IsInfo(in[k + j]) /\ f[j] \in Seq(Nat)
                /\ Gathered(f[j - 1], in[k + j]) = f[j]
                /\ HasFlag(in[k + j][2], EndOfCommand) <=> j = Len(in) - k
    <3>1. j \in 1..(n - k) /\ j \in 0..(n - k)
      BY <1>1, <1>2, <2>1
    <3>2. /\ ~IsInfo(in[k + j]) /\ in[k + j][2] = p[j][2]
          /\ Payload(in[k + j]) = Payload(p[j])
          /\ HasFlag(in[k + j][2], EndOfCommand) <=> j = n - k
      BY <2>5, <3>1
    <3>3. f[j] = Gathered(f[j - 1], p[j]) /\ f[j] \in Seq(Nat)
      BY <2>9, <3>1
    <3>4. Gathered(f[j - 1], in[k + j]) = Gathered(f[j - 1], p[j])
      BY <3>2 DEF Gathered
    <3> QED
      BY <1>2, <3>2, <3>3, <3>4
  <2>11. k \in 0..Len(in) /\ k < Len(in) /\ f[Len(in) - k] \in Ends(reports)
    BY <1>1, <1>2, <2>1, <2>9
  <2>12. Sound(<<>>, in, k, Ends(reports))
    BY <1>1, <1>2, <2>9, <2>10, <2>11, SoundTail
  <2> QED
    BY <2>12 DEF in
<1> QED
  BY <1>4, <1>5

LEMMA LeftOverReports ==
  ASSUME NEW answer \in Seq(Nat), NEW reports \in {<<>>, Tail(Reports(answer))}
  PROVE  OneAnswer(reports)
<1>1. PICK got : Carries(Reports(answer), answer, got)
  BY AnswerReports
<1> DEFINE all == Reports(answer)
           n == Len(all)
<1>5. Carries(all, answer, got)
  BY <1>1
<1> HIDE DEF all
<1>2. /\ all \in Seq(Report) /\ n \in Nat /\ n >= 1
      /\ \A j \in 1..n :
           /\ ~IsInfo(Kept(all[j])) /\ Kept(all[j])[2] = all[j][2]
           /\ Payload(Kept(all[j])) = Payload(all[j])
           /\ HasFlag(all[j][2], EndOfCommand) <=> j = n
           /\ Ending(all[j])
  <2>1. all \in Seq(Report) /\ n >= 1
    BY <1>5 DEF Carries
  <2>2. n \in Nat
    BY <2>1
  <2>3. \A j \in 1..n :
           /\ ~IsInfo(Kept(all[j])) /\ Kept(all[j])[2] = all[j][2]
           /\ Payload(Kept(all[j])) = Payload(all[j])
           /\ HasFlag(all[j][2], EndOfCommand) <=> j = n
           /\ Ending(all[j])
    BY <1>5 DEF Carries
  <2> QED
    BY <2>1, <2>2, <2>3
<1>3. CASE reports = <<>>
  BY <1>3 DEF OneAnswer
<1>4. CASE reports = Tail(all)
  <2>1. /\ reports \in Seq(Report) /\ Len(reports) = n - 1
        /\ \A j \in 1..(n - 1) : reports[j] = all[j + 1]
    BY <1>2, <1>4
  <2>2. ASSUME NEW j \in 1..(n - 1)
        PROVE  /\ ~IsInfo(Kept(reports[j])) /\ Kept(reports[j])[2] = reports[j][2]
               /\ Payload(Kept(reports[j])) = Payload(reports[j])
               /\ HasFlag(reports[j][2], EndOfCommand) <=> j = n - 1
               /\ Ending(reports[j])
    <3>1. j + 1 \in 1..n /\ reports[j] = all[j + 1] /\ (j + 1 = n <=> j = n - 1)
      BY <1>2, <2>1
    <3> HIDE DEF n
    <3> QED
      BY <1>2, <3>1
  <2> HIDE DEF n
  <2> QED
    BY <2>1, <2>2 DEF OneAnswer
<1> QED
  BY <1>3, <1>4 DEF all

LEMMA SoundMore ==
  ASSUME NEW c, NEW in, NEW k, NEW A, NEW B, A \subseteq B, Sound(c, in, k, A)
  PROVE  Sound(c, in, k, B)
<1>1. PICK run : Runs(c, in, k, A, run)
  BY DEF Sound
<1>2. Runs(c, in, k, B, run)
  BY <1>1 DEF Runs
<1> QED
  BY <1>2 DEF Sound

-----------------------------------------------------------------------------
(* The packets of an update *)

\* What CommandHandle has after each packet.
Follows(base, p, S, f) ==
  /\ f \in [0..Len(p) -> S] /\ f[0] = base
  /\ \A j \in 1..Len(p) : f[j] = Receive(f[j - 1], p[j])
  /\ FoldLeft(Receive, base, p) = f[Len(p)]

LEMMA ReceiveFold ==
  ASSUME NEW X, NEW p \in Seq(X), NEW S, NEW base \in S,
         \A v \in S : \A i \in 1..Len(p) : Receive(v, p[i]) \in S
  PROVE  \E f : Follows(base, p, S, f)
<1> DEFINE n == Len(p)
           step == [i \in 1..n |-> [v \in S |-> Receive(v, p[i])]]
           Iter(h) == h = [s \in SUBSET DOMAIN p |->
                            IF s = {} THEN base
                            ELSE Receive(h[s \ {Max(s)}], p[Max(s)])]
<1>1. n \in Nat /\ DOMAIN p = 1..n
  OBVIOUS
<1>3. ASSUME NEW i \in 1..n, NEW v \in S PROVE Receive(v, p[i]) \in S
  OBVIOUS
<1>4. FoldLeft(Receive, base, p) = (CHOOSE h : Iter(h))[DOMAIN p]
  BY DEF FoldLeft, MapThenFoldSet
<1> HIDE DEF n
<1>5. step \in [1..n -> [S -> S]]
  BY <1>3
<1>6. \A i \in 1..n, v \in S : step[i][v] = Receive(v, p[i])
  OBVIOUS
<1> HIDE DEF step
<1>7. PICK h \in [SUBSET (1..n) -> S] : FoldsTo(n, base, step, h)
  BY <1>1, <1>5, FoldTable
<1>8. Iter(h)
  <2>1. ASSUME NEW s \in SUBSET (1..n)
        PROVE  h[s] = IF s = {} THEN base ELSE Receive(h[s \ {Max(s)}], p[Max(s)])
    <3>1. CASE s = {}
      BY <1>7, <3>1 DEF FoldsTo
    <3>2. CASE s # {}
      <4>1. Max(s) \in 1..n
        BY <1>1, <3>2, MaxOf
      <4>2. h[s \ {Max(s)}] \in S
        BY <1>7
      <4>3. h[s] = step[Max(s)][h[s \ {Max(s)}]]
        BY <1>7, <3>2 DEF FoldsTo
      <4> QED
        BY <1>6, <3>2, <4>1, <4>2, <4>3
    <3> QED
      BY <3>1, <3>2
  <2>2. h = [s \in SUBSET (1..n) |-> h[s]]
    BY <1>7
  <2>3. h = [s \in SUBSET (1..n) |->
              IF s = {} THEN base ELSE Receive(h[s \ {Max(s)}], p[Max(s)])]
    BY <2>1, <2>2, Zenon
  <2> QED
    BY <1>1, <2>3
<1> DEFINE g == CHOOSE h2 : Iter(h2)
<1>9. Iter(g)
  <2> HIDE DEF Iter
  <2> QED
    BY <1>8
<1>10. FoldLeft(Receive, base, p) = g[1..n]
  BY <1>1, <1>4
<1> HIDE DEF g
<1>11. ASSUME NEW s \in SUBSET (1..n)
       PROVE  g[s] = IF s = {} THEN base ELSE Receive(g[s \ {Max(s)}], p[Max(s)])
  BY <1>1, <1>9
<1> DEFINE f == [k \in 0..n |-> g[1..k]]
<1>12. f[0] = base
  <2>1. 1..0 = {} /\ 0 \in 0..n
    BY <1>1
  <2> QED
    BY <1>11, <2>1
<1>13. ASSUME NEW k \in 1..n PROVE f[k] = Receive(f[k - 1], p[k])
  <2>1. /\ 1..k \in SUBSET (1..n) /\ 1..k # {} /\ Max(1..k) = k
        /\ (1..k) \ {k} = 1..(k - 1)
    BY <1>1, Initial
  <2>2. g[1..k] = Receive(g[1..(k - 1)], p[k])
    BY <1>11, <2>1
  <2>3. k \in 0..n /\ k - 1 \in 0..n
    BY <1>1
  <2> QED
    BY <2>2, <2>3
<1>14. \A k \in 0..n : f[k] \in S
  <2> HIDE DEF f
  <2>1. f[0] \in S
    BY <1>12
  <2>2. \A k \in 1..n : f[k - 1] \in S => f[k] \in S
    BY <1>3, <1>13
  <2> QED
    BY <1>1, <2>1, <2>2, Along
<1>15. f \in [0..n -> S] /\ f[n] = g[1..n]
  BY <1>1, <1>14
<1> HIDE DEF f
<1>16. Follows(base, p, S, f)
  BY <1>10, <1>12, <1>13, <1>15 DEF Follows, n
<1> QED
  BY <1>16

\* What the device makes of a packet that has been put together.
HandleOne(e, buf) ==
  CASE buf[1] = Sense              -> HandleSensorTestResponse(e, buf)
    [] buf[1] \in {GetOld, GetNew} -> HandleConfigPacket(e, buf)
    [] OTHER                       -> e

Handles(base, p, S, f) ==
  /\ f \in [0..Len(p) -> S] /\ f[0] = base
  /\ \A j \in 1..Len(p) : f[j] = HandleOne(f[j - 1], p[j])
  /\ HandlePackets(base, p) = f[Len(p)]

LEMMA HandleFold ==
  ASSUME NEW X, NEW p \in Seq(X), NEW S, NEW base \in S,
         \A v \in S : \A i \in 1..Len(p) : HandleOne(v, p[i]) \in S
  PROVE  \E f : Handles(base, p, S, f)
<1> DEFINE n == Len(p)
           step == [i \in 1..n |-> [v \in S |-> HandleOne(v, p[i])]]
           Iter(h) == h = [s \in SUBSET DOMAIN p |->
                            IF s = {} THEN base
                            ELSE HandleOne(h[s \ {Max(s)}], p[Max(s)])]
<1>1. n \in Nat /\ DOMAIN p = 1..n
  OBVIOUS
<1>3. ASSUME NEW i \in 1..n, NEW v \in S PROVE HandleOne(v, p[i]) \in S
  OBVIOUS
<1>4. HandlePackets(base, p) = (CHOOSE h : Iter(h))[DOMAIN p]
  BY DEF HandlePackets, FoldLeft, MapThenFoldSet, HandleOne
<1> HIDE DEF n
<1>5. step \in [1..n -> [S -> S]]
  BY <1>3
<1>6. \A i \in 1..n, v \in S : step[i][v] = HandleOne(v, p[i])
  OBVIOUS
<1> HIDE DEF step
<1>7. PICK h \in [SUBSET (1..n) -> S] : FoldsTo(n, base, step, h)
  BY <1>1, <1>5, FoldTable
<1>8. Iter(h)
  <2>1. ASSUME NEW s \in SUBSET (1..n)
        PROVE  h[s] = IF s = {} THEN base ELSE HandleOne(h[s \ {Max(s)}], p[Max(s)])
    <3>1. CASE s = {}
      BY <1>7, <3>1 DEF FoldsTo
    <3>2. CASE s # {}
      <4>1. Max(s) \in 1..n
        BY <1>1, <3>2, MaxOf
      <4>2. h[s \ {Max(s)}] \in S
        BY <1>7
      <4>3. h[s] = step[Max(s)][h[s \ {Max(s)}]]
        BY <1>7, <3>2 DEF FoldsTo
      <4> QED
        BY <1>6, <3>2, <4>1, <4>2, <4>3
    <3> QED
      BY <3>1, <3>2
  <2>2. h = [s \in SUBSET (1..n) |-> h[s]]
    BY <1>7
  <2>3. h = [s \in SUBSET (1..n) |->
              IF s = {} THEN base ELSE HandleOne(h[s \ {Max(s)}], p[Max(s)])]
    BY <2>1, <2>2, Zenon
  <2> QED
    BY <1>1, <2>3
<1> DEFINE g == CHOOSE h2 : Iter(h2)
<1>9. Iter(g)
  <2> HIDE DEF Iter
  <2> QED
    BY <1>8
<1>10. HandlePackets(base, p) = g[1..n]
  BY <1>1, <1>4
<1> HIDE DEF g
<1>11. ASSUME NEW s \in SUBSET (1..n)
       PROVE  g[s] = IF s = {} THEN base ELSE HandleOne(g[s \ {Max(s)}], p[Max(s)])
  BY <1>1, <1>9
<1> DEFINE f == [k \in 0..n |-> g[1..k]]
<1>12. f[0] = base
  <2>1. 1..0 = {} /\ 0 \in 0..n
    BY <1>1
  <2> QED
    BY <1>11, <2>1
<1>13. ASSUME NEW k \in 1..n PROVE f[k] = HandleOne(f[k - 1], p[k])
  <2>1. /\ 1..k \in SUBSET (1..n) /\ 1..k # {} /\ Max(1..k) = k
        /\ (1..k) \ {k} = 1..(k - 1)
    BY <1>1, Initial
  <2>2. g[1..k] = HandleOne(g[1..(k - 1)], p[k])
    BY <1>11, <2>1
  <2>3. k \in 0..n /\ k - 1 \in 0..n
    BY <1>1
  <2> QED
    BY <2>2, <2>3
<1>14. \A k \in 0..n : f[k] \in S
  <2> HIDE DEF f
  <2>1. f[0] \in S
    BY <1>12
  <2>2. \A k \in 1..n : f[k - 1] \in S => f[k] \in S
    BY <1>3, <1>13
  <2> QED
    BY <1>1, <2>1, <2>2, Along
<1>15. f \in [0..n -> S] /\ f[n] = g[1..n]
  BY <1>1, <1>14
<1> HIDE DEF f
<1>16. Handles(base, p, S, f)
  BY <1>10, <1>12, <1>13, <1>15 DEF Handles, n
<1> QED
  BY <1>16

\* What a packet that is put together consists of.
Answer == Seq(Nat) \ {<<>>}

LEMMA GatheredType ==
  ASSUME NEW c \in Seq(Nat), NEW raw \in Packet
  PROVE  /\ Payload(raw) \in Seq(Nat) /\ Gathered(c, raw) \in Seq(Nat)
         /\ UnderWay(c, raw) \in Seq(Nat) /\ Completed(c, raw) \in Seq(Answer)
         /\ IsReport6(raw)
<1>1. /\ raw \in Seq(Nat) /\ Len(raw) = 3 + raw[3] /\ raw[3] \in Nat
      /\ raw[1] = HidReportData
  BY DEF Packet
<1>2. Payload(raw) \in Seq(Nat)
  <2>1. \A i \in 4..(3 + raw[3]) : raw[i] \in Nat
    <3>1. \A i \in 1..Len(raw) : raw[i] \in Nat
      BY <1>1
    <3>2. \A i \in 4..(3 + raw[3]) : i \in 1..Len(raw)
      BY <1>1
    <3> QED
      BY <3>1, <3>2
  <2>2. 4 \in Int /\ 3 + raw[3] \in Int
    BY <1>1
  <2>3. SubSeq(raw, 4, 3 + raw[3]) \in Seq(Nat)
    BY <2>1, <2>2, SubSeqProperties
  <2> QED
    BY <2>3 DEF Payload
<1>3. Gathered(c, raw) \in Seq(Nat)
  <2> DEFINE s == IF HasFlag(raw[2], StartOfCommand) THEN <<>> ELSE c
             t == Payload(raw)
  <2>1. s \in Seq(Nat) /\ t \in Seq(Nat)
    BY <1>2
  <2>2. Gathered(c, raw) = s \o t
    BY DEF Gathered
  <2> HIDE DEF s, t
  <2> QED
    BY <2>1, <2>2
<1>4. UnderWay(c, raw) \in Seq(Nat)
  BY <1>3 DEF UnderWay
<1>5. Completed(c, raw) \in Seq(Answer)
  <2> DEFINE g == Gathered(c, raw)
  <2>1. g # <<>> => g \in Answer
    BY <1>3 DEF Answer
  <2>2. Completed(c, raw) = <<>> \/ (Completed(c, raw) = <<g>> /\ g # <<>>)
    BY DEF Completed
  <2> HIDE DEF g
  <2>3. <<>> \in Seq(Answer)
    OBVIOUS
  <2>4. ASSUME g \in Answer PROVE <<g>> \in Seq(Answer)
    BY <2>4
  <2> QED
    BY <2>1, <2>2, <2>3, <2>4
<1>6. IsReport6(raw)
  BY <1>1 DEF IsReport6
<1> QED
  BY <1>2, <1>3, <1>4, <1>5, <1>6

LEMMA ToSetConcat ==
  ASSUME NEW V, NEW s \in Seq(V), NEW t \in Seq(V)
  PROVE  ToSet(s \o t) = ToSet(s) \cup ToSet(t)
<1>1. /\ s \o t \in Seq(V) /\ Len(s) \in Nat /\ Len(t) \in Nat
      /\ Len(s \o t) = Len(s) + Len(t)
      /\ \A i \in 1..Len(s) : (s \o t)[i] = s[i]
      /\ \A i \in 1..Len(t) : (s \o t)[Len(s) + i] = t[i]
  BY Joined
<1>2. /\ DOMAIN (s \o t) = 1..(Len(s) + Len(t))
      /\ DOMAIN s = 1..Len(s) /\ DOMAIN t = 1..Len(t)
  BY <1>1
<1> DEFINE u == s \o t
           a == Len(s)
           b == Len(t)
<1>3. /\ a \in Nat /\ b \in Nat /\ DOMAIN u = 1..(a + b)
      /\ \A i \in 1..a : u[i] = s[i]
      /\ \A i \in 1..b : u[a + i] = t[i]
  BY <1>1, <1>2
<1>4. DOMAIN s = 1..a /\ DOMAIN t = 1..b
  BY <1>2
<1> HIDE DEF u, a, b
<1>5. ASSUME NEW i \in 1..(a + b) PROVE u[i] \in ToSet(s) \cup ToSet(t)
  <2>1. CASE i <= a
    <3>1. i \in 1..a
      BY <1>3, <2>1
    <3> QED
      BY <1>3, <1>4, <3>1 DEF ToSet
  <2>2. CASE i > a
    <3>1. i - a \in 1..b /\ a + (i - a) = i
      BY <1>3, <2>2
    <3>2. u[i] = t[i - a]
      BY <1>3, <3>1
    <3> QED
      BY <1>4, <3>1, <3>2 DEF ToSet
  <2> QED
    BY <1>3, <2>1, <2>2
<1>6. ASSUME NEW i \in 1..a PROVE s[i] \in ToSet(u)
  <2>1. i \in 1..(a + b) /\ u[i] = s[i]
    BY <1>3
  <2> QED
    BY <1>3, <2>1 DEF ToSet
<1>7. ASSUME NEW i \in 1..b PROVE t[i] \in ToSet(u)
  <2>1. a + i \in 1..(a + b) /\ u[a + i] = t[i]
    BY <1>3
  <2> QED
    BY <1>3, <2>1 DEF ToSet
<1>8. ToSet(u) = ToSet(s) \cup ToSet(t)
  <2>1. ToSet(u) \subseteq ToSet(s) \cup ToSet(t)
    BY <1>3, <1>5 DEF ToSet
  <2>2. ToSet(s) \subseteq ToSet(u)
    BY <1>4, <1>6 DEF ToSet
  <2>3. ToSet(t) \subseteq ToSet(u)
    BY <1>4, <1>7 DEF ToSet
  <2> QED
    BY <2>1, <2>2, <2>3
<1> QED
  BY <1>8 DEF u

\* What CommandHandle starts an update with, and what it may have on the way:
\* with reading active it puts packets together, without it waits for the
\* pad's identity and drops all else.
Base(c, act, fw, fl) ==
  [current |-> c, packets |-> <<>>, active |-> act, info |-> act,
   firmware |-> fw, flight |-> fl]

Reading(fl, F) ==
  [current : Seq(Nat), packets : Seq(Answer), active : {TRUE}, info : {TRUE},
   firmware : F, flight : {fl, Nothing}]

Waiting(c, fl, F) ==
  {v \in [current : {c}, packets : {<<>>}, active : {FALSE}, info : BOOLEAN,
          firmware : F, flight : {fl, Nothing}] :
     v.flight = (IF v.info THEN Nothing ELSE fl) /\ (v.info => fl.info)}

Firmwares(fw, in) == {fw} \cup {Payload(in[i])[1] : i \in 1..Len(in)}

LEMMA ReceiveReading ==
  ASSUME NEW fl, NEW F, NEW raw \in Packet, Payload(raw)[1] \in F,
         NEW v \in Reading(fl, F)
  PROVE  /\ Receive(v, raw) \in Reading(fl, F)
         /\ IF IsInfo(raw)
            THEN /\ Receive(v, raw).current = v.current
                 /\ Receive(v, raw).packets = v.packets
            ELSE /\ Receive(v, raw).current = UnderWay(v.current, raw)
                 /\ Receive(v, raw).packets =
                      v.packets \o Completed(v.current, raw)
<1>0. v \in Reading(fl, F)
  OBVIOUS
<1>1. /\ v.current \in Seq(Nat) /\ v.packets \in Seq(Answer)
      /\ v.active = TRUE /\ v.info = TRUE /\ v.firmware \in F
      /\ v.flight \in {fl, Nothing}
      /\ v = [current |-> v.current, packets |-> v.packets, active |-> v.active,
              info |-> v.info, firmware |-> v.firmware, flight |-> v.flight]
  BY DEF Reading
<1>2. IsReport6(raw)
  BY <1>1, GatheredType
<1>3. CASE IsInfo(raw) /\ v.flight.info
  <2> DEFINE w == [v EXCEPT !.info = TRUE, !.firmware = Payload(raw)[1],
                            !.flight = Nothing]
  <2>1. Receive(v, raw) = w
    BY <1>2, <1>3 DEF Receive, IsInfo
  <2>2. w \in Reading(fl, F) /\ w.current = v.current /\ w.packets = v.packets
    BY <1>0 DEF Reading
  <2> HIDE DEF w
  <2> QED
    BY <1>3, <2>1, <2>2
<1>4. CASE IsInfo(raw) /\ ~v.flight.info
  <2>1. Receive(v, raw) = v
    BY <1>2, <1>4 DEF Receive, IsInfo
  <2> QED
    BY <1>4, <2>1
<1>5. CASE ~IsInfo(raw)
  <2> DEFINE cur == UnderWay(v.current, raw)
             pac == v.packets \o Completed(v.current, raw)
             fli == IF HasFlag(raw[2], HostCmdFinished) THEN Nothing ELSE v.flight
             w == [v EXCEPT !.current = cur, !.packets = pac, !.flight = fli]
  <2>1. Receive(v, raw) = w
    BY <1>1, <1>2, <1>5 DEF Receive, IsInfo
  <2>2. cur \in Seq(Nat)
    BY <1>1, GatheredType
  <2>3. pac \in Seq(Answer)
    <3>1. v.packets \in Seq(Answer) /\ Completed(v.current, raw) \in Seq(Answer)
      BY <1>1, GatheredType
    <3> QED
      BY <3>1, Joined
  <2>4. fli \in {fl, Nothing}
    BY <1>1
  <2>5. w \in Reading(fl, F) /\ w.current = cur /\ w.packets = pac
    <3> HIDE DEF cur, pac, fli
    <3> QED
      BY <1>0, <2>2, <2>3, <2>4 DEF Reading
  <2> HIDE DEF w
  <2> QED
    BY <1>5, <2>1, <2>5
<1> QED
  BY <1>3, <1>4, <1>5

LEMMA ReceivePart ==
  ASSUME NEW fl, NEW F, NEW raw \in Packet, Payload(raw)[1] \in F,
         NEW v \in Reading(fl, F), ~IsInfo(raw)
  PROVE  /\ Receive(v, raw).current = UnderWay(v.current, raw)
         /\ Receive(v, raw).packets = v.packets \o Completed(v.current, raw)
BY ReceiveReading

LEMMA ReceiveWaiting ==
  ASSUME NEW c, NEW fl, NEW F, NEW raw \in Packet, Payload(raw)[1] \in F,
         NEW v \in Waiting(c, fl, F)
  PROVE  Receive(v, raw) \in Waiting(c, fl, F)
<1>0. v \in Waiting(c, fl, F)
  OBVIOUS
<1>1. /\ v.current = c /\ v.packets = <<>>
      /\ v.active = FALSE /\ v.info \in BOOLEAN /\ v.firmware \in F
      /\ v.flight \in {fl, Nothing}
      /\ v = [current |-> v.current, packets |-> v.packets, active |-> v.active,
              info |-> v.info, firmware |-> v.firmware, flight |-> v.flight]
  BY DEF Waiting
<1>2. IsReport6(raw)
  <2>1. <<>> \in Seq(Nat)
    OBVIOUS
  <2> QED
    BY <2>1, GatheredType
<1>3. CASE IsInfo(raw) /\ v.flight.info
  <2> DEFINE w == [v EXCEPT !.info = TRUE, !.firmware = Payload(raw)[1],
                            !.flight = Nothing]
  <2>1. Receive(v, raw) = w
    BY <1>2, <1>3 DEF Receive, IsInfo
  <2>2. w \in Waiting(c, fl, F)
    <3>1. fl.info
      BY <1>0, <1>3 DEF Waiting, Nothing
    <3> QED
      BY <1>0, <3>1 DEF Waiting
  <2> HIDE DEF w
  <2> QED
    BY <2>1, <2>2
<1>4. CASE ~(IsInfo(raw) /\ v.flight.info)
  <2>1. Receive(v, raw) = v
    BY <1>1, <1>2, <1>4 DEF Receive, IsInfo
  <2> QED
    BY <2>1
<1> QED
  BY <1>3, <1>4

LEMMA ReadingFold ==
  ASSUME NEW in \in Seq(Packet), NEW c \in Seq(Nat), NEW fw, NEW fl
  PROVE  \E f : Follows(Base(c, TRUE, fw, fl), in, Reading(fl, Firmwares(fw, in)), f)
<1> DEFINE F == Firmwares(fw, in)
           S == Reading(fl, F)
           base == Base(c, TRUE, fw, fl)
<1>1. base \in S
  <2>1. <<>> \in Seq(Answer) /\ fw \in F
    BY DEF Firmwares
  <2> HIDE DEF F
  <2> QED
    BY <2>1 DEF Base, Reading
<1>2. ASSUME NEW v \in S, NEW i \in 1..Len(in) PROVE Receive(v, in[i]) \in S
  <2>1. in[i] \in Packet /\ Payload(in[i])[1] \in F
    BY DEF Firmwares
  <2> HIDE DEF F
  <2> QED
    BY <2>1, ReceiveReading
<1> HIDE DEF S, base
<1>3. \A v \in S : \A i \in 1..Len(in) : Receive(v, in[i]) \in S
  BY <1>2
<1>4. \E f : Follows(base, in, S, f)
  BY <1>1, <1>3, ReceiveFold
<1> QED
  BY <1>4 DEF S, base

LEMMA WaitingFold ==
  ASSUME NEW in \in Seq(Packet), NEW c, NEW fw, NEW fl
  PROVE  \E f : Follows(Base(c, FALSE, fw, fl), in,
                        Waiting(c, fl, Firmwares(fw, in)), f)
<1> DEFINE F == Firmwares(fw, in)
           S == Waiting(c, fl, F)
           base == Base(c, FALSE, fw, fl)
<1>1. base \in S
  <2>1. fw \in F
    BY DEF Firmwares
  <2> HIDE DEF F
  <2> QED
    BY <2>1 DEF Base, Waiting
<1>2. ASSUME NEW v \in S, NEW i \in 1..Len(in) PROVE Receive(v, in[i]) \in S
  <2>1. in[i] \in Packet /\ Payload(in[i])[1] \in F
    BY DEF Firmwares
  <2> HIDE DEF F
  <2> QED
    BY <2>1, ReceiveWaiting
<1> HIDE DEF S, base
<1>3. \A v \in S : \A i \in 1..Len(in) : Receive(v, in[i]) \in S
  BY <1>2
<1>4. \E f : Follows(base, in, S, f)
  BY <1>1, <1>3, ReceiveFold
<1> QED
  BY <1>4 DEF S, base

\* What comes out is what a run over these packets makes.
LEMMA ReassembledRun ==
  ASSUME NEW in \in Seq(Packet), NEW stream \in Seq(Packet),
         Len(in) <= Len(stream), \A j \in 1..Len(in) : stream[j] = in[j],
         NEW c, NEW A, NEW run, Runs(c, stream, 0, A, run),
         NEW fw, NEW fl, NEW f,
         Follows(Base(c, TRUE, fw, fl), in, Reading(fl, Firmwares(fw, in)), f)
  PROVE  /\ f[Len(in)].current = run[Len(in)]
         /\ ToSet(f[Len(in)].packets) \subseteq A
<1> DEFINE F == Firmwares(fw, in)
           n == Len(in)
           m == Len(stream)
           Agrees(k) == f[k].current = run[k] /\ ToSet(f[k].packets) \subseteq A
           Good == {k \in Nat : k <= n => Agrees(k)}
<1>1. n \in Nat /\ m \in Nat /\ n <= m /\ \A j \in 1..n : stream[j] = in[j]
  OBVIOUS
<1>2. /\ run \in [0..m -> Seq(Nat)] /\ run[0] = c
      /\ \A j \in 1..m : j > 0 =>
           run[j] = After(run[j - 1], stream[j])
             /\ Made(run[j - 1], stream[j]) \subseteq A
  BY DEF Runs
<1>3. /\ f \in [0..n -> Reading(fl, F)] /\ f[0] = Base(c, TRUE, fw, fl)
      /\ \A j \in 1..n : f[j] = Receive(f[j - 1], in[j])
  BY DEF Follows
<1>4. \A i \in 1..n : in[i] \in Packet /\ Payload(in[i])[1] \in F
  BY DEF Firmwares
<1> HIDE DEF n, m, F
<1>5. 0 \in Good
  <2>1. f[0].current = c /\ f[0].packets = <<>>
    BY <1>3 DEF Base
  <2>2. ToSet(<<>>) = {}
    BY DEF ToSet
  <2>3. Agrees(0)
    BY <1>2, <2>1, <2>2
  <2> HIDE DEF Agrees
  <2> QED
    BY <2>3
<1>6. ASSUME NEW k \in Good PROVE k + 1 \in Good
  <2>1. k \in Nat /\ k + 1 \in Nat
    OBVIOUS
  <2>2. ASSUME k + 1 <= n PROVE Agrees(k + 1)
    <3>1. /\ k + 1 \in 1..n /\ (k + 1) - 1 = k /\ k \in 0..n /\ Agrees(k)
          /\ k + 1 \in 1..m /\ k + 1 > 0
      <4>1. k <= n => Agrees(k)
        OBVIOUS
      <4> HIDE DEF Good, Agrees
      <4> QED
        BY <1>1, <2>1, <2>2, <4>1
    <3> DEFINE v == f[k]
               raw == in[k + 1]
    <3>2. v \in Reading(fl, F) /\ raw \in Packet /\ Payload(raw)[1] \in F
      BY <1>3, <1>4, <3>1
    <3>3. f[k + 1] = Receive(v, raw)
      BY <1>3, <3>1
    <3>4. /\ run[k + 1] = After(run[k], raw) /\ Made(run[k], raw) \subseteq A
          /\ v.current = run[k] /\ ToSet(v.packets) \subseteq A
      BY <1>1, <1>2, <3>1
    <3> HIDE DEF v, raw, Good
    <3>7. CASE IsInfo(raw)
      <4>1. /\ Receive(v, raw).current = v.current
            /\ Receive(v, raw).packets = v.packets
        BY <3>2, <3>7, ReceiveReading
      <4>2. After(run[k], raw) = run[k]
        BY <3>7 DEF After
      <4> QED
        BY <3>3, <3>4, <4>1, <4>2
    <3>8. CASE ~IsInfo(raw)
      <4> DEFINE got == Completed(v.current, raw)
      <4>1. /\ Receive(v, raw).current = UnderWay(v.current, raw)
            /\ Receive(v, raw).packets = v.packets \o got
        <5>1. /\ Receive(v, raw).current = UnderWay(v.current, raw)
              /\ Receive(v, raw).packets = v.packets \o Completed(v.current, raw)
          BY <3>2, <3>8, ReceivePart
        <5> QED
          BY <5>1
      <4>2. After(run[k], raw) = UnderWay(run[k], raw)
        BY <3>8 DEF After
      <4>3. ToSet(got) \subseteq A
        BY <3>4, <3>8 DEF Made
      <4>4. v.packets \in Seq(Answer) /\ got \in Seq(Answer)
        <5>1. v.current \in Seq(Nat) /\ v.packets \in Seq(Answer)
          BY <3>2 DEF Reading
        <5> QED
          BY <3>2, <5>1, GatheredType
      <4> HIDE DEF got
      <4>5. ToSet(v.packets \o got) = ToSet(v.packets) \cup ToSet(got)
        BY <4>4, ToSetConcat
      <4> QED
        BY <3>3, <3>4, <4>1, <4>2, <4>3, <4>5
    <3> QED
      BY <3>7, <3>8
  <2> HIDE DEF Agrees
  <2> QED
    BY <2>1, <2>2
<1>7. Good = Nat
  <2> HIDE DEF Good
  <2>1. Good \subseteq Nat
    BY DEF Good
  <2> QED
    BY <1>5, <1>6, <2>1, SetInduction
<1>8. Agrees(n)
  <2>1. n \in Good
    <3> HIDE DEF Good
    <3> QED
      BY <1>1, <1>7
  <2>2. n <= n
    BY <1>1
  <2> HIDE DEF Agrees
  <2> QED
    BY <2>1, <2>2
<1> QED
  BY <1>8 DEF n

-----------------------------------------------------------------------------
(* Configurations *)

LEMMA PlaceIn ==
  ASSUME NEW layout, NEW f \in ToSet(layout)
  PROVE  Place(layout, f) \in DOMAIN layout /\ layout[Place(layout, f)] = f
BY DEF Place, ToSet

LEMMA Layouts ==
  /\ Layout \in Seq(Fields) /\ OldLayout \in Seq(OldFields)
  /\ Len(Layout) = 30 /\ Len(OldLayout) = 28
<1>1. Layout \in Seq({Layout[i] : i \in 1..30}) /\ Len(Layout) = 30
  BY DEF Layout
<1>2. OldLayout \in Seq({OldLayout[i] : i \in 1..28}) /\ Len(OldLayout) = 28
  BY DEF OldLayout
<1>3. DOMAIN Layout = 1..30 /\ DOMAIN OldLayout = 1..28
  BY DEF Layout, OldLayout
<1> QED
  BY <1>1, <1>2, <1>3 DEF Fields, OldFields, ToSet

\* The fields whose presence depends on the version are in both layouts.
LEMMA VersionedFields ==
  LaterPanels \cup Versions \cup {"debounce_delay_ms"} \subseteq OldFields \cap Fields
<1>1. /\ Layout[1] = "master_version" /\ Layout[2] = "config_version"
      /\ Layout[5] = "debounce_delay_ms" /\ Layout[18] = "panel_0"
      /\ Layout[21] = "panel_3" /\ Layout[23] = "panel_5"
      /\ Layout[24] = "panel_6" /\ Layout[26] = "panel_8"
  BY DEF Layout
<1>2. /\ OldLayout[18] = "master_version" /\ OldLayout[19] = "config_version"
      /\ OldLayout[26] = "debounce_delay_ms" /\ OldLayout[21] = "panel_0"
      /\ OldLayout[22] = "panel_3" /\ OldLayout[23] = "panel_5"
      /\ OldLayout[24] = "panel_6" /\ OldLayout[25] = "panel_8"
  BY DEF OldLayout
<1>3. DOMAIN Layout = 1..30 /\ DOMAIN OldLayout = 1..28
  BY Layouts
<1>4. ASSUME NEW f \in LaterPanels \cup Versions \cup {"debounce_delay_ms"}
      PROVE  f \in Fields /\ f \in OldFields
  <2>1. \E i \in 1..30 : f = Layout[i]
    BY <1>1, <1>4 DEF LaterPanels, Versions
  <2>2. \E i \in 1..28 : f = OldLayout[i]
    BY <1>2, <1>4 DEF LaterPanels, Versions
  <2> QED
    BY <1>3, <2>1, <2>2 DEF Fields, OldFields, ToSet
<1> QED
  BY <1>4

LEMMA CarriedFields ==
  ASSUME NEW version PROVE Carried(version) \subseteq OldFields \cap Fields
BY VersionedFields DEF Carried, Unversioned

Config == [Fields -> Nat]

LEMMA ConvertToNewType ==
  ASSUME NEW bytes \in Seq(Nat), NEW config \in Config
  PROVE  ConvertToNew(bytes, config) \in Config
<1> DEFINE old == Resized(bytes, Len(OldLayout), 0)
           carried == Carried(At(OldLayout, old, "config_version"))
<1>1. DOMAIN OldLayout = 1..Len(OldLayout) /\ Len(OldLayout) \in Nat
  BY Layouts
<1>2. \A i \in 1..Len(OldLayout) : old[i] \in Nat
  BY DEF Resized
<1>3. carried \subseteq OldFields
  BY CarriedFields
<1> HIDE DEF old, carried
<1>4. ASSUME NEW f \in carried PROVE At(OldLayout, old, f) \in Nat
  <2>1. f \in ToSet(OldLayout)
    BY <1>3 DEF OldFields
  <2>2. Place(OldLayout, f) \in 1..Len(OldLayout)
    BY <1>1, <2>1, PlaceIn
  <2> QED
    BY <1>2, <2>2 DEF At
<1>5. \A f \in Fields : config[f] \in Nat
  BY DEF Config
<1>6. ConvertToNew(bytes, config) =
        [f \in Fields |-> IF f \in carried THEN At(OldLayout, old, f) ELSE config[f]]
  BY DEF ConvertToNew, old, carried
<1> QED
  BY <1>4, <1>5, <1>6 DEF Config

LEMMA CopyToNewType ==
  ASSUME NEW bytes \in Seq(Nat), NEW config \in Config
  PROVE  CopyToNew(bytes, config) \in Config
<1>1. DOMAIN Layout = 1..Len(Layout)
  BY Layouts
<1>2. ASSUME NEW f \in Fields, Place(Layout, f) <= Len(bytes)
      PROVE  At(Layout, bytes, f) \in Nat
  <2>1. Place(Layout, f) \in 1..Len(Layout)
    BY <1>1, PlaceIn DEF Fields
  <2>2. Place(Layout, f) \in 1..Len(bytes)
    BY <1>2, <2>1
  <2> QED
    BY <2>2 DEF At
<1>3. \A f \in Fields : config[f] \in Nat
  BY DEF Config
<1> QED
  BY <1>2, <1>3 DEF Config, CopyToNew

LEMMA AsBytesType ==
  ASSUME NEW config \in Config PROVE AsBytes(config) \in Seq(Nat)
<1>1. DOMAIN Layout = 1..Len(Layout) /\ Len(Layout) \in Nat
      /\ \A i \in 1..Len(Layout) : Layout[i] \in Fields
  <2>1. Layout \in Seq(Fields)
    BY Layouts
  <2> QED
    BY <2>1
<1>2. \A i \in 1..Len(Layout) : config[Layout[i]] \in Nat
  BY <1>1 DEF Config
<1> QED
  BY <1>1, <1>2 DEF AsBytes

\* As much is sent as has been read, but 128 bytes at least.
OldOf(config, raw, c) ==
  /\ c \in Seq(Nat)
  /\ Len(c) = IF Len(raw) >= ShortSize THEN Len(raw) ELSE ShortSize
  /\ \A i \in 1..Len(c) :
       c[i] = IF OldLayout[i] \in Fields THEN config[OldLayout[i]]
              ELSE IF i <= Len(raw) THEN raw[i] ELSE 255

LEMMA ConvertToOldType ==
  ASSUME NEW config \in Config, NEW raw \in Seq(Nat)
  PROVE  OldOf(config, raw, ConvertToOld(config, raw))
<1> DEFINE n == IF Len(raw) >= ShortSize THEN Len(raw) ELSE ShortSize
           value(i) == IF OldLayout[i] \in Fields THEN config[OldLayout[i]]
                       ELSE IF i <= Len(raw) THEN raw[i] ELSE 255
<1>1. ShortSize \in Nat /\ Len(raw) \in Nat
  BY Layouts DEF ShortSize
<1>2. Max({Len(raw), ShortSize}) = n
  <2>1. \E x \in {Len(raw), ShortSize} : \A y \in {Len(raw), ShortSize} : x >= y
    <3>1. CASE Len(raw) >= ShortSize
      BY <1>1, <3>1
    <3>2. CASE ~(Len(raw) >= ShortSize)
      BY <1>1, <3>2
    <3> QED
      BY <3>1, <3>2
  <2>2. /\ Max({Len(raw), ShortSize}) \in {Len(raw), ShortSize}
        /\ \A y \in {Len(raw), ShortSize} : Max({Len(raw), ShortSize}) >= y
    BY <2>1 DEF Max
  <2> QED
    BY <1>1, <2>2
<1>3. n \in Nat
  BY <1>1
<1> HIDE DEF n
<1>4. ConvertToOld(config, raw) = [i \in 1..n |-> value(i)]
  BY <1>2, <1>3 DEF ConvertToOld, Resized
<1>5. \A i \in 1..n : value(i) \in Nat
  BY <1>3 DEF Config
<1> HIDE DEF value
<1>6. [i \in 1..n |-> value(i)] \in Seq(Nat) /\ Len([i \in 1..n |-> value(i)]) = n
  BY <1>3, <1>5
<1>7. \A i \in 1..n : ConvertToOld(config, raw)[i] = value(i)
  BY <1>4
<1> DEFINE c == ConvertToOld(config, raw)
<1>8. c \in Seq(Nat) /\ Len(c) = n /\ \A i \in 1..n : c[i] = value(i)
  BY <1>4, <1>6, <1>7
<1> HIDE DEF c
<1>9. /\ Len(c) = IF Len(raw) >= ShortSize THEN Len(raw) ELSE ShortSize
      /\ \A i \in 1..Len(c) :
           c[i] = IF OldLayout[i] \in Fields THEN config[OldLayout[i]]
                  ELSE IF i <= Len(raw) THEN raw[i] ELSE 255
  BY <1>8 DEF n, value
<1> QED
  BY <1>8, <1>9 DEF OldOf, c

\* What SmxDevice has, with readings of that set.
Devices(R) ==
  [config : Config, have : BOOLEAN, raw : Seq(Nat), waiting : Modes \cup {Off},
   reading : R]

LEMMA ConfigPayload ==
  ASSUME NEW buf \in Seq(Nat), NEW size \in Nat, Len(buf) >= size + 2
  PROVE  SubSeq(buf, 3, 2 + size) \in Seq(Nat)
<1>1. \A i \in 3..(2 + size) : buf[i] \in Nat
  <2>1. \A i \in 1..Len(buf) : buf[i] \in Nat
    OBVIOUS
  <2>2. \A i \in 3..(2 + size) : i \in 1..Len(buf)
    OBVIOUS
  <2> QED
    BY <2>1, <2>2
<1>2. 3 \in Int /\ 2 + size \in Int
  OBVIOUS
<1> QED
  BY <1>1, <1>2, SubSeqProperties

LEMMA HandleOneType ==
  ASSUME NEW R, NEW d \in Devices(R), NEW buf \in Answer,
         ParseSensorTest(Words(buf), firmware) \in R
  PROVE  HandleOne(d, buf) \in Devices(R)
<1>1. buf \in Seq(Nat) /\ Len(buf) \in Nat
  BY DEF Answer
<1>2. HandleSensorTestResponse(d, buf) \in Devices(R)
  <2> DEFINE r == IF buf[2] # mode THEN d.reading
                  ELSE ParseSensorTest(Words(buf), firmware)
             e == [d EXCEPT !.waiting = Off, !.reading = r]
  <2>1. r \in R
    BY DEF Devices
  <2>2. HandleSensorTestResponse(d, buf) \in {d, e}
    BY DEF HandleSensorTestResponse
  <2> HIDE DEF r
  <2>3. e \in Devices(R)
    BY <2>1 DEF Devices
  <2> QED
    BY <2>2, <2>3
<1>3. HandleConfigPacket(d, buf) \in Devices(R)
  <2> DEFINE size == buf[2]
             payload == SubSeq(buf, 3, 2 + size)
             old == [d EXCEPT !.have = TRUE, !.raw = payload,
                              !.config = ConvertToNew(payload, d.config)]
             new == [d EXCEPT !.have = TRUE,
                              !.config = CopyToNew(payload, d.config)]
  <2>1. CASE Len(buf) < 2 \/ Len(buf) < size + 2
    <3>1. HandleConfigPacket(d, buf) = d
      BY <2>1 DEF HandleConfigPacket
    <3> QED
      BY <3>1
  <2>2. CASE ~(Len(buf) < 2 \/ Len(buf) < size + 2)
    <3>1. size \in Nat /\ Len(buf) >= size + 2
      <4>1. 2 \in 1..Len(buf)
        BY <1>1, <2>2
      <4>2. size \in Nat
        BY <1>1, <4>1
      <4> QED
        BY <1>1, <2>2, <4>2
    <3>2. payload \in Seq(Nat)
      <4> HIDE DEF size
      <4> QED
        BY <1>1, <3>1, ConfigPayload
    <3>3. HandleConfigPacket(d, buf) \in {old, new}
      BY <2>2 DEF HandleConfigPacket
    <3>4. d.config \in Config
      BY DEF Devices
    <3> HIDE DEF payload
    <3>5. ConvertToNew(payload, d.config) \in Config
          /\ CopyToNew(payload, d.config) \in Config
      BY <3>2, <3>4, ConvertToNewType, CopyToNewType
    <3>6. old \in Devices(R)
      BY <3>2, <3>5 DEF Devices
    <3>7. new \in Devices(R)
      BY <3>5 DEF Devices
    <3> QED
      BY <3>3, <3>6, <3>7
  <2> QED
    BY <2>1, <2>2
<1> QED
  BY <1>2, <1>3 DEF HandleOne

LEMMA HandlePacketsType ==
  ASSUME NEW R0, NEW d \in Devices(R0), NEW p \in Seq(Answer)
  PROVE  \E R : HandlePackets(d, p) \in Devices(R)
<1> DEFINE R == R0 \cup {ParseSensorTest(Words(p[i]), firmware) : i \in 1..Len(p)}
           S == Devices(R)
<1>1. d \in S
  BY DEF Devices
<1>2. ASSUME NEW v \in S, NEW i \in 1..Len(p) PROVE HandleOne(v, p[i]) \in S
  <2>1. p[i] \in Answer /\ ParseSensorTest(Words(p[i]), firmware) \in R
    OBVIOUS
  <2> HIDE DEF R
  <2> QED
    BY <2>1, HandleOneType
<1>3. \A v \in S : \A i \in 1..Len(p) : HandleOne(v, p[i]) \in S
  BY <1>2
<1> HIDE DEF S
<1>4. PICK f : Handles(d, p, S, f)
  BY <1>1, <1>3, HandleFold
<1>5. f \in [0..Len(p) -> S] /\ HandlePackets(d, p) = f[Len(p)]
  BY <1>4 DEF Handles
<1>6. Len(p) \in 0..Len(p)
  <2>1. Len(p) \in Nat
    OBVIOUS
  <2> QED
    BY <2>1
<1>7. HandlePackets(d, p) \in S
  BY <1>5, <1>6
<1> QED
  BY <1>7 DEF S

-----------------------------------------------------------------------------
(* The answers of sensors *)

\* What a panel adds to the word that has that bit of every panel.
Weight(reading, b, panel) == 2^(panel - 1) * BitsOf(reading[panel - 1])[b]

WordOf(reading, b, p) ==
  FoldLeft(LAMBDA n, q : n + 2^(q - 1) * BitsOf(reading[q - 1])[b], 0, p)

Adds(reading, b, p, f) ==
  /\ f \in [0..Len(p) -> Nat] /\ f[0] = 0
  /\ \A j \in 1..Len(p) : f[j] = f[j - 1] + Weight(reading, b, p[j])
  /\ WordOf(reading, b, p) = f[Len(p)]

LEMMA WordFold ==
  ASSUME NEW X, NEW p \in Seq(X), NEW reading, NEW b,
         \A i \in 1..Len(p) : Weight(reading, b, p[i]) \in Nat
  PROVE  \E f : Adds(reading, b, p, f)
<1> DEFINE n == Len(p)
           step == [i \in 1..n |-> [v \in Nat |-> v + Weight(reading, b, p[i])]]
           Iter(h) == h = [s \in SUBSET DOMAIN p |->
                            IF s = {} THEN 0
                            ELSE h[s \ {Max(s)}] + Weight(reading, b, p[Max(s)])]
<1>1. n \in Nat /\ DOMAIN p = 1..n
  OBVIOUS
<1>3. ASSUME NEW i \in 1..n, NEW v \in Nat 
      PROVE  v + Weight(reading, b, p[i]) \in Nat
  OBVIOUS
<1>4. WordOf(reading, b, p) = (CHOOSE h : Iter(h))[DOMAIN p]
  BY DEF WordOf, FoldLeft, MapThenFoldSet, Weight
<1> HIDE DEF n
<1>5. step \in [1..n -> [Nat -> Nat]]
  BY <1>3
<1>6. \A i \in 1..n, v \in Nat : step[i][v] = v + Weight(reading, b, p[i])
  OBVIOUS
<1> HIDE DEF step
<1>7. PICK h \in [SUBSET (1..n) -> Nat] : FoldsTo(n, 0, step, h)
  BY <1>1, <1>5, FoldTable
<1>8. Iter(h)
  <2>1. ASSUME NEW s \in SUBSET (1..n)
        PROVE  h[s] = IF s = {} THEN 0
                      ELSE h[s \ {Max(s)}] + Weight(reading, b, p[Max(s)])
    <3>1. CASE s = {}
      BY <1>7, <3>1 DEF FoldsTo
    <3>2. CASE s # {}
      <4>1. Max(s) \in 1..n
        BY <1>1, <3>2, MaxOf
      <4>2. h[s \ {Max(s)}] \in Nat
        BY <1>7
      <4>3. h[s] = step[Max(s)][h[s \ {Max(s)}]]
        BY <1>7, <3>2 DEF FoldsTo
      <4> QED
        BY <1>6, <3>2, <4>1, <4>2, <4>3
    <3> QED
      BY <3>1, <3>2
  <2>2. h = [s \in SUBSET (1..n) |-> h[s]]
    BY <1>7
  <2>3. h = [s \in SUBSET (1..n) |->
              IF s = {} THEN 0
              ELSE h[s \ {Max(s)}] + Weight(reading, b, p[Max(s)])]
    BY <2>1, <2>2, Zenon
  <2> QED
    BY <1>1, <2>3
<1> DEFINE g == CHOOSE h2 : Iter(h2)
<1>9. Iter(g)
  <2> HIDE DEF Iter
  <2> QED
    BY <1>8
<1>10. WordOf(reading, b, p) = g[1..n]
  BY <1>1, <1>4
<1> HIDE DEF g
<1>11. ASSUME NEW s \in SUBSET (1..n)
       PROVE  g[s] = IF s = {} THEN 0
                      ELSE g[s \ {Max(s)}] + Weight(reading, b, p[Max(s)])
  BY <1>1, <1>9
<1> DEFINE f == [k \in 0..n |-> g[1..k]]
<1>12. f[0] = 0
  <2>1. 1..0 = {} /\ 0 \in 0..n
    BY <1>1
  <2> QED
    BY <1>11, <2>1
<1>13. ASSUME NEW k \in 1..n PROVE f[k] = f[k - 1] + Weight(reading, b, p[k])
  <2>1. /\ 1..k \in SUBSET (1..n) /\ 1..k # {} /\ Max(1..k) = k
        /\ (1..k) \ {k} = 1..(k - 1)
    BY <1>1, Initial
  <2>2. g[1..k] = g[1..(k - 1)] + Weight(reading, b, p[k])
    BY <1>11, <2>1
  <2>3. k \in 0..n /\ k - 1 \in 0..n
    BY <1>1
  <2> QED
    BY <2>2, <2>3
<1>14. \A k \in 0..n : f[k] \in Nat
  <2> HIDE DEF f
  <2>1. f[0] \in Nat
    BY <1>12
  <2>2. \A k \in 1..n : f[k - 1] \in Nat => f[k] \in Nat
    BY <1>3, <1>13
  <2> QED
    BY <1>1, <2>1, <2>2, Along
<1>15. f \in [0..n -> Nat] /\ f[n] = g[1..n]
  BY <1>1, <1>14
<1> HIDE DEF f
<1>16. Adds(reading, b, p, f)
  BY <1>10, <1>12, <1>13, <1>15 DEF Adds, n
<1> QED
  BY <1>16


\* Powers of two.
LEMMA PowerOfTwo ==
  ASSUME NEW n \in Nat PROVE 2^n \in Nat \ {0}
<1>1. IsFiniteSet(1..n) /\ Cardinality(1..n) = n
  BY FS_Interval
<1>2. IsFiniteSet(SUBSET (1..n)) /\ Cardinality(SUBSET (1..n)) = 2^n
  BY <1>1, FS_SUBSET
<1>3. SUBSET (1..n) # {}
  OBVIOUS
<1>4. Cardinality(SUBSET (1..n)) \in Nat /\ Cardinality(SUBSET (1..n)) # 0
  BY <1>2, <1>3, FS_CardinalityType, FS_EmptySet
<1> QED
  BY <1>2, <1>4

LEMMA Doubled ==
  ASSUME NEW n \in Nat PROVE 2^(n + 1) = 2 * 2^n
<1> DEFINE S == 1..n
           T == 1..(n + 1)
           A == SUBSET S
           B == {s \cup {n + 1} : s \in A}
           f == [s \in A |-> s \cup {n + 1}]
<1>1. IsFiniteSet(S) /\ Cardinality(S) = n
  BY FS_Interval
<1>2. IsFiniteSet(T) /\ Cardinality(T) = n + 1
  <2>1. n + 1 \in Nat
    OBVIOUS
  <2> QED
    BY <2>1, FS_Interval
<1>3. IsFiniteSet(A) /\ Cardinality(A) = 2^n
  BY <1>1, FS_SUBSET
<1>4. IsFiniteSet(SUBSET T) /\ Cardinality(SUBSET T) = 2^(n + 1)
  BY <1>2, FS_SUBSET
<1>5. n + 1 \notin S /\ T = S \cup {n + 1}
  OBVIOUS
<1> HIDE DEF S, T
<1>6. SUBSET T = A \cup B
  <2>1. ASSUME NEW t \in SUBSET T PROVE t \in A \cup B
    <3>1. CASE n + 1 \in t
      <4>1. t \ {n + 1} \in A /\ t = (t \ {n + 1}) \cup {n + 1}
        BY <1>5, <3>1
      <4> QED
        BY <4>1
    <3>2. CASE n + 1 \notin t
      BY <1>5, <3>2
    <3> QED
      BY <3>1, <3>2
  <2>2. A \subseteq SUBSET T /\ B \subseteq SUBSET T
    BY <1>5
  <2> QED
    BY <2>1, <2>2
<1>7. A \cap B = {}
  BY <1>5
<1>8. f \in Bijection(A, B)
  <2>1. f \in [A -> B]
    OBVIOUS
  <2>2. ASSUME NEW s \in A, NEW t \in A, f[s] = f[t] PROVE s = t
    <3>1. s = (s \cup {n + 1}) \ {n + 1} /\ t = (t \cup {n + 1}) \ {n + 1}
      BY <1>5
    <3>2. s \cup {n + 1} = t \cup {n + 1}
      BY <2>2
    <3> QED
      BY <3>1, <3>2
  <2>3. \A t \in B : \E s \in A : f[s] = t
    OBVIOUS
  <2>4. DOMAIN f = A
    OBVIOUS
  <2> HIDE DEF f, A, B
  <2>5. IsInjective(f)
    BY <2>2, <2>4 DEF IsInjective
  <2> QED
    BY <2>1, <2>3, <2>5 DEF Bijection, Injection, Surjection
<1> HIDE DEF A, B, f
<1>9. IsFiniteSet(B) /\ Cardinality(B) = Cardinality(A)
  <2>1. ExistsBijection(A, B)
    BY <1>8 DEF ExistsBijection
  <2> QED
    BY <1>3, <2>1, FS_Bijection
<1>10. Cardinality(A \cup B)
         = Cardinality(A) + Cardinality(B) - Cardinality(A \cap B)
  BY <1>3, <1>9, FS_Union
<1>11. Cardinality(A \cap B) = 0
  BY <1>7, FS_EmptySet
<1> DEFINE x == 2^n
           y == 2^(n + 1)
<1>12. x \in Nat
  BY PowerOfTwo
<1>13. y = x + x - 0
  BY <1>3, <1>4, <1>6, <1>9, <1>10, <1>11
<1> HIDE DEF x, y
<1>14. y = 2 * x
  BY <1>12, <1>13
<1> QED
  BY <1>14 DEF x, y

LEMMA One == 2^0 = 1
  OBVIOUS

LEMMA Halved ==
  ASSUME NEW n \in Nat, NEW k \in Nat \ {0}
  PROVE  /\ n \div (2 * k) = (n \div k) \div 2
         /\ n % (2 * k) = (n % 2) + 2 * ((n \div 2) % k)
<1>1. n \div (2 * k) = (n \div k) \div 2
  OBVIOUS
<1> DEFINE a == n \div 2
           b == n % 2
           q == a \div k
           r == a % k
<1>2. a \in Nat /\ b \in {0, 1} /\ n = 2 * a + b
  OBVIOUS
<1>3. q \in Nat /\ r \in 0..(k - 1) /\ a = k * q + r
  <2> HIDE DEF a
  <2> QED
    BY <1>2, Divided
<1> HIDE DEF a, b, q, r
<1>4. n = (2 * k) * q + (b + 2 * r)
  <2>1. 2 * (k * q) = (2 * k) * q
    BY <1>3
  <2>2. k * q \in Nat /\ r \in Nat
    BY <1>3
  <2> DEFINE kq == k * q
  <2>3. kq \in Nat /\ 2 * kq = (2 * k) * q /\ a = kq + r
    BY <1>3, <2>1, <2>2
  <2> HIDE DEF kq
  <2> QED
    BY <1>2, <2>2, <2>3
<1>5. b + 2 * r \in 0..((2 * k) - 1) /\ 2 * k \in Nat \ {0}
  BY <1>2, <1>3
<1> DEFINE d == 2 * k
           m == b + 2 * r
<1>6. d \in Nat \ {0} /\ m \in 0..(d - 1) /\ n = d * q + m
  BY <1>4, <1>5
<1> HIDE DEF d, m
<1>7. n % d = m
  BY <1>3, <1>6, Quotient
<1> QED
  BY <1>1, <1>7 DEF d, m, a, b, r

Binary == {0, 1}

LEMMA Bit ==
  ASSUME NEW n \in Int, NEW k \in Nat
  PROVE  (n \div 2^k) % 2 \in Binary
<1> DEFINE m == 2^k
<1>1. m \in Nat \ {0}
  BY PowerOfTwo
<1> HIDE DEF m
<1>2. n \div m \in Int
  BY <1>1
<1> DEFINE q == n \div m
<1> HIDE DEF q
<1>3. q % 2 \in Binary
  BY <1>2 DEF q, Binary
<1> QED
  BY <1>3 DEF q, m

\* The bytes of a word.
LEMMA BytesOfWord ==
  ASSUME NEW w \in Nat
  PROVE  /\ w % 2^ByteBits \in Nat /\ w \div 2^ByteBits \in Nat
         /\ (w % 2^ByteBits) + 2^ByteBits * (w \div 2^ByteBits) = w
<1> DEFINE m == 2^ByteBits
<1>1. m \in Nat \ {0}
  BY PowerOfTwo, SensorTestAssumption
<1> HIDE DEF m
<1>2. w % m \in Nat /\ w \div m \in Nat
  BY <1>1
<1>3. (w % m) + m * (w \div m) = w
  BY <1>1
<1> QED
  BY <1>2, <1>3 DEF m

LEMMA BitsType ==
  ASSUME NEW n \in Int, NEW size \in Nat
  PROVE  LET bits == [i \in 1..size |-> (n \div 2^(i - 1)) % 2]
         IN  bits \in Seq(Binary) /\ Len(bits) = size
<1> DEFINE bit(i) == (n \div 2^(i - 1)) % 2
<1>1. ASSUME NEW i \in 1..size PROVE bit(i) \in Binary
  <2>1. i - 1 \in Nat
    OBVIOUS
  <2> QED
    BY <2>1, Bit
<1> HIDE DEF bit
<1>2. [i \in 1..size |-> bit(i)] \in Seq(Binary) /\ Len([i \in 1..size |-> bit(i)]) = size
  BY <1>1
<1> QED
  BY <1>2 DEF bit

LEMMA FlagsType ==
  ASSUME NEW set
  PROVE  LET flags == [s \in 1..Sensors |-> FlagIf(s - 1 \in set, 1)]
         IN  flags \in Seq(Binary) /\ Len(flags) = Sensors
<1>1. Sensors \in Nat
  BY SensorTestAssumption
<1> DEFINE flag(s) == IF s - 1 \in set THEN 1 ELSE 0
<1>2. \A s \in 1..Sensors : flag(s) \in Binary
  BY DEF Binary
<1> HIDE DEF flag
<1>3. /\ [s \in 1..Sensors |-> flag(s)] \in Seq(Binary)
      /\ Len([s \in 1..Sensors |-> flag(s)]) = Sensors
  BY <1>1, <1>2
<1> QED
  BY <1>3 DEF flag, FlagIf

\* Sequences of known lengths, one after the other.
Sized(s, n) == s \in Seq(Binary) /\ Len(s) = n

LEMMA SizedConcat ==
  ASSUME NEW m \in Nat, NEW n \in Nat, NEW s, Sized(s, m), NEW t, Sized(t, n)
  PROVE  Sized(s \o t, m + n) /\ m + n \in Nat
<1>1. s \in Seq(Binary) /\ t \in Seq(Binary)
  BY DEF Sized
<1>2. s \o t \in Seq(Binary) /\ Len(s \o t) = Len(s) + Len(t)
  BY <1>1, Joined
<1> QED
  BY <1>2 DEF Sized

LEMMA LevelsType ==
  ASSUME NEW level \in [0..(Sensors - 1) -> Int]
  PROVE  Sized(FlattenSeq([s \in 1..Sensors |->
                 [i \in 1..LevelBits |->
                   ((level[s - 1] + 2^LevelBits) \div 2^(i - 1)) % 2]]),
               Sensors * LevelBits)
<1> DEFINE bits(s) == [i \in 1..LevelBits |->
                        ((level[s - 1] + 2^LevelBits) \div 2^(i - 1)) % 2]
           seqs == [s \in 1..Sensors |-> bits(s)]
<1>1. Sensors \in Nat /\ LevelBits \in Nat
  BY SensorTestAssumption
<1>2. ASSUME NEW s \in 1..Sensors
      PROVE  bits(s) \in Seq(Binary) /\ Len(bits(s)) = LevelBits
  <2> DEFINE m == 2^LevelBits
             n == level[s - 1] + m
  <2>1. m \in Nat
    BY <1>1, PowerOfTwo
  <2> HIDE DEF m
  <2>2. s - 1 \in 0..(Sensors - 1)
    BY <1>1
  <2>3. n \in Int
    BY <2>1, <2>2
  <2> HIDE DEF n
  <2> DEFINE b == [i \in 1..LevelBits |-> (n \div 2^(i - 1)) % 2]
  <2>4. b \in Seq(Binary) /\ Len(b) = LevelBits
    BY <1>1, <2>3, BitsType
  <2>5. b = bits(s)
    BY DEF n, m
  <2> HIDE DEF b, bits
  <2> QED
    BY <2>4, <2>5
<1> HIDE DEF bits
<1>3. /\ seqs \in Seq(Seq(Binary)) /\ Len(seqs) = Sensors
      /\ \A k \in 1..Len(seqs) : Len(seqs[k]) = LevelBits
  BY <1>1, <1>2
<1> HIDE DEF seqs
<1>4. FlattenSeq(seqs) \in Seq(Binary) /\ Len(FlattenSeq(seqs)) = Sensors * LevelBits
  BY <1>1, <1>3, EqualParts
<1> QED
  BY <1>4 DEF Sized, seqs, bits

LEMMA BitsOfType ==
  ASSUME NEW details \in PanelDetails
  PROVE  Sized(BitsOf(details), DetailBits) /\ DetailBits \in Nat
<1> DEFINE L == Sensors * LevelBits
           S == Sensors
           D == DipBits
<1>1. S \in Nat /\ D \in Nat /\ LevelBits \in Nat
  BY SensorTestAssumption
<1>2. L \in Nat
  BY <1>1
<1>3. DetailBits = ((((3 + S) + 1) + L) + D) + S
  BY <1>1, <1>2 DEF DetailBits, JumperAt, DipAt, LevelAt, BadAt
<1>4. DetailBits \in Nat
  BY <1>1, <1>2, <1>3
<1>5. CASE details = Silent
  <2>1. BitsOf(details) = [i \in 1..DetailBits |-> 0]
    BY <1>5 DEF BitsOf
  <2> QED
    BY <1>4, <2>1 DEF Sized, Binary
<1>6. CASE details # Silent
  <2> DEFINE level == details.level
             bad == [s \in 1..Sensors |-> FlagIf(s - 1 \in details.bad, 1)]
             jumper == [s \in 1..Sensors |-> FlagIf(s - 1 \in details.jumper, 1)]
             levels == FlattenSeq([s \in 1..Sensors |->
                         [i \in 1..LevelBits |->
                           ((level[s - 1] + 2^LevelBits) \div 2^(i - 1)) % 2]])
             dip == [i \in 1..DipBits |-> (details.dip \div 2^(i - 1)) % 2]
             a == Signature \o bad
             b == a \o <<0>>
             c == b \o levels
             d == c \o dip
  <2>1. BitsOf(details) = d \o jumper
    BY <1>6 DEF BitsOf
  <2>2. level \in [0..(Sensors - 1) -> Int] /\ details.dip \in Int
    <3> DEFINE h == 2^(LevelBits - 1)
               k == 2^DipBits
    <3>1. LevelBits - 1 \in Nat
      BY SensorTestAssumption
    <3>2. h \in Int /\ k \in Int
      BY <1>1, <3>1, PowerOfTwo
    <3>3. /\ level \in [0..(Sensors - 1) -> (0 - h)..(h - 1)]
          /\ details.dip \in 0..(k - 1)
      BY <1>6 DEF PanelDetails
    <3> HIDE DEF h, k, level
    <3>4. (0 - h)..(h - 1) \subseteq Int /\ 0..(k - 1) \subseteq Int
      BY <3>2
    <3> QED
      BY <3>3, <3>4
  <2>3. Sized(Signature, 3) /\ Sized(<<0>>, 1)
    BY DEF Sized, Signature, Binary
  <2>4. Sized(bad, S) /\ Sized(jumper, S)
    BY FlagsType DEF Sized
  <2> HIDE DEF bad, jumper, level
  <2>5. Sized(levels, L)
    BY <2>2, LevelsType
  <2> HIDE DEF levels, L
  <2>6. Sized(dip, D)
    BY <1>1, <2>2, BitsType DEF Sized
  <2> HIDE DEF dip, S, D
  <2>7. Sized(a, 3 + S) /\ 3 + S \in Nat
    BY <1>1, <2>3, <2>4, SizedConcat
  <2> HIDE DEF a
  <2>8. Sized(b, (3 + S) + 1) /\ (3 + S) + 1 \in Nat
    BY <2>3, <2>7, SizedConcat
  <2> HIDE DEF b
  <2>9. Sized(c, ((3 + S) + 1) + L) /\ ((3 + S) + 1) + L \in Nat
    BY <1>2, <2>5, <2>8, SizedConcat
  <2> HIDE DEF c
  <2>10. /\ Sized(d, (((3 + S) + 1) + L) + D)
         /\ (((3 + S) + 1) + L) + D \in Nat
    BY <1>1, <2>6, <2>9, SizedConcat
  <2> HIDE DEF d
  <2>11. Sized(d \o jumper, ((((3 + S) + 1) + L) + D) + S)
    BY <1>1, <2>4, <2>10, SizedConcat
  <2> QED
    BY <1>3, <1>4, <2>1, <2>11
<1> QED
  BY <1>5, <1>6

PanelOrder == [q \in 1..NumPanels |-> q]

\* A sum of panels' bits, each at its place.
SumOfBits(P, bit, f) ==
  /\ f \in [0..P -> Nat] /\ f[0] = 0
  /\ \A j \in 1..P : bit[j] \in Binary /\ f[j] = f[j - 1] + 2^(j - 1) * bit[j]

\* A word has that bit of every panel.
LEMMA WordSum ==
  ASSUME NEW reading \in Readings, NEW i \in 1..DetailBits
  PROVE  \E f : /\ SumOfBits(NumPanels,
                             [q \in 1..NumPanels |-> BitsOf(reading[q - 1])[i]], f)
               /\ WordOf(reading, i, PanelOrder) = f[NumPanels]
<1> DEFINE P == NumPanels
           p == PanelOrder
           bit == [q \in 1..P |-> BitsOf(reading[q - 1])[i]]
<1>1. P \in Nat /\ reading \in [Panels -> PanelDetails]
  BY SensorTestAssumption, WireAssumption
<1>2. p \in Seq(Nat) /\ Len(p) = P /\ \A q \in 1..P : p[q] = q
  BY <1>1 DEF PanelOrder
<1>3. ASSUME NEW q \in 1..P
      PROVE  /\ bit[q] \in Binary /\ Weight(reading, i, q) \in Nat
             /\ Weight(reading, i, q) = 2^(q - 1) * bit[q]
  <2> DEFINE m == 2^(q - 1)
             s == BitsOf(reading[q - 1])
  <2>1. q - 1 \in Nat /\ q - 1 \in Panels
    BY <1>1 DEF Panels
  <2>2. m \in Nat
    BY <2>1, PowerOfTwo
  <2>3. Sized(s, DetailBits)
    BY <1>1, <2>1, BitsOfType
  <2>4. Weight(reading, i, q) = m * s[i] /\ bit[q] = s[i]
    BY DEF Weight
  <2> HIDE DEF s, bit
  <2>5. s[i] \in Binary
    BY <2>3 DEF Sized
  <2>6. Weight(reading, i, q) = m * bit[q] /\ bit[q] \in Binary
    BY <2>4, <2>5
  <2> HIDE DEF m
  <2>7. m * bit[q] \in Nat
    BY <2>2, <2>6 DEF Binary
  <2> QED
    BY <2>6, <2>7 DEF m
<1> HIDE DEF p, bit
<1>4. \A j \in 1..Len(p) : Weight(reading, i, p[j]) \in Nat
  BY <1>2, <1>3
<1>5. PICK f : Adds(reading, i, p, f)
  BY <1>2, <1>4, WordFold
<1>6. /\ f \in [0..P -> Nat] /\ f[0] = 0 /\ WordOf(reading, i, p) = f[P]
      /\ \A j \in 1..P : f[j] = f[j - 1] + Weight(reading, i, j)
  BY <1>2, <1>5 DEF Adds
<1>7. SumOfBits(P, bit, f)
  BY <1>3, <1>6 DEF SumOfBits
<1> QED
  BY <1>6, <1>7 DEF p, bit

\* The answer of the sensors is a sequence of bytes.
LEMMA SensorAnswerType ==
  ASSUME NEW asFor \in Nat, NEW reading \in Readings
  PROVE  /\ SensorAnswer(asFor, reading) \in Seq(Nat)
         /\ SensorAnswer(asFor, reading)[1] = Sense
<1> DEFINE word(i) == WordOf(reading, i, PanelOrder)
           bytes(i) == <<word(i) % 2^ByteBits, word(i) \div 2^ByteBits>>
           words == [i \in 1..DetailBits |-> bytes(i)]
           head == <<Sense, asFor, DetailBits>>
<1>1. SensorAnswer(asFor, reading) = head \o FlattenSeq(words)
  BY DEF SensorAnswer, WordOf, PanelOrder
<1>2. NumPanels \in Nat
  BY SensorTestAssumption
<1>3. DetailBits \in Nat
  BY BitsOfType DEF PanelDetails
<1>4. NumPanels \in 0..NumPanels
  BY <1>2
<1>5. ASSUME NEW i \in 1..DetailBits PROVE word(i) \in Nat
  <2>1. PICK f : /\ SumOfBits(NumPanels,
                             [q \in 1..NumPanels |-> BitsOf(reading[q - 1])[i]], f)
                 /\ word(i) = f[NumPanels]
    BY WordSum
  <2>2. f \in [0..NumPanels -> Nat]
    BY <2>1 DEF SumOfBits
  <2> HIDE DEF word
  <2> QED
    BY <1>4, <2>1, <2>2
<1> HIDE DEF word
<1>6. ASSUME NEW i \in 1..DetailBits PROVE bytes(i) \in Seq(Nat)
  <2>1. word(i) % 2^ByteBits \in Nat /\ word(i) \div 2^ByteBits \in Nat
    BY <1>5, BytesOfWord
  <2> QED
    BY <2>1
<1> HIDE DEF bytes
<1>7. words \in Seq(Seq(Nat))
  BY <1>3, <1>6
<1> HIDE DEF words
<1>8. FlattenSeq(words) \in Seq(Nat)
  BY <1>7, Flatten
<1>9. head \in Seq(Nat)
  BY <1>3 DEF Sense
<1>10. head[1] = Sense /\ 1 \in 1..Len(head)
  OBVIOUS
<1> HIDE DEF head
<1>11. /\ head \o FlattenSeq(words) \in Seq(Nat)
       /\ \A i \in 1..Len(head) : (head \o FlattenSeq(words))[i] = head[i]
  BY <1>8, <1>9, Joined
<1> QED
  BY <1>1, <1>10, <1>11

-----------------------------------------------------------------------------
(* What the device still gets *)

\* The packets in report6_buffer and those of reports that are on their way.
Stream(in, box) == in \o KeptOf(box)

\* From the positions K of what is still to come, with c under way there, only
\* packets in A are put together.
Fed(K, c, buf, box, A) ==
  \E in, at :
    /\ in \in Seq(Packet)
    /\ CutAt(buf, in, at)
    /\ \A k \in 0..Len(Stream(in, box)) : k \in K => Sound(c, Stream(in, box), k, A)

LEMMA StreamFacts ==
  ASSUME NEW in \in Seq(Packet), NEW box \in Seq(Report)
  PROVE  /\ Stream(in, box) \in Seq(Packet) /\ Len(in) \in Nat /\ Len(box) \in Nat
         /\ Len(Stream(in, box)) = Len(in) + Len(box)
         /\ \A j \in 1..Len(in) : Stream(in, box)[j] = in[j]
         /\ \A j \in 1..Len(box) : Stream(in, box)[Len(in) + j] = Kept(box[j])
<1> DEFINE t == KeptOf(box)
<1>1. /\ t \in Seq(Packet) /\ Len(t) = Len(box) /\ Len(box) \in Nat
      /\ \A j \in 1..Len(box) : t[j] = Kept(box[j])
  BY KeptOfType
<1> HIDE DEF t
<1>2. /\ in \o t \in Seq(Packet) /\ Len(in) \in Nat
      /\ Len(in \o t) = Len(in) + Len(t)
      /\ \A j \in 1..Len(in) : (in \o t)[j] = in[j]
      /\ \A j \in 1..Len(t) : (in \o t)[Len(in) + j] = t[j]
  BY <1>1, SMT
<1>3. Stream(in, box) = in \o t
  BY DEF Stream, t
<1> QED
  BY <1>1, <1>2, <1>3

LEMMA FedMore ==
  ASSUME NEW K, NEW L, L \subseteq K, NEW c, NEW buf, NEW box, NEW A,
         Fed(K, c, buf, box, A)
  PROVE  Fed(L, c, buf, box, A)
BY DEF Fed

LEMMA FedStall ==
  ASSUME NEW K, NEW c, NEW buf, NEW box \in Seq(Report), NEW A,
         Fed(K, c, buf, box, A), NEW n \in 0..Len(box)
  PROVE  Fed(K, c, buf, SubSeq(box, 1, n), A) /\ SubSeq(box, 1, n) \in Seq(Report)
<1> DEFINE cut == SubSeq(box, 1, n)
<1>1. PICK in, at :
        /\ in \in Seq(Packet)
        /\ CutAt(buf, in, at)
        /\ \A k \in 0..Len(Stream(in, box)) :
             k \in K => Sound(c, Stream(in, box), k, A)
  BY DEF Fed
<1>2. /\ cut \in Seq(Report) /\ Len(cut) = n /\ n \in Nat /\ n <= Len(box)
      /\ \A j \in 1..n : cut[j] = box[j]
  OBVIOUS
<1> HIDE DEF cut
<1> DEFINE s == Stream(in, box)
           t == Stream(in, cut)
           m == Len(in)
<1>3. /\ s \in Seq(Packet) /\ m \in Nat /\ Len(box) \in Nat
      /\ Len(s) = m + Len(box)
      /\ \A j \in 1..m : s[j] = in[j]
      /\ \A j \in 1..Len(box) : s[m + j] = Kept(box[j])
  BY <1>1, StreamFacts
<1>4. /\ t \in Seq(Packet) /\ Len(t) = m + n
      /\ \A j \in 1..m : t[j] = in[j]
      /\ \A j \in 1..n : t[m + j] = Kept(cut[j])
  BY <1>1, <1>2, StreamFacts
<1> HIDE DEF s, t, m
<1>5. ASSUME NEW j \in 1..Len(t) PROVE t[j] = s[j]
  <2>1. CASE j <= m
    <3>1. j \in 1..m
      BY <1>2, <1>3, <1>4, <2>1
    <3> QED
      BY <1>3, <1>4, <3>1
  <2>2. CASE ~(j <= m)
    <3> DEFINE i == j - m
    <3>1. i \in 1..n /\ i \in 1..Len(box) /\ m + i = j
      BY <1>2, <1>3, <1>4, <2>2
    <3> HIDE DEF i
    <3>2. t[m + i] = Kept(cut[i]) /\ s[m + i] = Kept(box[i]) /\ cut[i] = box[i]
      BY <1>2, <1>3, <1>4, <3>1
    <3> QED
      BY <3>1, <3>2
  <2> QED
    BY <2>1, <2>2
<1>6. ASSUME NEW k \in 0..Len(t), k \in K PROVE Sound(c, t, k, A)
  <2>1. Len(t) <= Len(s) /\ k \in 0..Len(s)
    BY <1>2, <1>3, <1>4
  <2>2. Sound(c, s, k, A)
    BY <1>1, <1>6, <2>1 DEF s
  <2> QED
    BY <1>3, <1>4, <1>5, <2>1, <2>2, SoundPrefix
<1>7. Fed(K, c, buf, cut, A)
  BY <1>1, <1>6 DEF Fed, t
<1> QED
  BY <1>2, <1>7 DEF cut

LEMMA InsertFacts ==
  ASSUME NEW X, NEW s \in Seq(X), NEW e \in X, NEW i \in 1..(Len(s) + 1)
  PROVE  /\ InsertAt(s, i, e) \in Seq(X) /\ Len(InsertAt(s, i, e)) = Len(s) + 1
         /\ \A j \in 1..(i - 1) : InsertAt(s, i, e)[j] = s[j]
         /\ InsertAt(s, i, e)[i] = e
         /\ \A j \in (i + 1)..(Len(s) + 1) : InsertAt(s, i, e)[j] = s[j - 1]
<1> DEFINE n == Len(s)
           a == SubSeq(s, 1, i - 1)
           b == SubSeq(s, i, n)
           o == <<e>>
           t == (a \o o) \o b
<1>1. n \in Nat /\ i \in 1..(n + 1)
  OBVIOUS
<1>2. /\ a \in Seq(X) /\ Len(a) = i - 1 /\ \A j \in 1..(i - 1) : a[j] = s[j]
  OBVIOUS
<1>3. /\ b \in Seq(X) /\ Len(b) = n + 1 - i
      /\ \A j \in 1..(n + 1 - i) : b[j] = s[i + j - 1]
  <2>1. \A j \in i..n : s[j] \in X
    BY <1>1
  <2>2. /\ b \in Seq(X) /\ Len(b) = IF i <= n THEN n - i + 1 ELSE 0
        /\ \A j \in 1..(n - i + 1) : b[j] = s[i + j - 1]
    BY <1>1, <2>1, SubSeqProperties
  <2> QED
    BY <1>1, <2>2
<1>4. o \in Seq(X) /\ Len(o) = 1 /\ o[1] = e
  OBVIOUS
<1>5. InsertAt(s, i, e) = t
  BY DEF InsertAt
<1> DEFINE c == a \o o
<1> HIDE DEF n, a, b, o
<1>6. /\ c \in Seq(X) /\ Len(c) = Len(a) + Len(o)
      /\ \A j \in 1..Len(a) : c[j] = a[j]
      /\ \A j \in 1..Len(o) : c[Len(a) + j] = o[j]
  <2>1. a \in Seq(X) /\ o \in Seq(X)
    BY <1>2, <1>4
  <2> QED
    BY <2>1, Joined
<1>7. /\ t \in Seq(X) /\ Len(t) = Len(c) + Len(b)
      /\ \A j \in 1..Len(c) : t[j] = c[j]
      /\ \A j \in 1..Len(b) : t[Len(c) + j] = b[j]
  <2> HIDE DEF c
  <2>1. c \in Seq(X) /\ b \in Seq(X)
    BY <1>3, <1>6
  <2> QED
    BY <2>1, Joined DEF c
<1> HIDE DEF c, t
<1>8. Len(c) = i /\ Len(t) = n + 1
  BY <1>1, <1>2, <1>3, <1>4, <1>6, <1>7
<1>9. ASSUME NEW j \in 1..(i - 1) PROVE t[j] = s[j]
  <2>1. j \in 1..Len(c) /\ j \in 1..Len(a)
    BY <1>1, <1>2, <1>8
  <2> QED
    BY <1>2, <1>6, <1>7, <2>1
<1>10. t[i] = e
  <2>1. i \in 1..Len(c) /\ 1 \in 1..Len(o) /\ Len(a) + 1 = i
    BY <1>1, <1>2, <1>4, <1>8
  <2>2. t[i] = c[i] /\ c[Len(a) + 1] = o[1]
    BY <1>6, <1>7, <2>1
  <2> QED
    BY <1>4, <2>1, <2>2
<1>11. ASSUME NEW j \in (i + 1)..(n + 1) PROVE t[j] = s[j - 1]
  <2> DEFINE q == j - i
  <2>1. q \in 1..Len(b) /\ q \in 1..(n + 1 - i) /\ i + q = j /\ i + q - 1 = j - 1
    BY <1>1, <1>3
  <2> HIDE DEF q
  <2>2. t[Len(c) + q] = b[q] /\ b[q] = s[i + q - 1]
    BY <1>3, <1>7, <2>1
  <2> QED
    BY <1>8, <2>1, <2>2
<1> QED
  BY <1>5, <1>7, <1>8, <1>9, <1>10, <1>11 DEF n

\* The pad's identity is reported, wherever in between.
LEMMA FedIdentity ==
  ASSUME NEW K, K = {0} \/ K = Nat, NEW c, NEW buf, NEW box \in Seq(Report), NEW A,
         Fed(K, c, buf, box, A), NEW r \in Report, IsInfo(Kept(r)),
         NEW i \in 1..(Len(box) + 1)
  PROVE  Fed(K, c, buf, InsertAt(box, i, r), A) /\ InsertAt(box, i, r) \in Seq(Report)
<1> DEFINE out == InsertAt(box, i, r)
           n == Len(box)
<1>1. PICK in, at :
        /\ in \in Seq(Packet)
        /\ CutAt(buf, in, at)
        /\ \A k \in 0..Len(Stream(in, box)) :
             k \in K => Sound(c, Stream(in, box), k, A)
  BY DEF Fed
<1>2. /\ out \in Seq(Report) /\ Len(out) = n + 1 /\ n \in Nat
      /\ \A j \in 1..(i - 1) : out[j] = box[j]
      /\ out[i] = r
      /\ \A j \in (i + 1)..(n + 1) : out[j] = box[j - 1]
  BY InsertFacts, SMTT(30)
<1> HIDE DEF out
<1> DEFINE s == Stream(in, box)
           t == Stream(in, out)
           l == Len(in)
           m == l + i - 1
<1>3. /\ s \in Seq(Packet) /\ l \in Nat
      /\ Len(s) = l + n
      /\ \A j \in 1..l : s[j] = in[j]
      /\ \A j \in 1..n : s[l + j] = Kept(box[j])
  BY <1>1, StreamFacts
<1>4. /\ t \in Seq(Packet) /\ Len(t) = l + Len(out)
      /\ \A j \in 1..l : t[j] = in[j]
      /\ \A j \in 1..Len(out) : t[l + j] = Kept(out[j])
  BY <1>1, <1>2, StreamFacts
<1>5. i \in 1..(n + 1)
  OBVIOUS
<1> HIDE DEF s, t, l, n
<1>6. Len(t) = Len(s) + 1 /\ Len(s) \in Nat /\ m \in 0..Len(s)
  BY <1>2, <1>3, <1>4, <1>5
<1>7. ASSUME NEW j \in 1..m PROVE t[j] = s[j]
  <2>1. CASE j <= l
    <3>1. j \in 1..l
      BY <1>3, <2>1
    <3> QED
      BY <1>3, <1>4, <3>1
  <2>2. CASE ~(j <= l)
    <3> DEFINE q == j - l
    <3>1. q \in 1..n /\ q \in 1..Len(out) /\ q \in 1..(i - 1) /\ l + q = j
      BY <1>2, <1>3, <1>5, <2>2
    <3> HIDE DEF q
    <3>2. t[l + q] = Kept(out[q]) /\ s[l + q] = Kept(box[q]) /\ out[q] = box[q]
      BY <1>2, <1>3, <1>4, <3>1
    <3> QED
      BY <3>1, <3>2
  <2> QED
    BY <2>1, <2>2
<1>8. IsInfo(t[m + 1])
  <2>1. i \in 1..Len(out) /\ m + 1 = l + i
    BY <1>2, <1>3, <1>5
  <2>2. t[l + i] = Kept(out[i])
    BY <1>4, <2>1
  <2> QED
    BY <1>2, <2>1, <2>2
<1>9. ASSUME NEW j \in (m + 2)..Len(t) PROVE t[j] = s[j - 1]
  <2> DEFINE q == j - l
  <2>1. /\ q \in 1..Len(out) /\ q \in (i + 1)..(n + 1) /\ l + q = j
        /\ q - 1 \in 1..n /\ l + (q - 1) = j - 1
    <3>1. n \in Nat /\ l \in Nat /\ Len(out) = n + 1 /\ Len(t) = l + (n + 1)
      BY <1>2, <1>3, <1>4
    <3>2. i \in Int /\ 1 <= i /\ i <= n + 1 /\ j \in Int /\ l + i + 1 <= j /\ j <= Len(t)
      BY <1>5, <3>1, <1>9
    <3> QED
      BY <3>1, <3>2
  <2> HIDE DEF q
  <2>2. /\ t[l + q] = Kept(out[q]) /\ s[l + (q - 1)] = Kept(box[q - 1])
        /\ out[q] = box[q - 1]
    BY <1>2, <1>3, <1>4, <2>1
  <2> QED
    BY <2>1, <2>2
<1>10. ASSUME NEW k \in 0..Len(t), k \in K PROVE Sound(c, t, k, A)
  <2> DEFINE w == IF k <= m THEN k ELSE k - 1
  <2>1. w \in 0..Len(s) /\ w \in K
    <3>1. w \in 0..Len(s)
      BY <1>6, <1>10
    <3>2. CASE K = {0}
      <4>1. k = 0 /\ k <= m
        BY <1>6, <1>10, <3>2
      <4> QED
        BY <3>1, <3>2, <4>1
    <3>3. CASE K = Nat
      <4>1. w \in Nat
        BY <1>6, <3>1
      <4> QED
        BY <3>1, <3>3, <4>1
    <3> QED
      BY <3>2, <3>3
  <2>2. Sound(c, s, w, A)
    <3> HIDE DEF w
    <3> QED
      BY <1>1, <2>1 DEF s
  <2> HIDE DEF m
  <2> QED
    BY <1>3, <1>4, <1>6, <1>7, <1>8, <1>9, <2>2, SoundInsert
<1>11. Fed(K, c, buf, out, A)
  BY <1>1, <1>10 DEF Fed, t
<1> QED
  BY <1>2, <1>11 DEF out

\* More reports.
LEMMA StreamJoined ==
  ASSUME NEW in \in Seq(Packet), NEW box \in Seq(Report), NEW more \in Seq(Report)
  PROVE  LET s == Stream(in, box)
             t == Stream(in, box \o more)
         IN  /\ s \in Seq(Packet) /\ t \in Seq(Packet) /\ 0 \in 0..Len(s)
             /\ Len(s) = Len(in) + Len(box) /\ Len(t) = Len(s) + Len(more)
             /\ \A j \in 1..Len(s) : t[j] = s[j]
             /\ \A j \in 1..Len(more) : t[Len(s) + j] = Kept(more[j])
             /\ box \o more \in Seq(Report)
             /\ Len(in) \in Nat /\ Len(box) \in Nat /\ Len(more) \in Nat
<1> DEFINE out == box \o more
           n == Len(box)
           e == Len(more)
<1>1. /\ out \in Seq(Report) /\ Len(out) = n + e /\ n \in Nat /\ e \in Nat
      /\ \A j \in 1..n : out[j] = box[j]
      /\ \A j \in 1..e : out[n + j] = more[j]
  BY Joined
<1> HIDE DEF out
<1> DEFINE s == Stream(in, box)
           t == Stream(in, out)
           l == Len(in)
<1>2. /\ s \in Seq(Packet) /\ l \in Nat
      /\ Len(s) = l + n
      /\ \A j \in 1..l : s[j] = in[j]
      /\ \A j \in 1..n : s[l + j] = Kept(box[j])
  BY StreamFacts
<1>3. /\ t \in Seq(Packet) /\ Len(t) = l + Len(out)
      /\ \A j \in 1..l : t[j] = in[j]
      /\ \A j \in 1..Len(out) : t[l + j] = Kept(out[j])
  BY <1>1, StreamFacts
<1> HIDE DEF s, t, l, n, e
<1>4. Len(t) = Len(s) + e /\ Len(s) \in Nat /\ 0 \in 0..Len(s)
  BY <1>1, <1>2, <1>3
<1>5. ASSUME NEW j \in 1..Len(s) PROVE t[j] = s[j]
  <2>1. CASE j <= l
    <3>1. j \in 1..l
      BY <1>2, <2>1
    <3> QED
      BY <1>2, <1>3, <3>1
  <2>2. CASE ~(j <= l)
    <3> DEFINE q == j - l
    <3>1. q \in 1..n /\ q \in 1..Len(out) /\ l + q = j
      BY <1>1, <1>2, <2>2
    <3> HIDE DEF q
    <3>2. t[l + q] = Kept(out[q]) /\ s[l + q] = Kept(box[q]) /\ out[q] = box[q]
      BY <1>1, <1>2, <1>3, <3>1
    <3> QED
      BY <3>1, <3>2
  <2> QED
    BY <2>1, <2>2
<1>6. ASSUME NEW j \in 1..e PROVE t[Len(s) + j] = Kept(more[j])
  <2> DEFINE q == n + j
  <2>1. q \in 1..Len(out) /\ l + q = Len(s) + j
    BY <1>1, <1>2
  <2>2. out[q] = more[j]
    BY <1>1
  <2> HIDE DEF q
  <2>3. t[l + q] = Kept(out[q])
    BY <1>3, <2>1
  <2> QED
    BY <2>1, <2>2, <2>3
<1> QED
  BY <1>1, <1>2, <1>3, <1>4, <1>5, <1>6 DEF s, t, out, l, n, e

\* The pad answers.
LEMMA FedAnswered ==
  ASSUME NEW c, NEW buf, NEW box \in Seq(Report), NEW A,
         Fed({0}, c, buf, box, A), NEW answer \in Seq(Nat)
  PROVE  /\ Fed({0}, c, buf, box \o Reports(answer), A \cup {answer})
         /\ box \o Reports(answer) \in Seq(Report)
<1>1. PICK in, at :
        /\ in \in Seq(Packet)
        /\ CutAt(buf, in, at)
        /\ \A k \in 0..Len(Stream(in, box)) :
             k \in {0} => Sound(c, Stream(in, box), k, A)
  BY DEF Fed
<1> DEFINE new == Reports(answer)
<1>2. PICK got : Carries(new, answer, got)
  BY AnswerReports
<1>3. new \in Seq(Report)
  BY <1>2 DEF Carries
<1> HIDE DEF new
<1> DEFINE s == Stream(in, box)
           t == Stream(in, box \o new)
<1>4. /\ s \in Seq(Packet) /\ t \in Seq(Packet) /\ 0 \in 0..Len(s)
      /\ Len(t) = Len(s) + Len(new)
      /\ \A j \in 1..Len(s) : t[j] = s[j]
      /\ \A j \in 1..Len(new) : t[Len(s) + j] = Kept(new[j])
      /\ box \o new \in Seq(Report)
  BY <1>1, <1>3, StreamJoined
<1>5. Sound(c, s, 0, A)
  BY <1>1, <1>4
<1> HIDE DEF s, t
<1>6. Sound(c, t, 0, A \cup {answer})
  BY <1>2, <1>4, <1>5, SoundAnswered
<1>7. Fed({0}, c, buf, box \o new, A \cup {answer})
  <2>1. \A k \in 0..Len(t) : k \in {0} => Sound(c, t, k, A \cup {answer})
    BY <1>6
  <2>2. \E w : /\ CutAt(buf, in, w)
               /\ \A k \in 0..Len(t) : k \in {0} => Sound(c, t, k, A \cup {answer})
    BY <1>1, <2>1
  <2> QED
    BY <1>1, <2>2 DEF Fed, t
<1> QED
  BY <1>4, <1>7 DEF new

LEMMA SoundUnended ==
  ASSUME NEW c, NEW A, NEW B, NEW in, NEW k, Sound(c, in, k, B),
         \A j \in 1..Len(in) : j > k => ~HasFlag(in[j][2], EndOfCommand)
  PROVE  Sound(c, in, k, A)
<1>1. PICK run : Runs(c, in, k, B, run)
  BY DEF Sound
<1>2. ASSUME NEW j \in 1..Len(in), j > k PROVE Made(run[j - 1], in[j]) \subseteq A
  <2>1. Completed(run[j - 1], in[j]) = <<>>
    BY <1>2 DEF Completed
  <2>2. ToSet(<<>>) = {}
    BY DEF ToSet
  <2> QED
    BY <2>1, <2>2 DEF Made
<1>3. Runs(c, in, k, A, run)
  BY <1>1, <1>2 DEF Runs
<1> QED
  BY <1>3 DEF Sound

\* Until the last report of an answer has come, it adds nothing to what is put
\* together.
LEMMA FedFront ==
  ASSUME NEW c, NEW buf, NEW box \in Seq(Report), NEW A,
         Fed({0}, c, buf, box, A), NEW answer \in Seq(Nat)
  PROVE  LET out == box \o Reports(answer)
         IN  out # <<>> /\ Fed({0}, c, buf, Front(out), A)
<1>1. PICK in, at :
        /\ in \in Seq(Packet)
        /\ CutAt(buf, in, at)
        /\ \A k \in 0..Len(Stream(in, box)) :
             k \in {0} => Sound(c, Stream(in, box), k, A)
  BY DEF Fed
<1> DEFINE new == Reports(answer)
<1>2. PICK got : Carries(new, answer, got)
  BY AnswerReports
<1>3. new \in Seq(Report) /\ Len(new) >= 1
  BY <1>2 DEF Carries
<1>4. ASSUME NEW i \in 1..Len(new), i # Len(new)
      PROVE  ~HasFlag(Kept(new[i])[2], EndOfCommand)
  <2>1. /\ Kept(new[i])[2] = new[i][2]
        /\ HasFlag(new[i][2], EndOfCommand) <=> i = Len(new)
    BY <1>2 DEF Carries
  <2> QED
    BY <1>4, <2>1
<1> HIDE DEF new
<1> DEFINE out == box \o new
           front == SubSeq(out, 1, Len(out) - 1)
           s == Stream(in, box)
           t == Stream(in, out)
           u == Stream(in, front)
           L == Len(s)
<1>5. /\ s \in Seq(Packet) /\ t \in Seq(Packet) /\ 0 \in 0..L
      /\ Len(t) = L + Len(new)
      /\ \A j \in 1..L : t[j] = s[j]
      /\ \A j \in 1..Len(new) : t[L + j] = Kept(new[j])
      /\ out \in Seq(Report)
      /\ Len(new) \in Nat /\ L = Len(in) + Len(box) /\ Len(in) \in Nat
  BY <1>1, <1>3, StreamJoined
<1>6. Sound(c, s, 0, A)
  BY <1>1, <1>5
<1> HIDE DEF s, t, L
<1>7. /\ Len(t) = Len(in) + Len(out) /\ Len(out) \in Nat
      /\ \A j \in 1..Len(in) : t[j] = in[j]
      /\ \A j \in 1..Len(out) : t[Len(in) + j] = Kept(out[j])
  BY <1>1, <1>5, StreamFacts DEF t
<1> HIDE DEF out
<1>8. Len(out) >= 1 /\ Len(out) - 1 \in 0..Len(out) /\ L \in Nat
  BY <1>3, <1>5, <1>7
<1>9. /\ front \in Seq(Report) /\ Len(front) = Len(out) - 1
      /\ \A j \in 1..Len(front) : front[j] = out[j]
  <2> DEFINE m == Len(out) - 1
  <2>1. m \in 0..Len(out)
    BY <1>8
  <2> HIDE DEF m
  <2>2. /\ SubSeq(out, 1, m) \in Seq(Report) /\ Len(SubSeq(out, 1, m)) = m
        /\ \A j \in 1..m : SubSeq(out, 1, m)[j] = out[j]
    BY <1>5, <2>1
  <2> QED
    BY <2>2 DEF m
<1> HIDE DEF front
<1>10. /\ u \in Seq(Packet) /\ Len(u) = Len(in) + Len(front)
       /\ \A j \in 1..Len(in) : u[j] = in[j]
       /\ \A j \in 1..Len(front) : u[Len(in) + j] = Kept(front[j])
  BY <1>1, <1>9, StreamFacts
<1> HIDE DEF u
<1>11. Len(u) = Len(t) - 1 /\ L <= Len(u) /\ Len(u) \in Nat /\ Len(u) <= Len(t)
       /\ L \in 0..Len(u) /\ L \in 0..L
  <2>1. Len(u) = Len(t) - 1
    <3>1. Len(in) \in Nat /\ Len(out) \in Nat
      BY <1>1, <1>5
    <3>2. Len(u) = Len(in) + Len(front) /\ Len(front) = Len(out) - 1
      BY <1>9, <1>10
    <3>3. Len(t) = Len(in) + Len(out)
      BY <1>7
    <3> QED
      BY <3>1, <3>2, <3>3
  <2> QED
    BY <1>3, <1>5, <1>8, <2>1
<1>12. ASSUME NEW j \in 1..Len(u) PROVE u[j] = t[j]
  <2>1. CASE j <= Len(in)
    <3>1. j \in 1..Len(in)
      BY <1>5, <2>1
    <3> QED
      BY <1>7, <1>10, <3>1
  <2>2. CASE ~(j <= Len(in))
    <3> DEFINE q == j - Len(in)
    <3>1. q \in 1..Len(front) /\ q \in 1..Len(out) /\ Len(in) + q = j
      <4>1. Len(in) \in Nat /\ Len(out) \in Nat
        BY <1>5, <1>7
      <4>2. Len(u) = Len(in) + Len(front) /\ Len(front) = Len(out) - 1
        BY <1>9, <1>10
      <4>3. j \in 1..Len(u) /\ ~(j <= Len(in))
        BY <2>2
      <4> QED
        BY <4>1, <4>2, <4>3
    <3> HIDE DEF q
    <3>2. u[Len(in) + q] = Kept(front[q]) /\ t[Len(in) + q] = Kept(out[q])
          /\ front[q] = out[q]
      BY <1>7, <1>9, <1>10, <3>1
    <3> QED
      BY <3>1, <3>2
  <2> QED
    BY <2>1, <2>2
<1>13. ASSUME NEW d \in Seq(Nat) PROVE Sound(d, u, L, A)
  <2>1. Sound(d, s, L, A)
    BY <1>5, SoundNone DEF L
  <2>2. Sound(d, t, L, A \cup {answer})
    <3>1. L = Len(s)
      BY DEF L
    <3> QED
      BY <1>2, <1>5, <1>11, <2>1, <3>1, SoundAnswered
  <2>3. Sound(d, u, L, A \cup {answer})
    BY <1>5, <1>10, <1>11, <1>12, <2>2, SoundPrefix
  <2>4. ASSUME NEW j \in 1..Len(u), j > L PROVE ~HasFlag(u[j][2], EndOfCommand)
    <3> DEFINE i == j - L
    <3>1. i \in 1..Len(new) /\ i # Len(new) /\ L + i = j
      BY <1>5, <1>8, <1>11, <2>4
    <3> HIDE DEF i
    <3>2. u[j] = Kept(new[i])
      BY <1>5, <1>12, <3>1
    <3> QED
      BY <1>4, <3>1, <3>2
  <2> QED
    BY <2>3, <2>4, SoundUnended
<1>14. Sound(c, u, 0, A)
  <2>1. L = Len(s) /\ A \subseteq A
    BY DEF L
  <2>2. ASSUME NEW j \in 1..Len(s) PROVE u[j] = s[j]
    <3>1. j \in 1..Len(u) /\ j \in 1..L
      BY <1>8, <1>11, <2>1
    <3> QED
      BY <1>5, <1>12, <3>1
  <2>3. \A d \in Seq(Nat) : Sound(d, u, Len(s), A)
    BY <1>13, <2>1
  <2>4. Len(s) <= Len(u) /\ 0 \in 0..Len(s)
    BY <1>5, <1>11, <2>1
  <2> QED
    BY <1>5, <1>6, <1>10, <2>1, <2>2, <2>3, <2>4, SoundJoin
<1>15. Fed({0}, c, buf, front, A)
  <2>1. \A k \in 0..Len(u) : k \in {0} => Sound(c, u, k, A)
    BY <1>14
  <2>2. \E w : /\ CutAt(buf, in, w)
               /\ \A k \in 0..Len(u) : k \in {0} => Sound(c, u, k, A)
    BY <1>1, <2>1
  <2> QED
    BY <1>1, <2>2 DEF Fed, u
<1>16. out # <<>>
  <2>1. Len(<<>>) = 0
    OBVIOUS
  <2> QED
    BY <1>8, <2>1
<1> QED
  BY <1>15, <1>16 DEF front, out, new, Front
\* poll() reads some of it.
LEMMA FedPoll ==
  ASSUME NEW K, NEW c, NEW buf \in Seq(Nat), NEW box \in Seq(Report), NEW A,
         Fed(K, c, buf, box, A), NEW n \in 1..Len(box)
  PROVE  LET more == buf \o FlattenSeq([i \in 1..n |-> Kept(box[i])])
             rest == SubSeq(box, n + 1, Len(box))
         IN  Fed(K, c, more, rest, A) /\ more \in Seq(Nat) /\ rest \in Seq(Report)
<1> DEFINE q == [i \in 1..n |-> Kept(box[i])]
           more == buf \o FlattenSeq(q)
           rest == SubSeq(box, n + 1, Len(box))
           L == Len(box)
<1>1. PICK in, at :
        /\ in \in Seq(Packet)
        /\ CutAt(buf, in, at)
        /\ \A k \in 0..Len(Stream(in, box)) :
             k \in K => Sound(c, Stream(in, box), k, A)
  BY DEF Fed
<1>2. L \in Nat /\ n \in 1..L
  OBVIOUS
<1>3. \A i \in 1..n : Kept(box[i]) \in Packet
  <2>1. ASSUME NEW i \in 1..n PROVE Kept(box[i]) \in Packet
    <3>1. box[i] \in Report
      OBVIOUS
    <3> QED
      BY <3>1 DEF Report
  <2> QED
    BY <2>1
<1>4. q \in Seq(Packet) /\ Len(q) = n /\ \A i \in 1..n : q[i] = Kept(box[i])
  BY <1>2, <1>3
<1>5. rest \in Seq(Report) /\ Len(rest) = L - n /\ \A j \in 1..(L - n) : rest[j] = box[n + j]
  <2>1. \A j \in (n + 1)..L : box[j] \in Report
    BY <1>2
  <2>2. n + 1 \in Int /\ L \in Int
    BY <1>2
  <2>3. /\ rest \in Seq(Report)
        /\ Len(rest) = IF n + 1 <= L THEN L - (n + 1) + 1 ELSE 0
        /\ \A j \in 1..(L - (n + 1) + 1) : rest[j] = box[n + 1 + j - 1]
    BY <2>1, <2>2, SubSeqProperties
  <2> HIDE DEF rest, L
  <2>4. \A j \in 1..(L - n) : rest[j] = box[n + j]
    <3>1. ASSUME NEW j \in 1..(L - n) PROVE rest[j] = box[n + j]
      <4>1. j \in 1..(L - (n + 1) + 1) /\ n + 1 + j - 1 = n + j
        BY <1>2
      <4> QED
        BY <2>3, <4>1
    <3> QED
      BY <3>1
  <2> QED
    BY <1>2, <2>3, <2>4
<1> HIDE DEF q, rest
<1>6. Packet \subseteq Seq(Nat)
  BY DEF Packet
<1>7. in \in Seq(Seq(Nat)) /\ q \in Seq(Seq(Nat))
  BY <1>1, <1>4, <1>6, SeqMonotonic
<1>8. FlattenSeq(q) \in Seq(Nat) /\ \E to : CutAt(FlattenSeq(q), q, to)
  BY <1>7, Flatten
<1> DEFINE joint == in \o q
           l == Len(in)
<1>9. /\ joint \in Seq(Packet) /\ l \in Nat /\ Len(joint) = l + n
      /\ \A j \in 1..l : joint[j] = in[j]
      /\ \A j \in 1..n : joint[l + j] = q[j]
  <2>1. /\ in \o q \in Seq(Packet) /\ l \in Nat /\ Len(in \o q) = Len(in) + Len(q)
        /\ \A j \in 1..Len(in) : (in \o q)[j] = in[j]
        /\ \A j \in 1..Len(q) : (in \o q)[Len(in) + j] = q[j]
    <3>1. q \in Seq(Packet)
      BY <1>4
    <3> QED
      BY <1>1, <3>1, Joined
  <2> QED
    BY <1>4, <2>1
<1>10. \E w : CutAt(more, joint, w)
  <2> DEFINE f == FlattenSeq(q)
  <2>1. f \in Seq(Nat) /\ \E to : CutAt(f, q, to)
    BY <1>8
  <2> HIDE DEF f
  <2>2. PICK to : CutAt(f, q, to)
    BY <2>1
  <2>3. \E w : CutAt(buf \o f, in \o q, w)
    BY <1>1, <1>7, <2>1, <2>2, CutConcat
  <2> QED
    BY <2>3 DEF f
<1>11. more \in Seq(Nat)
  <2> DEFINE f == FlattenSeq(q)
  <2>1. f \in Seq(Nat)
    BY <1>8
  <2> HIDE DEF f
  <2>2. buf \o f \in Seq(Nat)
    BY <2>1, Joined
  <2> QED
    BY <2>2 DEF f
<1> HIDE DEF joint, more
<1>12. Stream(joint, rest) = Stream(in, box)
  <2> DEFINE s == Stream(in, box)
             t == Stream(joint, rest)
  <2>1. /\ s \in Seq(Packet) /\ Len(s) = l + L
        /\ \A j \in 1..l : s[j] = in[j]
        /\ \A j \in 1..L : s[l + j] = Kept(box[j])
    BY <1>1, StreamFacts
  <2>2. /\ t \in Seq(Packet) /\ Len(t) = Len(joint) + Len(rest)
        /\ \A j \in 1..Len(joint) : t[j] = joint[j]
        /\ \A j \in 1..Len(rest) : t[Len(joint) + j] = Kept(rest[j])
    BY <1>5, <1>9, StreamFacts
  <2> HIDE DEF s, t, l, L
  <2>3. Len(t) = Len(s)
    BY <1>2, <1>5, <1>9, <2>1, <2>2
  <2>4. ASSUME NEW j \in 1..Len(t) PROVE t[j] = s[j]
    <3>0. j \in 1..(l + L)
      BY <2>1, <2>3
    <3>1. CASE j <= l
      <4>1. j \in 1..l /\ j \in 1..Len(joint)
        BY <1>2, <1>9, <3>0, <3>1
      <4> QED
        BY <1>9, <2>1, <2>2, <4>1
    <3>2. CASE l < j /\ j <= l + n
      <4> DEFINE i == j - l
      <4>1. i \in 1..n /\ i \in 1..L /\ l + i = j /\ j \in 1..Len(joint)
        BY <1>2, <1>9, <3>0, <3>2
      <4> HIDE DEF i
      <4>2. t[j] = joint[j] /\ joint[l + i] = q[i] /\ q[i] = Kept(box[i])
            /\ s[l + i] = Kept(box[i])
        BY <1>4, <1>9, <2>1, <2>2, <4>1
      <4> QED
        BY <4>1, <4>2
    <3>3. CASE l + n < j
      <4> DEFINE i == j - (l + n)
      <4>0. Len(rest) = L - n /\ Len(joint) = l + n /\ l \in Nat
        BY <1>5, <1>9
      <4>1. /\ i \in 1..Len(rest) /\ i \in 1..(L - n) /\ Len(joint) + i = j
            /\ n + i \in 1..L /\ l + (n + i) = j
        BY <1>2, <3>0, <3>3, <4>0
      <4> HIDE DEF i
      <4>2. /\ t[Len(joint) + i] = Kept(rest[i]) /\ rest[i] = box[n + i]
            /\ s[l + (n + i)] = Kept(box[n + i])
        BY <1>5, <2>1, <2>2, <4>1
      <4> QED
        BY <4>1, <4>2
    <3> QED
      BY <1>2, <1>9, <3>0, <3>1, <3>2, <3>3
  <2>5. t = s
    BY <2>1, <2>2, <2>3, <2>4, SeqEqual
  <2> QED
    BY <2>5 DEF s, t
<1>13. Fed(K, c, more, rest, A)
  BY <1>1, <1>9, <1>10, <1>12 DEF Fed
<1> QED
  BY <1>5, <1>11, <1>13 DEF more, rest, q

\* What the pad was sending when the connection was opened.
LEMMA FedLeft ==
  ASSUME NEW reports, OneAnswer(reports)
  PROVE  Fed(Nat, <<>>, <<>>, reports, Ends(reports))
<1> DEFINE s == Stream(<<>>, reports)
           at == [k \in 0..0 |-> 0]
<1>1. reports \in Seq(Report) /\ <<>> \in Seq(Packet)
  BY DEF OneAnswer
<1>2. KeptOf(reports) \in Seq(Packet) /\ Len(KeptOf(reports)) = Len(reports)
  BY <1>1, KeptOfType
<1>3. s = KeptOf(reports)
  BY <1>2 DEF Stream
<1>4. CutAt(<<>>, <<>>, at)
  BY DEF CutAt
<1>5. \E w : CutAt(<<>>, <<>>, w)
  BY <1>4
<1> HIDE DEF s, at
<1>6. ASSUME NEW k \in 0..Len(s) PROVE Sound(<<>>, s, k, Ends(reports))
  <2>1. k \in 0..Len(reports)
    BY <1>2, <1>3
  <2> QED
    BY <1>3, <2>1, SoundLeft
<1> QED
  BY <1>1, <1>5, <1>6 DEF Fed, s

\* The packets in the buffer have been handled: the rest of the stream is what
\* is on its way.
LEMMA StreamRest ==
  ASSUME NEW in \in Seq(Packet), NEW box \in Seq(Report)
  PROVE  /\ Stream(<<>>, box) \in Seq(Packet) /\ Len(Stream(<<>>, box)) = Len(box)
         /\ \A j \in 1..Len(box) : Stream(<<>>, box)[j] = Stream(in, box)[Len(in) + j]
<1> DEFINE s == Stream(in, box)
           t == Stream(<<>>, box)
           e == <<>>
<1>1. /\ s \in Seq(Packet) /\ Len(in) \in Nat
      /\ \A j \in 1..Len(box) : s[Len(in) + j] = Kept(box[j])
  BY StreamFacts
<1>2. e \in Seq(Packet) /\ Len(e) = 0
  OBVIOUS
<1>3. /\ t \in Seq(Packet) /\ Len(t) = Len(e) + Len(box) /\ Len(box) \in Nat
      /\ \A j \in 1..Len(box) : t[Len(e) + j] = Kept(box[j])
  BY <1>2, StreamFacts
<1> HIDE DEF s, t, e
<1>4. Len(t) = Len(box) /\ \A j \in 1..Len(box) : t[j] = Kept(box[j])
  BY <1>2, <1>3
<1>5. \A j \in 1..Len(box) : t[j] = s[Len(in) + j]
  BY <1>1, <1>4
<1> QED
  BY <1>3, <1>4, <1>5 DEF s, t

LEMMA NothingBuffered == \E at : CutAt(<<>>, <<>>, at)
<1> DEFINE at == [k \in 0..0 |-> 0]
<1>1. CutAt(<<>>, <<>>, at)
  BY DEF CutAt
<1> QED
  BY <1>1

\* An update while packets are put together.
Updated(fl, box, A, after) ==
  /\ after.current \in Seq(Nat) /\ after.packets \in Seq(Answer)
  /\ ToSet(after.packets) \subseteq A
  /\ after.info = TRUE /\ after.flight \in {fl, Nothing}
  /\ Fed({0}, after.current, <<>>, box, A)

LEMMA FedReading ==
  ASSUME NEW c \in Seq(Nat), NEW buf \in Seq(Nat), NEW box \in Seq(Report), NEW A,
         Fed({0}, c, buf, box, A), NEW fw, NEW fl
  PROVE  /\ SplitBuffer(buf).rest = <<>>
         /\ Updated(fl, box, A, FoldLeft(Receive, Base(c, TRUE, fw, fl),
                                         SplitBuffer(buf).packets))
<1>0. PICK raws, at :
        /\ raws \in Seq(Packet)
        /\ CutAt(buf, raws, at)
        /\ \A k \in 0..Len(Stream(raws, box)) :
             k \in {0} => Sound(c, Stream(raws, box), k, A)
  BY DEF Fed
<1>2. SplitBuffer(buf) = [packets |-> raws, rest |-> <<>>]
  BY <1>0, SplitWhole
<1> DEFINE in == SplitBuffer(buf).packets
<1>1. /\ in \in Seq(Packet) /\ CutAt(buf, in, at)
      /\ \A k \in 0..Len(Stream(in, box)) :
           k \in {0} => Sound(c, Stream(in, box), k, A)
  BY <1>0, <1>2
<1>17. SplitBuffer(buf).rest = <<>>
  BY <1>2
<1> HIDE DEF in
<1> DEFINE s == Stream(in, box)
           t == Stream(<<>>, box)
           l == Len(in)
           after == FoldLeft(Receive, Base(c, TRUE, fw, fl), in)
<1>3. /\ s \in Seq(Packet) /\ l \in Nat /\ Len(box) \in Nat
      /\ Len(s) = l + Len(box)
      /\ \A j \in 1..l : s[j] = in[j]
  BY <1>1, StreamFacts
<1>4. /\ t \in Seq(Packet) /\ Len(t) = Len(box)
      /\ \A j \in 1..Len(box) : t[j] = s[l + j]
  BY <1>1, StreamRest
<1>5. 0 \in 0..Len(s) /\ Len(in) <= Len(s) /\ l \in 0..Len(s) /\ l \in 0..l
      /\ 0 \in 0..Len(t) /\ l + 0 = l
  <2> HIDE DEF s, t
  <2> QED
    BY <1>3, <1>4
<1>6. Sound(c, s, 0, A)
  BY <1>1, <1>5
<1> HIDE DEF s, t
<1>7. PICK run : Runs(c, s, 0, A, run)
  BY <1>6 DEF Sound
<1> DEFINE S == Reading(fl, Firmwares(fw, in))
<1>8. PICK f : Follows(Base(c, TRUE, fw, fl), in, S, f)
  BY <1>1, ReadingFold
<1>9. after = f[l] /\ f \in [0..l -> S]
  BY <1>8 DEF Follows
<1>10. f[l].current = run[l] /\ ToSet(f[l].packets) \subseteq A
  BY <1>1, <1>3, <1>5, <1>7, <1>8, ReassembledRun
<1>11. f[l] \in S
  BY <1>5, <1>9
<1> HIDE DEF after
<1>12. /\ after.current \in Seq(Nat) /\ after.packets \in Seq(Answer)
       /\ after.info = TRUE /\ after.flight \in {fl, Nothing}
  BY <1>9, <1>11 DEF Reading
<1>13. Sound(run[l], s, l, A)
  <2>1. /\ run \in [0..Len(s) -> Seq(Nat)]
        /\ \A j \in 1..Len(s) : j > 0 =>
             run[j] = After(run[j - 1], s[j]) /\ Made(run[j - 1], s[j]) \subseteq A
    BY <1>7 DEF Runs
  <2>2. \A j \in 1..Len(s) : j > l => j > 0
    BY <1>3
  <2>3. Runs(run[l], s, l, A, run)
    BY <2>1, <2>2 DEF Runs
  <2> QED
    BY <2>3 DEF Sound
<1>14. Sound(run[l], t, 0, A)
  <2>1. Len(t) = Len(s) - l
    BY <1>3, <1>4
  <2>2. \A j \in 1..Len(t) : t[j] = s[l + j]
    BY <1>4
  <2>3. Sound(run[l], s, l + 0, A)
    BY <1>5, <1>13
  <2> HIDE DEF l
  <2> QED
    BY <1>3, <1>4, <1>5, <2>1, <2>2, <2>3, SoundRest
<1>15. Fed({0}, after.current, <<>>, box, A)
  <2>1. after.current = run[l]
    BY <1>9, <1>10
  <2>2. \A k \in 0..Len(t) : k \in {0} => Sound(after.current, t, k, A)
    BY <1>14, <2>1
  <2>3. <<>> \in Seq(Packet)
    OBVIOUS
  <2> QED
    BY <2>2, <2>3, NothingBuffered DEF Fed, t
<1>16. Updated(fl, box, A, after)
  BY <1>9, <1>10, <1>12, <1>15 DEF Updated
<1> QED
  BY <1>17, <1>16 DEF after, in

\* An update while the pad's identity is not known.
Awaited(fl, box, A, after) ==
  /\ after.current = <<>> /\ after.packets = <<>>
  /\ after.info \in BOOLEAN /\ (after.info => fl.info)
  /\ after.flight = IF after.info THEN Nothing ELSE fl
  /\ Fed(Nat, <<>>, <<>>, box, A)

LEMMA FedWaiting ==
  ASSUME NEW buf \in Seq(Nat), NEW box \in Seq(Report), NEW A,
         Fed(Nat, <<>>, buf, box, A), NEW fw, NEW fl
  PROVE  /\ SplitBuffer(buf).rest = <<>>
         /\ Awaited(fl, box, A, FoldLeft(Receive, Base(<<>>, FALSE, fw, fl),
                                         SplitBuffer(buf).packets))
<1>0. PICK raws, at :
        /\ raws \in Seq(Packet)
        /\ CutAt(buf, raws, at)
        /\ \A k \in 0..Len(Stream(raws, box)) :
             k \in Nat => Sound(<<>>, Stream(raws, box), k, A)
  BY DEF Fed
<1>2. SplitBuffer(buf) = [packets |-> raws, rest |-> <<>>]
  BY <1>0, SplitWhole
<1> DEFINE in == SplitBuffer(buf).packets
<1>1. /\ in \in Seq(Packet) /\ CutAt(buf, in, at)
      /\ \A k \in 0..Len(Stream(in, box)) :
           k \in Nat => Sound(<<>>, Stream(in, box), k, A)
  BY <1>0, <1>2
<1>14. SplitBuffer(buf).rest = <<>>
  BY <1>2
<1> HIDE DEF in
<1> DEFINE s == Stream(in, box)
           t == Stream(<<>>, box)
           l == Len(in)
           after == FoldLeft(Receive, Base(<<>>, FALSE, fw, fl), in)
           S == Waiting(<<>>, fl, Firmwares(fw, in))
<1>3. /\ s \in Seq(Packet) /\ l \in Nat /\ Len(box) \in Nat
      /\ Len(s) = l + Len(box)
  BY <1>1, StreamFacts
<1>4. /\ t \in Seq(Packet) /\ Len(t) = Len(box)
      /\ \A j \in 1..Len(box) : t[j] = s[l + j]
  BY <1>1, StreamRest
<1>5. PICK f : Follows(Base(<<>>, FALSE, fw, fl), in, S, f)
  BY <1>1, WaitingFold
<1>6. after = f[l] /\ f \in [0..l -> S]
  BY <1>5 DEF Follows
<1>7. l \in 0..l
  BY <1>3
<1>8. after \in S
  BY <1>6, <1>7
<1> HIDE DEF after
<1>9. /\ after.current = <<>> /\ after.packets = <<>>
      /\ after.info \in BOOLEAN /\ (after.info => fl.info)
      /\ after.flight = IF after.info THEN Nothing ELSE fl
  BY <1>8 DEF Waiting
<1>10. \A k \in 0..Len(s) : k \in Nat => Sound(<<>>, s, k, A)
  BY <1>1
<1> HIDE DEF s, t
<1>11. ASSUME NEW k \in 0..Len(t) PROVE Sound(<<>>, t, k, A)
  <2>1. l + k \in 0..Len(s) /\ l + k \in Nat /\ l \in 0..Len(s) /\ Len(t) = Len(s) - l
    BY <1>3, <1>4
  <2>2. Sound(<<>>, s, l + k, A)
    BY <1>10, <2>1
  <2>3. \A j \in 1..Len(t) : t[j] = s[l + j]
    BY <1>4
  <2> HIDE DEF l
  <2> QED
    BY <1>3, <1>4, <2>1, <2>2, <2>3, SoundRest
<1>12. Fed(Nat, <<>>, <<>>, box, A)
  <2>1. \A k \in 0..Len(t) : k \in Nat => Sound(<<>>, t, k, A)
    BY <1>11
  <2>2. <<>> \in Seq(Packet)
    OBVIOUS
  <2> QED
    BY <2>1, <2>2, NothingBuffered DEF Fed, t
<1>13. Awaited(fl, box, A, after)
  BY <1>9, <1>12 DEF Awaited
<1> QED
  BY <1>14, <1>13 DEF after, in

-----------------------------------------------------------------------------
(* Commands in the queue *)

\* What send_command is called with: packets of uploads, and commands of bytes
\* of which those that store a configuration say how long it is.
IsCommand(b) ==
  \/ IsUpload(b)
  \/ /\ b \in Answer
     /\ b[1] \in {PutOld, PutNew} => Len(b) >= 2 /\ Len(b) = 2 + b[2]
     /\ b[1] = Sense => Len(b) >= 2

Legal(c) == c = Identify \/ \E b : IsCommand(b) /\ c = Command(b)

Lined(q) == \E C : q \in Seq(C) /\ \A c \in C : Legal(c)

LEMMA Arrives ==
  ASSUME NEW b, IsCommand(b)
  PROVE  ~Command(b).info /\ Received(Command(b).packets) = b
<1>1. ~Command(b).info /\ Command(b).packets = BuildCommandPackets(b)
  BY DEF Command
<1>2. CASE IsUpload(b)
  <2>1. PICK W : Nat \subseteq W /\ b \in Seq(W)
    BY <1>2 DEF IsUpload
  <2>2. Received(BuildCommandPackets(b)) = b
    BY <2>1, CommandArrives
  <2> QED
    BY <1>1, <2>2
<1>3. CASE ~IsUpload(b)
  <2>1. Nat \subseteq Nat /\ b \in Seq(Nat)
    BY <1>3 DEF IsCommand, Answer
  <2>2. Received(BuildCommandPackets(b)) = b
    BY <2>1, CommandArrives
  <2> QED
    BY <1>1, <2>2
<1> QED
  BY <1>2, <1>3

LEMMA AtPadCommand ==
  ASSUME NEW c, Legal(c), ~c.info
  PROVE  IsCommand(Received(c.packets))
<1>1. PICK b : IsCommand(b) /\ c = Command(b)
  BY DEF Legal, Identify
<1> QED
  BY <1>1, Arrives

LEMMA LinedConcat ==
  ASSUME NEW p, NEW q, Lined(p), Lined(q)
  PROVE  Lined(p \o q)
<1>1. PICK V : p \in Seq(V) /\ \A c \in V : Legal(c)
  BY DEF Lined
<1>2. PICK W : q \in Seq(W) /\ \A c \in W : Legal(c)
  BY DEF Lined
<1> DEFINE U == V \cup W
<1>3. \A c \in U : Legal(c)
  BY <1>1, <1>2
<1>4. p \in Seq(U) /\ q \in Seq(U)
  BY <1>1, <1>2, SeqUnion
<1> HIDE DEF U
<1>5. p \o q \in Seq(U)
  BY <1>4, Joined
<1> QED
  BY <1>3, <1>5 DEF Lined

LEMMA LinedOne ==
  ASSUME NEW c, Legal(c)
  PROVE  Lined(<<c>>) /\ Lined(<<>>)
<1> DEFINE C == {c}
<1>1. \A d \in C : Legal(d)
  OBVIOUS
<1>2. c \in C
  OBVIOUS
<1> HIDE DEF C
<1>3. <<c>> \in Seq(C) /\ <<>> \in Seq(C)
  BY <1>2
<1>4. Lined(<<c>>)
  BY <1>1, <1>3 DEF Lined
<1>5. Lined(<<>>)
  BY <1>1, <1>3 DEF Lined
<1> QED
  BY <1>4, <1>5

LEMMA LinedAppend ==
  ASSUME NEW q, Lined(q), NEW c, Legal(c)
  PROVE  Lined(Append(q, c))
<1>1. PICK V : q \in Seq(V) /\ \A d \in V : Legal(d)
  BY DEF Lined
<1>2. Append(q, c) \in Seq(V \cup {c}) /\ \A d \in V \cup {c} : Legal(d)
  BY <1>1, SeqUnion
<1> QED
  BY <1>2 DEF Lined

LEMMA LinedTail ==
  ASSUME NEW q, Lined(q), q # <<>>
  PROVE  Legal(Head(q)) /\ Lined(Tail(q))
<1>1. PICK V : q \in Seq(V) /\ \A d \in V : Legal(d)
  BY DEF Lined
<1>2. Head(q) \in V /\ Tail(q) \in Seq(V)
  BY <1>1
<1> QED
  BY <1>1, <1>2 DEF Lined

LEMMA LegalShort ==
  /\ Legal(Command(<<GetNew>>)) /\ Legal(Command(<<GetOld, EndOfLine>>))
  /\ \A m \in Nat : Legal(Command(<<Sense, m, EndOfLine>>))
<1>1. IsCommand(<<GetNew>>)
  <2> DEFINE b == <<GetNew>>
  <2>1. b \in Seq(Nat) /\ b # <<>> /\ b[1] = GetNew
    BY DEF GetNew
  <2> HIDE DEF b
  <2>2. IsCommand(b)
    BY <2>1 DEF IsCommand, Answer, GetNew, PutOld, PutNew, Sense
  <2> QED
    BY <2>2 DEF b
<1>2. IsCommand(<<GetOld, EndOfLine>>)
  <2> DEFINE b == <<GetOld, EndOfLine>>
  <2>1. b \in Seq(Nat) /\ b # <<>> /\ b[1] = GetOld
    BY DEF GetOld, EndOfLine
  <2> HIDE DEF b
  <2>2. IsCommand(b)
    BY <2>1 DEF IsCommand, Answer, GetOld, PutOld, PutNew, Sense
  <2> QED
    BY <2>2 DEF b
<1>3. ASSUME NEW m \in Nat PROVE IsCommand(<<Sense, m, EndOfLine>>)
  <2> DEFINE b == <<Sense, m, EndOfLine>>
  <2>1. b \in Seq(Nat) /\ b # <<>> /\ b[1] = Sense /\ Len(b) >= 2
    BY DEF Sense, EndOfLine
  <2> HIDE DEF b
  <2>2. IsCommand(b)
    BY <2>1 DEF IsCommand, Answer, PutOld, PutNew, Sense
  <2> QED
    BY <2>2 DEF b
<1> QED
  BY <1>1, <1>2, <1>3 DEF Legal

LEMMA LegalReadConfig == Legal(ReadConfig)
BY LegalShort DEF ReadConfig

LEMMA PutFacts ==
  ASSUME NEW code \in {PutOld, PutNew}, NEW data \in Seq(Nat)
  PROVE  LET b == <<code, Len(data)>> \o data
         IN  /\ IsCommand(b) /\ b[1] = code /\ b[2] = Len(data)
             /\ \A i \in 1..Len(data) : b[2 + i] = data[i]
<1> DEFINE n == Len(data)
           h == <<code, n>>
           b == h \o data
<1>1. n \in Nat /\ code \in Nat
  BY DEF PutOld, PutNew
<1> HIDE DEF n
<1>2. h \in Seq(Nat)
  BY <1>1
<1>3. Len(h) = 2 /\ h[1] = code /\ h[2] = n
  OBVIOUS
<1> HIDE DEF h
<1>4. /\ b \in Seq(Nat) /\ Len(b) = Len(h) + Len(data)
      /\ \A i \in 1..Len(h) : b[i] = h[i]
      /\ \A i \in 1..Len(data) : b[Len(h) + i] = data[i]
  BY <1>2, Joined
<1> HIDE DEF b
<1>5. Len(b) = 2 + n /\ b[1] = code /\ b[2] = n /\ Len(b) >= 2
  <2>1. Len(b) = 2 + n
    BY <1>3, <1>4 DEF n
  <2>2. 1 \in 1..Len(h) /\ 2 \in 1..Len(h)
    BY <1>3
  <2> QED
    BY <1>1, <1>3, <1>4, <2>1, <2>2
<1>6. b # <<>>
  BY <1>1, <1>5
<1>7. IsCommand(b)
  BY <1>4, <1>5, <1>6 DEF IsCommand, Answer, PutOld, PutNew, Sense
<1>8. \A i \in 1..Len(data) : b[2 + i] = data[i]
  BY <1>3, <1>4
<1> QED
  BY <1>5, <1>7, <1>8 DEF b, h, n

LEMMA LegalPut ==
  ASSUME NEW code \in {PutOld, PutNew}, NEW data \in Seq(Nat)
  PROVE  Legal(Command(<<code, Len(data)>> \o data))
BY PutFacts DEF Legal

LEMMA LegalPutCommand ==
  ASSUME wanted \in Config, dev.raw \in Seq(Nat)
  PROVE  Legal(PutCommand)
<1>1. AsBytes(wanted) \in Seq(Nat) /\ ConvertToOld(wanted, dev.raw) \in Seq(Nat)
  BY AsBytesType, ConvertToOldType DEF OldOf
<1>2. CASE firmware >= 5
  <2>1. PutCommand = Command(<<PutNew, Len(AsBytes(wanted))>> \o AsBytes(wanted))
    BY <1>2 DEF PutCommand
  <2> QED
    BY <1>1, <2>1, LegalPut
<1>3. CASE ~(firmware >= 5)
  <2> DEFINE d == ConvertToOld(wanted, dev.raw)
  <2>1. PutCommand = Command(<<PutOld, Len(d)>> \o d)
    BY <1>3 DEF PutCommand
  <2> HIDE DEF d
  <2>2. d \in Seq(Nat)
    BY <1>1 DEF d
  <2> QED
    BY <2>1, <2>2, LegalPut
<1> QED
  BY <1>2, <1>3

-----------------------------------------------------------------------------
(* The invariant *)

WireTypes ==
  /\ info \in BOOLEAN /\ (written => flight # Nothing)
  /\ buffer \in Seq(Nat) /\ current \in Seq(Nat) /\ outbox \in Seq(Report)
  /\ Lined(queue) /\ (flight = Nothing \/ Legal(flight))
  /\ \E R : dev \in Devices(R)
  /\ wanted \in Config /\ mode \in Modes \cup {Off}
  /\ stored \in [Pads -> Seq(Nat)] /\ plugged \in Pads
  /\ Sendable(todo)

\* Before the pad's identity is known nothing else is sent, and nothing is put
\* together: the device may come in wherever that is reported.  After that all
\* that is put together is an answer.
Streaming ==
  IF info THEN Fed({0}, current, buffer, outbox, answers)
  ELSE /\ current = <<>> /\ Fed(Nat, <<>>, buffer, outbox, answers)
       /\ \/ queue = <<Identify>> /\ flight = Nothing
          \/ queue = <<>> /\ flight = Identify

WireInv == WireTypes /\ Streaming /\ whole

LEMMA ConfigAnswerType ==
  ASSUME NEW pad \in Pads, stored \in [Pads -> Seq(Nat)]
  PROVE  ConfigAnswer(pad) \in Seq(Nat)
<1> DEFINE s == stored[pad]
           n == Len(s)
           a == IF Firmware[pad] >= 5 THEN GetNew ELSE GetOld
           h == <<a, n>>
<1>1. s \in Seq(Nat)
  OBVIOUS
<1>2. n \in Nat /\ a \in Nat
  BY <1>1 DEF GetNew, GetOld
<1>3. ConfigAnswer(pad) = h \o s
  BY DEF ConfigAnswer
<1> HIDE DEF s, n, a
<1>4. h \in Seq(Nat)
  BY <1>2
<1> HIDE DEF h
<1>5. h \o s \in Seq(Nat)
  BY <1>1, <1>4, Joined
<1> QED
  BY <1>3, <1>5

\* What is on its way when a connection is opened.
LEMMA LeftOverFed ==
  ASSUME NEW pad \in Pads, stored \in [Pads -> Seq(Nat)],
         NEW reports \in LeftOver(pad)
  PROVE  reports \in Seq(Report) /\ Fed(Nat, <<>>, <<>>, reports, Ends(reports))
<1>1. ConfigAnswer(pad) \in Seq(Nat)
  BY ConfigAnswerType
<1>2. OneAnswer(reports)
  BY <1>1, LeftOverReports DEF LeftOver
<1> QED
  BY <1>2, FedLeft DEF OneAnswer

LEMMA DeviceStart ==
  /\ Zeroed \in Config /\ Forgotten \in Devices({NoReading})
  /\ Lined(<<Identify>>) /\ Sendable(<<>>)
<1>1. Zeroed \in Config
  BY DEF Zeroed, Config
<1>2. <<>> \in Seq(Nat)
  OBVIOUS
<1>3. Forgotten \in Devices({NoReading})
  BY <1>1, <1>2 DEF Forgotten, Devices
<1>4. Legal(Identify)
  BY DEF Legal
<1> DEFINE E == {}
<1>5. <<>> \in Seq(E) /\ \A e \in E : e.op = "packet" => IsUpload(e.bytes)
  OBVIOUS
<1> HIDE DEF E
<1>6. Sendable(<<>>)
  BY <1>5 DEF Sendable
<1> QED
  BY <1>1, <1>3, <1>4, <1>6, LinedOne

LEMMA WireInit == Init => WireInv
<1> SUFFICES ASSUME Init PROVE WireInv
  OBVIOUS
<1>1. /\ buffer = <<>> /\ current = <<>> /\ info = FALSE
      /\ queue = <<Identify>> /\ flight = Nothing /\ written = FALSE
      /\ dev = Forgotten /\ wanted = Zeroed /\ mode = Off /\ stored = Factory
      /\ todo = <<>> /\ whole = TRUE
  BY DEF Init
<1>2. plugged \in Pads
  BY WireAssumption DEF Init
<1>3. stored \in [Pads -> Seq(Nat)]
  BY <1>1, WireAssumption
<1>4. PICK reports \in LeftOver(plugged) : outbox = reports /\ answers = Ends(reports)
  BY DEF Init
<1>5. reports \in Seq(Report) /\ Fed(Nat, <<>>, <<>>, reports, Ends(reports))
  BY <1>2, <1>3, LeftOverFed
<1>6. <<>> \in Seq(Nat)
  OBVIOUS
<1>7. WireTypes
  BY <1>1, <1>2, <1>3, <1>4, <1>5, <1>6, DeviceStart DEF WireTypes
<1>8. Streaming
  BY <1>1, <1>4, <1>5 DEF Streaming
<1> QED
  BY <1>1, <1>7, <1>8 DEF WireInv

\* What CommandHandle makes of the packets of an update.
Handled(base, packets) == FoldLeft(Receive, base, packets)

\* What comes of the packets that are in the buffer, with fl in flight.
LEMMA PacketsHandled ==
  ASSUME WireInv, NEW fl
  PROVE  LET split == SplitBuffer(buffer)
             after == Handled([current |-> current, packets |-> <<>>,
                               active |-> info, info |-> info,
                               firmware |-> firmware, flight |-> fl],
                              split.packets)
         IN  /\ info => Updated(fl, outbox, answers, after)
             /\ ~info => Awaited(fl, outbox, answers, after)
             /\ split.rest = <<>> /\ after.current \in Seq(Nat)
             /\ after.packets \in Seq(Answer)
             /\ ToSet(after.packets) \subseteq answers
             /\ after.info \in BOOLEAN /\ after.flight \in {fl, Nothing}
<1> DEFINE split == SplitBuffer(buffer)
           base == [current |-> current, packets |-> <<>>, active |-> info,
                    info |-> info, firmware |-> firmware, flight |-> fl]
           after == Handled(base, split.packets)
<1>1. WireTypes /\ Streaming
  BY DEF WireInv
<1>2. /\ info \in BOOLEAN
      /\ buffer \in Seq(Nat) /\ current \in Seq(Nat) /\ outbox \in Seq(Report)
  BY <1>1 DEF WireTypes
<1>3. info => split.rest = <<>> /\ Updated(fl, outbox, answers, after)
  <2> SUFFICES ASSUME info PROVE split.rest = <<>> /\ Updated(fl, outbox, answers, after)
    OBVIOUS
  <2>1. Fed({0}, current, buffer, outbox, answers)
    BY <1>1 DEF Streaming
  <2>2. base = Base(current, TRUE, firmware, fl)
    <3>1. info = TRUE
      OBVIOUS
    <3> QED
      BY <3>1 DEF Base
  <2>3. /\ split.rest = <<>>
        /\ Updated(fl, outbox, answers,
                   Handled(Base(current, TRUE, firmware, fl), split.packets))
    BY <1>2, <2>1, FedReading DEF Handled
  <2> HIDE DEF base, split
  <2> QED
    BY <2>2, <2>3
<1>4. ~info => /\ split.rest = <<>> /\ Awaited(fl, outbox, answers, after)
  <2> SUFFICES ASSUME ~info PROVE split.rest = <<>> /\ Awaited(fl, outbox, answers, after)
    OBVIOUS
  <2>1. current = <<>> /\ Fed(Nat, <<>>, buffer, outbox, answers)
    BY <1>1 DEF Streaming
  <2>2. base = Base(<<>>, FALSE, firmware, fl)
    <3>1. info = FALSE
      BY <1>2
    <3> QED
      BY <2>1, <3>1 DEF Base
  <2>3. /\ split.rest = <<>>
        /\ Awaited(fl, outbox, answers,
                   Handled(Base(<<>>, FALSE, firmware, fl), split.packets))
    BY <1>2, <2>1, FedWaiting DEF Handled
  <2> HIDE DEF base, split
  <2> QED
    BY <2>2, <2>3
<1> HIDE DEF after, split
<1>5. /\ split.rest = <<>> /\ after.current \in Seq(Nat)
       /\ after.packets \in Seq(Answer) /\ ToSet(after.packets) \subseteq answers
       /\ after.info \in BOOLEAN /\ after.flight \in {fl, Nothing}
  <2>1. CASE info
    BY <1>3, <2>1 DEF Updated
  <2>2. CASE ~info
    <3>1. <<>> \in Seq(Nat) /\ <<>> \in Seq(Answer) /\ ToSet(<<>>) = {}
      BY DEF ToSet
    <3>2. /\ split.rest = <<>> /\ after.current = <<>> /\ after.packets = <<>>
          /\ after.info \in BOOLEAN /\ after.flight \in {fl, Nothing}
      BY <1>4, <2>2 DEF Awaited
    <3> QED
      BY <3>1, <3>2
  <2> QED
    BY <2>1, <2>2
<1> QED
  BY <1>3, <1>4, <1>5 DEF after, split

LEMMA UpdateStep ==
  ASSUME WireInv, NEW put, NEW due, NEW timedOut, Update(put, due, timedOut)
  PROVE  WireInv'
<1> DEFINE first == IF info /\ ~active THEN Append(queue, ReadConfig) ELSE queue
           second == IF put THEN first \o <<PutCommand, ReadConfig>> ELSE first
           third == IF due
                    THEN <<Command(<<Sense, mode, EndOfLine>>)>> \o second ELSE second
           line == IF timedOut THEN <<flight>> \o third ELSE third
           split == SplitBuffer(buffer)
           fl == IF timedOut THEN Nothing ELSE flight
           base == [current |-> current, packets |-> <<>>, active |-> info,
                    info |-> info, firmware |-> firmware, flight |-> fl]
           after == Handled(base, split.packets)
           next == after.flight = Nothing /\ line # <<>>
           d == [dev EXCEPT !.config = IF put THEN wanted ELSE @,
                            !.waiting = IF due THEN mode ELSE @]
<1>1. /\ put => info /\ dev.have /\ send
      /\ due => info
      /\ timedOut => written
  BY DEF Update
<1>2. /\ buffer' = split.rest /\ current' = after.current /\ info' = after.info
      /\ flight' = IF next THEN Head(line) ELSE after.flight
      /\ queue' = IF next THEN Tail(line) ELSE line
      /\ written' = (written /\ after.flight # Nothing)
      /\ dev' = HandlePackets(d, after.packets)
      /\ whole' = (whole /\ ToSet(after.packets) \subseteq answers)
  BY DEF Update, Handled
<1>3. /\ wanted' = wanted /\ mode' = mode /\ plugged' = plugged
      /\ outbox' = outbox /\ stored' = stored /\ todo' = todo /\ answers' = answers
  BY DEF Update, uploads
<1>4. WireTypes /\ Streaming /\ whole
  BY DEF WireInv
<1>5. /\ info \in BOOLEAN /\ (written => flight # Nothing)
      /\ buffer \in Seq(Nat) /\ current \in Seq(Nat) /\ outbox \in Seq(Report)
      /\ Lined(queue) /\ (flight = Nothing \/ Legal(flight))
      /\ wanted \in Config /\ mode \in Modes \cup {Off}
      /\ stored \in [Pads -> Seq(Nat)] /\ plugged \in Pads
      /\ Sendable(todo)
  BY <1>4 DEF WireTypes
<1>6. PICK R : dev \in Devices(R)
  BY <1>4 DEF WireTypes
<1>7. Lined(line)
  <2>1. Lined(first)
    BY <1>5, LegalReadConfig, LinedAppend
  <2> HIDE DEF first
  <2>2. Lined(second)
    <3>1. dev.raw \in Seq(Nat)
      BY <1>6 DEF Devices
    <3>2. Legal(PutCommand) /\ Legal(ReadConfig)
      BY <1>5, <3>1, LegalPutCommand, LegalReadConfig
    <3>3. Lined(<<PutCommand, ReadConfig>>)
      <4> DEFINE a == PutCommand
                 b == ReadConfig
                 C == {a, b}
      <4>1. a \in C /\ b \in C /\ \A c \in C : Legal(c)
        BY <3>2
      <4> HIDE DEF C, a, b
      <4>2. <<a, b>> \in Seq(C)
        BY <4>1
      <4>3. Lined(<<a, b>>)
        BY <4>1, <4>2 DEF Lined
      <4> QED
        BY <4>3 DEF a, b
    <3>4. Lined(first \o <<PutCommand, ReadConfig>>)
      BY <2>1, <3>3, LinedConcat
    <3> QED
      BY <2>1, <3>4
  <2> HIDE DEF second
  <2>3. Lined(third)
    <3> DEFINE c == Command(<<Sense, mode, EndOfLine>>)
    <3>1. mode \in Nat
      BY <1>5 DEF Modes, Off
    <3>2. Legal(c)
      BY <3>1, LegalShort
    <3> HIDE DEF c
    <3>3. Lined(<<c>> \o second)
      BY <2>2, <3>2, LinedOne, LinedConcat
    <3> QED
      BY <2>2, <3>3 DEF c
  <2> HIDE DEF third
  <2>4. CASE timedOut
    <3>1. Legal(flight)
      BY <1>1, <1>5, <2>4
    <3>2. Lined(<<flight>> \o third)
      BY <2>3, <3>1, LinedOne, LinedConcat
    <3> QED
      BY <2>4, <3>2
  <2>5. CASE ~timedOut
    BY <2>3, <2>5
  <2> QED
    BY <2>4, <2>5
<1>8. ~info => line = IF timedOut THEN <<flight>> \o queue ELSE queue
  BY <1>1
<1> HIDE DEF line, first, second, third
<1>9. /\ info => Updated(fl, outbox, answers, after)
      /\ ~info => Awaited(fl, outbox, answers, after)
      /\ split.rest = <<>> /\ after.current \in Seq(Nat)
      /\ after.packets \in Seq(Answer) /\ ToSet(after.packets) \subseteq answers
      /\ after.info \in BOOLEAN /\ after.flight \in {fl, Nothing}
  <2> HIDE DEF fl
  <2> QED
    BY PacketsHandled
<1> HIDE DEF after, split
<1>10. after.flight = Nothing \/ Legal(after.flight)
  BY <1>5, <1>9
<1>11. Lined(queue') /\ (flight' = Nothing \/ Legal(flight'))
  <2>1. CASE next
    <3>1. Legal(Head(line)) /\ Lined(Tail(line))
      BY <1>7, <2>1, LinedTail
    <3> QED
      BY <1>2, <2>1, <3>1
  <2>2. CASE ~next
    BY <1>2, <1>7, <1>10, <2>2
  <2> QED
    BY <2>1, <2>2
<1>12. written' => flight' # Nothing
  BY <1>2
<1>13. \E S : dev' \in Devices(S)
  <2>1. d \in Devices(R)
    BY <1>5, <1>6 DEF Devices
  <2> HIDE DEF d
  <2> QED
    BY <1>2, <1>9, <2>1, HandlePacketsType
<1>14. info' \in BOOLEAN /\ buffer' \in Seq(Nat) /\ current' \in Seq(Nat)
  <2>1. <<>> \in Seq(Nat)
    OBVIOUS
  <2> QED
    BY <1>2, <1>9, <2>1
<1>15. WireTypes'
  BY <1>3, <1>5, <1>11, <1>12, <1>13, <1>14 DEF WireTypes
<1>16. whole'
  BY <1>2, <1>4, <1>9
<1>17. Streaming'
  <2>1. buffer' = <<>> /\ outbox' = outbox /\ answers' = answers
    BY <1>2, <1>3, <1>9
  <2>2. CASE info
    <3>1. info' = TRUE /\ Fed({0}, after.current, <<>>, outbox, answers)
      BY <1>2, <1>9, <2>2 DEF Updated
    <3> QED
      BY <1>2, <2>1, <3>1 DEF Streaming
  <2>3. CASE ~info
    <3>1. /\ after.current = <<>> /\ Fed(Nat, <<>>, <<>>, outbox, answers)
          /\ after.info \/ after.flight = fl
      BY <1>9, <2>3 DEF Awaited
    <3>2. CASE after.info
      <4>1. Fed({0}, <<>>, <<>>, outbox, answers)
        BY <3>1, FedMore
      <4>2. info' /\ current' = <<>>
        BY <1>2, <3>1, <3>2
      <4> QED
        BY <2>1, <4>1, <4>2 DEF Streaming
    <3>3. CASE ~after.info
      <4>1. ~info' /\ current' = <<>> /\ after.flight = fl
        BY <1>2, <3>1, <3>3
      <4>2. /\ line = IF timedOut THEN <<flight>> \o queue ELSE queue
            /\ \/ queue = <<Identify>> /\ flight = Nothing
               \/ queue = <<>> /\ flight = Identify
        BY <1>4, <1>8, <2>3 DEF Streaming
      <4>3. Identify # Nothing
        BY DEF Identify, Nothing
      <4>4. queue' = <<>> /\ flight' = Identify
        <5>1. CASE timedOut
          <6>1. flight = Identify /\ queue = <<>> /\ fl = Nothing
            BY <1>1, <1>5, <4>2, <5>1
          <6>2. line = <<Identify>> \o <<>>
            BY <4>2, <5>1, <6>1
          <6> HIDE DEF fl
          <6> QED
            BY <1>2, <4>1, <6>1, <6>2
        <5>2. CASE ~timedOut
          <6>1. line = queue /\ fl = flight
            BY <4>2, <5>2
          <6>2. CASE queue = <<Identify>> /\ flight = Nothing
            <7>1. next /\ Head(line) = Identify /\ Tail(line) = <<>>
              BY <4>1, <6>1, <6>2
            <7> QED
              BY <1>2, <7>1
          <6>3. CASE queue = <<>> /\ flight = Identify
            BY <1>2, <4>1, <4>3, <6>1, <6>3
          <6> QED
            BY <4>2, <6>2, <6>3
        <5> QED
          BY <5>1, <5>2
      <4> QED
        BY <2>1, <3>1, <4>1, <4>4 DEF Streaming
    <3> QED
      BY <3>2, <3>3
  <2> QED
    BY <2>2, <2>3
<1> QED
  BY <1>15, <1>16, <1>17 DEF WireInv

\* The pad answers a command; nothing else has to be known of how.
LEMMA AnswerStep ==
  ASSUME WireInv, NEW answer \in Seq(Nat), AnswerWith(answer),
         flight # Nothing, ~flight.info,
         stored' \in [Pads -> Seq(Nat)]
  PROVE  WireInv'
<1>1. /\ outbox' = outbox \o Reports(answer) /\ answers' = answers \cup {answer}
      /\ buffer' = buffer /\ current' = current /\ info' = info
      /\ queue' = queue /\ flight' = flight
      /\ dev' = dev /\ wanted' = wanted /\ mode' = mode /\ plugged' = plugged
      /\ todo' = todo /\ whole' = whole
  BY DEF AnswerWith, device, uploads
<1>2. WireTypes /\ Streaming /\ whole
  BY DEF WireInv
<1>3. info
  BY <1>2 DEF Streaming, Identify
<1>4. Fed({0}, current, buffer, outbox, answers) /\ outbox \in Seq(Report)
  BY <1>2, <1>3 DEF Streaming, WireTypes
<1>5. Fed({0}, current, buffer, outbox', answers') /\ outbox' \in Seq(Report)
  BY <1>1, <1>4, FedAnswered
<1>6. WireTypes'
  BY <1>1, <1>2, <1>5 DEF WireTypes
<1>7. Streaming'
  BY <1>1, <1>3, <1>5 DEF Streaming
<1> QED
  BY <1>1, <1>2, <1>6, <1>7 DEF WireInv

LEMMA AtPadFacts ==
  ASSUME WireInv, NEW letters, Takes(letters)
  PROVE  /\ flight # Nothing /\ ~flight.info
         /\ IsCommand(AtPad) /\ AtPad[1] \in letters
<1>1. flight # Nothing /\ ~flight.info /\ AtPad[1] \in letters
  BY DEF Takes
<1>2. Legal(flight)
  BY <1>1 DEF WireInv, WireTypes
<1> QED
  BY <1>1, <1>2, AtPadCommand DEF AtPad

LEMMA PadReadStep == WireInv /\ PadRead => WireInv'
<1> SUFFICES ASSUME WireInv, PadRead PROVE WireInv'
  OBVIOUS
<1>1. /\ AnswerWith(ConfigAnswer(plugged)) /\ Takes({GetOld, GetNew})
      /\ stored' = stored
  BY DEF PadRead
<1>2. plugged \in Pads /\ stored \in [Pads -> Seq(Nat)]
  BY DEF WireInv, WireTypes
<1>3. ConfigAnswer(plugged) \in Seq(Nat)
  BY <1>2, ConfigAnswerType
<1> QED
  BY <1>1, <1>2, <1>3, AtPadFacts, AnswerStep

LEMMA PadStoreStep == WireInv /\ PadStore => WireInv'
<1> SUFFICES ASSUME WireInv, PadStore PROVE WireInv'
  OBVIOUS
<1> DEFINE b == AtPad
           s == stored[plugged]
           new == [i \in DOMAIN s |-> IF i <= b[2] THEN b[2 + i] ELSE s[i]]
<1>1. AnswerWith(<<>>) /\ Takes({PutOld, PutNew}) /\ stored' = [stored EXCEPT ![plugged] = new]
  BY DEF PadStore
<1>2. plugged \in Pads /\ stored \in [Pads -> Seq(Nat)]
  BY DEF WireInv, WireTypes
<1>3. /\ flight # Nothing /\ ~flight.info
      /\ IsCommand(b) /\ b[1] \in {PutOld, PutNew}
  BY <1>1, AtPadFacts
<1> HIDE DEF b
<1>4. b \in Seq(Nat) /\ Len(b) >= 2 /\ Len(b) = 2 + b[2]
  BY <1>3 DEF IsCommand, IsUpload, Answer, UploadCode, PutOld, PutNew
<1>5. s \in Seq(Nat) /\ Len(s) \in Nat /\ DOMAIN s = 1..Len(s)
  BY <1>2
<1> DEFINE n == Len(s)
<1>6. b[2] \in Nat
  <2>1. 2 \in 1..Len(b)
    BY <1>4
  <2> QED
    BY <1>4, <2>1
<1> HIDE DEF s, n
<1>7. ASSUME NEW i \in 1..n PROVE (IF i <= b[2] THEN b[2 + i] ELSE s[i]) \in Nat
  <2>1. CASE i <= b[2]
    <3> DEFINE j == 2 + i
               L == Len(b)
    <3>1. n \in Nat /\ i \in Nat /\ i >= 1 /\ L = 2 + b[2]
      BY <1>4, <1>5 DEF n
    <3> HIDE DEF L
    <3>2. j \in 1..L
      BY <1>6, <2>1, <3>1
    <3> HIDE DEF j
    <3>3. b \in Seq(Nat) /\ j \in 1..Len(b)
      BY <1>4, <3>2 DEF L
    <3>4. b[j] \in Nat
      BY ONLY <3>3
    <3> QED
      BY <2>1, <3>4 DEF j
  <2>2. CASE ~(i <= b[2])
    BY <1>5, <2>2 DEF n
  <2> QED
    BY <2>1, <2>2
<1>8. new \in Seq(Nat)
  <2>1. n \in Nat /\ DOMAIN s = 1..n
    BY <1>5 DEF n
  <2>2. [i \in 1..n |-> IF i <= b[2] THEN b[2 + i] ELSE s[i]] \in Seq(Nat)
    BY <1>7, <2>1
  <2> QED
    BY <2>1, <2>2
<1> HIDE DEF new
<1>9. stored' \in [Pads -> Seq(Nat)]
  BY <1>1, <1>2, <1>8
<1>10. <<>> \in Seq(Nat)
  OBVIOUS
<1> QED
  BY <1>1, <1>3, <1>9, <1>10, AnswerStep

LEMMA SenseFor ==
  ASSUME WireInv, Takes({Sense}) PROVE AtPad[2] \in Nat
<1>1. IsCommand(AtPad) /\ AtPad[1] \in {Sense}
  BY AtPadFacts
<1> DEFINE b == AtPad
<1> HIDE DEF b
<1>2. IsCommand(b) /\ b[1] = Sense
  BY <1>1 DEF b
<1>3. b \in Seq(Nat) /\ Len(b) >= 2
  BY <1>2 DEF IsCommand, IsUpload, Answer, UploadCode, Sense
<1>4. 2 \in 1..Len(b)
  BY <1>3
<1> QED
  BY <1>3, <1>4 DEF b

LEMMA PadSenseStep ==
  ASSUME WireInv, NEW r \in Readings, PadSense(r)
  PROVE  WireInv'
<1>1. /\ AnswerWith(SensorAnswer(AtPad[2], r)) /\ Takes({Sense}) /\ stored' = stored
  BY DEF PadSense
<1>2. stored \in [Pads -> Seq(Nat)]
  BY DEF WireInv, WireTypes
<1>3. flight # Nothing /\ ~flight.info
  BY <1>1 DEF Takes
<1>4. SensorAnswer(AtPad[2], r) \in Seq(Nat)
  BY <1>1, SenseFor, SensorAnswerType
<1> QED
  BY <1>1, <1>2, <1>3, <1>4, AnswerStep

LEMMA PadUploadStep ==
  ASSUME WireInv, NEW missed, PadUpload(missed)
  PROVE  WireInv'
<1>1. AnswerWith(<<>>) /\ Takes({UploadCode}) /\ stored' = stored
  BY DEF PadUpload
<1>2. stored \in [Pads -> Seq(Nat)] /\ <<>> \in Seq(Nat)
  BY DEF WireInv, WireTypes
<1> QED
  BY <1>1, <1>2, AtPadFacts, AnswerStep

LEMMA IdentityReport ==
  ASSUME NEW p \in Pads
  PROVE  LET r == HidReport(HidReportData, DeviceInfo, <<Firmware[p]>>)
         IN  /\ r \in Report /\ Kept(r) \in Packet /\ IsInfo(Kept(r))
             /\ Payload(Kept(r))[1] = Firmware[p]
<1> DEFINE v == Firmware[p]
           q == <<v>>
           r == HidReport(HidReportData, DeviceInfo, <<Firmware[p]>>)
<1>1. v \in Nat
  BY WireAssumption
<1>2. r = HidReport(HidReportData, DeviceInfo, q)
  OBVIOUS
<1> HIDE DEF v
<1>3. q \in Seq(Nat) /\ Len(q) = 1 /\ q[1] = v /\ MaxPayload \in Nat /\ MaxPayload >= 1
  BY <1>1, ProtocolAssumption
<1> HIDE DEF q
<1>4. HidReportData \in Nat /\ DeviceInfo \in Nat /\ HasFlag(DeviceInfo, DeviceInfo)
  BY DEF HidReportData, DeviceInfo, HasFlag
<1>5. Len(q) <= MaxPayload
  BY <1>3
<1>6. /\ IsReport(HidReport(HidReportData, DeviceInfo, q), Nat, HidReportData,
                  DeviceInfo, q)
      /\ IsPacket(Kept(HidReport(HidReportData, DeviceInfo, q)), DeviceInfo, q)
  BY <1>3, <1>4, <1>5, ReportFacts, KeptFacts
<1> HIDE DEF r
<1>7. r \in Seq(Nat) /\ Kept(r) \in Packet /\ Kept(r)[2] = DeviceInfo /\ Payload(Kept(r)) = q
  BY <1>2, <1>6 DEF IsReport, IsPacket
<1> QED
  BY <1>3, <1>4, <1>7 DEF Report, IsInfo, r, v

LEMMA PadIdentifyStep == WireInv /\ PadIdentify => WireInv'
<1> SUFFICES ASSUME WireInv, PadIdentify PROVE WireInv'
  OBVIOUS
<1> DEFINE r == HidReport(HidReportData, DeviceInfo, <<Firmware[plugged]>>)
<1>1. /\ flight.info /\ written' = TRUE
      /\ buffer' = buffer /\ current' = current /\ info' = info
      /\ queue' = queue /\ flight' = flight /\ answers' = answers
      /\ dev' = dev /\ wanted' = wanted /\ mode' = mode
      /\ plugged' = plugged /\ stored' = stored /\ todo' = todo /\ whole' = whole
  BY DEF PadIdentify, device, uploads, history
<1>2. PICK i \in 1..(Len(outbox) + 1) : outbox' = InsertAt(outbox, i, r)
  BY DEF PadIdentify
<1>3. WireTypes /\ Streaming /\ whole
  BY DEF WireInv
<1>4. flight # Nothing
  BY <1>1 DEF Nothing
<1>5. r \in Report /\ IsInfo(Kept(r))
  BY <1>3, IdentityReport DEF WireTypes
<1> HIDE DEF r
<1>6. outbox \in Seq(Report)
  BY <1>3 DEF WireTypes
<1>7. ASSUME NEW K, K = {0} \/ K = Nat, NEW c, Fed(K, c, buffer, outbox, answers)
      PROVE  Fed(K, c, buffer, outbox', answers)
  BY <1>2, <1>5, <1>6, <1>7, FedIdentity
<1>8. outbox' \in Seq(Report)
  <2>1. \E K, c : (K = {0} \/ K = Nat) /\ Fed(K, c, buffer, outbox, answers)
    BY <1>3 DEF Streaming
  <2> QED
    BY <1>2, <1>5, <1>6, <2>1, FedIdentity
<1>9. WireTypes'
  BY <1>1, <1>3, <1>4, <1>8 DEF WireTypes
<1>10. Streaming'
  BY <1>1, <1>3, <1>7 DEF Streaming
<1> QED
  BY <1>1, <1>3, <1>9, <1>10 DEF WireInv

LEMMA StallStep == WireInv /\ Stall => WireInv'
<1> SUFFICES ASSUME WireInv, Stall PROVE WireInv'
  OBVIOUS
<1>1. /\ buffer' = buffer /\ current' = current /\ info' = info
      /\ queue' = queue /\ flight' = flight /\ written' = written
      /\ answers' = answers
      /\ dev' = dev /\ wanted' = wanted /\ mode' = mode
      /\ plugged' = plugged /\ stored' = stored /\ todo' = todo /\ whole' = whole
  BY DEF Stall, connection, device, uploads
<1>2. WireTypes /\ Streaming /\ whole
  BY DEF WireInv
<1>3. outbox \in Seq(Report)
  BY <1>2 DEF WireTypes
<1>4. PICK n \in 0..Len(outbox) : outbox' = SubSeq(outbox, 1, n)
  <2>1. PICK n \in 0..(Len(outbox) - 1) : outbox' = SubSeq(outbox, 1, n)
    BY DEF Stall
  <2>2. n \in 0..Len(outbox)
    BY <1>3, <2>1
  <2> QED
    BY <2>1, <2>2
<1>5. ASSUME NEW K, NEW c, Fed(K, c, buffer, outbox, answers)
      PROVE  Fed(K, c, buffer, outbox', answers) /\ outbox' \in Seq(Report)
  BY <1>3, <1>4, <1>5, FedStall
<1>6. outbox' \in Seq(Report)
  BY <1>2, <1>5 DEF Streaming
<1>7. WireTypes'
  BY <1>1, <1>2, <1>6 DEF WireTypes
<1>8. Streaming'
  BY <1>1, <1>2, <1>5 DEF Streaming
<1> QED
  BY <1>1, <1>2, <1>7, <1>8 DEF WireInv

LEMMA PollStep ==
  ASSUME WireInv, NEW n \in 1..Len(outbox), Poll(n)
  PROVE  WireInv'
<1>1. /\ current' = current /\ info' = info
      /\ queue' = queue /\ flight' = flight /\ written' = written
      /\ answers' = answers
      /\ dev' = dev /\ wanted' = wanted /\ mode' = mode
      /\ plugged' = plugged /\ stored' = stored /\ todo' = todo /\ whole' = whole
  BY DEF Poll, device, uploads, history
<1>2. /\ buffer' = buffer \o FlattenSeq([i \in 1..n |-> Kept(outbox[i])])
      /\ outbox' = SubSeq(outbox, n + 1, Len(outbox))
  BY DEF Poll
<1>3. WireTypes /\ Streaming /\ whole
  BY DEF WireInv
<1>4. outbox \in Seq(Report) /\ buffer \in Seq(Nat)
  BY <1>3 DEF WireTypes
<1>5. ASSUME NEW K, NEW c, Fed(K, c, buffer, outbox, answers)
      PROVE  /\ Fed(K, c, buffer', outbox', answers)
             /\ buffer' \in Seq(Nat) /\ outbox' \in Seq(Report)
  BY <1>2, <1>4, <1>5, FedPoll
<1>6. buffer' \in Seq(Nat) /\ outbox' \in Seq(Report)
  BY <1>3, <1>5 DEF Streaming
<1>7. WireTypes'
  BY <1>1, <1>3, <1>6 DEF WireTypes
<1>8. Streaming'
  BY <1>1, <1>3, <1>5 DEF Streaming
<1> QED
  BY <1>1, <1>3, <1>7, <1>8 DEF WireInv

LEMMA ReplugStep ==
  ASSUME WireInv, NEW pad \in Pads, Replug(pad)
  PROVE  WireInv'
<1>1. /\ buffer' = <<>> /\ current' = <<>> /\ info' = FALSE
      /\ queue' = <<Identify>> /\ flight' = Nothing /\ written' = FALSE
      /\ dev' = [dev EXCEPT !.have = FALSE] /\ plugged' = pad
      /\ wanted' = wanted /\ mode' = mode /\ stored' = stored
      /\ todo' = todo /\ whole' = whole
  BY DEF Replug, uploads
<1>2. PICK reports \in LeftOver(pad) : outbox' = reports /\ answers' = Ends(reports)
  BY DEF Replug
<1>3. WireTypes /\ whole
  BY DEF WireInv
<1>4. reports \in Seq(Report) /\ Fed(Nat, <<>>, <<>>, reports, Ends(reports))
  BY <1>3, LeftOverFed DEF WireTypes
<1>5. \E R : dev' \in Devices(R)
  <2>1. PICK R : dev \in Devices(R)
    BY <1>3 DEF WireTypes
  <2>2. dev' \in Devices(R)
    BY <1>1, <2>1 DEF Devices
  <2> QED
    BY <2>2
<1>6. <<>> \in Seq(Nat)
  OBVIOUS
<1>7. WireTypes'
  BY <1>1, <1>2, <1>3, <1>4, <1>5, <1>6, DeviceStart DEF WireTypes
<1>8. Streaming'
  BY <1>1, <1>2, <1>4 DEF Streaming
<1> QED
  BY <1>1, <1>3, <1>7, <1>8 DEF WireInv

\* What the application does to the device; nothing is sent or handled by it.
LEMMA SetConfigStep ==
  ASSUME WireInv, NEW f \in Changes, NEW v \in 1..MaxSets, SetConfig(f, v)
  PROVE  WireInv'
<1> DEFINE now == IF send THEN wanted ELSE dev.config
<1>1. /\ buffer' = buffer /\ current' = current /\ info' = info
      /\ queue' = queue /\ flight' = flight /\ written' = written
      /\ answers' = answers /\ outbox' = outbox
      /\ dev' = dev /\ wanted' = [now EXCEPT ![f] = v] /\ mode' = mode
      /\ plugged' = plugged /\ stored' = stored /\ todo' = todo /\ whole' = whole
  BY DEF SetConfig, connection, usb, uploads
<1>2. WireTypes /\ Streaming /\ whole
  BY DEF WireInv
<1>3. now \in Config
  <2>1. PICK R : dev \in Devices(R)
    BY <1>2 DEF WireTypes
  <2>2. dev.config \in Config /\ wanted \in Config
    BY <1>2, <2>1 DEF Devices, WireTypes
  <2> QED
    BY <2>2
<1> HIDE DEF now
<1>4. wanted' \in Config
  <2>1. v \in Nat /\ f \in Fields
    BY WireAssumption
  <2> QED
    BY <1>1, <1>3, <2>1 DEF Config
<1>5. WireTypes'
  BY <1>1, <1>2, <1>4 DEF WireTypes
<1>6. Streaming'
  BY <1>1, <1>2 DEF Streaming
<1> QED
  BY <1>1, <1>2, <1>5, <1>6 DEF WireInv

LEMMA SetSensorTestModeStep ==
  ASSUME WireInv, NEW m \in Modes \cup {Off}, SetSensorTestMode(m)
  PROVE  WireInv'
<1>1. /\ buffer' = buffer /\ current' = current /\ info' = info
      /\ queue' = queue /\ flight' = flight /\ written' = written
      /\ answers' = answers /\ outbox' = outbox
      /\ dev' = dev /\ wanted' = wanted /\ mode' = m
      /\ plugged' = plugged /\ stored' = stored /\ todo' = todo /\ whole' = whole
  BY DEF SetSensorTestMode, connection, usb, uploads
<1>2. WireTypes /\ Streaming /\ whole
  BY DEF WireInv
<1>3. WireTypes'
  BY <1>1, <1>2 DEF WireTypes
<1>4. Streaming'
  BY <1>1, <1>2 DEF Streaming
<1> QED
  BY <1>1, <1>2, <1>3, <1>4 DEF WireInv

LEMMA StartUploadStep ==
  ASSUME WireInv, NEW t \in Types, NEW g \in DOMAIN Gifs, StartUpload(t, g)
  PROVE  WireInv'
<1>1. /\ buffer' = buffer /\ current' = current /\ info' = info
      /\ queue' = queue /\ flight' = flight /\ written' = written
      /\ answers' = answers /\ outbox' = outbox
      /\ dev' = dev /\ wanted' = wanted /\ mode' = mode
      /\ plugged' = plugged /\ stored' = stored /\ whole' = whole
      /\ todo' = UploadCommands(Gifs[g], t)
  BY DEF StartUpload, connection, device, usb, history
<1>2. WireTypes /\ Streaming /\ whole
  BY DEF WireInv
<1>3. Sendable(todo')
  <2>1. IsGif(Gifs[g])
    BY WireAssumption DEF IsGif
  <2> QED
    BY <1>1, <2>1, UploadCommandsSendable
<1>4. WireTypes'
  BY <1>1, <1>2, <1>3 DEF WireTypes
<1>5. Streaming'
  BY <1>1, <1>2 DEF Streaming
<1> QED
  BY <1>1, <1>2, <1>4, <1>5 DEF WireInv

LEMMA SendableTail ==
  ASSUME NEW s, Sendable(s), s # <<>>
  PROVE  /\ Head(s).op = "packet" => IsUpload(Head(s).bytes)
         /\ Sendable(Tail(s))
<1>1. PICK E : /\ s \in Seq(E)
               /\ \A e \in E : e.op = "packet" => IsUpload(e.bytes)
  BY DEF Sendable
<1>2. Head(s) \in E /\ Tail(s) \in Seq(E)
  BY <1>1
<1> QED
  BY <1>1, <1>2 DEF Sendable

\* The application sends the packets of an upload to a pad that it knows.
Sending == todo # <<>> => use = "upload" /\ info

LEMMA SendingUpdate ==
  ASSUME WireInv, Sending, NEW put, NEW due, NEW timedOut, Update(put, due, timedOut)
  PROVE  Sending'
<1> DEFINE fl == IF timedOut THEN Nothing ELSE flight
           after == Handled([current |-> current, packets |-> <<>>, active |-> info,
                             info |-> info, firmware |-> firmware, flight |-> fl],
                            SplitBuffer(buffer).packets)
<1>1. info' = after.info /\ use' = use /\ todo' = todo
  BY DEF Update, Handled, uploads
<1>2. info => Updated(fl, outbox, answers, after)
  <2> HIDE DEF fl
  <2> QED
    BY PacketsHandled
<1> HIDE DEF after
<1> QED
  BY <1>1, <1>2 DEF Sending, Updated

LEMMA SendingStep == WireInv /\ Sending /\ [Next]_vars => Sending'
<1> SUFFICES ASSUME WireInv, Sending, [Next]_vars PROVE Sending'
  OBVIOUS
<1> DEFINE Same == use' = use /\ info' = info /\ todo' = todo
<1>1. ASSUME \/ \E f \in Changes, v \in 1..MaxSets : SetConfig(f, v)
             \/ \E m \in Modes \cup {Off} : SetSensorTestMode(m)
             \/ \E n \in 1..Len(outbox) : Poll(n)
             \/ FinishUpload \/ PadIdentify \/ Stall \/ UNCHANGED vars
      PROVE  Same
  BY <1>1 DEF SetConfig, SetSensorTestMode, Poll, FinishUpload, PadIdentify, Stall,
     vars, connection, uploads
<1>2. ASSUME \/ PadRead \/ PadStore \/ \E r \in Readings : PadSense(r)
             \/ \E missed \in BOOLEAN : PadUpload(missed)
      PROVE  Same
  BY <1>2 DEF PadRead, PadStore, PadSense, PadUpload, AnswerWith, uploads
<1>3. ASSUME NEW t \in Types, NEW g \in DOMAIN Gifs, StartUpload(t, g) PROVE Sending'
  BY <1>3 DEF StartUpload, connection, Sending
<1>4. ASSUME UploadPacket \/ UploadPause PROVE Sending'
  BY <1>4 DEF UploadPacket, UploadPause, connection, Sending
<1>5. ASSUME NEW put \in BOOLEAN, NEW due \in BOOLEAN, NEW timedOut \in BOOLEAN,
             Update(put, due, timedOut)
      PROVE  Sending'
  BY <1>5, SendingUpdate
<1>6. ASSUME NEW p \in Pads, Replug(p) PROVE Sending'
  BY <1>6 DEF Replug, uploads, Sending
<1>7. ASSUME Same PROVE Sending'
  BY <1>7 DEF Sending
<1> HIDE DEF Same
<1> QED
  BY <1>1, <1>2, <1>3, <1>4, <1>5, <1>6, <1>7 DEF Next

LEMMA UploadPacketStep == WireInv /\ Sending /\ UploadPacket => WireInv'
<1> SUFFICES ASSUME WireInv, Sending, UploadPacket PROVE WireInv'
  OBVIOUS
<1> DEFINE c == Command(Head(todo).bytes)
<1>1. /\ buffer' = buffer /\ current' = current /\ info' = info
      /\ flight' = flight /\ written' = written
      /\ answers' = answers /\ outbox' = outbox
      /\ dev' = dev /\ wanted' = wanted /\ mode' = mode
      /\ plugged' = plugged /\ stored' = stored /\ whole' = whole
      /\ queue' = Append(queue, c) /\ todo' = Tail(todo)
  BY DEF UploadPacket, device, usb, history
<1>2. todo # <<>> /\ Head(todo).op = "packet"
  BY DEF UploadPacket
<1>3. WireTypes /\ Streaming /\ whole
  BY DEF WireInv
<1>4. Sendable(todo') /\ Legal(c)
  <2>1. IsUpload(Head(todo).bytes) /\ Sendable(Tail(todo))
    BY <1>2, <1>3, SendableTail DEF WireTypes
  <2> QED
    BY <1>1, <2>1 DEF Legal, IsCommand
<1> HIDE DEF c
<1>5. Lined(queue')
  BY <1>1, <1>3, <1>4, LinedAppend DEF WireTypes
<1>6. info
  BY <1>2 DEF Sending
<1>7. WireTypes'
  BY <1>1, <1>3, <1>4, <1>5 DEF WireTypes
<1>8. Streaming'
  BY <1>1, <1>3, <1>6 DEF Streaming
<1> QED
  BY <1>1, <1>3, <1>7, <1>8 DEF WireInv

LEMMA UploadPauseStep == WireInv /\ UploadPause => WireInv'
<1> SUFFICES ASSUME WireInv, UploadPause PROVE WireInv'
  OBVIOUS
<1>1. /\ buffer' = buffer /\ current' = current /\ info' = info
      /\ queue' = queue /\ flight' = flight /\ written' = written
      /\ answers' = answers /\ outbox' = outbox
      /\ dev' = dev /\ wanted' = wanted /\ mode' = mode
      /\ plugged' = plugged /\ stored' = stored /\ whole' = whole
      /\ todo # <<>> /\ todo' = Tail(todo)
  BY DEF UploadPause, connection, device, usb, history
<1>2. WireTypes /\ Streaming /\ whole
  BY DEF WireInv
<1>3. Sendable(todo')
  BY <1>1, <1>2, SendableTail DEF WireTypes
<1>4. WireTypes'
  BY <1>1, <1>2, <1>3 DEF WireTypes
<1>5. Streaming'
  BY <1>1, <1>2 DEF Streaming
<1> QED
  BY <1>1, <1>2, <1>4, <1>5 DEF WireInv

\* What neither sends nor handles anything.
LEMMA OtherStep ==
  ASSUME WireInv, FinishUpload \/ UNCHANGED vars
  PROVE  WireInv'
<1>1. /\ buffer' = buffer /\ current' = current /\ info' = info
      /\ queue' = queue /\ flight' = flight /\ written' = written
      /\ answers' = answers /\ outbox' = outbox
      /\ dev' = dev /\ wanted' = wanted /\ mode' = mode
      /\ plugged' = plugged /\ stored' = stored /\ whole' = whole
      /\ todo' = todo
  BY DEF FinishUpload, vars, connection, device, usb, uploads, history
<1>2. WireTypes /\ Streaming /\ whole
  BY DEF WireInv
<1>3. WireTypes'
  BY <1>1, <1>2 DEF WireTypes
<1>4. Streaming'
  BY <1>1, <1>2 DEF Streaming
<1> QED
  BY <1>1, <1>2, <1>3, <1>4 DEF WireInv

LEMMA WireStep == WireInv /\ Sending /\ [Next]_vars => WireInv'
<1> SUFFICES ASSUME WireInv, Sending, [Next]_vars PROVE WireInv'
  OBVIOUS
<1>1. ASSUME NEW f \in Changes, NEW v \in 1..MaxSets, SetConfig(f, v) PROVE WireInv'
  BY <1>1, SetConfigStep
<1>2. ASSUME NEW m \in Modes \cup {Off}, SetSensorTestMode(m) PROVE WireInv'
  BY <1>2, SetSensorTestModeStep
<1>3. ASSUME NEW t \in Types, NEW g \in DOMAIN Gifs, StartUpload(t, g) PROVE WireInv'
  BY <1>3, StartUploadStep
<1>4. CASE UploadPacket
  BY <1>4, UploadPacketStep
<1>5. CASE UploadPause
  BY <1>5, UploadPauseStep
<1>6. CASE FinishUpload \/ UNCHANGED vars
  BY <1>6, OtherStep
<1>7. ASSUME NEW put \in BOOLEAN, NEW due \in BOOLEAN, NEW timedOut \in BOOLEAN,
             Update(put, due, timedOut)
      PROVE  WireInv'
  BY <1>7, UpdateStep
<1>8. CASE PadIdentify
  BY <1>8, PadIdentifyStep
<1>9. CASE PadRead
  BY <1>9, PadReadStep
<1>10. CASE PadStore
  BY <1>10, PadStoreStep
<1>11. ASSUME NEW r \in Readings, PadSense(r) PROVE WireInv'
  BY <1>11, PadSenseStep
<1>12. ASSUME NEW missed \in BOOLEAN, PadUpload(missed) PROVE WireInv'
  BY <1>12, PadUploadStep
<1>13. CASE Stall
  BY <1>13, StallStep
<1>14. ASSUME NEW n \in 1..Len(outbox), Poll(n) PROVE WireInv'
  BY <1>14, PollStep
<1>15. ASSUME NEW p \in Pads, Replug(p) PROVE WireInv'
  BY <1>15, ReplugStep
<1> QED
  BY <1>1, <1>2, <1>3, <1>4, <1>5, <1>6, <1>7, <1>8, <1>9, <1>10, <1>11, <1>12,
     <1>13, <1>14, <1>15 DEF Next

\* The types of what is on its way, and: what of it the device has not handled
\* yet can only be put together to answers of the pad that is plugged in, from
\* wherever in it the device comes in and whatever breaks off.
THEOREM WireInvariant == Spec => []WireInv
<1>1. Init => WireInv /\ Sending
  BY WireInit DEF Init, Sending
<1>2. WireInv /\ Sending /\ [Next]_vars => WireInv' /\ Sending'
  BY WireStep, SendingStep
<1> QED
  BY <1>1, <1>2, PTL DEF Spec

\* handle_packets gets the pad's answers, each as a whole: a fragment that a
\* timeout, a retry, another read or another pad has left behind never becomes
\* part of one (check_reads and PacketReassembler::push).
THEOREM WholePacketsHolds == Spec => []WholePackets
<1>1. WireInv => WholePackets
  BY DEF WireInv, WholePackets
<1> QED
  BY <1>1, WireInvariant, PTL

-----------------------------------------------------------------------------
(* The version of the firmware *)

\* What a pad of firmware version v sends: packets that give that version, and
\* parts of answers, of which the one that ends an answer finishes its command.
SentBy(v) ==
  {raw \in Packet :
     IF IsInfo(raw) THEN Payload(raw)[1] = v ELSE Ending(raw)}

Named(buf, box, v) ==
  /\ \E in, at : in \in Seq(SentBy(v)) /\ CutAt(buf, in, at)
  /\ \A j \in 1..Len(box) : Kept(box[j]) \in SentBy(v)

LEMMA NamedLeft ==
  ASSUME NEW reports, OneAnswer(reports), NEW v
  PROVE  Named(<<>>, reports, v)
<1>1. ASSUME NEW j \in 1..Len(reports) PROVE Kept(reports[j]) \in SentBy(v)
  <2>1. /\ reports[j] \in Report /\ ~IsInfo(Kept(reports[j])) /\ Ending(reports[j])
        /\ Kept(reports[j])[2] = reports[j][2]
    BY DEF OneAnswer
  <2> QED
    BY <2>1 DEF Report, SentBy, Ending
<1>2. <<>> \in Seq(SentBy(v))
  OBVIOUS
<1> QED
  BY <1>1, <1>2, NothingBuffered DEF Named

LEMMA NamedIdentity ==
  ASSUME NEW buf, NEW box \in Seq(Report), NEW v, Named(buf, box, v),
         NEW r \in Report, Kept(r) \in SentBy(v), NEW i \in 1..(Len(box) + 1)
  PROVE  Named(buf, InsertAt(box, i, r), v)
<1> DEFINE out == InsertAt(box, i, r)
           n == Len(box)
<1>1. /\ out \in Seq(Report) /\ Len(out) = n + 1 /\ n \in Nat /\ i \in 1..(n + 1)
      /\ \A j \in 1..(i - 1) : out[j] = box[j]
      /\ out[i] = r
      /\ \A j \in (i + 1)..(n + 1) : out[j] = box[j - 1]
  <2> HIDE DEF out, n
  <2>1. out = InsertAt(box, i, r) /\ n = Len(box)
    BY DEF out, n
  <2>2. /\ InsertAt(box, i, r) \in Seq(Report) /\ Len(InsertAt(box, i, r)) = Len(box) + 1
        /\ \A j \in 1..(i - 1) : InsertAt(box, i, r)[j] = box[j]
        /\ InsertAt(box, i, r)[i] = r
        /\ \A j \in (i + 1)..(Len(box) + 1) : InsertAt(box, i, r)[j] = box[j - 1]
    BY InsertFacts, SMTT(30)
  <2> QED
    BY <2>1, <2>2
<1>2. \A j \in 1..n : Kept(box[j]) \in SentBy(v)
  BY DEF Named
<1> HIDE DEF out, n
<1>3. ASSUME NEW j \in 1..Len(out) PROVE Kept(out[j]) \in SentBy(v)
  <2>0. j \in 1..(n + 1)
    BY <1>1
  <2>1. CASE j < i
    <3>1. j \in 1..(i - 1) /\ j \in 1..n
      BY <1>1, <2>0, <2>1
    <3> QED
      BY <1>1, <1>2, <3>1
  <2>2. CASE j = i
    BY <1>1, <2>2
  <2>3. CASE j > i
    <3>1. j \in (i + 1)..(n + 1) /\ j - 1 \in 1..n
      BY <1>1, <2>0, <2>3
    <3>2. out[j] = box[j - 1] /\ Kept(box[j - 1]) \in SentBy(v)
      BY <1>1, <1>2, <3>1
    <3> QED
      BY <3>2
  <2> QED
    BY <1>1, <2>0, <2>1, <2>2, <2>3
<1> QED
  BY <1>3 DEF Named, out

LEMMA NamedAnswered ==
  ASSUME NEW buf, NEW box \in Seq(Report), NEW v, Named(buf, box, v),
         NEW answer \in Seq(Nat)
  PROVE  Named(buf, box \o Reports(answer), v)
<1> DEFINE more == Reports(answer)
           out == box \o more
           n == Len(box)
<1>1. PICK got : Carries(more, answer, got)
  BY AnswerReports
<1>2. /\ more \in Seq(Report)
      /\ \A j \in 1..Len(more) : /\ ~IsInfo(Kept(more[j])) /\ Ending(more[j])
                                 /\ Kept(more[j])[2] = more[j][2]
  BY <1>1 DEF Carries
<1> HIDE DEF more
<1>3. /\ n \in Nat /\ Len(more) \in Nat /\ Len(out) = n + Len(more)
      /\ \A j \in 1..n : out[j] = box[j]
      /\ \A j \in 1..Len(more) : out[n + j] = more[j]
  BY <1>2, Joined
<1>4. \A j \in 1..n : Kept(box[j]) \in SentBy(v)
  BY DEF Named
<1> HIDE DEF out, n
<1>5. ASSUME NEW j \in 1..Len(out) PROVE Kept(out[j]) \in SentBy(v)
  <2>1. CASE j <= n
    <3>1. j \in 1..n
      BY <1>3, <2>1
    <3> QED
      BY <1>3, <1>4, <3>1
  <2>2. CASE ~(j <= n)
    <3> DEFINE i == j - n
    <3>1. i \in 1..Len(more) /\ n + i = j
      BY <1>3, <2>2
    <3> HIDE DEF i
    <3>2. /\ out[j] = more[i] /\ more[i] \in Report
          /\ ~IsInfo(Kept(more[i])) /\ Ending(more[i])
          /\ Kept(more[i])[2] = more[i][2]
      BY <1>2, <1>3, <3>1
    <3> QED
      BY <3>2 DEF Report, SentBy, Ending
  <2> QED
    BY <2>1, <2>2
<1> QED
  BY <1>5 DEF Named, out, more

LEMMA NamedStall ==
  ASSUME NEW buf, NEW box \in Seq(Report), NEW v, Named(buf, box, v),
         NEW n \in 0..Len(box)
  PROVE  Named(buf, SubSeq(box, 1, n), v)
<1> DEFINE cut == SubSeq(box, 1, n)
<1>1. Len(cut) = n /\ n \in Nat /\ n <= Len(box) /\ \A j \in 1..n : cut[j] = box[j]
  OBVIOUS
<1> HIDE DEF cut
<1>2. \A j \in 1..Len(box) : Kept(box[j]) \in SentBy(v)
  BY DEF Named
<1>3. \A j \in 1..n : j \in 1..Len(box)
  BY <1>1
<1>4. \A j \in 1..Len(cut) : Kept(cut[j]) \in SentBy(v)
  BY <1>1, <1>2, <1>3
<1> QED
  BY <1>4 DEF Named, cut

LEMMA NamedPoll ==
  ASSUME NEW buf \in Seq(Nat), NEW box \in Seq(Report), NEW v, Named(buf, box, v),
         NEW n \in 1..Len(box)
  PROVE  Named(buf \o FlattenSeq([i \in 1..n |-> Kept(box[i])]),
               SubSeq(box, n + 1, Len(box)), v)
<1> DEFINE q == [i \in 1..n |-> Kept(box[i])]
           f == FlattenSeq(q)
           rest == SubSeq(box, n + 1, Len(box))
           L == Len(box)
           N == SentBy(v)
<1>1. PICK in, at : in \in Seq(N) /\ CutAt(buf, in, at)
  BY DEF Named
<1>2. \A j \in 1..L : Kept(box[j]) \in N
  BY DEF Named
<1>3. L \in Nat /\ n \in 1..L
  OBVIOUS
<1>4. N \subseteq Seq(Nat)
  BY DEF SentBy, Packet
<1> HIDE DEF N
<1>5. q \in Seq(N)
  <2>1. \A i \in 1..n : i \in 1..L
    BY <1>3
  <2>2. \A i \in 1..n : Kept(box[i]) \in N
    BY <1>2, <2>1
  <2> QED
    BY <1>3, <2>2
<1>6. \A j \in 1..Len(rest) : Kept(rest[j]) \in N
  <2>1. \A j \in (n + 1)..L : box[j] \in Report
    BY <1>3
  <2>2. n + 1 \in Int /\ L \in Int
    BY <1>3
  <2>3. /\ Len(rest) = IF n + 1 <= L THEN L - (n + 1) + 1 ELSE 0
        /\ \A j \in 1..(L - (n + 1) + 1) : rest[j] = box[n + 1 + j - 1]
    BY <2>1, <2>2, SubSeqProperties
  <2> HIDE DEF rest, L
  <2>4. ASSUME NEW j \in 1..Len(rest) PROVE Kept(rest[j]) \in N
    <3>1. Len(rest) = L - n /\ n \in Nat /\ n <= L
      BY <1>3, <2>3
    <3>2. j \in 1..(L - n)
      BY <3>1
    <3>3. j \in 1..(L - (n + 1) + 1) /\ n + 1 + j - 1 \in 1..L
      BY <1>3, <3>1, <3>2
    <3> QED
      BY <1>2, <2>3, <3>3
  <2> QED
    BY <2>4
<1> HIDE DEF q, rest
<1>7. in \in Seq(Seq(Nat)) /\ q \in Seq(Seq(Nat))
  BY <1>1, <1>4, <1>5, SeqMonotonic
<1>8. f \in Seq(Nat) /\ \E to : CutAt(f, q, to)
  BY <1>7, Flatten
<1> HIDE DEF f
<1>9. PICK to : CutAt(f, q, to)
  BY <1>8
<1>10. \E w : CutAt(buf \o f, in \o q, w)
  BY <1>1, <1>7, <1>8, <1>9, CutConcat
<1>11. in \o q \in Seq(N)
  BY <1>1, <1>5, Joined
<1> QED
  BY <1>6, <1>10, <1>11 DEF Named, f, q, rest, N

\* The version the device knows after an update is one that was reported.
NamedAfter(v, in, c, fl, fw) ==
  /\ fw = v => Handled(Base(c, TRUE, fw, fl), in).firmware = v
  /\ Handled(Base(<<>>, FALSE, fw, fl), in).info
       => Handled(Base(<<>>, FALSE, fw, fl), in).firmware = v

LEMMA NamedHandled ==
  ASSUME NEW v, NEW in \in Seq(SentBy(v)), NEW c \in Seq(Nat), NEW fl,
         NEW fw
  PROVE  NamedAfter(v, in, c, fl, fw)
<1> DEFINE F == Firmwares(fw, in)
           l == Len(in)
<1>1. /\ in \in Seq(Packet) /\ l \in Nat /\ l \in 0..l
      /\ \A i \in 1..l : in[i] \in Packet /\ (IsInfo(in[i]) => Payload(in[i])[1] = v)
      /\ \A i \in 1..l : Payload(in[i])[1] \in F
  <2>1. SentBy(v) \subseteq Packet
    BY DEF SentBy
  <2>2. in \in Seq(Packet)
    BY <2>1, SeqMonotonic
  <2> QED
    BY <2>2 DEF SentBy, Firmwares
<1>2. ASSUME fw = v PROVE Handled(Base(c, TRUE, fw, fl), in).firmware = v
  <2> DEFINE base == Base(c, TRUE, fw, fl)
             S == {u \in Reading(fl, F) : u.firmware = v}
  <2>1. base \in S
    <3>1. <<>> \in Seq(Answer) /\ fw \in F
      BY DEF Firmwares
    <3> HIDE DEF F
    <3> QED
      BY <1>2, <3>1 DEF Base, Reading
  <2>2. ASSUME NEW u \in S, NEW i \in 1..l PROVE Receive(u, in[i]) \in S
    <3> DEFINE raw == in[i]
    <3>1. raw \in Packet /\ Payload(raw)[1] \in F /\ (IsInfo(raw) => Payload(raw)[1] = v)
      BY <1>1
    <3>2. u \in Reading(fl, F) /\ u.firmware = v
      OBVIOUS
    <3> HIDE DEF F, raw
    <3>3. Receive(u, raw) \in Reading(fl, F)
      BY <3>1, <3>2, ReceiveReading
    <3>4. Receive(u, raw).firmware = v
      <4>1. CASE IsInfo(raw) /\ IsReport6(raw) /\ u.flight.info
        <5>1. Receive(u, raw) = [u EXCEPT !.info = TRUE, !.firmware = Payload(raw)[1],
                                          !.flight = Nothing]
          BY <4>1 DEF Receive, IsInfo
        <5> QED
          BY <3>1, <3>2, <4>1, <5>1 DEF Reading
      <4>2. CASE ~(IsInfo(raw) /\ IsReport6(raw) /\ u.flight.info)
        <5> DEFINE cur == UnderWay(u.current, raw)
                   pac == u.packets \o Completed(u.current, raw)
                   fli == IF HasFlag(raw[2], HostCmdFinished) THEN Nothing ELSE u.flight
                   w == [u EXCEPT !.current = cur, !.packets = pac, !.flight = fli]
        <5>1. Receive(u, raw) \in {u, w}
          BY <4>2 DEF Receive, IsInfo
        <5>2. w.firmware = u.firmware
          <6> HIDE DEF cur, pac, fli
          <6> QED
            BY <3>2 DEF Reading
        <5> HIDE DEF w
        <5> QED
          BY <3>2, <5>1, <5>2
      <4> QED
        BY <4>1, <4>2
    <3> QED
      BY <3>3, <3>4 DEF raw
  <2> HIDE DEF base, S
  <2>3. \A u \in S : \A i \in 1..l : Receive(u, in[i]) \in S
    BY <2>2
  <2>4. PICK f : Follows(base, in, S, f)
    BY <1>1, <2>1, <2>3, ReceiveFold
  <2>5. Handled(base, in) = f[l] /\ f[l] \in S
    BY <1>1, <2>4 DEF Follows, Handled
  <2>6. Handled(base, in).firmware = v
    BY <2>5 DEF S
  <2> QED
    BY <2>6 DEF base
<1>3. ASSUME Handled(Base(<<>>, FALSE, fw, fl), in).info
      PROVE  Handled(Base(<<>>, FALSE, fw, fl), in).firmware = v
  <2> DEFINE base == Base(<<>>, FALSE, fw, fl)
             W == Waiting(<<>>, fl, F)
             S == {u \in W : u.info => u.firmware = v}
  <2>1. base \in S
    <3>1. fw \in F
      BY DEF Firmwares
    <3> HIDE DEF F
    <3> QED
      BY <3>1 DEF Base, Waiting
  <2>2. ASSUME NEW u \in S, NEW i \in 1..l PROVE Receive(u, in[i]) \in S
    <3> DEFINE raw == in[i]
    <3>1. raw \in Packet /\ Payload(raw)[1] \in F /\ (IsInfo(raw) => Payload(raw)[1] = v)
      BY <1>1
    <3>2. u \in W /\ (u.info => u.firmware = v)
      OBVIOUS
    <3> HIDE DEF F, raw
    <3>3. Receive(u, raw) \in W
      BY <3>1, <3>2, ReceiveWaiting
    <3>4. Receive(u, raw).info => Receive(u, raw).firmware = v
      <4>1. CASE IsInfo(raw) /\ IsReport6(raw) /\ u.flight.info
        <5>1. Receive(u, raw) = [u EXCEPT !.info = TRUE, !.firmware = Payload(raw)[1],
                                          !.flight = Nothing]
          BY <4>1 DEF Receive, IsInfo
        <5> QED
          BY <3>1, <3>2, <4>1, <5>1 DEF Waiting
      <4>2. CASE ~(IsInfo(raw) /\ IsReport6(raw) /\ u.flight.info)
        <5>1. ~u.active
          BY <3>2 DEF Waiting
        <5>2. Receive(u, raw) = u
          BY <4>2, <5>1 DEF Receive, IsInfo
        <5> QED
          BY <3>2, <5>2
      <4> QED
        BY <4>1, <4>2
    <3> QED
      BY <3>3, <3>4 DEF raw
  <2> HIDE DEF base, S
  <2>3. \A u \in S : \A i \in 1..l : Receive(u, in[i]) \in S
    BY <2>2
  <2>4. PICK f : Follows(base, in, S, f)
    BY <1>1, <2>1, <2>3, ReceiveFold
  <2>5. Handled(base, in) = f[l] /\ f[l] \in S
    BY <1>1, <2>4 DEF Follows, Handled
  <2>6. Handled(base, in).info => Handled(base, in).firmware = v
    BY <2>5 DEF S
  <2> QED
    BY <1>3, <2>6 DEF base
<1> QED
  BY <1>2, <1>3 DEF NamedAfter

\* Once the device knows a version, it is that of the pad, and so is what is on
\* its way.
FirmwareInv ==
  /\ info => firmware = Firmware[plugged]
  /\ Named(buffer, outbox, Firmware[plugged])

LEMMA FirmwareInit == Init => FirmwareInv
<1> SUFFICES ASSUME Init PROVE FirmwareInv
  OBVIOUS
<1>1. buffer = <<>> /\ info = FALSE
  BY DEF Init
<1>2. PICK reports \in LeftOver(plugged) : outbox = reports
  BY DEF Init
<1>3. plugged \in Pads /\ stored \in [Pads -> Seq(Nat)]
  BY WireInit DEF WireInv, WireTypes
<1>4. OneAnswer(reports)
  BY <1>3, ConfigAnswerType, LeftOverReports DEF LeftOver
<1> QED
  BY <1>1, <1>2, <1>4, NamedLeft DEF FirmwareInv

\* After an update the version is still, or for the first time, that of the pad.
LEMMA FirmwareHandled ==
  ASSUME WireInv, FirmwareInv, NEW fl
  PROVE  LET after == Handled([current |-> current, packets |-> <<>>,
                               active |-> info, info |-> info,
                               firmware |-> firmware, flight |-> fl],
                              SplitBuffer(buffer).packets)
         IN  after.info => after.firmware = Firmware[plugged]
<1> DEFINE v == Firmware[plugged]
           base == [current |-> current, packets |-> <<>>, active |-> info,
                    info |-> info, firmware |-> firmware, flight |-> fl]
           packets == SplitBuffer(buffer).packets
<1>1. buffer \in Seq(Nat) /\ current \in Seq(Nat) /\ info \in BOOLEAN
  BY DEF WireInv, WireTypes
<1>2. PICK in, at : in \in Seq(SentBy(v)) /\ CutAt(buffer, in, at)
  BY DEF FirmwareInv, Named
<1>3. SentBy(v) \subseteq Packet
  BY DEF SentBy
<1>4. in \in Seq(Packet)
  BY <1>2, <1>3, SeqMonotonic
<1>5. packets = in
  <2>1. SplitBuffer(buffer) = [packets |-> in, rest |-> <<>>]
    BY <1>1, <1>2, <1>4, SplitWhole
  <2> QED
    BY <2>1
<1> HIDE DEF packets, v
<1>6. CASE info
  <2>1. base = Base(current, TRUE, firmware, fl)
    <3>1. info = TRUE
      BY <1>6
    <3> QED
      BY <3>1 DEF Base
  <2>2. firmware = v
    BY <1>6 DEF FirmwareInv, v
  <2>3. Handled(Base(current, TRUE, firmware, fl), in).firmware = v
    <3>1. NamedAfter(v, in, current, fl, firmware)
      BY <1>1, <1>2, NamedHandled
    <3> QED
      BY <2>2, <3>1 DEF NamedAfter
  <2> HIDE DEF base
  <2> QED
    BY <1>5, <2>1, <2>3 DEF base, packets, v
<1>7. CASE ~info
  <2>1. base = Base(<<>>, FALSE, firmware, fl)
    <3>1. info = FALSE /\ current = <<>>
      BY <1>1, <1>7 DEF WireInv, Streaming
    <3> QED
      BY <3>1 DEF Base
  <2>2. Handled(Base(<<>>, FALSE, firmware, fl), in).info
          => Handled(Base(<<>>, FALSE, firmware, fl), in).firmware = v
    <3>1. <<>> \in Seq(Nat)
      OBVIOUS
    <3>2. NamedAfter(v, in, <<>>, fl, firmware)
      BY <1>2, <3>1, NamedHandled
    <3> QED
      BY <3>2 DEF NamedAfter
  <2> HIDE DEF base
  <2> QED
    BY <1>5, <2>1, <2>2 DEF base, packets, v
<1> QED
  BY <1>6, <1>7

LEMMA FirmwareUpdate ==
  ASSUME WireInv, FirmwareInv, NEW put, NEW due, NEW timedOut,
         Update(put, due, timedOut)
  PROVE  FirmwareInv'
<1> DEFINE split == SplitBuffer(buffer)
           fl == IF timedOut THEN Nothing ELSE flight
           after == Handled([current |-> current, packets |-> <<>>, active |-> info,
                             info |-> info, firmware |-> firmware, flight |-> fl],
                            split.packets)
<1>1. /\ buffer' = split.rest /\ info' = after.info /\ firmware' = after.firmware
      /\ plugged' = plugged /\ outbox' = outbox
  BY DEF Update, Handled
<1>2. split.rest = <<>> /\ (after.info => after.firmware = Firmware[plugged])
  <2> HIDE DEF fl
  <2>1. after.info => after.firmware = Firmware[plugged]
    BY FirmwareHandled
  <2> QED
    BY <2>1, PacketsHandled
<1> HIDE DEF after, split
<1>3. <<>> \in Seq(SentBy(Firmware[plugged]))
  OBVIOUS
<1>4. \A j \in 1..Len(outbox) : Kept(outbox[j]) \in SentBy(Firmware[plugged])
  BY DEF FirmwareInv, Named
<1>5. Named(<<>>, outbox, Firmware[plugged])
  BY <1>3, <1>4, NothingBuffered DEF Named
<1> QED
  BY <1>1, <1>2, <1>5 DEF FirmwareInv

LEMMA FirmwareAnswered ==
  ASSUME WireInv, FirmwareInv, NEW answer \in Seq(Nat), AnswerWith(answer)
  PROVE  FirmwareInv'
<1>1. /\ outbox' = outbox \o Reports(answer) /\ buffer' = buffer /\ info' = info
      /\ firmware' = firmware /\ plugged' = plugged
  BY DEF AnswerWith
<1>2. outbox \in Seq(Report)
  BY DEF WireInv, WireTypes
<1> QED
  BY <1>1, <1>2, NamedAnswered DEF FirmwareInv

LEMMA FirmwareIdentified ==
  ASSUME WireInv, FirmwareInv, PadIdentify PROVE FirmwareInv'
<1> DEFINE r == HidReport(HidReportData, DeviceInfo, <<Firmware[plugged]>>)
<1>1. buffer' = buffer /\ info' = info /\ firmware' = firmware /\ plugged' = plugged
  BY DEF PadIdentify, device, history
<1>2. PICK i \in 1..(Len(outbox) + 1) : outbox' = InsertAt(outbox, i, r)
  BY DEF PadIdentify
<1>3. plugged \in Pads /\ outbox \in Seq(Report)
  BY DEF WireInv, WireTypes
<1>4. r \in Report /\ Kept(r) \in SentBy(Firmware[plugged])
  BY <1>3, IdentityReport DEF SentBy
<1> HIDE DEF r
<1>5. Named(buffer, outbox', Firmware[plugged])
  BY <1>2, <1>3, <1>4, NamedIdentity DEF FirmwareInv
<1> QED
  BY <1>1, <1>5 DEF FirmwareInv

LEMMA FirmwareRead ==
  ASSUME WireInv, FirmwareInv, Stall \/ \E n \in 1..Len(outbox) : Poll(n)
  PROVE  FirmwareInv'
<1>1. info' = info /\ firmware' = firmware /\ plugged' = plugged
  BY DEF Stall, Poll, connection
<1>2. outbox \in Seq(Report) /\ buffer \in Seq(Nat)
  BY DEF WireInv, WireTypes
<1>3. Named(buffer, outbox, Firmware[plugged])
  BY DEF FirmwareInv
<1>4. CASE Stall
  <2>1. PICK n \in 0..(Len(outbox) - 1) : outbox' = SubSeq(outbox, 1, n)
    BY <1>4 DEF Stall
  <2>2. n \in 0..Len(outbox) /\ buffer' = buffer
    BY <1>2, <1>4, <2>1 DEF Stall, connection
  <2>3. Named(buffer, outbox', Firmware[plugged])
    BY <1>2, <1>3, <2>1, <2>2, NamedStall
  <2> QED
    BY <1>1, <2>2, <2>3 DEF FirmwareInv
<1>5. CASE \E n \in 1..Len(outbox) : Poll(n)
  <2>1. PICK n \in 1..Len(outbox) :
          /\ buffer' = buffer \o FlattenSeq([i \in 1..n |-> Kept(outbox[i])])
          /\ outbox' = SubSeq(outbox, n + 1, Len(outbox))
    BY <1>5 DEF Poll
  <2>2. Named(buffer', outbox', Firmware[plugged])
    BY <1>2, <1>3, <2>1, NamedPoll
  <2> QED
    BY <1>1, <2>2 DEF FirmwareInv
<1> QED
  BY <1>4, <1>5

LEMMA FirmwareReplugged ==
  ASSUME WireInv, NEW pad \in Pads, Replug(pad) PROVE FirmwareInv'
<1>1. buffer' = <<>> /\ info' = FALSE /\ plugged' = pad
  BY DEF Replug
<1>2. PICK reports \in LeftOver(pad) : outbox' = reports
  BY DEF Replug
<1>3. stored \in [Pads -> Seq(Nat)]
  BY DEF WireInv, WireTypes
<1>4. OneAnswer(reports)
  BY <1>3, ConfigAnswerType, LeftOverReports DEF LeftOver
<1> QED
  BY <1>1, <1>2, <1>4, NamedLeft DEF FirmwareInv

LEMMA FirmwareStep == WireInv /\ FirmwareInv /\ [Next]_vars => FirmwareInv'
<1> SUFFICES ASSUME WireInv, FirmwareInv, [Next]_vars PROVE FirmwareInv'
  OBVIOUS
<1>1. ASSUME \/ \E f \in Changes, v \in 1..MaxSets : SetConfig(f, v)
             \/ \E m \in Modes \cup {Off} : SetSensorTestMode(m)
             \/ \E t \in Types, g \in DOMAIN Gifs : StartUpload(t, g)
             \/ UploadPacket \/ UploadPause \/ FinishUpload \/ UNCHANGED vars
      PROVE  FirmwareInv'
  <2>1. /\ buffer' = buffer /\ info' = info /\ firmware' = firmware
        /\ plugged' = plugged /\ outbox' = outbox
    BY <1>1 DEF SetConfig, SetSensorTestMode, StartUpload, UploadPacket, UploadPause,
       FinishUpload, vars, connection, usb
  <2> QED
    BY <2>1 DEF FirmwareInv
<1>2. ASSUME NEW put \in BOOLEAN, NEW due \in BOOLEAN, NEW timedOut \in BOOLEAN,
             Update(put, due, timedOut)
      PROVE  FirmwareInv'
  BY <1>2, FirmwareUpdate
<1>3. CASE PadIdentify
  BY <1>3, FirmwareIdentified
<1>4. CASE PadRead
  <2>1. ConfigAnswer(plugged) \in Seq(Nat)
    BY ConfigAnswerType DEF WireInv, WireTypes
  <2> QED
    BY <1>4, <2>1, FirmwareAnswered DEF PadRead
<1>5. ASSUME PadStore \/ \E missed \in BOOLEAN : PadUpload(missed) PROVE FirmwareInv'
  <2>1. AnswerWith(<<>>) /\ <<>> \in Seq(Nat)
    BY <1>5 DEF PadStore, PadUpload
  <2> QED
    BY <2>1, FirmwareAnswered
<1>6. ASSUME NEW r \in Readings, PadSense(r) PROVE FirmwareInv'
  <2>1. SensorAnswer(AtPad[2], r) \in Seq(Nat)
    BY <1>6, SenseFor, SensorAnswerType DEF PadSense
  <2> QED
    BY <1>6, <2>1, FirmwareAnswered DEF PadSense
<1>7. CASE Stall \/ \E n \in 1..Len(outbox) : Poll(n)
  BY <1>7, FirmwareRead
<1>8. ASSUME NEW p \in Pads, Replug(p) PROVE FirmwareInv'
  BY <1>8, FirmwareReplugged
<1> QED
  BY <1>1, <1>2, <1>3, <1>4, <1>5, <1>6, <1>7, <1>8 DEF Next

\* The version CommandHandle reports for a pad is that pad's own, however the
\* packet that names it falls among the others, and whatever pads were there
\* before (CommandHandle::handle_packet, CommandHandle::close).
THEOREM FirmwareKnown == Spec => []FirmwareInv
<1>1. Init => FirmwareInv
  BY FirmwareInit
<1>2. WireInv /\ FirmwareInv /\ [Next]_vars => FirmwareInv'
  BY FirmwareStep
<1> QED
  BY <1>1, <1>2, WireInvariant, PTL DEF Spec

-----------------------------------------------------------------------------
(* Settings *)

Size(p) == Len(Factory[p])

\* A value that may stand at place i of a pad's configuration when the changes s
\* have been asked for.
Own(p, i, v, s) ==
  LET field == LayoutOf(p)[i]
  IN  /\ field \in SettingsOf[p] => v = Factory[p][i] \/ <<p, field, v>> \in s
      /\ Firmware[p] < 5 /\ field \in Spare => v = Factory[p][i]

OwnBytes(p, bytes, s) ==
  \A i \in 1..Size(p) : i <= Len(bytes) => Own(p, i, bytes[i], s)

\* What the device has of a pad: its settings, and the bytes it has no use for.
OwnConfig(p, config, s) ==
  \A i \in 1..Size(p) :
    LayoutOf(p)[i] \in Fields => Own(p, i, config[LayoutOf(p)[i]], s)

OwnRaw(p, raw) ==
  Firmware[p] < 5 =>
    \A i \in 1..Size(p) :
      OldLayout[i] \in Spare => i <= Len(raw) /\ raw[i] = Factory[p][i]

\* An answer, if it is taken for a configuration, is one of that pad.
IsRead(b) == b # <<>> /\ b[1] \in {GetOld, GetNew}

OwnAnswer(p, b, s) ==
  IsRead(b) => /\ b[1] = IF Firmware[p] >= 5 THEN GetNew ELSE GetOld
               /\ Len(b) = 2 + Size(p) /\ b[2] = Size(p)
               /\ \A i \in 1..Size(p) : Own(p, i, b[2 + i], s)

\* A command that stores a configuration stores one of that pad.
OwnPut(p, b, s) ==
  b[1] \in {PutOld, PutNew} =>
    \A i \in 1..Size(p) : i <= b[2] => Own(p, i, b[2 + i], s)

OwnCommand(p, c, s) == ~c.info => OwnPut(p, Received(c.packets), s)

OwnLine(p, q, s) == \E C : q \in Seq(C) /\ \A c \in C : OwnCommand(p, c, s)

LEMMA PadLayout ==
  ASSUME Versioned, NEW p \in Pads
  PROVE  /\ Size(p) \in Nat /\ Factory[p] \in Seq(Nat)
         /\ DOMAIN Factory[p] = 1..Size(p)
         /\ IF Firmware[p] >= 5
            THEN LayoutOf(p) = Layout /\ Size(p) <= 30
            ELSE LayoutOf(p) = OldLayout /\ Size(p) <= 28 /\ Firmware[p] < 5
<1>1. Factory[p] \in Seq(Nat) /\ Firmware[p] \in Nat
  BY WireAssumption
<1>2. Size(p) \in Nat /\ DOMAIN Factory[p] = 1..Size(p)
  BY <1>1 DEF Size
<1>3. Size(p) <= Len(LayoutOf(p))
  BY DEF Versioned, Size
<1>4. CASE Firmware[p] >= 5
  <2>1. LayoutOf(p) = Layout
    BY <1>4 DEF LayoutOf
  <2>2. Size(p) <= 30
    BY <1>3, <2>1, Layouts
  <2> QED
    BY <1>1, <1>2, <1>4, <2>1, <2>2
<1>5. CASE ~(Firmware[p] >= 5)
  <2>1. LayoutOf(p) = OldLayout
    BY <1>5 DEF LayoutOf
  <2>2. Size(p) <= 28
    BY <1>3, <2>1, Layouts
  <2>3. Firmware[p] < 5
    BY <1>1, <1>5
  <2> QED
    BY <1>1, <1>2, <1>5, <2>1, <2>2, <2>3
<1> QED
  BY <1>4, <1>5

\* No field has two places.
LEMMA OnePlace ==
  /\ \A i \in 1..30 : Layout[i] \in Fields /\ Place(Layout, Layout[i]) = i
  /\ \A i \in 1..28 : OldLayout[i] \in OldFields /\ Place(OldLayout, OldLayout[i]) = i
<1>1. DOMAIN Layout = 1..30 /\ DOMAIN OldLayout = 1..28
  BY Layouts
<1>2. \A i, j \in 1..30 : Layout[i] = Layout[j] => i = j
  BY DEF Layout
<1>3. \A i, j \in 1..28 : OldLayout[i] = OldLayout[j] => i = j
  BY DEF OldLayout
<1>4. ASSUME NEW i \in 1..30
      PROVE  Layout[i] \in Fields /\ Place(Layout, Layout[i]) = i
  <2>1. Layout[i] \in ToSet(Layout)
    BY <1>1 DEF ToSet
  <2>2. Place(Layout, Layout[i]) \in 1..30 /\ Layout[Place(Layout, Layout[i])] = Layout[i]
    BY <1>1, <2>1, PlaceIn
  <2> QED
    BY <1>2, <2>1, <2>2 DEF Fields
<1>5. ASSUME NEW i \in 1..28
      PROVE  OldLayout[i] \in OldFields /\ Place(OldLayout, OldLayout[i]) = i
  <2>1. OldLayout[i] \in ToSet(OldLayout)
    BY <1>1 DEF ToSet
  <2>2. /\ Place(OldLayout, OldLayout[i]) \in 1..28
        /\ OldLayout[Place(OldLayout, OldLayout[i])] = OldLayout[i]
    BY <1>1, <2>1, PlaceIn
  <2> QED
    BY <1>3, <2>1, <2>2 DEF OldFields
<1> QED
  BY <1>4, <1>5

\* Changes that are asked for later take nothing away.
LEMMA OwnLater ==
  ASSUME NEW s, NEW t, s \subseteq t
  PROVE  /\ \A p, i, v : Own(p, i, v, s) => Own(p, i, v, t)
         /\ \A p, x : OwnBytes(p, x, s) => OwnBytes(p, x, t)
         /\ \A p, x : OwnConfig(p, x, s) => OwnConfig(p, x, t)
         /\ \A p, x : OwnAnswer(p, x, s) => OwnAnswer(p, x, t)
         /\ \A p, x : OwnCommand(p, x, s) => OwnCommand(p, x, t)
         /\ \A p, x : OwnLine(p, x, s) => OwnLine(p, x, t)
<1>1. \A p, i, v : Own(p, i, v, s) => Own(p, i, v, t)
  BY DEF Own
<1>2. \A p, x : OwnBytes(p, x, s) => OwnBytes(p, x, t)
  BY <1>1 DEF OwnBytes
<1>3. \A p, x : OwnConfig(p, x, s) => OwnConfig(p, x, t)
  BY <1>1 DEF OwnConfig
<1>4. \A p, x : OwnAnswer(p, x, s) => OwnAnswer(p, x, t)
  BY <1>1 DEF OwnAnswer
<1>5. \A p, x : OwnCommand(p, x, s) => OwnCommand(p, x, t)
  BY <1>1 DEF OwnCommand, OwnPut
<1>6. \A p, x : OwnLine(p, x, s) => OwnLine(p, x, t)
  BY <1>5 DEF OwnLine
<1> QED
  BY <1>1, <1>2, <1>3, <1>4, <1>5, <1>6

LEMMA OwnLineConcat ==
  ASSUME NEW p, NEW s, NEW q, NEW r, OwnLine(p, q, s), OwnLine(p, r, s)
  PROVE  OwnLine(p, q \o r, s)
<1>1. PICK V : q \in Seq(V) /\ \A c \in V : OwnCommand(p, c, s)
  BY DEF OwnLine
<1>2. PICK W : r \in Seq(W) /\ \A c \in W : OwnCommand(p, c, s)
  BY DEF OwnLine
<1> DEFINE U == V \cup W
<1>3. \A c \in U : OwnCommand(p, c, s)
  BY <1>1, <1>2
<1>4. q \in Seq(U) /\ r \in Seq(U)
  BY <1>1, <1>2, SeqUnion
<1> HIDE DEF U
<1>5. q \o r \in Seq(U)
  BY <1>4, Joined
<1> QED
  BY <1>3, <1>5 DEF OwnLine

LEMMA OwnLineOne ==
  ASSUME NEW p, NEW s, NEW c, OwnCommand(p, c, s)
  PROVE  OwnLine(p, <<c>>, s)
<1> DEFINE C == {c}
<1>1. c \in C /\ \A d \in C : OwnCommand(p, d, s)
  OBVIOUS
<1> HIDE DEF C
<1>2. <<c>> \in Seq(C)
  BY <1>1
<1> QED
  BY <1>1, <1>2 DEF OwnLine

LEMMA OwnLineTwo ==
  ASSUME NEW p, NEW s, NEW a, NEW b, OwnCommand(p, a, s), OwnCommand(p, b, s)
  PROVE  OwnLine(p, <<a, b>>, s)
<1> DEFINE C == {a, b}
<1>1. a \in C /\ b \in C /\ \A c \in C : OwnCommand(p, c, s)
  OBVIOUS
<1> HIDE DEF C
<1>2. <<a, b>> \in Seq(C)
  BY <1>1
<1> QED
  BY <1>1, <1>2 DEF OwnLine

LEMMA OwnLineAppend ==
  ASSUME NEW p, NEW s, NEW q, OwnLine(p, q, s), NEW c, OwnCommand(p, c, s)
  PROVE  OwnLine(p, Append(q, c), s)
<1>1. PICK V : q \in Seq(V) /\ \A d \in V : OwnCommand(p, d, s)
  BY DEF OwnLine
<1>2. Append(q, c) \in Seq(V \cup {c}) /\ \A d \in V \cup {c} : OwnCommand(p, d, s)
  BY <1>1, SeqUnion
<1> QED
  BY <1>2 DEF OwnLine

LEMMA OwnLineTail ==
  ASSUME NEW p, NEW s, NEW q, OwnLine(p, q, s), q # <<>>
  PROVE  OwnCommand(p, Head(q), s) /\ OwnLine(p, Tail(q), s)
<1>1. PICK V : q \in Seq(V) /\ \A d \in V : OwnCommand(p, d, s)
  BY DEF OwnLine
<1>2. Head(q) \in V /\ Tail(q) \in Seq(V)
  BY <1>1
<1> QED
  BY <1>1, <1>2 DEF OwnLine

LEMMA OwnOther ==
  ASSUME NEW p, NEW s, NEW b, IsCommand(b), b[1] \notin {PutOld, PutNew}
  PROVE  OwnCommand(p, Command(b), s)
<1>1. Received(Command(b).packets) = b
  BY Arrives
<1> QED
  BY <1>1 DEF OwnCommand, OwnPut

LEMMA OwnShort ==
  ASSUME NEW p, NEW s
  PROVE  /\ OwnCommand(p, Identify, s) /\ OwnCommand(p, ReadConfig, s)
         /\ \A m \in Nat : OwnCommand(p, Command(<<Sense, m, EndOfLine>>), s)
<1>1. OwnCommand(p, Identify, s)
  BY DEF OwnCommand, Identify
<1>2. ASSUME NEW b \in Answer, b[1] \in {GetNew, GetOld}
      PROVE  OwnCommand(p, Command(b), s)
  <2>1. IsCommand(b)
    BY <1>2 DEF IsCommand, PutOld, PutNew, Sense, GetNew, GetOld
  <2>2. b[1] \notin {PutOld, PutNew}
    BY <1>2 DEF PutOld, PutNew, GetNew, GetOld
  <2> QED
    BY <2>1, <2>2, OwnOther
<1>3. OwnCommand(p, ReadConfig, s)
  <2>1. <<GetNew>> \in Answer /\ <<GetNew>>[1] = GetNew
    BY DEF Answer, GetNew
  <2>2. <<GetOld, EndOfLine>> \in Answer /\ <<GetOld, EndOfLine>>[1] = GetOld
    BY DEF Answer, GetOld, EndOfLine
  <2>3. /\ OwnCommand(p, Command(<<GetNew>>), s)
        /\ OwnCommand(p, Command(<<GetOld, EndOfLine>>), s)
    BY <1>2, <2>1, <2>2
  <2> QED
    BY <2>3 DEF ReadConfig
<1>4. ASSUME NEW m \in Nat PROVE OwnCommand(p, Command(<<Sense, m, EndOfLine>>), s)
  <2> DEFINE b == <<Sense, m, EndOfLine>>
  <2>1. b \in Seq(Nat) /\ b # <<>> /\ b[1] = Sense /\ Len(b) >= 2
    BY DEF Sense, EndOfLine
  <2> HIDE DEF b
  <2>2. IsCommand(b) /\ b[1] \notin {PutOld, PutNew}
    BY <2>1 DEF IsCommand, Answer, PutOld, PutNew, Sense
  <2>3. OwnCommand(p, Command(b), s)
    BY <2>2, OwnOther
  <2> QED
    BY <2>3 DEF b
<1> QED
  BY <1>1, <1>3, <1>4

\* A packet of an upload stores no configuration.
LEMMA OwnUpload ==
  ASSUME NEW p, NEW s, NEW b, IsUpload(b)
  PROVE  OwnCommand(p, Command(b), s)
<1>1. IsCommand(b)
  BY DEF IsCommand
<1>2. b[1] \notin {PutOld, PutNew}
  BY DEF IsUpload, UploadCode, PutOld, PutNew
<1> QED
  BY <1>1, <1>2, OwnOther

\* What is written is the pad's own: the settings are in the places they have
\* in its layout, and the rest is as it was read.
LEMMA OwnPutCommand ==
  ASSUME Versioned, NEW p \in Pads, NEW s,
         firmware = Firmware[p], wanted \in Config, dev.raw \in Seq(Nat),
         OwnConfig(p, wanted, s), OwnRaw(p, dev.raw)
  PROVE  OwnCommand(p, PutCommand, s)
<1>1. ASSUME NEW code \in {PutOld, PutNew}, NEW data \in Seq(Nat), OwnBytes(p, data, s)
      PROVE  OwnCommand(p, Command(<<code, Len(data)>> \o data), s)
  <2> DEFINE b == <<code, Len(data)>> \o data
             n == Len(data)
  <2>1. /\ IsCommand(b) /\ b[1] = code /\ b[2] = n /\ n \in Nat
        /\ \A i \in 1..n : b[2 + i] = data[i]
    BY PutFacts
  <2>2. \A i \in 1..Size(p) : i <= n => Own(p, i, data[i], s)
    BY <1>1 DEF OwnBytes
  <2>3. Size(p) \in Nat
    BY PadLayout
  <2> HIDE DEF b, n
  <2>4. ASSUME NEW i \in 1..Size(p), i <= b[2] PROVE Own(p, i, b[2 + i], s)
    <3>1. i \in 1..n /\ i <= n
      BY <2>1, <2>3, <2>4
    <3>2. b[2 + i] = data[i] /\ Own(p, i, data[i], s)
      BY <2>1, <2>2, <3>1
    <3> QED
      BY <3>2
  <2>5. OwnPut(p, b, s)
    BY <2>4 DEF OwnPut
  <2>6. OwnCommand(p, Command(b), s)
    BY <2>1, <2>5, Arrives DEF OwnCommand
  <2> QED
    BY <2>6 DEF b
<1>2. AsBytes(wanted) \in Seq(Nat) /\ ConvertToOld(wanted, dev.raw) \in Seq(Nat)
  BY AsBytesType, ConvertToOldType DEF OldOf
<1>3. CASE Firmware[p] >= 5
  <2> DEFINE data == AsBytes(wanted)
  <2>1. PutCommand = Command(<<PutNew, Len(data)>> \o data)
    BY <1>3 DEF PutCommand
  <2>2. LayoutOf(p) = Layout /\ Size(p) \in Nat /\ Size(p) <= 30
    BY <1>3, PadLayout
  <2>3. DOMAIN Layout = 1..30
    BY Layouts
  <2>4. \A i \in 1..30 : data[i] = wanted[Layout[i]]
    BY <2>3 DEF AsBytes
  <2> HIDE DEF data
  <2>5. ASSUME NEW i \in 1..Size(p) PROVE Own(p, i, data[i], s)
    <3>0. i \in 1..30
      BY <2>2
    <3>1. i \in 1..30 /\ Layout[i] \in Fields
      BY <3>0, OnePlace
    <3>2. Own(p, i, wanted[Layout[i]], s)
      BY <2>2, <3>1 DEF OwnConfig
    <3> QED
      BY <2>4, <3>1, <3>2
  <2>6. OwnBytes(p, data, s) /\ data \in Seq(Nat)
    BY <1>2, <2>5 DEF OwnBytes, data
  <2> QED
    BY <1>1, <2>1, <2>6
<1>4. CASE ~(Firmware[p] >= 5)
  <2> DEFINE data == ConvertToOld(wanted, dev.raw)
             raw == dev.raw
             n == Len(data)
  <2>1. PutCommand = Command(<<PutOld, Len(data)>> \o data)
    BY <1>4 DEF PutCommand
  <2>2. /\ LayoutOf(p) = OldLayout /\ Size(p) \in Nat /\ Size(p) <= 28
        /\ Firmware[p] < 5
    BY <1>4, PadLayout
  <2>3. /\ data \in Seq(Nat) /\ n \in Nat
        /\ \A i \in 1..n :
             data[i] = IF OldLayout[i] \in Fields THEN wanted[OldLayout[i]]
                       ELSE IF i <= Len(raw) THEN raw[i] ELSE 255
    <3>1. OldOf(wanted, raw, data)
      BY ConvertToOldType
    <3> HIDE DEF data, raw
    <3> QED
      BY <3>1 DEF OldOf
  <2>4. \A i \in 1..Size(p) :
          OldLayout[i] \in Spare => i <= Len(raw) /\ raw[i] = Factory[p][i]
    BY <2>2 DEF OwnRaw
  <2> HIDE DEF data, raw
  <2>5. ASSUME NEW i \in 1..Size(p), i <= n PROVE Own(p, i, data[i], s)
    <3>0. i \in 1..n /\ i \in 1..28
      <4> HIDE DEF n
      <4>1. n \in Nat
        BY <2>3
      <4> QED
        BY <2>2, <2>5, <4>1
    <3>1. i \in 1..n /\ i \in 1..28 /\ OldLayout[i] \in OldFields
      BY <3>0, OnePlace
    <3>2. CASE OldLayout[i] \in Fields
      <4>1. Own(p, i, wanted[OldLayout[i]], s)
        BY <2>2, <3>2 DEF OwnConfig
      <4> QED
        BY <2>3, <3>1, <3>2, <4>1
    <3>3. CASE OldLayout[i] \notin Fields
      <4>1. OldLayout[i] \in Spare
        BY <3>1, <3>3 DEF Spare
      <4>2. data[i] = Factory[p][i]
        BY <2>3, <2>4, <3>1, <3>3, <4>1
      <4> QED
        BY <4>2 DEF Own
    <3> QED
      BY <3>2, <3>3
  <2>6. OwnBytes(p, data, s)
    BY <2>5 DEF OwnBytes, n
  <2> QED
    BY <1>1, <2>1, <2>3, <2>6
<1> QED
  BY <1>3, <1>4

\* What the SDK has of a pad's configuration.
OwnDevice(p, d, s) == OwnConfig(p, d.config, s) /\ OwnRaw(p, d.raw)

\* convert_to_new_config takes all the settings of a pad whose version is the one
\* it came with.
LEMMA SettingsCarried ==
  ASSUME Versioned, NEW p \in Pads, Firmware[p] < 5
  PROVE  /\ Place(OldLayout, "config_version") = 19 /\ 19 <= Size(p)
         /\ OldLayout[19] = "config_version" /\ "config_version" \in SettingsOf[p]
         /\ SettingsOf[p] = Carried(Factory[p][19])
<1>1. OldLayout[19] = "config_version"
  BY DEF OldLayout
<1>2. Place(OldLayout, "config_version") = 19
  <2>1. 19 \in 1..28
    OBVIOUS
  <2> QED
    BY <1>1, <2>1, OnePlace
<1>3. 19 <= Size(p)
  BY <1>2 DEF Versioned, Size
<1> DEFINE v == Factory[p][19]
<1>4. v \in Nat /\ v < NoVersion
  <2>1. Factory[p] \in Seq(Nat) /\ Size(p) \in Nat /\ DOMAIN Factory[p] = 1..Size(p)
    BY PadLayout
  <2>2. 19 \in 1..Size(p)
    BY <1>3, <2>1
  <2>3. v < NoVersion
    BY <1>2 DEF Versioned, At
  <2> QED
    BY <2>1, <2>2, <2>3
<1>5. ~(Firmware[p] >= 5)
  BY WireAssumption
<1>6. At(LayoutOf(p), Factory[p], "config_version") = v
  BY <1>2, <1>5 DEF At, LayoutOf
<1>7. SettingsOf[p] = (OldFields \cap Fields)
                        \ ((IF v < 2 THEN LaterPanels ELSE {})
                              \cup (IF v < 3 THEN {"debounce_delay_ms"} ELSE {}))
  BY <1>5, <1>6 DEF SettingsOf
<1> HIDE DEF v
<1>8. /\ (v \in 2..(NoVersion - 1)) <=> ~(v < 2)
      /\ (v \in 3..(NoVersion - 1)) <=> ~(v < 3)
      /\ v # NoVersion
  BY <1>4 DEF NoVersion
<1>9. LaterPanels \cup Versions \cup {"debounce_delay_ms"} \subseteq OldFields \cap Fields
  BY VersionedFields
<1>10. /\ "debounce_delay_ms" \notin LaterPanels \cup Versions
       /\ LaterPanels \cap Versions = {} /\ "config_version" \in Versions
  BY DEF LaterPanels, Versions
<1>11. SettingsOf[p] = Carried(v)
  <2> DEFINE D == {"debounce_delay_ms"}
  <2>1. /\ LaterPanels \cup Versions \cup D \subseteq OldFields \cap Fields
        /\ D \cap (LaterPanels \cup Versions) = {}
        /\ LaterPanels \cap Versions = {}
    BY <1>9, <1>10
  <2>2. SettingsOf[p] = (OldFields \cap Fields)
                          \ ((IF v < 2 THEN LaterPanels ELSE {})
                                \cup (IF v < 3 THEN D ELSE {}))
    BY <1>7
  <2>3. Carried(v) =
          ((OldFields \cap Fields) \ (LaterPanels \cup Versions \cup D))
            \cup (IF v = NoVersion THEN {} ELSE Versions)
            \cup (IF v \in 2..(NoVersion - 1) THEN LaterPanels ELSE {})
            \cup (IF v \in 3..(NoVersion - 1) THEN D ELSE {})
    BY DEF Carried, Unversioned
  <2> HIDE DEF D
  <2>4. CASE v < 2
    <3>1. v < 3
      BY <1>4, <2>4
    <3> QED
      BY <1>8, <2>1, <2>2, <2>3, <2>4, <3>1
  <2>5. CASE ~(v < 2) /\ v < 3
    BY <1>8, <2>1, <2>2, <2>3, <2>5
  <2>6. CASE ~(v < 2) /\ ~(v < 3)
    BY <1>8, <2>1, <2>2, <2>3, <2>6
  <2> QED
    BY <2>4, <2>5, <2>6
<1>12. "config_version" \in SettingsOf[p]
  BY <1>7, <1>9, <1>10
<1> QED
  BY <1>1, <1>2, <1>3, <1>11, <1>12 DEF v

\* An old configuration of the pad, converted over whatever was there.
LEMMA OwnConverted ==
  ASSUME Versioned, NEW p \in Pads, Firmware[p] < 5,
         NEW s, \A a \in s : a[2] \in Changes,
         NEW bytes \in Seq(Nat), Len(bytes) = Size(p), OwnBytes(p, bytes, s),
         NEW config
  PROVE  OwnConfig(p, ConvertToNew(bytes, config), s) /\ OwnRaw(p, bytes)
<1> DEFINE old == Resized(bytes, Len(OldLayout), 0)
           carried == Carried(At(OldLayout, old, "config_version"))
           n == Size(p)
           new == ConvertToNew(bytes, config)
<1>1. /\ n \in Nat /\ n <= 28 /\ LayoutOf(p) = OldLayout
      /\ 19 <= n /\ Place(OldLayout, "config_version") = 19
      /\ OldLayout[19] = "config_version" /\ "config_version" \in SettingsOf[p]
      /\ SettingsOf[p] = Carried(Factory[p][19])
  <2>0. Firmware[p] \in Nat
    BY WireAssumption
  <2>1. ~(Firmware[p] >= 5)
    BY <2>0
  <2> QED
    BY <2>1, PadLayout, SettingsCarried
<1>2. \A i \in 1..28 : old[i] = IF i <= Len(bytes) THEN bytes[i] ELSE 0
  BY Layouts DEF Resized
<1> HIDE DEF old, n
<1>3. \A i \in 1..n : Own(p, i, bytes[i], s)
  BY DEF OwnBytes, n
<1>4. \A i \in 1..n : i \in 1..28 /\ old[i] = bytes[i]
  <2>1. \A i \in 1..n : i \in 1..28 /\ i <= n
    BY <1>1
  <2> QED
    BY <1>2, <2>1 DEF n
<1>5. carried = SettingsOf[p]
  <2>1. 19 \in 1..n
    BY <1>1
  <2>2. Own(p, 19, bytes[19], s) /\ old[19] = bytes[19]
    BY <1>3, <1>4, <2>1
  <2>3. bytes[19] = Factory[p][19] \/ <<p, "config_version", bytes[19]>> \in s
    BY <1>1, <2>2 DEF Own
  <2>4. <<p, "config_version", bytes[19]>> \notin s
    BY DEF Versioned
  <2>5. At(OldLayout, old, "config_version") = Factory[p][19]
    BY <1>1, <2>2, <2>3, <2>4 DEF At
  <2> QED
    BY <1>1, <2>5
<1>6. \A f \in Fields : new[f] = IF f \in carried THEN At(OldLayout, old, f) ELSE config[f]
  BY DEF ConvertToNew, old
<1> HIDE DEF carried, new
<1>7. ASSUME NEW i \in 1..n, OldLayout[i] \in Fields
      PROVE  Own(p, i, new[OldLayout[i]], s)
  <2>1. CASE OldLayout[i] \in SettingsOf[p]
    <3>1. i \in 1..28 /\ old[i] = bytes[i] /\ Own(p, i, bytes[i], s)
      BY <1>3, <1>4
    <3>2. Place(OldLayout, OldLayout[i]) = i
      BY <3>1, OnePlace
    <3>3. new[OldLayout[i]] = bytes[i]
      BY <1>5, <1>6, <1>7, <2>1, <3>1, <3>2 DEF At
    <3> QED
      BY <3>1, <3>3
  <2>2. CASE OldLayout[i] \notin SettingsOf[p]
    BY <1>1, <1>7, <2>2 DEF Own, Spare
  <2> QED
    BY <2>1, <2>2
<1>8. OwnConfig(p, new, s)
  BY <1>1, <1>7 DEF OwnConfig, n
<1>9. OwnRaw(p, bytes)
  <2>1. ASSUME NEW i \in 1..n, OldLayout[i] \in Spare
        PROVE  i <= Len(bytes) /\ bytes[i] = Factory[p][i]
    <3>1. i <= Len(bytes)
      BY <1>1 DEF n
    <3> QED
      BY <1>1, <1>3, <2>1, <3>1 DEF Own
  <2> QED
    BY <2>1 DEF OwnRaw, n
<1> QED
  BY <1>8, <1>9 DEF new

LEMMA OwnCopied ==
  ASSUME Versioned, NEW p \in Pads, Firmware[p] >= 5, NEW s,
         NEW bytes \in Seq(Nat), Len(bytes) = Size(p), OwnBytes(p, bytes, s),
         NEW config, NEW raw
  PROVE  OwnConfig(p, CopyToNew(bytes, config), s) /\ OwnRaw(p, raw)
<1> DEFINE n == Size(p)
           new == CopyToNew(bytes, config)
<1>1. n \in Nat /\ n <= 30 /\ LayoutOf(p) = Layout
  BY PadLayout
<1>2. \A f \in Fields : Place(Layout, f) <= Len(bytes) => new[f] = At(Layout, bytes, f)
  BY DEF CopyToNew
<1> HIDE DEF new, n
<1>3. \A i \in 1..n : i <= Len(bytes) /\ Own(p, i, bytes[i], s)
  <2>1. \A i \in 1..n : i <= Len(bytes)
    BY <1>1 DEF n
  <2> QED
    BY <2>1 DEF OwnBytes, n
<1>4. ASSUME NEW i \in 1..n PROVE Own(p, i, new[Layout[i]], s)
  <2>1. i \in 1..30
    BY <1>1
  <2>2. Layout[i] \in Fields /\ Place(Layout, Layout[i]) = i
    BY <2>1, OnePlace
  <2>3. i <= Len(bytes) /\ Own(p, i, bytes[i], s)
    BY <1>3
  <2>4. new[Layout[i]] = bytes[i]
    BY <1>2, <2>2, <2>3 DEF At
  <2> QED
    BY <2>3, <2>4
<1>5. OwnConfig(p, new, s)
  BY <1>1, <1>4 DEF OwnConfig, n
<1>6. ~(Firmware[p] < 5)
  <2>1. Firmware[p] \in Nat
    BY WireAssumption
  <2> QED
    BY <2>1
<1> QED
  BY <1>5, <1>6 DEF OwnRaw, new

\* handle_config_packet and handle_sensor_test_response leave the device with
\* settings of the pad, if it has any.
LEMMA OwnHandled ==
  ASSUME Versioned, NEW p \in Pads, NEW s, \A a \in s : a[2] \in Changes,
         NEW R, NEW d \in Devices(R), d.have => OwnDevice(p, d, s),
         NEW buf \in Answer, OwnAnswer(p, buf, s)
  PROVE  HandleOne(d, buf).have => OwnDevice(p, HandleOne(d, buf), s)
<1>1. CASE buf[1] = Sense
  <2> DEFINE h == HandleSensorTestResponse(d, buf)
  <2>1. HandleOne(d, buf) = h
    BY <1>1 DEF HandleOne, Sense, GetOld, GetNew
  <2>2. h.have = d.have /\ h.config = d.config /\ h.raw = d.raw
    BY DEF HandleSensorTestResponse, Devices
  <2> HIDE DEF h
  <2> QED
    BY <2>1, <2>2 DEF OwnDevice
<1>2. CASE buf[1] \in {GetOld, GetNew}
  <2> DEFINE n == Size(p)
             payload == SubSeq(buf, 3, 2 + n)
  <2>1. /\ HandleOne(d, buf) = HandleConfigPacket(d, buf)
        /\ GetOld # GetNew
    BY <1>2 DEF HandleOne, Sense, GetOld, GetNew
  <2>2. buf \in Seq(Nat) /\ buf # <<>> /\ n \in Nat
    BY PadLayout DEF Answer
  <2>3. /\ buf[1] = IF Firmware[p] >= 5 THEN GetNew ELSE GetOld
        /\ Len(buf) = 2 + n /\ buf[2] = n
        /\ \A i \in 1..n : Own(p, i, buf[2 + i], s)
    BY <1>2, <2>2 DEF OwnAnswer, IsRead
  <2> HIDE DEF n
  <2>4. ~(Len(buf) < 2 \/ Len(buf) < buf[2] + 2)
    BY <2>2, <2>3
  <2>5. payload \in Seq(Nat) /\ Len(payload) = n /\ \A i \in 1..n : payload[i] = buf[2 + i]
    <3>1. \A i \in 3..(2 + n) : buf[i] \in Nat
      <4>1. \A i \in 1..Len(buf) : buf[i] \in Nat
        BY <2>2
      <4>2. \A i \in 3..(2 + n) : i \in 1..Len(buf)
        BY <2>2, <2>3
      <4> QED
        BY <4>1, <4>2
    <3>2. 3 \in Int /\ 2 + n \in Int
      BY <2>2
    <3>3. /\ payload \in Seq(Nat)
          /\ Len(payload) = IF 3 <= 2 + n THEN (2 + n) - 3 + 1 ELSE 0
          /\ \A i \in 1..((2 + n) - 3 + 1) : payload[i] = buf[3 + i - 1]
      BY <3>1, <3>2, SubSeqProperties
    <3> HIDE DEF payload
    <3>4. ASSUME NEW i \in 1..n PROVE payload[i] = buf[2 + i]
      <4>1. i \in 1..((2 + n) - 3 + 1) /\ 3 + i - 1 = 2 + i
        BY <2>2
      <4> QED
        BY <3>3, <4>1
    <3> QED
      BY <2>2, <3>3, <3>4
  <2>6. HandleConfigPacket(d, buf) =
          IF buf[1] = GetOld
          THEN [d EXCEPT !.have = TRUE, !.raw = payload,
                         !.config = ConvertToNew(payload, d.config)]
          ELSE [d EXCEPT !.have = TRUE, !.config = CopyToNew(payload, d.config)]
    BY <2>3, <2>4 DEF HandleConfigPacket
  <2> HIDE DEF payload
  <2>7. OwnBytes(p, payload, s)
    BY <2>3, <2>5 DEF OwnBytes, n
  <2>8. CASE Firmware[p] >= 5
    <3> DEFINE c == CopyToNew(payload, d.config)
               h == HandleConfigPacket(d, buf)
    <3>1. h = [d EXCEPT !.have = TRUE, !.config = c]
      BY <2>1, <2>3, <2>6, <2>8
    <3>2. OwnConfig(p, c, s) /\ OwnRaw(p, d.raw)
      BY <2>5, <2>7, <2>8, OwnCopied DEF n
    <3> HIDE DEF c, h
    <3>3. h.config = c /\ h.raw = d.raw
      BY <3>1 DEF Devices
    <3> QED
      BY <2>1, <3>2, <3>3 DEF OwnDevice, h
  <2>9. CASE ~(Firmware[p] >= 5)
    <3> DEFINE c == ConvertToNew(payload, d.config)
               h == HandleConfigPacket(d, buf)
    <3>1. h = [d EXCEPT !.have = TRUE, !.raw = payload, !.config = c]
      BY <2>3, <2>6, <2>9
    <3>2. Firmware[p] < 5
      BY <2>9, PadLayout
    <3>3. OwnConfig(p, c, s) /\ OwnRaw(p, payload)
      BY <2>5, <2>7, <3>2, OwnConverted DEF n
    <3> HIDE DEF c, h
    <3>4. h.config = c /\ h.raw = payload
      BY <3>1 DEF Devices
    <3> QED
      BY <2>1, <3>3, <3>4 DEF OwnDevice, h
  <2> QED
    BY <2>8, <2>9
<1>3. CASE ~(buf[1] = Sense \/ buf[1] \in {GetOld, GetNew})
  <2>1. HandleOne(d, buf) = d
    BY <1>3 DEF HandleOne
  <2> QED
    BY <2>1
<1> QED
  BY <1>1, <1>2, <1>3

LEMMA OwnHandledAll ==
  ASSUME Versioned, NEW p \in Pads, NEW s, \A a \in s : a[2] \in Changes,
         NEW R0, NEW d \in Devices(R0), d.have => OwnDevice(p, d, s),
         NEW q \in Seq(Answer), \A i \in 1..Len(q) : OwnAnswer(p, q[i], s)
  PROVE  HandlePackets(d, q).have => OwnDevice(p, HandlePackets(d, q), s)
<1> DEFINE R == R0 \cup {ParseSensorTest(Words(q[i]), firmware) : i \in 1..Len(q)}
           S == {e \in Devices(R) : e.have => OwnDevice(p, e, s)}
<1>1. d \in S
  BY DEF Devices
<1>2. ASSUME NEW v \in S, NEW i \in 1..Len(q) PROVE HandleOne(v, q[i]) \in S
  <2>1. q[i] \in Answer /\ ParseSensorTest(Words(q[i]), firmware) \in R
        /\ OwnAnswer(p, q[i], s)
    OBVIOUS
  <2>2. v \in Devices(R) /\ (v.have => OwnDevice(p, v, s))
    OBVIOUS
  <2> HIDE DEF R
  <2>3. HandleOne(v, q[i]) \in Devices(R)
    BY <2>1, <2>2, HandleOneType
  <2>4. HandleOne(v, q[i]).have => OwnDevice(p, HandleOne(v, q[i]), s)
    BY <2>1, <2>2, OwnHandled
  <2> QED
    BY <2>3, <2>4
<1>3. \A v \in S : \A i \in 1..Len(q) : HandleOne(v, q[i]) \in S
  BY <1>2
<1> HIDE DEF S
<1>4. PICK f : Handles(d, q, S, f)
  BY <1>1, <1>3, HandleFold
<1>5. f \in [0..Len(q) -> S] /\ HandlePackets(d, q) = f[Len(q)]
  BY <1>4 DEF Handles
<1>6. Len(q) \in 0..Len(q)
  <2>1. Len(q) \in Nat
    OBVIOUS
  <2> QED
    BY <2>1
<1>7. HandlePackets(d, q) \in S
  BY <1>5, <1>6
<1> QED
  BY <1>7 DEF S

\* Whatever stands in a pad's memory, in the queue, on the wire and in the device
\* is the pad's own.
OwnInv ==
  /\ \A a \in asked : a[2] \in Changes
  /\ \A p \in Pads : Len(stored[p]) = Size(p) /\ OwnBytes(p, stored[p], asked)
  /\ \A b \in answers : OwnAnswer(plugged, b, asked)
  /\ send => OwnConfig(plugged, wanted, asked)
  /\ dev.have => OwnDevice(plugged, dev, asked)
  /\ flight # Nothing => OwnCommand(plugged, flight, asked)
  /\ OwnLine(plugged, queue, asked)

\* What is on its way when a connection is opened, and what the device takes
\* for an answer then.
LEMMA OwnLeft ==
  ASSUME NoLookalikes({GetOld, GetNew}), NEW p \in Pads,
         NEW reports \in LeftOver(p), NEW s
  PROVE  \A b \in Ends(reports) : OwnAnswer(p, b, s)
BY DEF NoLookalikes, IsRead, OwnAnswer

LEMMA OwnInit == Versioned /\ Init /\ NoLookalikes({GetOld, GetNew}) => OwnInv
<1> SUFFICES ASSUME Versioned, Init, NoLookalikes({GetOld, GetNew})
             PROVE  OwnInv
  OBVIOUS
<1>1. /\ queue = <<Identify>> /\ flight = Nothing
      /\ dev.have = FALSE /\ send = FALSE /\ stored = Factory /\ asked = {}
  BY DEF Init, Forgotten
<1>2. plugged \in Pads
  BY WireInit DEF WireInv, WireTypes
<1>3. PICK reports \in LeftOver(plugged) : answers = Ends(reports)
  BY DEF Init
<1>4. \A b \in answers : OwnAnswer(plugged, b, asked)
  BY <1>2, <1>3, OwnLeft
<1>5. \A p \in Pads : Len(stored[p]) = Size(p) /\ OwnBytes(p, stored[p], asked)
  BY <1>1 DEF Size, OwnBytes, Own
<1>6. OwnLine(plugged, queue, asked)
  BY <1>1, OwnShort, OwnLineOne
<1> QED
  BY <1>1, <1>4, <1>5, <1>6 DEF OwnInv

\* The configuration a pad answers with.
LEMMA OwnConfigAnswer ==
  ASSUME NEW p \in Pads, stored \in [Pads -> Seq(Nat)], NEW s,
         Len(stored[p]) = Size(p), OwnBytes(p, stored[p], s)
  PROVE  OwnAnswer(p, ConfigAnswer(p), s)
<1> DEFINE t == stored[p]
           n == Len(t)
           a == IF Firmware[p] >= 5 THEN GetNew ELSE GetOld
           h == <<a, n>>
           b == h \o t
<1>1. t \in Seq(Nat) /\ n \in Nat /\ a \in Nat
  BY DEF GetNew, GetOld
<1>2. ConfigAnswer(p) = b
  BY DEF ConfigAnswer
<1> HIDE DEF t, a
<1>3. \A i \in 1..Size(p) : i <= n /\ Own(p, i, t[i], s)
  <2>1. \A i \in 1..n : i <= n
    BY <1>1
  <2> QED
    BY <2>1 DEF OwnBytes, t
<1> HIDE DEF n
<1>4. Len(h) = 2 /\ h[1] = a /\ h[2] = n
  BY <1>1
<1>5. h \in Seq(Nat)
  BY <1>1
<1> HIDE DEF h
<1>6. /\ Len(b) = Len(h) + Len(t)
      /\ \A i \in 1..Len(h) : b[i] = h[i]
      /\ \A i \in 1..Len(t) : b[Len(h) + i] = t[i]
  BY <1>1, <1>5, Joined
<1> HIDE DEF b
<1>7. n = Len(t) /\ n = Size(p)
  BY DEF n, t
<1>8. b[1] = a /\ b[2] = n /\ Len(b) = 2 + n
  <2>1. 1 \in 1..Len(h) /\ 2 \in 1..Len(h)
    BY <1>4
  <2> QED
    BY <1>4, <1>6, <1>7, <2>1
<1>9. \A i \in 1..n : b[2 + i] = t[i]
  BY <1>4, <1>6, <1>7
<1> QED
  BY <1>2, <1>3, <1>7, <1>8, <1>9 DEF OwnAnswer, a

\* The pad answers.
LEMMA OwnAnswerStep ==
  ASSUME WireInv, OwnInv, NEW answer \in Seq(Nat), AnswerWith(answer),
         OwnAnswer(plugged, answer, asked),
         \A p \in Pads : Len(stored[p])' = Size(p) /\ OwnBytes(p, stored'[p], asked)
  PROVE  OwnInv'
<1>1. /\ answers' = answers \cup {answer}
      /\ queue' = queue /\ flight' = flight
      /\ dev' = dev /\ wanted' = wanted /\ send' = send /\ plugged' = plugged
      /\ asked' = asked
  BY DEF AnswerWith, device, uploads
<1>2. \A p \in Pads : Len(stored[p])' = Len(stored'[p])
  OBVIOUS
<1> QED
  BY <1>1, <1>2 DEF OwnInv

LEMMA OwnReadStep ==
  ASSUME WireInv, OwnInv, PadRead PROVE OwnInv'
<1>1. AnswerWith(ConfigAnswer(plugged)) /\ stored' = stored
  BY DEF PadRead
<1>2. plugged \in Pads /\ stored \in [Pads -> Seq(Nat)]
  BY DEF WireInv, WireTypes
<1>3. ConfigAnswer(plugged) \in Seq(Nat)
  BY <1>2, ConfigAnswerType
<1>4. \A p \in Pads : Len(stored[p]) = Size(p) /\ OwnBytes(p, stored[p], asked)
  BY DEF OwnInv
<1>5. OwnAnswer(plugged, ConfigAnswer(plugged), asked)
  BY <1>2, <1>4, OwnConfigAnswer
<1>6. \A p \in Pads : Len(stored[p])' = Size(p) /\ OwnBytes(p, stored'[p], asked)
  BY <1>1, <1>4
<1> QED
  BY <1>1, <1>3, <1>5, <1>6, OwnAnswerStep

\* What the pad stores of a command is what was to be stored on it.
LEMMA OwnStoreStep ==
  ASSUME Versioned, WireInv, OwnInv, PadStore PROVE OwnInv'
<1> DEFINE b == AtPad
           t == stored[plugged]
           new == [i \in DOMAIN t |-> IF i <= b[2] THEN b[2 + i] ELSE t[i]]
           n == Size(plugged)
<1>1. AnswerWith(<<>>) /\ Takes({PutOld, PutNew}) /\ stored' = [stored EXCEPT ![plugged] = new]
  BY DEF PadStore
<1>2. plugged \in Pads /\ stored \in [Pads -> Seq(Nat)]
  BY DEF WireInv, WireTypes
<1>3. /\ flight # Nothing /\ ~flight.info /\ b[1] \in {PutOld, PutNew}
  BY <1>1 DEF Takes
<1>4. \A i \in 1..n : i <= b[2] => Own(plugged, i, b[2 + i], asked)
  <2>1. OwnCommand(plugged, flight, asked)
    BY <1>3 DEF OwnInv
  <2> QED
    BY <1>3, <2>1 DEF OwnCommand, OwnPut, AtPad
<1> HIDE DEF b
<1>5. t \in Seq(Nat) /\ Len(t) = n /\ OwnBytes(plugged, t, asked) /\ n \in Nat
  BY <1>2, PadLayout DEF OwnInv
<1> HIDE DEF t, n
<1>6. DOMAIN t = 1..n
  BY <1>5
<1>7. new = [i \in 1..n |-> IF i <= b[2] THEN b[2 + i] ELSE t[i]]
  BY <1>6
<1> HIDE DEF new
<1>8. Len(new) = n /\ \A i \in 1..n : new[i] = IF i <= b[2] THEN b[2 + i] ELSE t[i]
  BY <1>5, <1>7
<1>9. OwnBytes(plugged, new, asked)
  <2>1. ASSUME NEW i \in 1..n PROVE Own(plugged, i, new[i], asked)
    <3>1. i <= Len(t)
      BY <1>5
    <3>2. Own(plugged, i, t[i], asked)
      BY <1>5, <3>1 DEF OwnBytes, n
    <3> QED
      BY <1>4, <1>8, <3>2
  <2> QED
    BY <2>1 DEF OwnBytes, n
<1>10. ASSUME NEW p \in Pads
       PROVE  Len(stored[p])' = Size(p) /\ OwnBytes(p, stored'[p], asked)
  <2>1. CASE p = plugged
    <3>1. stored'[p] = new
      BY <1>1, <1>2, <2>1
    <3> QED
      BY <1>8, <1>9, <2>1, <3>1 DEF n
  <2>2. CASE p # plugged
    <3>1. stored'[p] = stored[p]
      BY <1>1, <1>2, <2>2
    <3> QED
      BY <3>1 DEF OwnInv
  <2> QED
    BY <2>1, <2>2
<1>11. <<>> \in Seq(Nat) /\ OwnAnswer(plugged, <<>>, asked)
  BY DEF OwnAnswer, IsRead
<1> QED
  BY <1>1, <1>10, <1>11, OwnAnswerStep

LEMMA OwnSenseStep ==
  ASSUME WireInv, OwnInv, NEW r \in Readings, PadSense(r) PROVE OwnInv'
<1> DEFINE answer == SensorAnswer(AtPad[2], r)
<1>1. AnswerWith(answer) /\ Takes({Sense}) /\ stored' = stored
  BY DEF PadSense
<1>2. AtPad[2] \in Nat
  BY <1>1, SenseFor
<1>3. answer \in Seq(Nat) /\ answer[1] = Sense
  BY <1>2, SensorAnswerType
<1> HIDE DEF answer
<1>4. OwnAnswer(plugged, answer, asked)
  BY <1>3 DEF OwnAnswer, IsRead, Sense, GetOld, GetNew
<1>5. \A p \in Pads : Len(stored[p])' = Size(p) /\ OwnBytes(p, stored'[p], asked)
  BY <1>1 DEF OwnInv
<1> QED
  BY <1>1, <1>3, <1>4, <1>5, OwnAnswerStep

LEMMA OwnPadUploadStep ==
  ASSUME WireInv, OwnInv, NEW missed, PadUpload(missed) PROVE OwnInv'
<1>1. AnswerWith(<<>>) /\ stored' = stored
  BY DEF PadUpload
<1>2. <<>> \in Seq(Nat) /\ OwnAnswer(plugged, <<>>, asked)
  BY DEF OwnAnswer, IsRead
<1>3. \A p \in Pads : Len(stored[p])' = Size(p) /\ OwnBytes(p, stored'[p], asked)
  BY <1>1 DEF OwnInv
<1> QED
  BY <1>1, <1>2, <1>3, OwnAnswerStep

\* A pad is opened: the command that was on its way to another one is gone.
LEMMA OwnReplugStep ==
  ASSUME NoLookalikes({GetOld, GetNew}), WireInv, OwnInv, NEW pad \in Pads,
         Replug(pad)
  PROVE  OwnInv'
<1>1. /\ queue' = <<Identify>> /\ flight' = Nothing
      /\ dev' = [dev EXCEPT !.have = FALSE] /\ plugged' = pad
      /\ wanted' = wanted /\ send' = send /\ ~send /\ stored' = stored
      /\ asked' = asked
  BY DEF Replug
<1>2. PICK reports \in LeftOver(pad) : answers' = Ends(reports)
  BY DEF Replug
<1>3. \A b \in Ends(reports) : OwnAnswer(pad, b, asked)
  BY OwnLeft
<1>4. ~dev'.have
  <2>1. PICK R : dev \in Devices(R)
    BY DEF WireInv, WireTypes
  <2> QED
    BY <1>1, <2>1 DEF Devices
<1>5. OwnLine(pad, <<Identify>>, asked)
  BY OwnShort, OwnLineOne
<1> QED
  BY <1>1, <1>2, <1>3, <1>4, <1>5 DEF OwnInv

\* A change of one setting of the pad that is there.
LEMMA OwnSetStep ==
  ASSUME WireInv, OwnInv, NEW f \in Changes, NEW v \in 1..MaxSets, SetConfig(f, v)
  PROVE  OwnInv'
<1> DEFINE now == IF send THEN wanted ELSE dev.config
           p == plugged
<1>1. /\ queue' = queue /\ flight' = flight /\ answers' = answers /\ stored' = stored
      /\ dev' = dev /\ wanted' = [now EXCEPT ![f] = v] /\ plugged' = plugged
      /\ asked' = asked \cup {<<plugged, f, v>>} /\ dev.have
  BY DEF SetConfig, connection, usb
<1>2. now \in Config /\ OwnConfig(p, now, asked)
  <2>1. PICK R : dev \in Devices(R)
    BY DEF WireInv, WireTypes
  <2>2. dev.config \in Config /\ wanted \in Config
    BY <2>1 DEF Devices, WireInv, WireTypes
  <2>3. OwnConfig(p, dev.config, asked) /\ (send => OwnConfig(p, wanted, asked))
    BY <1>1 DEF OwnInv, OwnDevice
  <2> QED
    BY <2>2, <2>3
<1> HIDE DEF now
<1> DEFINE s == asked'
<1>3. asked \subseteq s /\ <<p, f, v>> \in s /\ \A a \in s : a[2] \in Changes
  BY <1>1 DEF OwnInv
<1>4. wanted' = [now EXCEPT ![f] = v]
  BY <1>1
<1> HIDE DEF s
<1>5. OwnConfig(p, wanted', s)
  <2>1. OwnConfig(p, now, s)
    BY <1>2, <1>3, OwnLater
  <2>2. ASSUME NEW i \in 1..Size(p), LayoutOf(p)[i] \in Fields
        PROVE  Own(p, i, wanted'[LayoutOf(p)[i]], s)
    <3>1. CASE LayoutOf(p)[i] = f
      <4>1. wanted'[LayoutOf(p)[i]] = v
        BY <1>2, <1>4, <2>2, <3>1 DEF Config
      <4> QED
        BY <1>3, <2>2, <3>1, <4>1 DEF Own, Spare
    <3>2. CASE LayoutOf(p)[i] # f
      <4>1. wanted'[LayoutOf(p)[i]] = now[LayoutOf(p)[i]]
        BY <1>2, <1>4, <2>2, <3>2 DEF Config
      <4> QED
        BY <2>1, <2>2, <4>1 DEF OwnConfig
    <3> QED
      BY <3>1, <3>2
  <2> QED
    BY <2>2 DEF OwnConfig
<1>6. \A q \in Pads : Len(stored[q]) = Size(q) /\ OwnBytes(q, stored[q], s)
  BY <1>3, OwnLater DEF OwnInv
<1>7. \A b \in answers : OwnAnswer(p, b, s)
  BY <1>3, OwnLater DEF OwnInv
<1>8. dev.have => OwnDevice(p, dev, s)
  BY <1>3, OwnLater DEF OwnInv, OwnDevice
<1>9. (flight # Nothing => OwnCommand(p, flight, s)) /\ OwnLine(p, queue, s)
  BY <1>3, OwnLater DEF OwnInv
<1> QED
  BY <1>1, <1>3, <1>5, <1>6, <1>7, <1>8, <1>9 DEF OwnInv, s

LEMMA OwnPacketStep ==
  ASSUME WireInv, OwnInv, UploadPacket PROVE OwnInv'
<1> DEFINE c == Command(Head(todo).bytes)
<1>1. /\ flight' = flight /\ answers' = answers /\ stored' = stored
      /\ dev' = dev /\ wanted' = wanted /\ send' = send /\ plugged' = plugged
      /\ asked' = asked /\ queue' = Append(queue, c)
  BY DEF UploadPacket, device, usb, history
<1>2. todo # <<>> /\ Head(todo).op = "packet"
  BY DEF UploadPacket
<1>3. IsUpload(Head(todo).bytes)
  BY <1>2, SendableTail DEF WireInv, WireTypes
<1>4. OwnCommand(plugged, c, asked)
  BY <1>3, OwnUpload
<1> HIDE DEF c
<1>5. OwnLine(plugged, queue', asked)
  BY <1>1, <1>4, OwnLineAppend DEF OwnInv
<1> QED
  BY <1>1, <1>5 DEF OwnInv

LEMMA OwnOtherStep ==
  ASSUME WireInv, OwnInv,
         \/ \E m \in Modes \cup {Off} : SetSensorTestMode(m)
         \/ \E t \in Types, g \in DOMAIN Gifs : StartUpload(t, g)
         \/ UploadPause \/ FinishUpload
         \/ PadIdentify \/ Stall \/ (\E n \in 1..Len(outbox) : Poll(n))
         \/ UNCHANGED vars
  PROVE  OwnInv'
<1>1. /\ queue' = queue /\ flight' = flight /\ answers' = answers /\ stored' = stored
      /\ dev' = dev /\ wanted' = wanted /\ send' = send /\ plugged' = plugged
      /\ asked' = asked
  BY DEF SetSensorTestMode, StartUpload, UploadPause, FinishUpload, PadIdentify, Stall,
     Poll, vars, connection, device, usb, history
<1> QED
  BY <1>1 DEF OwnInv

\* An update: what joins the queue is the pad's own, and so is what the device
\* makes of the answers.
LEMMA OwnUpdateStep ==
  ASSUME Versioned, WireInv, FirmwareInv, OwnInv, NEW put, NEW due, NEW timedOut,
         Update(put, due, timedOut)
  PROVE  OwnInv'
<1> DEFINE p == plugged
           s == asked
           first == IF info /\ ~active THEN Append(queue, ReadConfig) ELSE queue
           second == IF put THEN first \o <<PutCommand, ReadConfig>> ELSE first
           third == IF due
                    THEN <<Command(<<Sense, mode, EndOfLine>>)>> \o second ELSE second
           line == IF timedOut THEN <<flight>> \o third ELSE third
           split == SplitBuffer(buffer)
           fl == IF timedOut THEN Nothing ELSE flight
           base == [current |-> current, packets |-> <<>>, active |-> info,
                    info |-> info, firmware |-> firmware, flight |-> fl]
           after == Handled(base, split.packets)
           next == after.flight = Nothing /\ line # <<>>
           d == [dev EXCEPT !.config = IF put THEN wanted ELSE @,
                            !.waiting = IF due THEN mode ELSE @]
<1>1. /\ put => info /\ dev.have /\ send
      /\ timedOut => written
  BY DEF Update
<1>2. /\ flight' = IF next THEN Head(line) ELSE after.flight
      /\ queue' = IF next THEN Tail(line) ELSE line
      /\ dev' = HandlePackets(d, after.packets)
      /\ send' = (send /\ ~put)
  BY DEF Update, Handled
<1>3. /\ wanted' = wanted /\ plugged' = plugged /\ asked' = asked
      /\ stored' = stored /\ answers' = answers
  BY DEF Update
<1>4. /\ plugged \in Pads /\ wanted \in Config /\ mode \in Modes \cup {Off}
      /\ (written => flight # Nothing)
  BY DEF WireInv, WireTypes
<1>5. PICK R : dev \in Devices(R)
  BY DEF WireInv, WireTypes
<1>6. OwnLine(p, line, s)
  <2>1. OwnLine(p, queue, s) /\ OwnCommand(p, ReadConfig, s)
    BY OwnShort DEF OwnInv
  <2>2. OwnLine(p, first, s)
    BY <2>1, OwnLineAppend
  <2> HIDE DEF first
  <2>3. OwnLine(p, second, s)
    <3>1. CASE put
      <4>1. dev.raw \in Seq(Nat)
        BY <1>5 DEF Devices
      <4>2. /\ firmware = Firmware[p] /\ OwnConfig(p, wanted, s)
            /\ OwnRaw(p, dev.raw)
        BY <1>1, <3>1 DEF FirmwareInv, OwnInv, OwnDevice
      <4>3. OwnCommand(p, PutCommand, s)
        BY <1>4, <4>1, <4>2, OwnPutCommand
      <4>4. OwnLine(p, <<PutCommand, ReadConfig>>, s)
        BY <2>1, <4>3, OwnLineTwo
      <4> QED
        BY <2>2, <3>1, <4>4, OwnLineConcat
    <3>2. CASE ~put
      BY <2>2, <3>2
    <3> QED
      BY <3>1, <3>2
  <2> HIDE DEF second
  <2>4. OwnLine(p, third, s)
    <3> DEFINE c == Command(<<Sense, mode, EndOfLine>>)
    <3>1. mode \in Nat
      BY <1>4 DEF Modes, Off
    <3>2. OwnCommand(p, c, s)
      BY <3>1, OwnShort
    <3> HIDE DEF c
    <3>3. OwnLine(p, <<c>> \o second, s)
      BY <2>3, <3>2, OwnLineOne, OwnLineConcat
    <3> QED
      BY <2>3, <3>3 DEF c
  <2> HIDE DEF third
  <2>5. CASE timedOut
    <3>1. OwnCommand(p, flight, s)
      BY <1>1, <1>4, <2>5 DEF OwnInv
    <3>2. OwnLine(p, <<flight>> \o third, s)
      BY <2>4, <3>1, OwnLineOne, OwnLineConcat
    <3> QED
      BY <2>5, <3>2
  <2>6. CASE ~timedOut
    BY <2>4, <2>6
  <2> QED
    BY <2>5, <2>6
<1> HIDE DEF line, first, second, third
<1>7. /\ after.packets \in Seq(Answer) /\ ToSet(after.packets) \subseteq answers
      /\ after.flight \in {fl, Nothing}
  <2> HIDE DEF fl
  <2> QED
    BY PacketsHandled
<1> HIDE DEF after, split
<1>8. after.flight # Nothing => OwnCommand(p, after.flight, s)
  BY <1>7 DEF OwnInv
<1>9. (flight' # Nothing => OwnCommand(p, flight', s)) /\ OwnLine(p, queue', s)
  <2>1. CASE next
    <3>1. OwnCommand(p, Head(line), s) /\ OwnLine(p, Tail(line), s)
      BY <1>6, <2>1, OwnLineTail
    <3> QED
      BY <1>2, <2>1, <3>1
  <2>2. CASE ~next
    BY <1>2, <1>6, <1>8, <2>2
  <2> QED
    BY <2>1, <2>2
<1>10. dev'.have => OwnDevice(p, dev', s)
  <2>1. d \in Devices(R)
    BY <1>4, <1>5 DEF Devices
  <2>2. d.have => OwnDevice(p, d, s)
    <3>1. d.have = dev.have /\ d.raw = dev.raw
          /\ d.config = IF put THEN wanted ELSE dev.config
      BY <1>5 DEF Devices
    <3> HIDE DEF d
    <3>2. CASE put
      <4>1. OwnConfig(p, wanted, s) /\ OwnRaw(p, dev.raw)
        BY <1>1, <3>2 DEF OwnInv, OwnDevice
      <4> QED
        BY <3>1, <3>2, <4>1 DEF OwnDevice
    <3>3. CASE ~put
      <4>1. dev.have => OwnConfig(p, dev.config, s) /\ OwnRaw(p, dev.raw)
        BY DEF OwnInv, OwnDevice
      <4> QED
        BY <3>1, <3>3, <4>1 DEF OwnDevice
    <3> QED
      BY <3>2, <3>3
  <2> DEFINE q == after.packets
  <2>3. q \in Seq(Answer) /\ \A i \in 1..Len(q) : OwnAnswer(p, q[i], s)
    <3>1. q \in Seq(Answer) /\ ToSet(q) \subseteq answers
      BY <1>7
    <3> HIDE DEF q
    <3>2. \A i \in 1..Len(q) : q[i] \in ToSet(q)
      BY <3>1 DEF ToSet
    <3> QED
      BY <3>1, <3>2 DEF OwnInv
  <2>4. \A a \in s : a[2] \in Changes
    BY DEF OwnInv
  <2> HIDE DEF d, q
  <2>5. HandlePackets(d, q).have => OwnDevice(p, HandlePackets(d, q), s)
    BY <1>4, <2>1, <2>2, <2>3, <2>4, OwnHandledAll
  <2> QED
    BY <1>2, <2>5 DEF q
<1>11. send' => OwnConfig(p, wanted, s)
  BY <1>2 DEF OwnInv
<1> QED
  BY <1>3, <1>9, <1>10, <1>11 DEF OwnInv

LEMMA OwnStep ==
  ASSUME Versioned, NoLookalikes({GetOld, GetNew}), WireInv, FirmwareInv, OwnInv,
         [Next]_vars
  PROVE  OwnInv'
<1>1. ASSUME NEW f \in Changes, NEW v \in 1..MaxSets, SetConfig(f, v) PROVE OwnInv'
  BY <1>1, OwnSetStep
<1>2. CASE \/ \E m \in Modes \cup {Off} : SetSensorTestMode(m)
           \/ \E t \in Types, g \in DOMAIN Gifs : StartUpload(t, g)
           \/ UploadPause \/ FinishUpload
           \/ PadIdentify \/ Stall \/ (\E n \in 1..Len(outbox) : Poll(n))
           \/ UNCHANGED vars
  BY <1>2, OwnOtherStep
<1>3. CASE UploadPacket
  BY <1>3, OwnPacketStep
<1>4. ASSUME NEW put \in BOOLEAN, NEW due \in BOOLEAN, NEW timedOut \in BOOLEAN,
             Update(put, due, timedOut)
      PROVE  OwnInv'
  BY <1>4, OwnUpdateStep
<1>5. CASE PadRead
  BY <1>5, OwnReadStep
<1>6. CASE PadStore
  BY <1>6, OwnStoreStep
<1>7. ASSUME NEW r \in Readings, PadSense(r) PROVE OwnInv'
  BY <1>7, OwnSenseStep
<1>8. ASSUME NEW missed \in BOOLEAN, PadUpload(missed) PROVE OwnInv'
  BY <1>8, OwnPadUploadStep
<1>9. ASSUME NEW p \in Pads, Replug(p) PROVE OwnInv'
  BY <1>9, OwnReplugStep
<1> QED
  BY <1>1, <1>2, <1>3, <1>4, <1>5, <1>6, <1>7, <1>8, <1>9 DEF Next

LEMMA OwnPlaces ==
  ASSUME Versioned, WireInv, OwnInv, NEW p \in Pads, NEW i \in DOMAIN stored[p]
  PROVE  Own(p, i, stored[p][i], asked)
<1>1. stored[p] \in Seq(Nat) /\ Len(stored[p]) = Size(p)
  BY DEF WireInv, WireTypes, OwnInv
<1>2. i \in 1..Size(p) /\ i <= Len(stored[p])
  BY <1>1
<1> QED
  BY <1>2 DEF OwnInv, OwnBytes

\* The settings of a pad are its own, on every pad and at every moment: from the
\* pad that answers, through the reassembly, both conversions, the cache and the
\* retries, to the pad that stores them.
LEMMA SettingsInvariant ==
  ASSUME Versioned PROVE Spec /\ []NoLookalikes({GetOld, GetNew}) => []OwnInv
<1>1. Init /\ NoLookalikes({GetOld, GetNew}) => OwnInv
  BY OwnInit
<1>2. NoLookalikes({GetOld, GetNew}) /\ WireInv /\ FirmwareInv /\ OwnInv /\ [Next]_vars
        => OwnInv'
  BY OwnStep
<1> QED
  BY <1>1, <1>2, WireInvariant, FirmwareKnown, PTL DEF Spec

\* set_config and send_config_if_needed never give a pad a setting that neither
\* it had nor the application has set for it: not of another pad that was in the
\* slot, not one in the place of another, not a zero for one that its layout or
\* its short answer does not have (convert_to_new_config, convert_to_old_config).
\* Assumed is that old pads have a version, which the application leaves alone,
\* and that the end of an answer left over from before does not begin like one.
THEOREM OwnSettingsHolds ==
  ASSUME Versioned PROVE Spec /\ []NoLookalikes({GetOld, GetNew}) => []OwnSettings
<1>1. WireInv /\ OwnInv => OwnSettings
  BY OwnPlaces DEF OwnSettings, Own
<1> QED
  BY <1>1, WireInvariant, SettingsInvariant, PTL

\* The bytes of an old configuration that the SDK has no use for are written back
\* to the pad they were read from, as they were read: raw_old_config is never
\* that of another pad when a configuration goes out, nor one that is too short.
THEOREM SpareBytesKeptHolds ==
  ASSUME Versioned PROVE Spec /\ []NoLookalikes({GetOld, GetNew}) => []SpareBytesKept
<1>1. WireInv /\ OwnInv => SpareBytesKept
  <2> SUFFICES ASSUME WireInv, OwnInv, NEW p \in Pads, Firmware[p] < 5,
                      NEW i \in DOMAIN stored[p], OldLayout[i] \in Spare
               PROVE  stored[p][i] = Factory[p][i]
    BY DEF SpareBytesKept
  <2>1. LayoutOf(p) = OldLayout
    <3>1. Firmware[p] \in Nat
      BY WireAssumption
    <3>2. ~(Firmware[p] >= 5)
      BY <3>1
    <3> QED
      BY <3>2 DEF LayoutOf
  <2>2. Own(p, i, stored[p][i], asked)
    BY OwnPlaces
  <2> QED
    BY <2>1, <2>2 DEF Own
<1> QED
  BY <1>1, WireInvariant, SettingsInvariant, PTL

-----------------------------------------------------------------------------
(* Readings *)

LEMMA SumBelow ==
  ASSUME NEW P \in Nat, NEW bit, NEW f, SumOfBits(P, bit, f)
  PROVE  \A j \in 0..P : f[j] \in 0..(2^j - 1)
<1> DEFINE Good == {j \in Nat : j <= P => f[j] \in 0..(2^j - 1)}
<1>1. /\ f \in [0..P -> Nat] /\ f[0] = 0
      /\ \A j \in 1..P : bit[j] \in Binary /\ f[j] = f[j - 1] + 2^(j - 1) * bit[j]
  BY DEF SumOfBits
<1>2. 0 \in Good
  BY <1>1, One
<1>3. ASSUME NEW j \in Good PROVE j + 1 \in Good
  <2> SUFFICES ASSUME j + 1 <= P PROVE f[j + 1] \in 0..(2^(j + 1) - 1)
    OBVIOUS
  <2>1. j \in Nat /\ j + 1 \in 1..P /\ (j + 1) - 1 = j /\ f[j] \in 0..(2^j - 1)
    OBVIOUS
  <2> DEFINE m == 2^j
             b == bit[j + 1]
             x == f[j]
             mb == m * b
  <2>2. m \in Nat \ {0} /\ 2^(j + 1) = 2 * m
    BY <2>1, PowerOfTwo, Doubled
  <2>3. f[j + 1] = x + mb /\ b \in Binary /\ x \in 0..(m - 1)
    BY <1>1, <2>1
  <2> HIDE DEF m, b, x
  <2>4. mb \in {0, m}
    BY <2>2, <2>3 DEF Binary
  <2> HIDE DEF mb
  <2>5. x + mb \in 0..(2 * m - 1)
    BY <2>2, <2>3, <2>4
  <2> QED
    BY <2>2, <2>3, <2>5
<1>4. Good = Nat
  <2> HIDE DEF Good
  <2>1. Good \subseteq Nat
    BY DEF Good
  <2> QED
    BY <1>2, <1>3, <2>1, SetInduction
<1>5. ASSUME NEW j \in 0..P PROVE f[j] \in 0..(2^j - 1)
  <2>1. j \in Good /\ j <= P
    BY <1>4
  <2> QED
    BY <2>1
<1> QED
  BY <1>5

\* Nothing that is added later reaches down to a bit.
LEMMA SumAbove ==
  ASSUME NEW P \in Nat, NEW bit, NEW f, SumOfBits(P, bit, f), NEW k \in 0..P
  PROVE  \E e \in Nat : f[P] = f[k] + 2^k * e
<1> DEFINE K == 2^k
           Tops(m) == \E e \in Nat, g \in Nat : f[k + m] = f[k] + K * e /\ 2^(k + m) = K * g
           Good == {m \in Nat : k + m <= P => Tops(m)}
<1>1. /\ f \in [0..P -> Nat]
      /\ \A j \in 1..P : bit[j] \in Binary /\ f[j] = f[j - 1] + 2^(j - 1) * bit[j]
  BY DEF SumOfBits
<1>2. K \in Nat /\ k \in Nat /\ f[k] \in Nat
  BY <1>1, PowerOfTwo
<1> HIDE DEF K
<1>3. 0 \in Good
  <2>1. k + 0 = k /\ f[k] = f[k] + K * 0 /\ K = K * 1
    BY <1>2
  <2>2. f[k + 0] = f[k] + K * 0 /\ 2^(k + 0) = K * 1
    BY <2>1 DEF K
  <2>3. Tops(0)
    BY <2>2
  <2> QED
    BY <2>3
<1>4. ASSUME NEW m \in Good PROVE m + 1 \in Good
  <2> SUFFICES ASSUME k + (m + 1) <= P PROVE Tops(m + 1)
    OBVIOUS
  <2>1. m \in Nat /\ k + m <= P
    BY <1>2
  <2>2. PICK e \in Nat, g \in Nat : f[k + m] = f[k] + K * e /\ 2^(k + m) = K * g
    BY <2>1
  <2> DEFINE j == k + m
             b == bit[j + 1]
  <2>3. j \in Nat /\ j + 1 \in 1..P /\ (j + 1) - 1 = j /\ k + (m + 1) = j + 1
    BY <1>2, <2>1
  <2>4. f[j] = f[k] + K * e /\ 2^j = K * g
    BY <2>2
  <2> HIDE DEF j
  <2>5. f[j + 1] = f[j] + 2^j * b /\ b \in Binary /\ 2^(j + 1) = 2 * 2^j
    BY <1>1, <2>3, Doubled
  <2> HIDE DEF b
  <2> DEFINE x == f[k]
             ke == K * e
             kg == K * g
  <2>6. x \in Nat /\ ke \in Nat /\ kg \in Nat
    BY <1>2
  <2>7. f[j + 1] = (x + ke) + kg * b /\ 2^(j + 1) = 2 * kg
    BY <2>4, <2>5
  <2>8. K * (e + g) = ke + kg /\ K * (2 * g) = 2 * kg
    BY <1>2
  <2> HIDE DEF x, ke, kg
  <2>9. CASE b = 0
    <3>1. f[j + 1] = x + ke
      BY <2>6, <2>7, <2>9
    <3>2. /\ f[k + (m + 1)] = f[k] + K * e
          /\ 2^(k + (m + 1)) = K * (2 * g)
      BY <2>3, <2>7, <2>8, <3>1 DEF x, ke
    <3> QED
      BY <3>2
  <2>10. CASE b = 1
    <3>1. f[j + 1] = x + (ke + kg)
      BY <2>6, <2>7, <2>10
    <3>2. /\ f[k + (m + 1)] = f[k] + K * (e + g)
          /\ 2^(k + (m + 1)) = K * (2 * g)
      BY <2>3, <2>7, <2>8, <3>1 DEF x
    <3> QED
      BY <3>2
  <2> QED
    BY <2>5, <2>9, <2>10 DEF Binary
<1>5. Good = Nat
  <2> HIDE DEF Good
  <2>1. Good \subseteq Nat
    BY DEF Good
  <2> QED
    BY <1>3, <1>4, <2>1, SetInduction
<1>6. Tops(P - k)
  <2>1. P - k \in Nat /\ k + (P - k) <= P
    OBVIOUS
  <2> HIDE DEF At
  <2> QED
    BY <1>5, <2>1
<1>7. k + (P - k) = P
  OBVIOUS
<1> QED
  BY <1>6, <1>7 DEF K

\* Each bit can be read where it was put.
LEMMA SumBit ==
  ASSUME NEW P \in Nat, NEW bit, NEW f, SumOfBits(P, bit, f), NEW k \in 0..(P - 1)
  PROVE  (f[P] \div 2^k) % 2 = bit[k + 1]
<1>1. /\ k \in Nat /\ k \in 0..P /\ k + 1 \in 0..P /\ k + 1 \in 1..P
      /\ (k + 1) - 1 = k
  OBVIOUS
<1>2. PICK e \in Nat : f[P] = f[k + 1] + 2^(k + 1) * e
  BY <1>1, SumAbove
<1> DEFINE h == 2^k
           b == bit[k + 1]
           x == f[k]
           q == b + 2 * e
<1>3. h \in Nat \ {0} /\ 2^(k + 1) = 2 * h
  BY <1>1, PowerOfTwo, Doubled
<1>4. x \in 0..(h - 1) /\ b \in Binary /\ f[k + 1] = x + h * b
  BY <1>1, SumBelow DEF SumOfBits
<1>5. f[P] = (x + h * b) + (2 * h) * e
  BY <1>2, <1>3, <1>4
<1> HIDE DEF h, b, x
<1>6. q \in Nat /\ q % 2 = b
  BY <1>4 DEF Binary
<1>7. f[P] = h * q + x
  <2>1. h * q = h * b + (2 * h) * e
    BY <1>3, <1>4 DEF Binary
  <2> DEFINE u == h * b
             v == (2 * h) * e
  <2>2. u \in Nat /\ v \in Nat /\ x \in Nat
    BY <1>3, <1>4 DEF Binary
  <2>3. f[P] = (x + u) + v /\ h * q = u + v
    BY <1>5, <2>1
  <2> HIDE DEF u, v, q
  <2> QED
    BY <2>2, <2>3
<1> HIDE DEF q
<1>8. f[P] \div h = q
  <2>1. (h * q + x) \div h = q
    BY <1>3, <1>4, <1>6, Quotient
  <2> QED
    BY <1>7, <2>1
<1> QED
  BY <1>6, <1>8 DEF h, b


\* What is read of a number's bits is what they can hold of it.
LEMMA NumberOfBits ==
  ASSUME NEW bits, NEW first, NEW size \in Nat, NEW N \in Nat,
         \A i \in 0..(size - 1) : bits[first + i] = (N \div 2^i) % 2
  PROVE  Number(bits, first, size) = N % 2^size
<1> DEFINE Step(g, i) == IF i = size THEN 0 ELSE bits[first + i] + 2 * g[i + 1]
           w == [i \in 0..size |-> (N \div 2^i) % 2^(size - i)]
           F(g) == g = [i \in 0..size |-> Step(g, i)]
<1>1. ASSUME NEW i \in 0..size PROVE w[i] = Step(w, i)
  <2> DEFINE M == N \div 2^i
  <2>1. i \in Nat /\ M \in Nat
    <3>1. i \in Nat
      OBVIOUS
    <3>2. 2^i \in Nat \ {0}
      BY <3>1, PowerOfTwo
    <3> QED
      BY <3>1, <3>2, Divided
  <2>2. w[i] = M % 2^(size - i)
    OBVIOUS
  <2>3. CASE i = size
    <3>1. 2^(size - i) = 1
      <4>1. size - i = 0
        BY <2>3
      <4> QED
        BY <4>1, One
    <3> HIDE DEF M, w
    <3>2. M % 1 = 0
      BY <2>1
    <3> QED
      BY <2>2, <2>3, <3>1, <3>2
  <2>4. CASE i # size
    <3> DEFINE c == size - (i + 1)
               k == 2^c
               h == 2^i
    <3>1. c \in Nat /\ size - i = c + 1 /\ i + 1 \in 0..size /\ i \in 0..(size - 1)
      BY <2>4
    <3>2. k \in Nat \ {0} /\ 2^(size - i) = 2 * k
      <4> HIDE DEF c
      <4> QED
        BY <3>1, PowerOfTwo, Doubled
    <3>3. w[i + 1] = (N \div 2^(i + 1)) % k
      BY <3>1
    <3>4. N \div 2^(i + 1) = M \div 2
      <4>1. h \in Nat \ {0} /\ 2^(i + 1) = 2 * h
        BY <2>1, PowerOfTwo, Doubled
      <4> HIDE DEF h
      <4>2. N \div (2 * h) = (N \div h) \div 2
        BY <4>1, Halved
      <4> QED
        BY <4>1, <4>2 DEF h
    <3>5. bits[first + i] = M % 2
      BY <3>1
    <3> HIDE DEF M, w, k
    <3>6. M % (2 * k) = (M % 2) + 2 * ((M \div 2) % k)
      BY <2>1, <3>2, Halved
    <3>7. w[i] = bits[first + i] + 2 * w[i + 1]
      BY <2>2, <3>2, <3>3, <3>4, <3>5, <3>6
    <3> QED
      BY <2>4, <3>7
  <2> QED
    BY <2>3, <2>4
<1>2. F(w)
  <2>1. w = [i \in 0..size |-> w[i]]
    OBVIOUS
  <2> HIDE DEF w, Step
  <2>2. [i \in 0..size |-> w[i]] = [i \in 0..size |-> Step(w, i)]
    BY <1>1
  <2> QED
    BY <2>1, <2>2
<1> DEFINE g == CHOOSE h : F(h)
<1>3. F(g)
  <2> HIDE DEF F
  <2> QED
    BY <1>2
<1>4. Number(bits, first, size) = g[0]
  BY DEF Number
<1> HIDE DEF g
<1>5. \A i \in 0..size : g[i] = Step(g, i)
  BY <1>3
<1> DEFINE Good == {m \in Nat : m <= size => g[size - m] = w[size - m]}
<1>6. 0 \in Good
  <2>1. size \in 0..size /\ size - 0 = size
    OBVIOUS
  <2>2. g[size] = 0 /\ w[size] = 0
    <3>1. g[size] = Step(g, size) /\ w[size] = Step(w, size)
      BY <1>1, <1>5, <2>1
    <3> HIDE DEF w
    <3> QED
      BY <3>1
  <2> HIDE DEF w
  <2> QED
    BY <2>1, <2>2
<1>7. ASSUME NEW m \in Good PROVE m + 1 \in Good
  <2> SUFFICES ASSUME m + 1 <= size PROVE g[size - (m + 1)] = w[size - (m + 1)]
    OBVIOUS
  <2> DEFINE i == size - (m + 1)
  <2>1. i \in 0..size /\ i + 1 = size - m /\ i # size /\ m <= size
    <3>1. m \in Nat
      OBVIOUS
    <3> HIDE DEF w, Good
    <3> QED
      BY <3>1
  <2>2. g[i + 1] = w[i + 1]
    <3> HIDE DEF w, i
    <3> QED
      BY <2>1
  <2>3. g[i] = Step(g, i) /\ w[i] = Step(w, i)
    BY <1>1, <1>5, <2>1
  <2> HIDE DEF w, i
  <2>4. g[i] = w[i]
    BY <2>1, <2>2, <2>3
  <2> QED
    BY <2>4 DEF i
<1>8. Good = Nat
  <2> HIDE DEF Good
  <2>1. Good \subseteq Nat
    BY DEF Good
  <2> QED
    BY <1>6, <1>7, <2>1, SetInduction
<1>9. g[0] = w[0]
  <2>1. size \in Good
    <3> HIDE DEF Good, w
    <3> QED
      BY <1>8
  <2>2. size <= size /\ size - size = 0
    OBVIOUS
  <2> HIDE DEF w
  <2>3. g[size - size] = w[size - size]
    BY <2>1, <2>2
  <2> QED
    BY <2>2, <2>3
<1>10. w[0] = N % 2^size
  <2>1. w[0] = (N \div 2^0) % 2^(size - 0)
    OBVIOUS
  <2>2. N \div 1 = N /\ size - 0 = size
    OBVIOUS
  <2> HIDE DEF w
  <2> QED
    BY <2>1, <2>2, One
<1> QED
  BY <1>4, <1>9, <1>10


\* A part stands in a sequence, after the first off elements.
Laid(s, off, part, n) == \A i \in 1..n : s[off + i] = part[i]

LEMMA LaidHere ==
  ASSUME NEW m \in Nat, NEW n \in Nat, NEW s, Sized(s, m), NEW t, Sized(t, n)
  PROVE  Laid(s \o t, m, t, n)
<1>1. s \in Seq(Binary) /\ t \in Seq(Binary) /\ Len(s) = m /\ Len(t) = n
  BY DEF Sized
<1>2. \A i \in 1..Len(t) : (s \o t)[Len(s) + i] = t[i]
  BY <1>1, Joined
<1> QED
  BY <1>1, <1>2 DEF Laid

LEMMA LaidBefore ==
  ASSUME NEW m \in Nat, NEW n \in Nat, NEW s, Sized(s, m), NEW t, Sized(t, n),
         NEW off \in Nat, NEW k \in Nat, off + k <= m, NEW part,
         Laid(s, off, part, k)
  PROVE  Laid(s \o t, off, part, k)
<1>1. s \in Seq(Binary) /\ t \in Seq(Binary) /\ Len(s) = m
  BY DEF Sized
<1>2. \A i \in 1..Len(s) : (s \o t)[i] = s[i]
  BY <1>1, Joined
<1>3. \A i \in 1..k : off + i \in 1..m
  OBVIOUS
<1> QED
  BY <1>1, <1>2, <1>3 DEF Laid

\* Where the details of a panel are among its bits.
FlagBits(set) == [s \in 1..Sensors |-> FlagIf(s - 1 \in set, 1)]

NumberBits(n, size) == [i \in 1..size |-> (n \div 2^(i - 1)) % 2]

LevelsBits(level) ==
  FlattenSeq([s \in 1..Sensors |-> NumberBits(level[s - 1] + 2^LevelBits, LevelBits)])

DetailsLaid(s, details) ==
  /\ Laid(s, 0, Signature, 3)
  /\ Laid(s, BadAt, FlagBits(details.bad), Sensors)
  /\ Laid(s, LevelAt, LevelsBits(details.level), Sensors * LevelBits)
  /\ Laid(s, DipAt, NumberBits(details.dip, DipBits), DipBits)
  /\ Laid(s, JumperAt, FlagBits(details.jumper), Sensors)

\* What a panel that answers has.
LEMMA DetailsType ==
  ASSUME NEW details \in PanelDetails, details # Silent
  PROVE  /\ details = [from |-> TRUE, level |-> details.level, bad |-> details.bad,
                       dip |-> details.dip, jumper |-> details.jumper]
         /\ details.level \in [0..(Sensors - 1) ->
              (0 - 2^(LevelBits - 1))..(2^(LevelBits - 1) - 1)]
         /\ details.bad \in SUBSET (0..(Sensors - 1))
         /\ details.dip \in 0..(2^DipBits - 1)
         /\ details.jumper \in SUBSET (0..(Sensors - 1))
BY DEF PanelDetails

LEMMA DetailsPlaced ==
  ASSUME NEW details \in PanelDetails, details # Silent
  PROVE  DetailsLaid(BitsOf(details), details)
<1> DEFINE L == Sensors * LevelBits
           S == Sensors
           D == DipBits
           bad == FlagBits(details.bad)
           jumper == FlagBits(details.jumper)
           levels == LevelsBits(details.level)
           dip == NumberBits(details.dip, DipBits)
           a == Signature \o bad
           b == a \o <<0>>
           c == b \o levels
           d == c \o dip
           e == d \o jumper
<1>1. S \in Nat /\ D \in Nat /\ LevelBits \in Nat /\ L \in Nat
  BY SensorTestAssumption
<1>2. BitsOf(details) = e
  BY DEF BitsOf, FlagBits, LevelsBits, NumberBits
<1>3. /\ BadAt = 3 /\ LevelAt = (3 + S) + 1 /\ DipAt = ((3 + S) + 1) + L
      /\ JumperAt = (((3 + S) + 1) + L) + D
  BY DEF JumperAt, DipAt, LevelAt, BadAt
<1>4. details.level \in [0..(Sensors - 1) -> Int] /\ details.dip \in Int
  <2> DEFINE h == 2^(LevelBits - 1)
             k == 2^DipBits
             level == details.level
  <2>1. LevelBits - 1 \in Nat
    BY SensorTestAssumption
  <2>2. h \in Int /\ k \in Int
    BY <1>1, <2>1, PowerOfTwo
  <2>3. level \in [0..(Sensors - 1) -> (0 - h)..(h - 1)] /\ details.dip \in 0..(k - 1)
    BY DetailsType
  <2> HIDE DEF h, k, level
  <2>4. (0 - h)..(h - 1) \subseteq Int /\ 0..(k - 1) \subseteq Int
    BY <2>2
  <2>5. level \in [0..(Sensors - 1) -> Int] /\ details.dip \in Int
    BY <2>3, <2>4
  <2> QED
    BY <2>5 DEF level
<1>5. Sized(Signature, 3) /\ Sized(<<0>>, 1)
  BY DEF Sized, Signature, Binary
<1>6. Sized(bad, S) /\ Sized(jumper, S)
  BY FlagsType DEF Sized, FlagBits
<1>7. Sized(levels, L)
  BY <1>4, LevelsType DEF LevelsBits, NumberBits
<1>8. Sized(dip, D)
  BY <1>1, <1>4, BitsType DEF Sized, NumberBits
<1> HIDE DEF bad, jumper, levels, dip, L, S, D
<1>9. Laid(Signature, 0, Signature, 3)
  BY DEF Laid
<1>10. /\ Sized(a, 3 + S) /\ 3 + S \in Nat
       /\ Laid(a, 0, Signature, 3) /\ Laid(a, 3, bad, S)
  <2>1. 0 + 3 <= 3
    OBVIOUS
  <2> QED
    BY <1>1, <1>5, <1>6, <1>9, <2>1, SizedConcat, LaidHere, LaidBefore
<1> HIDE DEF a
<1>11. /\ Sized(b, (3 + S) + 1) /\ (3 + S) + 1 \in Nat
       /\ Laid(b, 0, Signature, 3) /\ Laid(b, 3, bad, S)
  <2>1. 0 + 3 <= 3 + S /\ 3 + S <= 3 + S
    BY <1>1
  <2> QED
    BY <1>1, <1>5, <1>10, <2>1, SizedConcat, LaidBefore
<1> HIDE DEF b
<1> DEFINE x == (3 + S) + 1
<1>12. /\ Sized(c, x + L) /\ x + L \in Nat
       /\ Laid(c, 0, Signature, 3) /\ Laid(c, 3, bad, S) /\ Laid(c, x, levels, L)
  <2>1. 0 + 3 <= x /\ 3 + S <= x
    BY <1>1
  <2> HIDE DEF x
  <2> QED
    BY <1>1, <1>7, <1>11, <2>1, SizedConcat, LaidHere, LaidBefore DEF x
<1> HIDE DEF c
<1>13. 0 + 3 <= x + L /\ 3 + S <= x + L /\ x + L <= x + L /\ x \in Nat
  BY <1>1
<1> HIDE DEF x
<1> DEFINE y == x + L
<1>14. /\ Sized(d, y + D) /\ y + D \in Nat
       /\ Laid(d, 0, Signature, 3) /\ Laid(d, 3, bad, S) /\ Laid(d, x, levels, L)
       /\ Laid(d, y, dip, D)
  BY <1>1, <1>8, <1>12, <1>13, SizedConcat, LaidHere, LaidBefore
<1> HIDE DEF d
<1>15. /\ 0 + 3 <= y + D /\ 3 + S <= y + D /\ x + L <= y + D /\ y + D <= y + D
       /\ y \in Nat
  BY <1>1, <1>13
<1> HIDE DEF y
<1>16. /\ Laid(e, 0, Signature, 3) /\ Laid(e, 3, bad, S) /\ Laid(e, x, levels, L)
       /\ Laid(e, y, dip, D) /\ Laid(e, y + D, jumper, S)
  BY <1>1, <1>6, <1>13, <1>14, <1>15, LaidHere, LaidBefore
<1> HIDE DEF e
<1>17. DetailsLaid(e, details)
  BY <1>3, <1>16 DEF DetailsLaid, x, y, L, S, D, bad, jumper, levels, dip
<1> QED
  BY <1>2, <1>17


\* The bits of a panel are those of a sequence, from 0 on.
Reads(bits, s, all) == \A b \in 0..(all - 1) : bits[b] = s[b + 1]

\* A number of several bits among those of a panel.
LEMMA NumberLaid ==
  ASSUME NEW bits, NEW s, NEW all \in Nat, Reads(bits, s, all),
         NEW off \in Nat, NEW size \in Nat, off + size <= all, NEW n \in Nat,
         Laid(s, off, NumberBits(n, size), size)
  PROVE  Number(bits, off, size) = n % 2^size
<1>1. ASSUME NEW i \in 0..(size - 1) PROVE bits[off + i] = (n \div 2^i) % 2
  <2>1. /\ off + i \in 0..(all - 1) /\ (off + i) + 1 = off + (i + 1)
        /\ i + 1 \in 1..size /\ (i + 1) - 1 = i
    OBVIOUS
  <2>2. bits[off + i] = s[off + (i + 1)]
    BY <2>1 DEF Reads
  <2>3. s[off + (i + 1)] = NumberBits(n, size)[i + 1]
    BY <2>1 DEF Laid
  <2>4. NumberBits(n, size)[i + 1] = (n \div 2^((i + 1) - 1)) % 2
    BY <2>1 DEF NumberBits
  <2> QED
    BY <2>1, <2>2, <2>3, <2>4
<1> QED
  BY <1>1, NumberOfBits

\* Flags among the bits of a panel.
LEMMA FlagsLaid ==
  ASSUME NEW bits, NEW s, NEW all \in Nat, Reads(bits, s, all),
         NEW off \in Nat, off + Sensors <= all, NEW set,
         Laid(s, off, FlagBits(set), Sensors)
  PROVE  \A i \in 0..(Sensors - 1) : (bits[off + i] = 1) <=> (i \in set)
<1> SUFFICES ASSUME NEW i \in 0..(Sensors - 1)
             PROVE  (bits[off + i] = 1) <=> (i \in set)
  OBVIOUS
<1>1. Sensors \in Nat
  BY SensorTestAssumption
<1>2. /\ off + i \in 0..(all - 1) /\ (off + i) + 1 = off + (i + 1)
      /\ i + 1 \in 1..Sensors /\ (i + 1) - 1 = i
  BY <1>1
<1>3. bits[off + i] = s[off + (i + 1)]
  BY <1>2 DEF Reads
<1>4. s[off + (i + 1)] = FlagBits(set)[i + 1]
  BY <1>2 DEF Laid
<1>5. FlagBits(set)[i + 1] = IF i \in set THEN 1 ELSE 0
  BY <1>2 DEF FlagBits, FlagIf
<1> QED
  BY <1>3, <1>4, <1>5

\* Levels go through their two's complement.
LEMMA SignedBack ==
  ASSUME NEW level \in (0 - 2^(LevelBits - 1))..(2^(LevelBits - 1) - 1)
  PROVE  /\ level + 2^LevelBits \in Nat
         /\ Signed((level + 2^LevelBits) % 2^LevelBits) = level
<1> DEFINE h == 2^(LevelBits - 1)
           m == 2^LevelBits
           N == level + m
<1>1. LevelBits \in Nat /\ LevelBits - 1 \in Nat /\ (LevelBits - 1) + 1 = LevelBits
  BY SensorTestAssumption
<1>2. h \in Nat \ {0} /\ m = 2 * h
  BY <1>1, PowerOfTwo, Doubled
<1>3. level \in (0 - h)..(h - 1)
  OBVIOUS
<1>4. Signed(N % m) = IF N % m < h THEN N % m ELSE (N % m) - m
  BY DEF Signed
<1> HIDE DEF h, m
<1>5. N \in Nat /\ m \in Nat \ {0}
  BY <1>2, <1>3
<1>6. CASE level >= 0
  <2>1. level \in 0..(m - 1) /\ m * 1 + level = N /\ 1 \in Nat
    BY <1>2, <1>3, <1>6
  <2>2. (m * 1 + level) % m = level
    BY <1>5, <2>1, Quotient
  <2>3. N % m = level /\ level < h
    BY <1>2, <1>3, <2>1, <2>2
  <2> QED
    BY <1>4, <1>5, <2>3 DEF m, h
<1>7. CASE level < 0
  <2>1. N \in 0..(m - 1) /\ m * 0 + N = N /\ 0 \in Nat
    BY <1>2, <1>3, <1>7
  <2>2. (m * 0 + N) % m = N
    BY <1>5, <2>1, Quotient
  <2>3. N % m = N
    BY <2>1, <2>2
  <2>4. ~(N < h) /\ N - m = level
    BY <1>2, <1>3
  <2> QED
    BY <1>4, <1>5, <2>3, <2>4 DEF m, h
<1> QED
  BY <1>3, <1>6, <1>7, <1>2

LEMMA LevelsRead ==
  ASSUME NEW bits, NEW s, NEW all \in Nat, Reads(bits, s, all),
         LevelAt + Sensors * LevelBits <= all,
         NEW level \in [0..(Sensors - 1) ->
                          (0 - 2^(LevelBits - 1))..(2^(LevelBits - 1) - 1)],
         Laid(s, LevelAt, LevelsBits(level), Sensors * LevelBits)
  PROVE  [i \in 0..(Sensors - 1) |->
            Signed(Number(bits, LevelAt + i * LevelBits, LevelBits))] = level
<1> DEFINE B == LevelBits
           L == Sensors * LevelBits
           n(k) == level[k - 1] + 2^LevelBits
           seqs == [k \in 1..Sensors |-> NumberBits(n(k), B)]
           h == 2^(LevelBits - 1)
<1>1. Sensors \in Nat /\ B \in Nat /\ B - 1 \in Nat /\ LevelAt \in Nat /\ L \in Nat
  BY SensorTestAssumption DEF LevelAt, BadAt
<1>2. h \in Nat /\ level \in [0..(Sensors - 1) -> (0 - h)..(h - 1)]
  BY <1>1, PowerOfTwo
<1>3. ASSUME NEW i \in 0..(Sensors - 1) PROVE level[i] \in (0 - h)..(h - 1)
  <2> HIDE DEF h
  <2> QED
    BY <1>2
<1>4. ASSUME NEW k \in 1..Sensors PROVE n(k) \in Nat
  <2>1. k - 1 \in 0..(Sensors - 1)
    BY <1>1
  <2>2. level[k - 1] \in (0 - h)..(h - 1)
    BY <1>3, <2>1
  <2> QED
    BY <2>2, SignedBack
<1> HIDE DEF n
<1>5. ASSUME NEW k \in 1..Sensors
      PROVE  NumberBits(n(k), B) \in Seq(Binary) /\ Len(NumberBits(n(k), B)) = B
  <2>1. n(k) \in Int
    BY <1>4
  <2> QED
    BY <1>1, <2>1, BitsType DEF NumberBits
<1>6. /\ seqs \in Seq(Seq(Binary)) /\ Len(seqs) = Sensors
      /\ \A k \in 1..Len(seqs) : Len(seqs[k]) = B
      /\ \A k \in 1..Sensors : seqs[k] = NumberBits(n(k), B)
  BY <1>1, <1>5
<1>7. LevelsBits(level) = FlattenSeq(seqs)
  BY DEF LevelsBits, n
<1>fits. LevelAt + L <= all
  OBVIOUS
<1> HIDE DEF seqs
<1>8. \A k \in 1..Sensors : \A j \in 1..B :
        FlattenSeq(seqs)[(k - 1) * B + j] = NumberBits(n(k), B)[j]
  <2>1. \A k \in 1..Len(seqs) : \A j \in 1..B : FlattenSeq(seqs)[(k - 1) * B + j] = seqs[k][j]
    <3> HIDE DEF B
    <3> QED
      BY <1>1, <1>6, EqualPlaces
  <2> QED
    BY <1>6, <2>1
<1> HIDE DEF B, L
<1>9. ASSUME NEW i \in 0..(Sensors - 1)
      PROVE  Signed(Number(bits, LevelAt + i * LevelBits, LevelBits)) = level[i]
  <2> DEFINE iB == i * B
             off == LevelAt + iB
             N == level[i] + 2^LevelBits
  <2>1. i \in Nat /\ i + 1 \in 1..Sensors /\ (i + 1) - 1 = i
    BY <1>1
  <2>2. N = n(i + 1) /\ N \in Nat
    BY <1>4, <2>1 DEF n
  <2>3. iB \in Nat /\ iB + B <= L
    <3> DEFINE r == Sensors - (i + 1)
    <3>1. r \in Nat /\ Sensors = (i + 1) + r
      BY <1>1, <2>1
    <3> HIDE DEF r
    <3>2. L = iB + B + r * B /\ r * B \in Nat /\ iB \in Nat
      BY <1>1, <2>1, <3>1 DEF L, B
    <3> QED
      BY <1>1, <3>2
  <2> HIDE DEF N
  <2>4. Laid(s, off, NumberBits(N, B), B)
    <3>1. ASSUME NEW j \in 1..B PROVE s[off + j] = NumberBits(N, B)[j]
      <4>1. iB + j \in 1..L
        BY <1>1, <2>3
      <4>2. LevelAt + (iB + j) = off + j
        BY <1>1, <2>3
      <4>3. s[LevelAt + (iB + j)] = FlattenSeq(seqs)[iB + j]
        BY <1>7, <4>1 DEF Laid, L
      <4>4. FlattenSeq(seqs)[iB + j] = NumberBits(n(i + 1), B)[j]
        BY <1>8, <2>1
      <4> QED
        BY <2>2, <4>2, <4>3, <4>4
    <3> QED
      BY <3>1 DEF Laid
  <2>5. off \in Nat /\ off + B <= all
    <3> HIDE DEF iB
    <3> QED
      BY <1>1, <1>fits, <2>3
  <2> HIDE DEF off
  <2>6. Number(bits, off, B) = N % 2^B
    BY <1>1, <2>2, <2>4, <2>5, NumberLaid
  <2>7. Signed(N % 2^LevelBits) = level[i]
    <3>1. level[i] \in (0 - h)..(h - 1)
      BY <1>3
    <3> QED
      BY <3>1, SignedBack DEF N
  <2> QED
    BY <2>6, <2>7 DEF off, B
<1>10. level = [i \in 0..(Sensors - 1) |-> level[i]]
  BY <1>2
<1> HIDE DEF h
<1> QED
  BY <1>9, <1>10


\* A panel's details as the application is to see them.
Seen(details, fw) ==
  IF details # Silent /\ fw >= 5 THEN [details EXCEPT !.bad = {}] ELSE details

LEMMA DetailsRead ==
  ASSUME NEW details \in PanelDetails, NEW fw \in Nat, NEW bits,
         Reads(bits, BitsOf(details), DetailBits)
  PROVE  Details(bits, fw) = Seen(details, fw)
<1> DEFINE all == DetailBits
           s == BitsOf(details)
           L == Sensors * LevelBits
<1>1. /\ Sensors \in Nat /\ DipBits \in Nat /\ LevelBits \in Nat /\ L \in Nat
      /\ LevelAt = 4 + Sensors /\ DipAt = LevelAt + L /\ JumperAt = DipAt + DipBits
      /\ all = JumperAt + Sensors /\ BadAt = 3
  BY SensorTestAssumption DEF DetailBits, JumperAt, DipAt, LevelAt, BadAt
<1> HIDE DEF L, all
<1>2. /\ LevelAt \in Nat /\ DipAt \in Nat /\ JumperAt \in Nat /\ all \in Nat
      /\ 3 <= all /\ BadAt + Sensors <= all /\ LevelAt + L <= all
      /\ DipAt + DipBits <= all /\ JumperAt + Sensors <= all
  BY <1>1
<1>3. bits[0] = s[1] /\ bits[1] = s[2] /\ bits[2] = s[3]
  <2>1. 0 \in 0..(all - 1) /\ 1 \in 0..(all - 1) /\ 2 \in 0..(all - 1)
    BY <1>2
  <2>2. bits[0] = s[0 + 1] /\ bits[1] = s[1 + 1] /\ bits[2] = s[2 + 1]
    BY <2>1 DEF Reads, all
  <2> QED
    BY <2>2
<1>4. CASE details = Silent
  <2>1. s = [i \in 1..all |-> 0]
    BY <1>4 DEF BitsOf, all
  <2>2. 1 \in 1..all /\ 2 \in 1..all
    BY <1>2
  <2>3. s[2] = 0
    BY <2>1, <2>2
  <2>4. <<bits[0], bits[1], bits[2]>> # Signature
    BY <1>3, <2>3 DEF Signature
  <2>5. Details(bits, fw) = Silent
    BY <2>4 DEF Details
  <2> QED
    BY <1>4, <2>5 DEF Seen
<1>5. CASE details # Silent
  <2> DEFINE level == details.level
             bad == details.bad
             dip == details.dip
             jumper == details.jumper
  <2>1. /\ Laid(s, 0, Signature, 3)
        /\ Laid(s, BadAt, FlagBits(bad), Sensors)
        /\ Laid(s, LevelAt, LevelsBits(level), L)
        /\ Laid(s, DipAt, NumberBits(dip, DipBits), DipBits)
        /\ Laid(s, JumperAt, FlagBits(jumper), Sensors)
    BY <1>5, DetailsPlaced DEF DetailsLaid, L
  <2>2. /\ details = [from |-> TRUE, level |-> level, bad |-> bad, dip |-> dip,
                      jumper |-> jumper]
        /\ level \in [0..(Sensors - 1) ->
                        (0 - 2^(LevelBits - 1))..(2^(LevelBits - 1) - 1)]
        /\ bad \in SUBSET (0..(Sensors - 1))
        /\ dip \in 0..(2^DipBits - 1)
        /\ jumper \in SUBSET (0..(Sensors - 1))
    BY <1>5, DetailsType
  <2> HIDE DEF s, level, bad, dip, jumper
  <2>3. <<bits[0], bits[1], bits[2]>> = Signature
    <3>1. s[0 + 1] = Signature[1] /\ s[0 + 2] = Signature[2] /\ s[0 + 3] = Signature[3]
      BY <2>1 DEF Laid
    <3> QED
      BY <1>3, <3>1 DEF Signature
  <2>4. Reads(bits, s, all)
    BY DEF s, all
  <2>5. [i \in 0..(Sensors - 1) |->
           Signed(Number(bits, LevelAt + i * LevelBits, LevelBits))] = level
    BY <1>2, <2>1, <2>2, <2>4, LevelsRead DEF L
  <2>6. Number(bits, DipAt, DipBits) = dip
    <3> DEFINE m == 2^DipBits
    <3>1. m \in Nat \ {0} /\ dip \in 0..(m - 1)
      BY <1>1, <2>2, PowerOfTwo
    <3>2. Number(bits, DipAt, DipBits) = dip % m
      BY <1>1, <1>2, <2>1, <2>4, <3>1, NumberLaid
    <3> HIDE DEF m
    <3>3. dip % m = dip
      BY <3>1
    <3> QED
      BY <3>2, <3>3
  <2>7. {i \in 0..(Sensors - 1) : bits[JumperAt + i] = 1} = jumper
    <3>1. \A i \in 0..(Sensors - 1) : (bits[JumperAt + i] = 1) <=> (i \in jumper)
      BY <1>2, <2>1, <2>4, FlagsLaid
    <3> QED
      BY <2>2, <3>1
  <2>8. {i \in 0..(Sensors - 1) : bits[BadAt + i] = 1 /\ fw < 5}
          = IF fw >= 5 THEN {} ELSE bad
    <3>1. \A i \in 0..(Sensors - 1) : (bits[BadAt + i] = 1) <=> (i \in bad)
      BY <1>1, <1>2, <2>1, <2>4, FlagsLaid
    <3>2. {i \in 0..(Sensors - 1) : bits[BadAt + i] = 1} = bad
      BY <2>2, <3>1
    <3>3. CASE fw >= 5
      <4>1. ~(fw < 5)
        BY <3>3
      <4> QED
        BY <3>3, <4>1
    <3>4. CASE ~(fw >= 5)
      <4>1. fw < 5
        BY <3>4
      <4> QED
        BY <3>2, <3>4, <4>1
    <3> QED
      BY <3>3, <3>4
  <2>9. Details(bits, fw)
          = [from |-> TRUE, level |-> level, bad |-> IF fw >= 5 THEN {} ELSE bad,
             dip |-> dip, jumper |-> jumper]
    BY <2>3, <2>5, <2>6, <2>7, <2>8 DEF Details
  <2>10. Seen(details, fw)
           = [from |-> TRUE, level |-> level, bad |-> IF fw >= 5 THEN {} ELSE bad,
              dip |-> dip, jumper |-> jumper]
    BY <1>5, <2>2 DEF Seen
  <2> QED
    BY <2>9, <2>10
<1> QED
  BY <1>4, <1>5


\* The words of an answer are those that were put in: each goes through its low
\* and its high byte.
LEMMA AnswerWords ==
  ASSUME NEW asFor \in Nat, NEW reading \in Readings
  PROVE  Words(SensorAnswer(asFor, reading))
           = [i \in 1..DetailBits |-> WordOf(reading, i, PanelOrder)]
<1> DEFINE word(i) == WordOf(reading, i, PanelOrder)
           m == 2^ByteBits
           low(i) == word(i) % m
           high(i) == word(i) \div m
           bytes(i) == <<low(i), high(i)>>
           words == [i \in 1..DetailBits |-> bytes(i)]
           h == <<Sense, asFor, DetailBits>>
           f == FlattenSeq(words)
           answer == h \o f
           n == DetailBits
<1>1. SensorAnswer(asFor, reading) = answer
  BY DEF SensorAnswer, WordOf, PanelOrder
<1>2. n \in Nat
  BY BitsOfType DEF PanelDetails
<1>3. ASSUME NEW i \in 1..n
      PROVE  low(i) \in Nat /\ high(i) \in Nat /\ low(i) + m * high(i) = word(i)
  <2>1. word(i) \in Nat
    <3>1. PICK g : /\ SumOfBits(NumPanels,
                               [q \in 1..NumPanels |-> BitsOf(reading[q - 1])[i]], g)
                   /\ word(i) = g[NumPanels]
      BY WordSum
    <3>2. g \in [0..NumPanels -> Nat] /\ NumPanels \in 0..NumPanels
      BY <3>1, SensorTestAssumption DEF SumOfBits
    <3> HIDE DEF word
    <3> QED
      BY <3>1, <3>2
  <2> HIDE DEF word
  <2> QED
    BY <2>1, BytesOfWord
<1> HIDE DEF word, low, high
<1>4. ASSUME NEW i \in 1..n
      PROVE  /\ bytes(i) \in Seq(Nat) /\ Len(bytes(i)) = 2
             /\ bytes(i)[1] = low(i) /\ bytes(i)[2] = high(i)
  <2>1. low(i) \in Nat /\ high(i) \in Nat
    BY <1>3
  <2> QED
    BY <2>1
<1> HIDE DEF bytes
<1>5. /\ words \in Seq(Seq(Nat)) /\ Len(words) = n
      /\ \A k \in 1..Len(words) : Len(words[k]) = 2
      /\ \A k \in 1..n : words[k] = bytes(k)
  BY <1>2, <1>4
<1> HIDE DEF words
<1>6. f \in Seq(Nat)
  BY <1>5, Flatten
<1>7. \A k \in 1..Len(words) : \A i \in 1..2 : f[(k - 1) * 2 + i] = words[k][i]
  <2> DEFINE L == 2
  <2>1. L \in Nat /\ \A k \in 1..Len(words) : Len(words[k]) = L
    BY <1>5
  <2> HIDE DEF L
  <2>2. \A k \in 1..Len(words) : \A i \in 1..L : FlattenSeq(words)[(k - 1) * L + i] = words[k][i]
    BY <1>5, <2>1, EqualPlaces
  <2> QED
    BY <2>2 DEF L
<1>8. Len(f) = n * 2
  <2>1. Len(f) = Len(words) * 2
    BY <1>5, EqualParts
  <2> QED
    BY <1>5, <2>1
<1>9. h[3] = n /\ Len(h) = 3
  BY DEF n
<1>10. h \in Seq(Nat)
  BY <1>2 DEF n, Sense
<1> HIDE DEF h, f
<1>11. /\ \A i \in 1..Len(h) : answer[i] = h[i]
       /\ \A i \in 1..Len(f) : answer[Len(h) + i] = f[i]
  BY <1>6, <1>10, Joined
<1> HIDE DEF answer, n
<1>12. answer[3] = n
  <2>1. 3 \in 1..Len(h)
    BY <1>9
  <2> QED
    BY <1>9, <1>11, <2>1
<1>13. ASSUME NEW i \in 1..n
       PROVE  answer[2 * i + 2] + m * answer[2 * i + 3] = word(i)
  <2>1. /\ (i - 1) * 2 + 1 \in 1..(n * 2) /\ (i - 1) * 2 + 2 \in 1..(n * 2)
        /\ 3 + ((i - 1) * 2 + 1) = 2 * i + 2 /\ 3 + ((i - 1) * 2 + 2) = 2 * i + 3
    BY <1>2
  <2>2. /\ answer[2 * i + 2] = f[(i - 1) * 2 + 1]
        /\ answer[2 * i + 3] = f[(i - 1) * 2 + 2]
    BY <1>8, <1>9, <1>11, <2>1
  <2>3. f[(i - 1) * 2 + 1] = words[i][1] /\ f[(i - 1) * 2 + 2] = words[i][2]
    BY <1>5, <1>7
  <2>4. words[i][1] = low(i) /\ words[i][2] = high(i)
    BY <1>4, <1>5
  <2>5. low(i) + m * high(i) = word(i)
    BY <1>3
  <2> QED
    BY <2>2, <2>3, <2>4, <2>5
<1>14. Words(answer) = [i \in 1..n |-> answer[2 * i + 2] + m * answer[2 * i + 3]]
  BY <1>12 DEF Words
<1>15. Words(answer) = [i \in 1..n |-> word(i)]
  <2> HIDE DEF m
  <2> QED
    BY <1>13, <1>14
<1> QED
  BY <1>1, <1>15 DEF word, n

\* parse_sensor_test_data finds every panel, every sensor and every bit where the
\* pad has put it.
ReadingSeen(reading, fw) == [p \in Panels |-> Seen(reading[p], fw)]

LEMMA AnswerParsed ==
  ASSUME NEW asFor \in Nat, NEW reading \in Readings, NEW fw \in Nat
  PROVE  ParseSensorTest(Words(SensorAnswer(asFor, reading)), fw)
           = ReadingSeen(reading, fw)
<1> DEFINE words == Words(SensorAnswer(asFor, reading))
           n == DetailBits
<1>1. words = [i \in 1..n |-> WordOf(reading, i, PanelOrder)]
  BY AnswerWords
<1> HIDE DEF words
<1>2. n \in Nat
  BY BitsOfType DEF PanelDetails
<1>3. NumPanels \in Nat /\ reading \in [Panels -> PanelDetails]
  BY SensorTestAssumption, WireAssumption
<1> HIDE DEF n
<1>4. ASSUME NEW i \in 1..n PROVE words[i] \in Nat
  <2>1. PICK f : /\ SumOfBits(NumPanels,
                             [q \in 1..NumPanels |-> BitsOf(reading[q - 1])[i]], f)
                 /\ words[i] = f[NumPanels]
    BY <1>1, WordSum DEF n
  <2>2. f \in [0..NumPanels -> Nat] /\ NumPanels \in 0..NumPanels
    BY <1>3, <2>1 DEF SumOfBits
  <2> QED
    BY <2>1, <2>2
<1>5. words \in Seq(Nat) /\ Len(words) = n
  BY <1>1, <1>2, <1>4
<1>6. ASSUME NEW p \in Panels
      PROVE  Details(DetailsOf(words, p), fw) = Seen(reading[p], fw)
  <2> DEFINE bits == DetailsOf(words, p)
             s == BitsOf(reading[p])
  <2>1. p \in 0..(NumPanels - 1) /\ reading[p] \in PanelDetails
    BY <1>3 DEF Panels
  <2>2. ASSUME NEW b \in 0..(n - 1) PROVE bits[b] = s[b + 1]
    <3> DEFINE i == b + 1
               bit == [q \in 1..NumPanels |-> BitsOf(reading[q - 1])[i]]
    <3>1. i \in 1..n /\ b < n
      BY <1>2
    <3>2. bits[b] = (words[i] \div 2^p) % 2
      <4>1. b < Len(words)
        BY <1>5, <3>1
      <4> QED
        BY <4>1 DEF DetailsOf, n
    <3> HIDE DEF i, bits, s
    <3>3. PICK f : SumOfBits(NumPanels, bit, f) /\ words[i] = f[NumPanels]
      BY <1>1, <3>1, WordSum DEF n
    <3>4. bit[p + 1] = s[i]
      <4>1. p + 1 \in 1..NumPanels /\ (p + 1) - 1 = p
        BY <1>3, <2>1
      <4> QED
        BY <4>1 DEF s
    <3> HIDE DEF bit
    <3>5. (f[NumPanels] \div 2^p) % 2 = bit[p + 1]
      BY <1>3, <2>1, <3>3, SumBit
    <3>6. bits[b] = s[i]
      BY <3>2, <3>3, <3>4, <3>5
    <3> QED
      BY <3>6 DEF i
  <2>3. Reads(bits, s, n)
    BY <2>2 DEF Reads
  <2> HIDE DEF bits
  <2>4. Details(bits, fw) = Seen(reading[p], fw)
    BY <2>1, <2>3, DetailsRead DEF n, s
  <2> QED
    BY <2>4 DEF bits
<1>7. ParseSensorTest(words, fw) = [p \in Panels |-> Seen(reading[p], fw)]
  BY <1>6 DEF ParseSensorTest
<1> QED
  BY <1>7 DEF words, ReadingSeen


\* An answer with readings is one the pad has made of those.
Told(b, fw, seen) ==
  b # <<>> /\ b[1] = Sense =>
    \E asFor \in Nat, r \in Readings :
      b = SensorAnswer(asFor, r) /\ ReadingSeen(r, fw) \in seen

SenseInv ==
  /\ \A b \in answers : Told(b, Firmware[plugged], measured)
  /\ ReadingExact

LEMMA SenseLeft ==
  ASSUME NoLookalikes({Sense}), NEW p \in Pads, NEW reports \in LeftOver(p), NEW fw,
         NEW seen
  PROVE  \A b \in Ends(reports) : Told(b, fw, seen)
BY DEF NoLookalikes, Told

LEMMA SenseInit == Init /\ NoLookalikes({Sense}) => SenseInv
<1> SUFFICES ASSUME Init, NoLookalikes({Sense}) PROVE SenseInv
  OBVIOUS
<1>1. plugged \in Pads
  BY WireInit DEF WireInv, WireTypes
<1>2. PICK reports \in LeftOver(plugged) : answers = Ends(reports)
  BY DEF Init
<1>3. dev.reading = NoReading
  BY DEF Init, Forgotten
<1> QED
  BY <1>1, <1>2, <1>3, SenseLeft DEF SenseInv, ReadingExact

LEMMA SenseAnswered ==
  ASSUME SenseInv, NEW answer, AnswerWith(answer), measured \subseteq measured',
         Told(answer, Firmware[plugged], measured')
  PROVE  SenseInv'
<1>1. /\ answers' = answers \cup {answer} /\ dev' = dev /\ plugged' = plugged
  BY DEF AnswerWith, device
<1>2. \A b \in answers : Told(b, Firmware[plugged], measured')
  BY DEF SenseInv, Told
<1> QED
  BY <1>1, <1>2 DEF SenseInv, ReadingExact

LEMMA SenseRead ==
  ASSUME WireInv, SenseInv, PadRead PROVE SenseInv'
<1> DEFINE t == stored[plugged]
           a == IF Firmware[plugged] >= 5 THEN GetNew ELSE GetOld
           h == <<a, Len(t)>>
           b == ConfigAnswer(plugged)
<1>1. AnswerWith(b) /\ measured' = measured
  BY DEF PadRead
<1>2. t \in Seq(Nat) /\ Len(t) \in Nat /\ a \in Nat /\ a # Sense
  BY DEF WireInv, WireTypes, GetNew, GetOld, Sense
<1>3. b = h \o t
  BY DEF ConfigAnswer
<1> HIDE DEF t, a, b
<1>4. h \in Seq(Nat) /\ Len(h) = 2 /\ h[1] = a
  BY <1>2
<1> HIDE DEF h
<1>5. b[1] = a
  <2>1. 1 \in 1..Len(h)
    BY <1>4
  <2> QED
    BY <1>2, <1>3, <1>4, <2>1, Joined
<1>6. Told(b, Firmware[plugged], measured')
  BY <1>2, <1>5 DEF Told
<1> QED
  BY <1>1, <1>6, SenseAnswered

\* The pad answers with what its sensors are.
LEMMA SenseMade ==
  ASSUME WireInv, SenseInv, NEW r \in Readings, PadSense(r) PROVE SenseInv'
<1> DEFINE asFor == AtPad[2]
           b == SensorAnswer(asFor, r)
           seen == measured \cup {AsSeen(r)}
<1>1. AnswerWith(b) /\ measured' = seen
  BY DEF PadSense
<1>2. asFor \in Nat
  BY SenseFor DEF PadSense
<1>3. AsSeen(r) = ReadingSeen(r, Firmware[plugged])
  <2>1. r \in [Panels -> PanelDetails]
    BY WireAssumption
  <2> QED
    BY <2>1 DEF AsSeen, ReadingSeen, Seen
<1>4. ReadingSeen(r, Firmware[plugged]) \in seen
  BY <1>3
<1> HIDE DEF asFor, seen
<1>5. Told(b, Firmware[plugged], seen)
  BY <1>2, <1>4 DEF Told
<1>6. measured \subseteq seen
  BY DEF seen
<1> QED
  BY <1>1, <1>5, <1>6, SenseAnswered

\* Of the answers only those with readings change what the application gets.
LEMMA SenseHandled ==
  ASSUME NEW fw \in Nat, firmware = fw, NEW R, NEW d \in Devices(R), NEW G,
         d.reading \in G, NEW buf \in Answer, Told(buf, fw, G)
  PROVE  HandleOne(d, buf).reading \in G
<1>1. CASE buf[1] = Sense
  <2> DEFINE h == HandleSensorTestResponse(d, buf)
             parsed == ParseSensorTest(Words(buf), firmware)
  <2>1. HandleOne(d, buf) = h
    BY <1>1 DEF HandleOne, Sense, GetOld, GetNew
  <2>2. buf # <<>>
    BY DEF Answer
  <2>3. PICK asFor \in Nat, r \in Readings :
          buf = SensorAnswer(asFor, r) /\ ReadingSeen(r, fw) \in G
    BY <1>1, <2>2 DEF Told
  <2>4. parsed \in G
    BY <2>3, AnswerParsed
  <2>5. h.reading \in {d.reading, parsed}
    BY DEF HandleSensorTestResponse, Devices
  <2> HIDE DEF h, parsed
  <2> QED
    BY <2>1, <2>4, <2>5
<1>2. CASE buf[1] \in {GetOld, GetNew}
  <2>1. HandleOne(d, buf) = HandleConfigPacket(d, buf)
    BY <1>2 DEF HandleOne, Sense, GetOld, GetNew
  <2>2. HandleConfigPacket(d, buf).reading = d.reading
    BY DEF HandleConfigPacket, Devices
  <2> QED
    BY <2>1, <2>2
<1>3. CASE ~(buf[1] = Sense \/ buf[1] \in {GetOld, GetNew})
  BY <1>3 DEF HandleOne
<1> QED
  BY <1>1, <1>2, <1>3

LEMMA SenseHandledAll ==
  ASSUME NEW fw \in Nat, firmware = fw, NEW R0, NEW d \in Devices(R0), NEW G,
         d.reading \in G, NEW q \in Seq(Answer), \A i \in 1..Len(q) : Told(q[i], fw, G)
  PROVE  HandlePackets(d, q).reading \in G
<1> DEFINE R == R0 \cup {ParseSensorTest(Words(q[i]), firmware) : i \in 1..Len(q)}
           S == {e \in Devices(R) : e.reading \in G}
<1>1. d \in S
  BY DEF Devices
<1>2. ASSUME NEW v \in S, NEW i \in 1..Len(q) PROVE HandleOne(v, q[i]) \in S
  <2>1. q[i] \in Answer /\ ParseSensorTest(Words(q[i]), firmware) \in R
        /\ Told(q[i], fw, G)
    OBVIOUS
  <2>2. v \in Devices(R) /\ v.reading \in G
    OBVIOUS
  <2> HIDE DEF R
  <2>3. HandleOne(v, q[i]) \in Devices(R)
    BY <2>1, <2>2, HandleOneType
  <2>4. HandleOne(v, q[i]).reading \in G
    BY <2>1, <2>2, SenseHandled
  <2> QED
    BY <2>3, <2>4
<1>3. \A v \in S : \A i \in 1..Len(q) : HandleOne(v, q[i]) \in S
  BY <1>2
<1> HIDE DEF S
<1>4. PICK f : Handles(d, q, S, f)
  BY <1>1, <1>3, HandleFold
<1>5. f \in [0..Len(q) -> S] /\ HandlePackets(d, q) = f[Len(q)]
  BY <1>4 DEF Handles
<1>6. Len(q) \in 0..Len(q)
  <2>1. Len(q) \in Nat
    OBVIOUS
  <2> QED
    BY <2>1
<1>7. HandlePackets(d, q) \in S
  BY <1>5, <1>6
<1> QED
  BY <1>7 DEF S

LEMMA NothingHandled == ASSUME NEW d PROVE HandlePackets(d, <<>>) = d
<1> DEFINE S == {d}
<1>1. <<>> \in Seq({}) /\ Len(<<>>) = 0
  OBVIOUS
<1>2. \A v \in S : \A i \in 1..Len(<<>>) : HandleOne(v, <<>>[i]) \in S
  BY <1>1
<1>3. d \in S
  OBVIOUS
<1> HIDE DEF S
<1>4. PICK f : Handles(d, <<>>, S, f)
  BY <1>1, <1>2, <1>3, HandleFold
<1> QED
  BY <1>1, <1>4 DEF Handles

\* An update: before the device knows the version there is nothing to parse.
LEMMA SenseUpdate ==
  ASSUME WireInv, FirmwareInv, SenseInv, NEW put, NEW due, NEW timedOut,
         Update(put, due, timedOut)
  PROVE  SenseInv'
<1> DEFINE split == SplitBuffer(buffer)
           fl == IF timedOut THEN Nothing ELSE flight
           after == Handled([current |-> current, packets |-> <<>>, active |-> info,
                             info |-> info, firmware |-> firmware, flight |-> fl],
                            split.packets)
           d == [dev EXCEPT !.config = IF put THEN wanted ELSE @,
                            !.waiting = IF due THEN mode ELSE @]
           q == after.packets
           G == {NoReading} \cup measured
<1>1. /\ dev' = HandlePackets(d, q) /\ plugged' = plugged
      /\ measured' = measured /\ answers' = answers
  BY DEF Update, Handled
<1>2. /\ q \in Seq(Answer) /\ ToSet(q) \subseteq answers
      /\ ~info => q = <<>>
  <2> HIDE DEF fl
  <2> QED
    BY PacketsHandled DEF Awaited
<1>3. PICK R : dev \in Devices(R)
  BY DEF WireInv, WireTypes
<1>4. wanted \in Config /\ mode \in Modes \cup {Off} /\ Firmware[plugged] \in Nat
  BY WireAssumption DEF WireInv, WireTypes
<1>5. d \in Devices(R) /\ d.reading = dev.reading
  BY <1>3, <1>4 DEF Devices
<1>6. dev.reading \in G
  BY DEF SenseInv, ReadingExact
<1> HIDE DEF d, q, after, fl, split
<1>7. \A i \in 1..Len(q) : Told(q[i], Firmware[plugged], G)
  <2>1. \A i \in 1..Len(q) : q[i] \in answers
    BY <1>2 DEF ToSet
  <2> QED
    BY <2>1 DEF SenseInv, Told
<1> HIDE DEF G
<1>8. HandlePackets(d, q).reading \in G
  <2>1. CASE info
    <3>1. firmware = Firmware[plugged]
      BY <2>1 DEF FirmwareInv
    <3> QED
      BY <1>2, <1>4, <1>5, <1>6, <1>7, <3>1, SenseHandledAll
  <2>2. CASE ~info
    <3>1. HandlePackets(d, <<>>) = d
      BY NothingHandled
    <3> QED
      BY <1>2, <1>5, <1>6, <2>2, <3>1
  <2> QED
    BY <2>1, <2>2
<1>9. dev'.reading = NoReading \/ dev'.reading \in measured
  BY <1>1, <1>8 DEF G
<1> QED
  BY <1>1, <1>9 DEF SenseInv, ReadingExact

LEMMA SenseStep ==
  ASSUME NoLookalikes({Sense}), WireInv, FirmwareInv, SenseInv, [Next]_vars
  PROVE  SenseInv'
<1>1. CASE \/ \E f \in Changes, v \in 1..MaxSets : SetConfig(f, v)
           \/ \E m \in Modes \cup {Off} : SetSensorTestMode(m)
           \/ \E t \in Types, g \in DOMAIN Gifs : StartUpload(t, g)
           \/ UploadPacket \/ UploadPause \/ FinishUpload
           \/ PadIdentify \/ Stall \/ (\E n \in 1..Len(outbox) : Poll(n))
           \/ UNCHANGED vars
  <2>1. /\ answers' = answers /\ measured' = measured /\ plugged' = plugged
        /\ dev' = dev
    BY <1>1 DEF SetConfig, SetSensorTestMode, StartUpload, UploadPacket, UploadPause,
       FinishUpload, PadIdentify, Stall, Poll, vars, device, usb, history
  <2> QED
    BY <2>1 DEF SenseInv, ReadingExact
<1>2. ASSUME NEW put \in BOOLEAN, NEW due \in BOOLEAN, NEW timedOut \in BOOLEAN,
             Update(put, due, timedOut)
      PROVE  SenseInv'
  BY <1>2, SenseUpdate
<1>3. CASE PadRead
  BY <1>3, SenseRead
<1>4. CASE PadStore \/ \E missed \in BOOLEAN : PadUpload(missed)
  <2>1. AnswerWith(<<>>) /\ measured' = measured
    BY <1>4 DEF PadStore, PadUpload
  <2>2. Told(<<>>, Firmware[plugged], measured')
    BY DEF Told
  <2> QED
    BY <2>1, <2>2, SenseAnswered
<1>5. ASSUME NEW r \in Readings, PadSense(r) PROVE SenseInv'
  BY <1>5, SenseMade
<1>6. ASSUME NEW pad \in Pads, Replug(pad) PROVE SenseInv'
  <2>1. /\ dev' = [dev EXCEPT !.have = FALSE] /\ plugged' = pad
        /\ measured' = measured
    BY <1>6 DEF Replug
  <2>2. PICK reports \in LeftOver(pad) : answers' = Ends(reports)
    BY <1>6 DEF Replug
  <2>3. dev'.reading = dev.reading
    <3>1. PICK R : dev \in Devices(R)
      BY DEF WireInv, WireTypes
    <3> QED
      BY <2>1, <3>1 DEF Devices
  <2>4. \A b \in Ends(reports) : Told(b, Firmware[pad], measured)
    BY SenseLeft
  <2> QED
    BY <2>1, <2>2, <2>3, <2>4 DEF SenseInv, ReadingExact
<1> QED
  BY <1>1, <1>2, <1>3, <1>4, <1>5, <1>6 DEF Next

\* The application never gets a reading that no pad has made: not one put
\* together of two answers, not one of words in the wrong order, not one of
\* another panel or sensor, not one parsed for another firmware
\* (handle_sensor_test_response, parse_sensor_test_data).  Assumed is that the
\* end of an answer left over from before does not begin like one with readings.
THEOREM ReadingExactHolds ==
  Spec /\ []NoLookalikes({Sense}) => []ReadingExact
<1>1. Init /\ NoLookalikes({Sense}) => SenseInv
  BY SenseInit
<1>2. NoLookalikes({Sense}) /\ WireInv /\ FirmwareInv /\ SenseInv /\ [Next]_vars
        => SenseInv'
  BY SenseStep
<1>3. SenseInv => ReadingExact
  BY DEF SenseInv
<1> QED
  BY <1>1, <1>2, <1>3, WireInvariant, FirmwareKnown, PTL DEF Spec


-----------------------------------------------------------------------------
(* What the panels show of an animation *)

\* Places that are numbered row by row.
LEMMA Ranked ==
  ASSUME NEW n \in Nat, NEW S, NEW h \in [1..n -> S],
         \A s \in S : \E k \in 1..n : s = h[k],
         \A i, k \in 1..n : Before(h[i], h[k]) <=> i < k
  PROVE  InOrder(S) = h
<1>1. \A i, k \in 1..n : h[i] = h[k] => i = k
  <2> SUFFICES ASSUME NEW i \in 1..n, NEW k \in 1..n, h[i] = h[k], i # k
               PROVE FALSE
    OBVIOUS
  <2>1. ~(i < i) /\ ~(k < k) /\ (i < k \/ k < i)
    OBVIOUS
  <2> QED
    BY <2>1
<1>2. ASSUME NEW m \in 0..n
      PROVE  /\ IsFiniteSet({h[i] : i \in 1..m})
             /\ Cardinality({h[i] : i \in 1..m}) = m
  <2> DEFINE T == {h[i] : i \in 1..m}
             g == [i \in 1..m |-> h[i]]
  <2>1. IsFiniteSet(1..m) /\ Cardinality(1..m) = m
    BY FS_Interval
  <2>2. \A i \in 1..m : i \in 1..n
    OBVIOUS
  <2>3. g \in Bijection(1..m, T)
    <3>1. g \in [1..m -> T]
      OBVIOUS
    <3>2. \A i, k \in 1..m : g[i] = g[k] => i = k
      BY <1>1, <2>2
    <3>3. \A t \in T : \E i \in 1..m : g[i] = t
      OBVIOUS
    <3> QED
      BY <3>1, <3>2, <3>3 DEF Bijection, Injection, Surjection, IsInjective
  <2>4. ExistsBijection(1..m, T)
    BY <2>3 DEF ExistsBijection
  <2> QED
    BY <2>1, <2>4, FS_Bijection
<1>3. S = {h[i] : i \in 1..n}
  OBVIOUS
<1>4. Cardinality(S) = n
  <2>1. n \in 0..n
    OBVIOUS
  <2> QED
    BY <1>2, <1>3, <2>1
<1>5. ASSUME NEW k \in 1..n
      PROVE  Cardinality({z \in S : Before(z, h[k])}) = k - 1
  <2>1. {z \in S : Before(z, h[k])} = {h[i] : i \in 1..(k - 1)}
    <3>1. ASSUME NEW z \in S, Before(z, h[k]) PROVE z \in {h[i] : i \in 1..(k - 1)}
      <4>1. PICK i \in 1..n : z = h[i]
        OBVIOUS
      <4>2. i < k
        BY <3>1, <4>1
      <4>3. i \in 1..(k - 1)
        BY <4>2
      <4> QED
        BY <4>1, <4>3
    <3>2. ASSUME NEW i \in 1..(k - 1) PROVE h[i] \in S /\ Before(h[i], h[k])
      <4>1. i \in 1..n /\ i < k
        OBVIOUS
      <4> QED
        BY <4>1
    <3> QED
      BY <3>1, <3>2
  <2>2. k - 1 \in 0..n
    OBVIOUS
  <2> QED
    BY <1>2, <2>1, <2>2
<1>6. ASSUME NEW k \in 1..n
      PROVE  (CHOOSE xy \in S : Cardinality({z \in S : Before(z, xy)}) = k - 1) = h[k]
  <2>1. h[k] \in S
    OBVIOUS
  <2>2. ASSUME NEW xy \in S, Cardinality({z \in S : Before(z, xy)}) = k - 1
        PROVE  xy = h[k]
    <3>1. PICK i \in 1..n : xy = h[i]
      OBVIOUS
    <3>2. i - 1 = k - 1
      BY <1>5, <2>2, <3>1
    <3>3. i = k
      BY <3>2
    <3> QED
      BY <3>1, <3>3
  <2> QED
    BY <1>5, <2>1, <2>2
<1>7. InOrder(S) = [k \in 1..n |->
                      CHOOSE xy \in S : Cardinality({z \in S : Before(z, xy)}) = k - 1]
  BY <1>4 DEF InOrder
<1>8. InOrder(S) = [k \in 1..n |-> h[k]]
  BY <1>6, <1>7
<1> QED
  BY <1>8


\* Numbers in two places.
LEMMA Places ==
  ASSUME NEW n \in Nat \ {0}, NEW a \in 0..(n - 1), NEW b \in Nat,
         NEW c \in 0..(n - 1), NEW d \in Nat
  PROVE  (b < d \/ (b = d /\ a < c)) <=> n * b + a < n * d + c
<1>1. ASSUME NEW x \in Nat, NEW y \in Nat, x < y
      PROVE  n * x \in Nat /\ n * y \in Nat /\ n * x + n <= n * y
  <2> DEFINE e == y - x - 1
  <2>1. e \in Nat /\ y = x + 1 + e
    BY <1>1
  <2> HIDE DEF e
  <2>2. n * y = n * x + n + n * e /\ n * e \in Nat /\ n * x \in Nat
    BY <2>1
  <2> QED
    BY <2>2
<1>2. CASE b < d
  <2>1. n * b \in Nat /\ n * d \in Nat /\ n * b + n <= n * d
    BY <1>1, <1>2
  <2> QED
    BY <1>2, <2>1
<1>3. CASE d < b
  <2>1. n * b \in Nat /\ n * d \in Nat /\ n * d + n <= n * b
    BY <1>1, <1>3
  <2> QED
    BY <1>3, <2>1
<1>4. CASE b = d
  <2>1. n * b \in Nat
    OBVIOUS
  <2> QED
    BY <1>4, <2>1
<1> QED
  BY <1>2, <1>3, <1>4

\* The coordinates of a panel's LEDs: every other one, without the last.
Within(z, c, o, odd) ==
  z \div (2 * o) = c /\ z % 2 = odd /\ z % (2 * o) < 2 * o - 1

EveryOther(z, c, o, odd) ==
  \E a \in 0..(o - odd - 1) : z = c * 2 * o + 2 * a + odd

LEMMA Coordinate ==
  ASSUME NEW o \in Nat, o >= 2, NEW c \in Nat, NEW odd \in {0, 1}, NEW z \in Nat
  PROVE  Within(z, c, o, odd) <=> EveryOther(z, c, o, odd)
<1> DEFINE w == 2 * o
           m == o * c
<1>1. w \in Nat \ {0} /\ m \in Nat /\ w * c = 2 * m /\ c * 2 * o = 2 * m
  OBVIOUS
<1>2. ASSUME z \div w = c, z % 2 = odd, z % w < w - 1
      PROVE  \E a \in 0..(o - odd - 1) : z = c * 2 * o + 2 * a + odd
  <2> DEFINE u == z % w
             h == z \div 2
             a == h - m
  <2>1. u \in 0..(w - 1) /\ z = w * c + u
    <3> HIDE DEF w
    <3> QED
      BY <1>1, <1>2, Divided
  <2>2. h \in Nat /\ z = 2 * h + odd
    BY <1>2
  <2> HIDE DEF u, h, m
  <2>3. u = 2 * a + odd /\ a \in Int
    BY <1>1, <2>1, <2>2
  <2> HIDE DEF a
  <2>4. u < w - 1
    BY <1>2 DEF u
  <2>5. a \in 0..(o - odd - 1)
    BY <2>1, <2>3, <2>4
  <2>6. z = c * 2 * o + 2 * a + odd
    BY <1>1, <2>1, <2>3, <2>5
  <2> QED
    BY <2>5, <2>6
<1>3. ASSUME NEW a \in 0..(o - odd - 1), z = c * 2 * o + 2 * a + odd
      PROVE  z \div w = c /\ z % 2 = odd /\ z % w < w - 1
  <2> DEFINE u == 2 * a + odd
             h == m + a
  <2> HIDE DEF m
  <2>1. u \in 0..(w - 1) /\ u < w - 1 /\ h \in Nat
    BY <1>1
  <2>2. z = w * c + u /\ z = 2 * h + odd
    BY <1>1, <1>3
  <2> HIDE DEF u, h, w
  <2>3. z \div w = c /\ z % w = u
    BY <1>1, <2>1, <2>2, Quotient
  <2>4. z % 2 = odd
    BY <2>1, <2>2
  <2> QED
    BY <2>1, <2>3, <2>4
<1> QED
  BY <1>2, <1>3 DEF Within, EveryOther

LEMMA QuotientGrows ==
  ASSUME NEW a \in Nat, NEW b \in Nat, a <= b, NEW k \in Nat \ {0}
  PROVE  a \div k <= b \div k
<1> DEFINE q == a \div k
           r == a % k
           s == b \div k
           t == b % k
<1>1. q \in Nat /\ r \in 0..(k - 1) /\ a = k * q + r
  BY Divided
<1>2. s \in Nat /\ t \in 0..(k - 1) /\ b = k * s + t
  BY Divided
<1> HIDE DEF q, r, s, t
<1>3. ASSUME s < q PROVE FALSE
  <2>1. k * s + t < k * q + r
    BY <1>1, <1>2, <1>3, Places
  <2> QED
    BY <1>1, <1>2, <2>1
<1>4. q <= s
  BY <1>1, <1>2, <1>3
<1> QED
  BY <1>4 DEF q, s


\* The places of a panel's outer (odd = 0) or inner LEDs, in the order of the
\* SDK, and the places on the picture that are meant.
Square(panel, odd) ==
  LET side == OuterSide - odd
      x == (panel % PanelColumns) * 2 * OuterSide
      y == (panel \div PanelColumns) * 2 * OuterSide
  IN  [k \in 1..(side * side) |->
        <<x + 2 * ((k - 1) % side) + odd, y + 2 * ((k - 1) \div side) + odd>>]

LedPlaces(panel, odd) ==
  {xy \in (0..(Width - 1)) \X (0..(Height - 1)) :
     /\ xy[1] \div (2 * OuterSide) = panel % PanelColumns
     /\ xy[2] \div (2 * OuterSide) = panel \div PanelColumns
     /\ xy[1] % 2 = odd /\ xy[2] % 2 = odd
     /\ xy[1] % (2 * OuterSide) < 2 * OuterSide - 1
     /\ xy[2] % (2 * OuterSide) < 2 * OuterSide - 1}

LEMMA LedPlacesFound ==
  ASSUME NEW panel \in APanel, NEW odd \in {0, 1}
  PROVE  InOrder(LedPlaces(panel, odd)) = Square(panel, odd)
<1> DEFINE o == OuterSide
           side == o - odd
           c == panel % PanelColumns
           r == panel \div PanelColumns
           x == c * 2 * o
           y == r * 2 * o
           n == side * side
           S == LedPlaces(panel, odd)
           D == (0..(Width - 1)) \X (0..(Height - 1))
           px(a) == x + 2 * a + odd
           py(b) == y + 2 * b + odd
           h == [k \in 1..n |-> <<px((k - 1) % side), py((k - 1) \div side)>>]
<1>1. /\ o \in Nat /\ o >= 2 /\ side \in Nat \ {0} /\ odd \in Nat
      /\ PanelColumns \in Nat \ {0} /\ panel \in Nat /\ PanelCount - 1 \in Nat
      /\ panel <= PanelCount - 1
  BY UploadAssumption, LedsNat DEF APanel
<1>2. c \in 0..(PanelColumns - 1) /\ r \in Nat
  BY <1>1, Divided
<1>3. r <= (PanelCount - 1) \div PanelColumns /\ (PanelCount - 1) \div PanelColumns \in Nat
  BY <1>1, QuotientGrows, Divided
<1>4. n \in Nat
  BY <1>1
<1> DEFINE Q == (PanelCount - 1) \div PanelColumns
<1>5. /\ x \in Nat /\ y \in Nat
      /\ x + 2 * o - 1 <= Width /\ y + 2 * o <= Height
      /\ Width \in Nat /\ Height \in Nat
  <2> DEFINE w == 2 * o
             m == PanelColumns
  <2>1. Width = m * 2 * o - 1 /\ Height = (Q + 1) * 2 * o
    BY DEF Width, Height
  <2> HIDE DEF c, r, Q, m, o
  <2>2. w \in Nat /\ w >= 2 /\ m \in Nat /\ Q \in Nat /\ c \in Nat /\ r \in Nat
        /\ c + 1 <= m /\ r + 1 <= Q + 1 /\ m >= 1
    BY <1>1, <1>2, <1>3 DEF m, Q
  <2>3. /\ m * 2 * o = w * m /\ (Q + 1) * 2 * o = w * (Q + 1)
        /\ x = w * c /\ y = w * r
    BY <1>1, <2>2
  <2> HIDE DEF w, x, y
  <2>4. \A i, k \in Nat : i + 1 <= k => w * i \in Nat /\ w * k \in Nat /\ w * i + w <= w * k
    <3> SUFFICES ASSUME NEW i \in Nat, NEW k \in Nat, i + 1 <= k
                 PROVE  w * i \in Nat /\ w * k \in Nat /\ w * i + w <= w * k
      OBVIOUS
    <3> DEFINE d == k - i - 1
    <3>1. d \in Nat /\ k = i + 1 + d
      OBVIOUS
    <3> HIDE DEF d
    <3>2. w * k = w * i + w + w * d /\ w * i \in Nat /\ w * d \in Nat
      BY <2>2, <3>1
    <3> QED
      BY <2>2, <3>2
  <2>5. /\ w * c \in Nat /\ w * m \in Nat /\ w * c + w <= w * m
        /\ w * r \in Nat /\ w * (Q + 1) \in Nat /\ w * r + w <= w * (Q + 1)
    <3>1. Q + 1 \in Nat
      BY <2>2
    <3> QED
      BY <2>2, <2>4, <3>1
  <2>6. w * m >= 2
    BY <2>2, <2>5
  <2> DEFINE A == w * m
             B == w * (Q + 1)
             C == w * c
             E == w * r
  <2>7. /\ A \in Nat /\ B \in Nat /\ C \in Nat /\ E \in Nat
        /\ C + w <= A /\ E + w <= B /\ Width = A - 1 /\ Height = B
        /\ x = C /\ y = E /\ A >= 2
    BY <2>1, <2>3, <2>5, <2>6
  <2> HIDE DEF A, B, C, E
  <2> QED
    BY <2>2, <2>7 DEF w
<1> HIDE DEF c, r, x, y, o
<1>6. side <= o /\ (odd = 1 => side <= o - 1)
  BY <1>1
<1>7. ASSUME NEW a \in 0..(side - 1), NEW b \in 0..(side - 1)
      PROVE  px(a) \in 0..(Width - 1) /\ py(b) \in 0..(Height - 1)
  BY <1>1, <1>5, <1>6
<1>8. ASSUME NEW xy \in D
      PROVE  xy \in S <=> /\ \E a \in 0..(side - 1) : xy[1] = px(a)
                          /\ \E b \in 0..(side - 1) : xy[2] = py(b)
  <2>1. xy[1] \in Nat /\ xy[2] \in Nat
    BY <1>5
  <2>2. (xy[1] \div (2 * o) = c /\ xy[1] % 2 = odd /\ xy[1] % (2 * o) < 2 * o - 1)
          <=> \E a \in 0..(o - odd - 1) : xy[1] = c * 2 * o + 2 * a + odd
    <3>1. xy[1] \in Nat /\ o \in Nat /\ o >= 2 /\ odd \in {0, 1} /\ c \in Nat
      BY <1>1, <1>2, <2>1
    <3>2. Within(xy[1], c, o, odd) <=> EveryOther(xy[1], c, o, odd)
      BY <3>1, Coordinate
    <3> QED
      BY <3>2 DEF Within, EveryOther
  <2>3. (xy[2] \div (2 * o) = r /\ xy[2] % 2 = odd /\ xy[2] % (2 * o) < 2 * o - 1)
          <=> \E a \in 0..(o - odd - 1) : xy[2] = r * 2 * o + 2 * a + odd
    <3>1. xy[2] \in Nat /\ o \in Nat /\ o >= 2 /\ odd \in {0, 1} /\ r \in Nat
      BY <1>1, <1>2, <2>1
    <3>2. Within(xy[2], r, o, odd) <=> EveryOther(xy[2], r, o, odd)
      BY <3>1, Coordinate
    <3> QED
      BY <3>2 DEF Within, EveryOther
  <2>4. xy \in S <=> /\ xy[1] \div (2 * o) = c /\ xy[2] \div (2 * o) = r
                     /\ xy[1] % 2 = odd /\ xy[2] % 2 = odd
                     /\ xy[1] % (2 * o) < 2 * o - 1 /\ xy[2] % (2 * o) < 2 * o - 1
    BY DEF LedPlaces, o, c, r
  <2> QED
    BY <2>2, <2>3, <2>4 DEF x, y
<1>9. ASSUME NEW k \in 1..n
      PROVE  /\ (k - 1) % side \in 0..(side - 1)
             /\ (k - 1) \div side \in 0..(side - 1)
             /\ k - 1 = side * ((k - 1) \div side) + ((k - 1) % side)
  <2> DEFINE m == k - 1
             q == m \div side
             e == m % side
  <2>1. m \in Nat /\ m < n
    BY <1>4
  <2> HIDE DEF m
  <2>2. q \in Nat /\ e \in 0..(side - 1) /\ m = side * q + e
    <3> HIDE DEF side
    <3> QED
      BY <1>1, <2>1, Divided
  <2> HIDE DEF q, e
  <2>3. q < side
    <3>1. ASSUME ~(q < side) PROVE FALSE
      <4> DEFINE d == q - side
      <4> HIDE DEF side
      <4>1. d \in Nat /\ q = side + d
        BY <1>1, <2>2, <3>1
      <4> HIDE DEF d
      <4>2. side * q = side * side + side * d /\ side * d \in Nat /\ side * side \in Nat
        BY <1>1, <4>1
      <4> QED
        BY <1>1, <2>1, <2>2, <4>2
    <3> QED
      BY <3>1
  <2>4. q \in 0..(side - 1)
    BY <1>1, <2>2, <2>3
  <2> QED
    BY <2>2, <2>4 DEF q, e, m
<1> HIDE DEF n
<1>10. ASSUME NEW k \in 1..n PROVE h[k] \in S
  <2> DEFINE a == (k - 1) % side
             b == (k - 1) \div side
  <2>1. a \in 0..(side - 1) /\ b \in 0..(side - 1)
    BY <1>9
  <2>2. h[k] = <<px(a), py(b)>>
    OBVIOUS
  <2> HIDE DEF a, b, h, px, py
  <2>3. h[k] \in D
    BY <1>7, <2>1, <2>2
  <2>4. h[k][1] = px(a) /\ h[k][2] = py(b)
    BY <2>2
  <2> QED
    BY <1>8, <2>1, <2>3, <2>4
<1>11. ASSUME NEW xy \in S PROVE \E k \in 1..n : xy = h[k]
  <2>1. xy \in D
    BY DEF LedPlaces
  <2>2. PICK a \in 0..(side - 1) : xy[1] = px(a)
    BY <1>8, <2>1
  <2>3. PICK b \in 0..(side - 1) : xy[2] = py(b)
    BY <1>8, <2>1
  <2> DEFINE z == side * b + a
             k == z + 1
  <2>4. z \div side = b /\ z % side = a
    <3> HIDE DEF side
    <3> QED
      BY <1>1, Quotient
  <2>5. k \in 1..n /\ k - 1 = z
    <3> HIDE DEF side
    <3> DEFINE d == side - 1 - b
    <3>1. d \in Nat /\ side = b + 1 + d
      BY <1>1
    <3> HIDE DEF d
    <3>2. side * side = side * b + side + side * d /\ side * b \in Nat /\ side * d \in Nat
      BY <1>1, <3>1
    <3> DEFINE B == side * b
               E == side * d
    <3>3. n = B + side + E /\ B \in Nat /\ E \in Nat /\ z = B + a
      BY <3>2 DEF n
    <3> HIDE DEF B, E, z
    <3> QED
      BY <1>1, <3>3
  <2> HIDE DEF z, k
  <2>6. h[k] = <<px(a), py(b)>>
    BY <2>4, <2>5
  <2> HIDE DEF px, py, h
  <2>7. xy = <<xy[1], xy[2]>>
    BY <2>1
  <2> QED
    BY <2>2, <2>3, <2>5, <2>6, <2>7
<1>12. ASSUME NEW i \in 1..n, NEW k \in 1..n
       PROVE  Before(h[i], h[k]) <=> i < k
  <2> DEFINE a == (i - 1) % side
             b == (i - 1) \div side
             d == (k - 1) % side
             e == (k - 1) \div side
  <2>1. /\ a \in 0..(side - 1) /\ b \in 0..(side - 1) /\ i - 1 = side * b + a
        /\ d \in 0..(side - 1) /\ e \in 0..(side - 1) /\ k - 1 = side * e + d
    BY <1>9
  <2>2. h[i] = <<px(a), py(b)>> /\ h[k] = <<px(d), py(e)>>
    OBVIOUS
  <2> HIDE DEF a, b, d, e, h
  <2>3. (b < e \/ (b = e /\ a < d)) <=> side * b + a < side * e + d
    <3> HIDE DEF side
    <3> QED
      BY <1>1, <2>1, Places
  <2>4. Before(h[i], h[k]) <=> (py(b) < py(e) \/ (py(b) = py(e) /\ px(a) < px(d)))
    <3> HIDE DEF px, py
    <3>1. /\ h[i][1] = px(a) /\ h[i][2] = py(b) /\ h[k][1] = px(d) /\ h[k][2] = py(e)
      BY <2>2
    <3> QED
      BY <3>1 DEF Before
  <2>5. /\ py(b) < py(e) <=> b < e
        /\ py(b) = py(e) <=> b = e
        /\ px(a) < px(d) <=> a < d
    BY <1>1, <1>5, <2>1
  <2>6. i < k <=> i - 1 < k - 1
    BY <1>4
  <2> QED
    BY <2>1, <2>3, <2>4, <2>5, <2>6
<1>13. h \in [1..n -> S]
  <2> HIDE DEF px, py, S
  <2> QED
    BY <1>10
<1> HIDE DEF h, S
<1>14. InOrder(S) = h
  BY <1>4, <1>11, <1>12, <1>13, Ranked
<1> QED
  BY <1>14 DEF Square, S, h, n, x, y, c, r, o


\* The places of all LEDs of a panel, as extract_panel goes through them.
LEMMA PanelPlaces ==
  ASSUME NEW panel \in APanel
  PROVE  LET places == InOrder(LedPlaces(panel, 0)) \o InOrder(LedPlaces(panel, 1))
         IN  /\ DOMAIN places = 1..NumLeds
             /\ \A pixels : \A led \in 1..NumLeds :
                  ExtractPanel(pixels, panel)[led] = pixels[places[led]]
<1> DEFINE o == OuterSide
           q == o - 1
           x == (panel % PanelColumns) * 2 * o
           y == (panel \div PanelColumns) * 2 * o
           a == Square(panel, 0)
           b == Square(panel, 1)
           places == a \o b
           m == o * o
           n == q * q
<1>1. /\ o \in Nat \ {0} /\ q \in Nat \ {0} /\ m \in Nat /\ n \in Nat
      /\ OuterLeds = m /\ NumLeds = m + n
  <2>1. o \in Nat \ {0} /\ q \in Nat \ {0}
    BY LedsNat
  <2> HIDE DEF q, o
  <2>2. m \in Nat /\ n \in Nat
    BY <2>1
  <2> QED
    BY <2>1, <2>2 DEF OuterLeds, NumLeds, o, q
<1>2. x \in Nat /\ y \in Nat
  <2> DEFINE c == panel % PanelColumns
             r == panel \div PanelColumns
  <2>1. panel \in Nat /\ PanelColumns \in Nat \ {0}
    BY UploadAssumption DEF APanel
  <2>2. c \in Nat /\ r \in Nat
    BY <2>1, Divided
  <2> HIDE DEF c, r, o
  <2> DEFINE c2 == c * 2
             r2 == r * 2
  <2>3. c2 \in Nat /\ r2 \in Nat /\ o \in Nat
    BY <1>1, <2>2
  <2> HIDE DEF c2, r2
  <2>4. c2 * o \in Nat /\ r2 * o \in Nat
    BY <2>3
  <2> QED
    BY <2>4 DEF c2, r2, c, r
<1>3. InOrder(LedPlaces(panel, 0)) = a /\ InOrder(LedPlaces(panel, 1)) = b
  BY LedPlacesFound
<1>4. a = [k \in 1..m |-> <<x + 2 * ((k - 1) % o), y + 2 * ((k - 1) \div o)>>]
  <2> DEFINE f(k) == <<x + 2 * ((k - 1) % o), y + 2 * ((k - 1) \div o)>>
             g(k) == <<x + 2 * ((k - 1) % o) + 0, y + 2 * ((k - 1) \div o) + 0>>
  <2>1. o - 0 = o
    BY <1>1
  <2>2. a = [k \in 1..m |-> g(k)]
    BY <2>1 DEF Square
  <2>3. ASSUME NEW k \in 1..m PROVE f(k) = g(k)
    <3>1. k - 1 \in Nat
      BY <1>1
    <3>2. (k - 1) % o \in Nat /\ (k - 1) \div o \in Nat
      <4> HIDE DEF o
      <4> QED
        BY <1>1, <3>1, Divided
    <3> HIDE DEF x, y
    <3> QED
      BY <1>2, <3>2
  <2> HIDE DEF f, g, a, m
  <2>4. a = [k \in 1..m |-> f(k)]
    BY <2>2, <2>3
  <2> QED
    BY <2>4 DEF f
<1>5. b = [k \in 1..n |-> <<x + 2 * ((k - 1) % q) + 1, y + 2 * ((k - 1) \div q) + 1>>]
  BY DEF Square
<1> HIDE DEF a, b, m, n
<1>6. Listed(a) /\ Len(a) = m /\ Listed(b) /\ Len(b) = n
  <2>1. a = [k \in 1..m |-> a[k]] /\ b = [k \in 1..n |-> b[k]]
    BY <1>4, <1>5
  <2>2. Listed(a) /\ Listed(b)
    BY <1>1, <2>1, ListedFunction
  <2>3. DOMAIN a = 1..m /\ DOMAIN b = 1..n
    BY <1>4, <1>5
  <2>4. Len(a) = m
    BY <1>1, <2>2, <2>3 DEF Listed
  <2>5. Len(b) = n
    BY <1>1, <2>2, <2>3 DEF Listed
  <2> QED
    BY <2>2, <2>4, <2>5
<1>7. /\ Len(places) = m + n /\ Listed(places)
      /\ \A i \in 1..m : places[i] = a[i]
      /\ \A i \in 1..n : places[m + i] = b[i]
  <2>1. Listed(a) /\ Listed(b)
    BY <1>6
  <2>2. Listed(places)
    BY <2>1, ListedConcat
  <2>3. /\ Len(places) = Len(a) + Len(b)
        /\ \A i \in 1..Len(a) : places[i] = a[i]
        /\ \A i \in 1..Len(b) : places[Len(a) + i] = b[i]
    BY <2>1, ListedPlaces
  <2> HIDE DEF places
  <2> QED
    BY <1>6, <2>2, <2>3
<1> HIDE DEF places
<1>8. DOMAIN places = 1..NumLeds
  BY <1>1, <1>7 DEF Listed
<1>9. ASSUME NEW pixels, NEW led \in 1..NumLeds
      PROVE  ExtractPanel(pixels, panel)[led] = pixels[places[led]]
  <2>1. ExtractPanel(pixels, panel)[led] =
          IF led <= m
          THEN pixels[<<x + 2 * ((led - 1) % o), y + 2 * ((led - 1) \div o)>>]
          ELSE pixels[<<x + 2 * ((led - m - 1) % q) + 1,
                        y + 2 * ((led - m - 1) \div q) + 1>>]
    BY <1>1 DEF ExtractPanel
  <2> HIDE DEF x, y, o, q
  <2>2. CASE led <= m
    <3>1. led \in 1..m
      BY <1>1, <2>2
    <3> QED
      BY <1>4, <1>7, <2>1, <2>2, <3>1
  <2>3. CASE ~(led <= m)
    <3> DEFINE i == led - m
    <3>1. i \in 1..n /\ m + i = led /\ led - m - 1 = i - 1
      BY <1>1, <2>3
    <3> HIDE DEF i
    <3>2. places[led] = b[i]
      BY <1>7, <3>1
    <3> QED
      BY <1>5, <2>1, <2>3, <3>1, <3>2
  <2> QED
    BY <2>2, <2>3
<1> QED
  BY <1>3, <1>8, <1>9 DEF places

\* A panel that has its drawing in its memory shows the picture once the
\* schedule is in force: extraction, palette, packing and timing, undone by the
\* pad, are the animation as it was drawn.
THEOREM ShownIsPicture ==
  ASSUME 2 * Slots <= 255, NEW gif, IsGif(gif), ~Refused(gif), NEW type,
         NEW panel \in APanel,
         Holds(memory[panel], Drawing(gif, type, panel)),
         Holds(timing[type].shown, Schedule(gif, type))
  PROVE  Shown(panel, type) = Picture(gif, panel)
<1> DEFINE n == Len(gif)
           S == 2 * Slots
           first == FirstGraphic(type)
           cells == timing[type].shown
           bytes == TimingBytes(gif, type)
           places == InOrder(LedPlaces(panel, 0)) \o InOrder(LedPlaces(panel, 1))
           marked == {f \in DOMAIN gif : gif[f].marked} \ {1}
           loop == IF marked = {} THEN 0 ELSE Min(marked) - 1
           lengths == {i \in 0..S : i = S \/ cells[1 + i] = NoFrame}
           shown(f) == [leds |-> LedColors(panel, type, cells[f]), ticks |-> cells[S + f]]
           drawn(f) == [leds |-> [i \in DOMAIN places |->
                                   ScaleColor(gif[f].pixels[places[i]])],
                        ticks |-> Delay(gif[f].ticks)]
<1>1. /\ n \in Nat /\ DOMAIN gif = 1..n /\ Slots \in Nat \ {0} /\ n <= Slots
      /\ DOMAIN gif[1].pixels = (0..(Width - 1)) \X (0..(Height - 1))
      /\ Len(Palette(PanelFrames(gif, panel))) <= MaxColors
  <2>1. n \in Nat /\ DOMAIN gif = 1..n /\ Slots \in Nat \ {0}
    BY UploadAssumption DEF IsGif
  <2>2. ~(n > Slots)
    BY DEF Refused
  <2>3. DOMAIN gif[1].pixels = (0..(Width - 1)) \X (0..(Height - 1))
    BY DEF Refused
  <2>4. Len(Palette(PanelFrames(gif, panel))) \in Nat
    BY PaletteFacts
  <2>5. ~(Len(Palette(PanelFrames(gif, panel))) > MaxColors)
    BY DEF Refused, APanel
  <2>6. MaxColors \in Nat
    BY UploadAssumption
  <2> QED
    BY <2>1, <2>2, <2>3, <2>4, <2>5, <2>6
<1>2. /\ S \in Nat /\ n < S /\ 4 * Slots = S + S /\ S <= 255
      /\ first \in Nat /\ first + Slots <= S
  <2>1. TypeIndex(type) \in {0, 1}
    BY Sizes
  <2>2. first = 0 \/ first = Slots
    BY <1>1, <2>1 DEF FirstGraphic
  <2> QED
    BY <1>1, <2>2
<1>3. /\ bytes[1] = LoopFrame(gif)
      /\ \A i \in 1..S :
           /\ bytes[1 + i] = IF i <= n THEN first + i - 1 ELSE NoFrame
           /\ bytes[1 + S + i] = IF i <= n THEN Delay(gif[i].ticks) ELSE 0
  BY TimingFacts
<1>4. \A x \in 0..(S + S) : cells[x] = bytes[x + 1]
  <2>1. Schedule(gif, type) = [x \in 0..(S + S) |-> bytes[x + 1]]
    BY <1>2 DEF Schedule
  <2> QED
    BY <2>1 DEF Holds
<1>5. LoopFrame(gif) = loop
  BY LoopFound
<1> HIDE DEF n, S, first, bytes, loop
<1>6. cells[0] = loop
  <2>1. 0 \in 0..(S + S) /\ 0 + 1 = 1
    BY <1>2
  <2> QED
    BY <1>3, <1>4, <1>5, <2>1
<1>7. ASSUME NEW i \in 0..(S - 1)
      PROVE  cells[1 + i] = IF i < n THEN first + i ELSE NoFrame
  <2>1. i + 1 \in 1..S /\ 1 + i \in 0..(S + S) /\ (1 + i) + 1 = 1 + (i + 1)
    BY <1>2
  <2>2. cells[1 + i] = bytes[1 + (i + 1)]
    BY <1>4, <2>1
  <2>3. bytes[1 + (i + 1)] = IF i + 1 <= n THEN first + (i + 1) - 1 ELSE NoFrame
    BY <1>3, <2>1
  <2>4. (i + 1 <= n <=> i < n) /\ first + (i + 1) - 1 = first + i
    BY <1>1, <1>2
  <2> QED
    BY <2>2, <2>3, <2>4
<1>8. ASSUME NEW f \in 1..n
      PROVE  cells[f] = first + f - 1 /\ cells[S + f] = Delay(gif[f].ticks)
  <2>1. /\ f - 1 \in 0..(S - 1) /\ 1 + (f - 1) = f /\ f - 1 < n
        /\ first + (f - 1) = first + f - 1
        /\ f \in 1..S /\ S + f \in 0..(S + S) /\ (S + f) + 1 = 1 + S + f /\ f <= n
    BY <1>1, <1>2
  <2>2. cells[1 + (f - 1)] = first + (f - 1)
    BY <1>7, <2>1
  <2>3. cells[S + f] = bytes[1 + S + f]
    BY <1>4, <2>1
  <2>4. bytes[1 + S + f] = Delay(gif[f].ticks)
    BY <1>3, <2>1
  <2> QED
    BY <2>1, <2>2, <2>3, <2>4
<1>9. Min(lengths) = n
  <2>1. n \in 0..(S - 1) /\ n \in 0..S
    BY <1>1, <1>2
  <2>2. n \in lengths
    BY <1>7, <1>1, <2>1
  <2>3. ASSUME NEW i \in lengths, i < n PROVE FALSE
    <3>1. i \in 0..(S - 1) /\ i # S
      BY <1>1, <1>2, <2>3
    <3>2. cells[1 + i] = first + i
      BY <1>7, <2>3, <3>1
    <3>3. first + i # NoFrame
      BY <1>1, <1>2, <2>3, <3>1 DEF NoFrame
    <3> QED
      BY <3>1, <3>2, <3>3
  <2>4. lengths \subseteq Nat
    BY <1>2
  <2> DEFINE m == Min(lengths)
  <2> HIDE DEF lengths
  <2>5. m \in lengths /\ \A i \in lengths : m <= i
    BY <2>2, <2>4, LeastOf
  <2> HIDE DEF m
  <2>6. m \in Nat /\ m <= n /\ ~(m < n)
    BY <2>2, <2>3, <2>4, <2>5
  <2>7. m = n
    BY <1>1, <2>6
  <2> QED
    BY <2>7 DEF m
<1>10. /\ DOMAIN places = 1..NumLeds
       /\ \A pixels : \A led \in 1..NumLeds :
            ExtractPanel(pixels, panel)[led] = pixels[places[led]]
  BY PanelPlaces
<1>11. ASSUME NEW f \in 1..n PROVE shown(f) = drawn(f)
  <2>1. ASSUME NEW led \in 1..NumLeds
        PROVE  LedIn(memory[panel], type, first + f - 1, led) =
                 ScaleColor(gif[f].pixels[places[led]])
    <3>1. PanelFrames(gif, panel)[f][led] = gif[f].pixels[places[led]]
      BY <1>1, <1>10 DEF PanelFrames
    <3>2. Holds(memory[panel], Drawing(gif, type, panel))
      OBVIOUS
    <3>3. LedIn(memory[panel], type, first + f - 1, led) =
            ScaleColor(PanelFrames(gif, panel)[f][led])
      <4>1. f \in 1..Len(gif) /\ Len(gif) <= Slots
        BY <1>1 DEF n
      <4>2. Len(Palette(PanelFrames(gif, panel))) <= MaxColors
        BY <1>1
      <4> HIDE DEF places
      <4>3. LedIn(memory[panel], type, FirstGraphic(type) + f - 1, led) =
              ScaleColor(PanelFrames(gif, panel)[f][led])
        BY <3>2, <4>1, <4>2, DrawingDecoded
      <4> QED
        BY <4>3 DEF first
    <3> QED
      BY <3>1, <3>3
  <2>2. LedColors(panel, type, first + f - 1) =
          [led \in 1..NumLeds |-> LedIn(memory[panel], type, first + f - 1, led)]
    BY DEF LedColors, LedIn
  <2> HIDE DEF places
  <2>3. LedColors(panel, type, first + f - 1) =
          [led \in 1..NumLeds |-> ScaleColor(gif[f].pixels[places[led]])]
    BY <2>1, <2>2
  <2> QED
    BY <1>8, <1>10, <2>3
<1>12. Shown(panel, type) = [loop |-> cells[0], frames |-> [f \in 1..Min(lengths) |-> shown(f)]]
  BY DEF Shown, S
<1>13. Picture(gif, panel) = [loop |-> loop, frames |-> [f \in DOMAIN gif |-> drawn(f)]]
  BY <1>1 DEF Picture, loop, LedPlaces
<1> HIDE DEF shown, drawn, lengths, cells
<1>14. [f \in 1..n |-> shown(f)] = [f \in 1..n |-> drawn(f)]
  BY <1>11
<1> QED
  BY <1>1, <1>6, <1>9, <1>12, <1>13, <1>14

-----------------------------------------------------------------------------
(* The conversation before and during an upload *)

\* Handled packets never make the device forget that it has a configuration; it
\* gets one only from the answer to a read.
LEMMA HaveOne ==
  ASSUME NEW R, NEW d \in Devices(R), NEW buf \in Answer
  PROVE  /\ d.have => HandleOne(d, buf).have
         /\ ~IsRead(buf) => HandleOne(d, buf).have = d.have
<1>1. CASE buf[1] = Sense
  <2>1. HandleOne(d, buf) = HandleSensorTestResponse(d, buf)
    BY <1>1 DEF HandleOne, Sense, GetOld, GetNew
  <2>2. HandleSensorTestResponse(d, buf).have = d.have
    BY DEF HandleSensorTestResponse, Devices
  <2>3. d.have \in BOOLEAN
    BY DEF Devices
  <2> QED
    BY <2>1, <2>2, <2>3
<1>2. CASE buf[1] \in {GetOld, GetNew}
  <2>1. HandleOne(d, buf) = HandleConfigPacket(d, buf)
    BY <1>2 DEF HandleOne, Sense, GetOld, GetNew
  <2>2. HandleConfigPacket(d, buf).have \in {d.have, TRUE} /\ d.have \in BOOLEAN
    BY DEF HandleConfigPacket, Devices
  <2>3. IsRead(buf)
    BY <1>2 DEF IsRead, Answer
  <2> QED
    BY <2>1, <2>2, <2>3
<1>3. CASE ~(buf[1] = Sense \/ buf[1] \in {GetOld, GetNew})
  <2>1. HandleOne(d, buf) = d /\ d.have \in BOOLEAN
    BY <1>3 DEF HandleOne, Devices
  <2> QED
    BY <2>1
<1> QED
  BY <1>1, <1>2, <1>3

LEMMA HaveKept ==
  ASSUME NEW R0, NEW d \in Devices(R0), NEW q \in Seq(Answer)
  PROVE  /\ HandlePackets(d, q).have \in BOOLEAN
         /\ d.have => HandlePackets(d, q).have
         /\ (\A i \in 1..Len(q) : ~IsRead(q[i])) => HandlePackets(d, q).have = d.have
<1> DEFINE R == R0 \cup {ParseSensorTest(Words(q[i]), firmware) : i \in 1..Len(q)}
           quiet == \A i \in 1..Len(q) : ~IsRead(q[i])
           S == {e \in Devices(R) : (d.have => e.have) /\ (quiet => e.have = d.have)}
<1>1. d \in S
  BY DEF Devices
<1>2. ASSUME NEW v \in S, NEW i \in 1..Len(q) PROVE HandleOne(v, q[i]) \in S
  <2>1. q[i] \in Answer /\ ParseSensorTest(Words(q[i]), firmware) \in R
        /\ (quiet => ~IsRead(q[i]))
    OBVIOUS
  <2>2. v \in Devices(R) /\ (d.have => v.have) /\ (quiet => v.have = d.have)
    OBVIOUS
  <2> HIDE DEF R, quiet
  <2>3. HandleOne(v, q[i]) \in Devices(R)
    BY <2>1, <2>2, HandleOneType
  <2>4. /\ v.have => HandleOne(v, q[i]).have
        /\ ~IsRead(q[i]) => HandleOne(v, q[i]).have = v.have
    BY <2>1, <2>2, HaveOne
  <2> QED
    BY <2>1, <2>2, <2>3, <2>4
<1>3. \A v \in S : \A i \in 1..Len(q) : HandleOne(v, q[i]) \in S
  BY <1>2
<1> HIDE DEF S
<1>4. PICK f : Handles(d, q, S, f)
  BY <1>1, <1>3, HandleFold
<1>5. f \in [0..Len(q) -> S] /\ HandlePackets(d, q) = f[Len(q)]
  BY <1>4 DEF Handles
<1>6. Len(q) \in 0..Len(q)
  <2>1. Len(q) \in Nat
    OBVIOUS
  <2> QED
    BY <2>1
<1>7. HandlePackets(d, q) \in S
  BY <1>5, <1>6
<1> QED
  BY <1>7 DEF S, Devices

\* What ends an answer ends the command in flight.
LEMMA FlightAnswered ==
  ASSUME NEW v, NEW in \in Seq(SentBy(v)), NEW c \in Seq(Nat), NEW fl, NEW fw
  PROVE  LET after == Handled(Base(c, TRUE, fw, fl), in)
         IN  after.packets # <<>> => after.flight = Nothing
<1> DEFINE F == Firmwares(fw, in)
           l == Len(in)
           base == Base(c, TRUE, fw, fl)
           S == {u \in Reading(fl, F) : u.packets = <<>> \/ u.flight = Nothing}
<1>1. /\ in \in Seq(Packet) /\ l \in Nat /\ l \in 0..l
      /\ \A i \in 1..l : in[i] \in Packet /\ (~IsInfo(in[i]) => Ending(in[i]))
      /\ \A i \in 1..l : Payload(in[i])[1] \in F
  <2>1. SentBy(v) \subseteq Packet
    BY DEF SentBy
  <2>2. in \in Seq(Packet)
    BY <2>1, SeqMonotonic
  <2> QED
    BY <2>2 DEF SentBy, Firmwares
<1>2. base \in S
  <2>1. <<>> \in Seq(Answer) /\ fw \in F
    BY DEF Firmwares
  <2> HIDE DEF F
  <2> QED
    BY <2>1 DEF Base, Reading
<1>3. ASSUME NEW u \in S, NEW i \in 1..l PROVE Receive(u, in[i]) \in S
  <2> DEFINE raw == in[i]
  <2>1. raw \in Packet /\ Payload(raw)[1] \in F /\ (~IsInfo(raw) => Ending(raw))
    BY <1>1
  <2>2. u \in Reading(fl, F) /\ (u.packets = <<>> \/ u.flight = Nothing)
    OBVIOUS
  <2> HIDE DEF F, raw
  <2>3. Receive(u, raw) \in Reading(fl, F)
    BY <2>1, <2>2, ReceiveReading
  <2>4. Receive(u, raw).packets = <<>> \/ Receive(u, raw).flight = Nothing
    <3>1. IsReport6(raw) /\ u.packets \in Seq(Answer) /\ u.current \in Seq(Nat) /\ u.active
      BY <2>1, <2>2, GatheredType DEF Reading
    <3>2. CASE IsInfo(raw) /\ u.flight.info
      <4>1. Receive(u, raw) = [u EXCEPT !.info = TRUE, !.firmware = Payload(raw)[1],
                                        !.flight = Nothing]
        BY <3>1, <3>2 DEF Receive, IsInfo
      <4> QED
        BY <2>2, <4>1 DEF Reading
    <3>3. CASE IsInfo(raw) /\ ~u.flight.info
      <4>1. Receive(u, raw) = u
        BY <3>1, <3>3 DEF Receive, IsInfo
      <4> QED
        BY <2>2, <4>1
    <3>4. CASE ~IsInfo(raw)
      <4> DEFINE cur == UnderWay(u.current, raw)
                 pac == u.packets \o Completed(u.current, raw)
                 fli == IF HasFlag(raw[2], HostCmdFinished) THEN Nothing ELSE u.flight
                 w == [u EXCEPT !.current = cur, !.packets = pac, !.flight = fli]
      <4>1. Receive(u, raw) = w
        BY <3>1, <3>4 DEF Receive, IsInfo
      <4>2. pac = <<>> \/ fli = Nothing
        <5>1. CASE HasFlag(raw[2], HostCmdFinished)
          BY <5>1
        <5>2. CASE ~HasFlag(raw[2], HostCmdFinished)
          <6>1. ~HasFlag(raw[2], EndOfCommand)
            BY <2>1, <3>4, <5>2 DEF Ending
          <6>2. pac = u.packets /\ fli = u.flight
            BY <3>1, <5>2, <6>1, Joined DEF Completed
          <6> QED
            BY <2>2, <6>2
        <5> QED
          BY <5>1, <5>2
      <4>3. w.packets = pac /\ w.flight = fli
        <5> HIDE DEF cur, pac, fli
        <5> QED
          BY <2>2 DEF Reading
      <4> HIDE DEF w, pac, fli
      <4> QED
        BY <4>1, <4>2, <4>3
    <3> QED
      BY <3>2, <3>3, <3>4
  <2> QED
    BY <2>3, <2>4 DEF raw
<1> HIDE DEF base, S
<1>4. \A u \in S : \A i \in 1..l : Receive(u, in[i]) \in S
  BY <1>3
<1>5. PICK f : Follows(base, in, S, f)
  BY <1>1, <1>2, <1>4, ReceiveFold
<1>6. Handled(base, in) = f[l] /\ f[l] \in S
  BY <1>1, <1>5 DEF Follows, Handled
<1>7. Handled(base, in).packets # <<>> => Handled(base, in).flight = Nothing
  BY <1>6 DEF S
<1> QED
  BY <1>7 DEF base

LEMMA NothingReceived ==
  ASSUME NEW base PROVE Handled(base, SplitBuffer(<<>>).packets) = base
<1>1. SplitBuffer(<<>>).packets = <<>>
  <2>1. PICK at : CutAt(<<>>, <<>>, at)
    BY NothingBuffered
  <2>2. <<>> \in Seq(Packet) /\ <<>> \in Seq(Nat)
    OBVIOUS
  <2>3. SplitBuffer(<<>>) = [packets |-> <<>>, rest |-> <<>>]
    BY <2>1, <2>2, SplitWhole
  <2> QED
    BY <2>3
<1> DEFINE S == {base}
<1>2. <<>> \in Seq({}) /\ Len(<<>>) = 0
  OBVIOUS
<1>3. \A v \in S : \A i \in 1..Len(<<>>) : Receive(v, <<>>[i]) \in S
  BY <1>2
<1>4. base \in S
  OBVIOUS
<1> HIDE DEF S
<1>5. PICK f : Follows(base, <<>>, S, f)
  BY <1>2, <1>3, <1>4, ReceiveFold
<1> QED
  BY <1>1, <1>2, <1>5 DEF Follows, Handled

\* What comes of the packets that are in the buffer, with fl in flight.
Outcome(fl) ==
  Handled([current |-> current, packets |-> <<>>, active |-> info, info |-> info,
           firmware |-> firmware, flight |-> fl],
          SplitBuffer(buffer).packets)

LEMMA OutcomeFacts ==
  ASSUME WireInv, FirmwareInv, info, NEW fl, NEW box \in Seq(Report), NEW A,
         Fed({0}, current, buffer, box, A)
  PROVE  /\ Updated(fl, box, A, Outcome(fl))
         /\ SplitBuffer(buffer).rest = <<>>
         /\ Outcome(fl).packets # <<>> => Outcome(fl).flight = Nothing
         /\ buffer = <<>> => Outcome(fl).flight = fl /\ Outcome(fl).packets = <<>>
<1> DEFINE base == Base(current, TRUE, firmware, fl)
           packets == SplitBuffer(buffer).packets
           v == Firmware[plugged]
<1>1. buffer \in Seq(Nat) /\ current \in Seq(Nat) /\ info = TRUE
  BY DEF WireInv, WireTypes
<1>2. Outcome(fl) = Handled(base, packets)
  BY <1>1 DEF Outcome, Base
<1>3. /\ SplitBuffer(buffer).rest = <<>>
      /\ Updated(fl, box, A, Handled(base, packets))
  BY <1>1, FedReading DEF Handled
<1>4. Handled(base, packets).packets # <<>> => Handled(base, packets).flight = Nothing
  <2>1. PICK in, at : in \in Seq(SentBy(v)) /\ CutAt(buffer, in, at)
    BY DEF FirmwareInv, Named
  <2>2. SentBy(v) \subseteq Packet
    BY DEF SentBy
  <2>3. in \in Seq(Packet)
    BY <2>1, <2>2, SeqMonotonic
  <2>4. packets = in
    <3>1. SplitBuffer(buffer) = [packets |-> in, rest |-> <<>>]
      BY <1>1, <2>1, <2>3, SplitWhole
    <3> QED
      BY <3>1
  <2> HIDE DEF packets, v
  <2>5. Handled(Base(current, TRUE, firmware, fl), in).packets # <<>>
          => Handled(Base(current, TRUE, firmware, fl), in).flight = Nothing
    BY <1>1, <2>1, FlightAnswered
  <2> QED
    BY <2>4, <2>5
<1>5. buffer = <<>> => /\ Handled(base, packets).flight = fl
                      /\ Handled(base, packets).packets = <<>>
  <2> SUFFICES ASSUME buffer = <<>>
               PROVE  /\ Handled(base, packets).flight = fl
                      /\ Handled(base, packets).packets = <<>>
    OBVIOUS
  <2>1. Handled(base, packets) = base
    <3>1. Handled(base, SplitBuffer(<<>>).packets) = base
      BY NothingReceived
    <3> QED
      BY <3>1
  <2>2. base.flight = fl /\ base.packets = <<>>
    BY DEF Base
  <2> QED
    BY <2>1, <2>2
<1> HIDE DEF base, packets
<1> QED
  BY <1>2, <1>3, <1>4, <1>5

\* What an update does when there is nothing to be set and nothing to be sensed.
UploadLine(timedOut) ==
  LET first == IF info /\ ~active THEN Append(queue, ReadConfig) ELSE queue
  IN  IF timedOut THEN <<flight>> \o first ELSE first

PlainUpdate(timedOut, after, line) ==
  /\ timedOut => written /\ outbox = <<>> /\ buffer = <<>>
  /\ buffer' = SplitBuffer(buffer).rest /\ current' = after.current
  /\ info' = after.info /\ active' = info
  /\ IF after.flight = Nothing /\ line # <<>>
     THEN flight' = Head(line) /\ queue' = Tail(line)
     ELSE flight' = after.flight /\ queue' = line
  /\ written' = (written /\ after.flight # Nothing)
  /\ dev' = HandlePackets(dev, after.packets)
  /\ send' = FALSE /\ mode' = mode /\ use' = use
  /\ busy' = IF timedOut THEN [p \in DOMAIN busy |-> 0] ELSE busy
  /\ UNCHANGED <<outbox, answers, memory, timing, todo, uploading, uploaded, count>>

LEMMA PlainUpdated ==
  ASSUME WireInv, ~send, mode = Off, NEW put, NEW due, NEW timedOut \in BOOLEAN,
         Update(put, due, timedOut)
  PROVE  PlainUpdate(timedOut, Outcome(IF timedOut THEN Nothing ELSE flight),
                     UploadLine(timedOut))
<1>1. ~put /\ ~due
  BY DEF Update
<1> DEFINE line == UploadLine(timedOut)
           after == Outcome(IF timedOut THEN Nothing ELSE flight)
<1>2. /\ timedOut => written /\ outbox = <<>> /\ buffer = <<>>
      /\ send' = (send /\ ~put) /\ mode' = mode /\ use' = use
      /\ busy' = IF timedOut THEN [p \in DOMAIN busy |-> 0] ELSE busy
      /\ count' = IF due THEN Counted("requests") ELSE count
      /\ UNCHANGED <<outbox, answers, memory, timing, todo, uploading, uploaded>>
  BY DEF Update, uploads
<1>3. /\ buffer' = SplitBuffer(buffer).rest /\ current' = after.current
      /\ info' = after.info /\ active' = info
      /\ flight' = IF after.flight = Nothing /\ line # <<>>
                   THEN Head(line) ELSE after.flight
      /\ queue' = IF after.flight = Nothing /\ line # <<>> THEN Tail(line) ELSE line
      /\ written' = (written /\ after.flight # Nothing)
      /\ dev' = HandlePackets([dev EXCEPT !.config = IF put THEN wanted ELSE @,
                                          !.waiting = IF due THEN mode ELSE @],
                              after.packets)
  BY <1>1 DEF Update, Handled, Outcome, UploadLine
<1>4. [dev EXCEPT !.config = IF put THEN wanted ELSE @,
                  !.waiting = IF due THEN mode ELSE @] = dev
  <2>1. PICK R : dev \in Devices(R)
    BY DEF WireInv, WireTypes
  <2> QED
    BY <1>1, <2>1 DEF Devices
<1> HIDE DEF line, after
<1> QED
  BY <1>1, <1>2, <1>3, <1>4 DEF PlainUpdate, line, after

\* A packet of an upload, and a queue of them.
OfUpload(c) == \E b : IsUpload(b) /\ c = Command(b)
AllOfUpload(q) == \E C : q \in Seq(C) /\ \A c \in C : OfUpload(c)

Asking == {Command(<<GetNew>>), Command(<<GetOld, EndOfLine>>)}
Unread == {b \in answers : ~IsRead(b)}

\* Before the configuration has been read, the device cannot have it: nothing it
\* is still to get is the answer to a read, or that is not all there until the
\* last report comes, which nothing follows.
Opening ==
  /\ uploading.gif = 0
  /\ IF ~info THEN active = FALSE /\ Unread = answers
     ELSE /\ queue = <<>> /\ (flight = Nothing \/ (active /\ flight \in Asking))
          /\ \/ Fed({0}, current, buffer, outbox, Unread)
             \/ /\ active /\ (flight = Nothing \/ written)
                /\ outbox # <<>> => Fed({0}, current, buffer, Front(outbox), Unread)

\* After that, what is sent are the packets of an upload, and what is on its way is
\* the acknowledgement of the one in flight, which the pad has.
Opened ==
  /\ info /\ active
  /\ buffer # <<>> => written
  /\ outbox # <<>> => written /\ buffer = <<>> /\ Len(outbox) = 1
  /\ flight = Nothing \/ OfUpload(flight)
  /\ AllOfUpload(queue)
  /\ uploading.gif = 0 => Acknowledged

TalkInv ==
  /\ uploading.gif = 0 => todo = <<>>
  /\ use = "upload" =>
       /\ ~send /\ mode = Off
       /\ IF dev.have THEN Opened ELSE Opening

LEMMA TalkInit == Init /\ NoLookalikes({GetOld, GetNew}) => TalkInv
<1> SUFFICES ASSUME Init, NoLookalikes({GetOld, GetNew}) PROVE TalkInv
  OBVIOUS
<1>1. /\ uploading.gif = 0 /\ todo = <<>> /\ ~send /\ mode = Off
      /\ dev.have = FALSE /\ info = FALSE /\ active = FALSE
  BY DEF Init, Forgotten
<1>2. plugged \in Pads
  BY WireInit DEF WireInv, WireTypes
<1>3. PICK reports \in LeftOver(plugged) : answers = Ends(reports)
  BY DEF Init
<1>4. Unread = answers
  BY <1>2, <1>3 DEF NoLookalikes, Unread, IsRead
<1> QED
  BY <1>1, <1>4 DEF TalkInv, Opening

LEMMA FedNone ==
  ASSUME NEW c \in Seq(Nat), NEW A
  PROVE  Fed({0}, c, <<>>, <<>>, A)
<1> DEFINE s == Stream(<<>>, <<>>)
<1>1. <<>> \in Seq(Packet) /\ <<>> \in Seq(Report)
  OBVIOUS
<1>2. s \in Seq(Packet) /\ Len(s) = Len(<<>>) + Len(<<>>)
  BY <1>1, StreamFacts
<1>3. Len(s) = 0
  BY <1>2
<1> HIDE DEF s
<1>4. Sound(c, s, Len(s), A)
  BY <1>2, SoundNone
<1>5. \A k \in 0..Len(s) : k \in {0} => Sound(c, s, k, A)
  BY <1>3, <1>4
<1> QED
  BY <1>1, <1>5, NothingBuffered DEF Fed, s

LEMMA AskingFacts ==
  /\ ReadConfig \in Asking
  /\ \A c \in Asking : ~c.info /\ Received(c.packets)[1] \in {GetOld, GetNew}
<1>1. ReadConfig \in Asking
  BY DEF ReadConfig, Asking
<1>2. ASSUME NEW code \in {GetOld, GetNew}, NEW b \in Seq(Nat), b[1] = code
      PROVE  ~Command(b).info /\ Received(Command(b).packets)[1] = code
  <2>1. Nat \subseteq Nat
    OBVIOUS
  <2>2. Received(BuildCommandPackets(b)) = b
    BY <2>1, CommandArrives
  <2> QED
    BY <1>2, <2>2 DEF Command
<1>3. <<GetNew>> \in Seq(Nat) /\ <<GetNew>>[1] = GetNew
  BY DEF GetNew
<1>4. <<GetOld, EndOfLine>> \in Seq(Nat) /\ <<GetOld, EndOfLine>>[1] = GetOld
  BY DEF GetOld, EndOfLine
<1>5. /\ ~Command(<<GetNew>>).info
      /\ Received(Command(<<GetNew>>).packets)[1] = GetNew
  BY <1>2, <1>3
<1>6. /\ ~Command(<<GetOld, EndOfLine>>).info
      /\ Received(Command(<<GetOld, EndOfLine>>).packets)[1] = GetOld
  BY <1>2, <1>4
<1> QED
  BY <1>1, <1>5, <1>6 DEF Asking

LEMMA UploadArrives ==
  ASSUME NEW b, IsUpload(b)
  PROVE  /\ Command(b) # Nothing /\ ~Command(b).info
         /\ Received(Command(b).packets) = b /\ b[1] = UploadCode
<1>1. ~Command(b).info /\ Received(Command(b).packets) = b
  BY Arrives DEF IsCommand
<1>2. PICK W : Nat \subseteq W /\ b \in Seq(W) /\ Len(b) >= 1 /\ b[1] = UploadCode
  BY DEF IsUpload
<1>3. BuildCommandPackets(b) # <<>>
  <2> DEFINE chunks == Chunks(b, MaxPayload)
             p == BuildCommandPackets(b)
  <2>1. MaxPayload \in Nat \ {0}
    BY ProtocolAssumption
  <2>2. PICK got \in [0..Len(chunks) -> Seq(W)] : Assembles(chunks, MaxPayload, b, got)
    BY <1>2, <2>1, ChunkFacts
  <2>3. chunks \in Seq(Seq(W))
    BY <1>2, <2>1, ChunkFacts
  <2>4. 1 \in DOMAIN chunks
    BY <2>2, <2>3 DEF Assembles
  <2>5. DOMAIN p = DOMAIN chunks
    BY DEF BuildCommandPackets
  <2>6. DOMAIN <<>> = {}
    OBVIOUS
  <2> HIDE DEF chunks, p
  <2>7. p # <<>>
    BY <2>4, <2>5, <2>6
  <2> QED
    BY <2>7 DEF p
<1>4. Command(b).packets = BuildCommandPackets(b) /\ Nothing.packets = <<>>
  BY DEF Command, Nothing
<1> QED
  BY <1>1, <1>2, <1>3, <1>4

\* An update while the pad has not been identified.
LEMMA OpeningBlind ==
  ASSUME WireInv, ~dev.have, Opening, ~info, NEW timedOut \in BOOLEAN,
         PlainUpdate(timedOut, Outcome(IF timedOut THEN Nothing ELSE flight),
                     UploadLine(timedOut))
  PROVE  ~dev'.have /\ Opening'
<1> DEFINE fl == IF timedOut THEN Nothing ELSE flight
           after == Outcome(fl)
           line == UploadLine(timedOut)
<1>1. /\ Awaited(fl, outbox, answers, after) /\ SplitBuffer(buffer).rest = <<>>
  <2> HIDE DEF fl
  <2> QED
    BY PacketsHandled DEF Outcome
<1>2. /\ buffer' = <<>> /\ current' = after.current
      /\ info' = after.info /\ active' = info
      /\ IF after.flight = Nothing /\ line # <<>>
         THEN flight' = Head(line) /\ queue' = Tail(line)
         ELSE flight' = after.flight /\ queue' = line
      /\ dev' = HandlePackets(dev, after.packets)
      /\ outbox' = outbox /\ answers' = answers /\ uploading' = uploading
  BY <1>1 DEF PlainUpdate
<1>3. /\ info = FALSE
      /\ \/ queue = <<Identify>> /\ flight = Nothing
         \/ queue = <<>> /\ flight = Identify
  BY DEF WireInv, WireTypes, Streaming
<1>4. ~timedOut => line = queue
  BY <1>3 DEF UploadLine
<1> HIDE DEF after, line
<1>5. /\ after.current = <<>> /\ after.packets = <<>>
      /\ after.info \in BOOLEAN /\ (after.info => fl.info)
      /\ after.flight = IF after.info THEN Nothing ELSE fl
      /\ Fed(Nat, <<>>, <<>>, outbox, answers)
  BY <1>1 DEF Awaited
<1>6. dev' = dev
  BY <1>2, <1>5, NothingHandled
<1>7. uploading'.gif = 0 /\ Unread' = answers' /\ active' = FALSE
  BY <1>2, <1>3 DEF Opening, Unread
<1>8. CASE after.info
  <2>1. ~timedOut /\ flight = Identify /\ queue = <<>>
    BY <1>3, <1>5, <1>8 DEF Nothing
  <2>2. flight' = Nothing /\ queue' = <<>>
    BY <1>2, <1>4, <1>5, <1>8, <2>1
  <2>3. Fed({0}, current', buffer', outbox', Unread')
    <3>1. Fed({0}, <<>>, <<>>, outbox, answers)
      BY <1>5, FedMore
    <3> QED
      BY <1>2, <1>5, <1>7, <3>1
  <2> QED
    BY <1>2, <1>6, <1>7, <1>8, <2>2, <2>3 DEF Opening
<1>9. CASE ~after.info
  BY <1>2, <1>6, <1>7, <1>9 DEF Opening
<1> QED
  BY <1>8, <1>9

\* An update while the configuration has not come.
LEMMA OpeningAsking ==
  ASSUME WireInv, FirmwareInv, ~dev.have, Opening, info, NEW timedOut \in BOOLEAN,
         PlainUpdate(timedOut, Outcome(IF timedOut THEN Nothing ELSE flight),
                     UploadLine(timedOut))
  PROVE  IF dev'.have THEN Opened' ELSE Opening'
<1> DEFINE fl == IF timedOut THEN Nothing ELSE flight
           after == Outcome(fl)
           line == UploadLine(timedOut)
           packets == after.packets
<1>1. /\ info = TRUE /\ current \in Seq(Nat) /\ outbox \in Seq(Report)
      /\ (written => flight # Nothing)
      /\ Fed({0}, current, buffer, outbox, answers)
      /\ \E R : dev \in Devices(R)
  BY DEF WireInv, WireTypes, Streaming
<1>2. /\ uploading.gif = 0 /\ queue = <<>>
      /\ flight = Nothing \/ (active /\ flight \in Asking)
      /\ \/ Fed({0}, current, buffer, outbox, Unread)
         \/ /\ active /\ (flight = Nothing \/ written)
            /\ outbox # <<>> => Fed({0}, current, buffer, Front(outbox), Unread)
  BY DEF Opening
<1>3. /\ timedOut => written /\ outbox = <<>> /\ buffer = <<>>
      /\ current' = after.current
      /\ info' = after.info /\ active' = TRUE
      /\ IF after.flight = Nothing /\ line # <<>>
         THEN flight' = Head(line) /\ queue' = Tail(line)
         ELSE flight' = after.flight /\ queue' = line
      /\ written' = (written /\ after.flight # Nothing)
      /\ dev' = HandlePackets(dev, packets)
      /\ outbox' = outbox /\ answers' = answers /\ uploading' = uploading
  BY <1>1 DEF PlainUpdate
<1>4. ASSUME NEW box \in Seq(Report), NEW A, Fed({0}, current, buffer, box, A)
      PROVE  /\ buffer' = <<>> /\ info'
             /\ current' \in Seq(Nat) /\ after.flight \in {fl, Nothing}
             /\ packets \in Seq(Answer) /\ ToSet(packets) \subseteq A
             /\ Fed({0}, current', buffer', box, A)
             /\ packets # <<>> => after.flight = Nothing
             /\ buffer = <<>> => packets = <<>>
  <2>1. /\ Updated(fl, box, A, after) /\ SplitBuffer(buffer).rest = <<>>
        /\ packets # <<>> => after.flight = Nothing
        /\ buffer = <<>> => packets = <<>>
    <3> HIDE DEF fl
    <3> QED
      BY <1>4, OutcomeFacts
  <2>2. buffer' = <<>>
    BY <2>1 DEF PlainUpdate
  <2> HIDE DEF after, fl
  <2> QED
    BY <1>3, <2>1, <2>2 DEF Updated
<1>5. /\ active => line = IF timedOut THEN <<flight>> ELSE <<>>
      /\ ~active /\ ~timedOut => line = <<ReadConfig>>
  <2>1. ASSUME active PROVE line = IF timedOut THEN <<flight>> ELSE <<>>
    BY <1>2, <2>1 DEF UploadLine
  <2>2. ASSUME ~active, ~timedOut PROVE line = <<ReadConfig>>
    <3> DEFINE c == ReadConfig
    <3>1. line = Append(<<>>, c)
      BY <1>1, <1>2, <2>2 DEF UploadLine
    <3> HIDE DEF c
    <3>2. Append(<<>>, c) = <<c>>
      OBVIOUS
    <3> QED
      BY <3>1, <3>2 DEF c
  <2> HIDE DEF line
  <2> QED
    BY <2>1, <2>2
<1> HIDE DEF after, line
<1>6. /\ queue' = <<>> /\ (flight' = Nothing \/ flight' \in Asking)
      /\ active /\ ~timedOut => flight' = after.flight
  <2>1. after.flight \in {fl, Nothing}
    BY <1>1, <1>4
  <2>2. CASE ~active
    <3>1. flight = Nothing /\ ~timedOut
      BY <1>1, <1>2, <1>3, <2>2
    <3>2. line = <<ReadConfig>> /\ after.flight = Nothing
      BY <1>5, <2>1, <2>2, <3>1
    <3>3. flight' = ReadConfig /\ queue' = <<>>
      BY <1>3, <3>2
    <3> QED
      BY <2>2, <3>3, AskingFacts
  <2>3. CASE active /\ timedOut
    <3>1. line = <<flight>> /\ after.flight = Nothing
      BY <1>5, <2>1, <2>3
    <3>2. flight' = flight /\ queue' = <<>>
      BY <1>3, <3>1
    <3> QED
      BY <1>2, <2>3, <3>2
  <2>4. CASE active /\ ~timedOut
    <3>1. line = <<>> /\ fl = flight
      BY <1>5, <2>4
    <3> QED
      BY <1>2, <1>3, <2>1, <3>1
  <2> QED
    BY <2>2, <2>3, <2>4
<1>7. ASSUME NEW box \in Seq(Report), Fed({0}, current, buffer, box, Unread)
      PROVE  dev'.have = dev.have /\ Fed({0}, current', buffer', box, Unread')
  <2>1. packets \in Seq(Answer) /\ ToSet(packets) \subseteq Unread
    BY <1>4, <1>7
  <2>2. \A i \in 1..Len(packets) : ~IsRead(packets[i])
    BY <2>1 DEF ToSet, Unread
  <2>3. dev'.have = dev.have
    <3> HIDE DEF packets
    <3> QED
      BY <1>1, <1>3, <2>1, <2>2, HaveKept
  <2>4. Unread' = Unread
    BY <1>3 DEF Unread
  <2> QED
    BY <1>4, <1>7, <2>3, <2>4
<1>8. info' /\ buffer' = <<>> /\ current' \in Seq(Nat)
  BY <1>1, <1>4
<1>9. CASE Fed({0}, current, buffer, outbox, Unread)
  <2>1. dev'.have = dev.have /\ Fed({0}, current', buffer', outbox', Unread')
    BY <1>1, <1>3, <1>7, <1>9
  <2> QED
    BY <1>2, <1>3, <1>6, <1>8, <2>1 DEF Opening
<1>10. ASSUME active, flight = Nothing \/ written, outbox # <<>>,
              Fed({0}, current, buffer, Front(outbox), Unread)
       PROVE  IF dev'.have THEN Opened' ELSE Opening'
  <2>1. Front(outbox) \in Seq(Report)
    BY <1>1 DEF Front
  <2>2. dev'.have = dev.have /\ Fed({0}, current', buffer', Front(outbox), Unread')
    BY <1>7, <1>10, <2>1
  <2>3. flight' = Nothing \/ written'
    <3>1. ~timedOut
      BY <1>3, <1>10
    <3>2. flight' = after.flight /\ after.flight \in {flight, Nothing}
      BY <1>1, <1>4, <1>6, <1>10, <3>1
    <3> QED
      BY <1>3, <1>10, <3>2
  <2> QED
    BY <1>2, <1>3, <1>6, <1>8, <2>2, <2>3 DEF Opening
<1>11. ASSUME active, outbox = <<>>
       PROVE  IF dev'.have THEN Opened' ELSE Opening'
  <2>1. Fed({0}, current', buffer', outbox', Unread')
    BY <1>3, <1>8, <1>11, FedNone
  <2>2. CASE dev'.have
    <3>1. packets # <<>>
      BY <1>3, <2>2, NothingHandled
    <3>2. ~timedOut /\ after.flight = Nothing
      BY <1>1, <1>3, <1>4, <3>1
    <3>3. Acknowledged'
      BY <1>6, <1>11, <3>2 DEF Acknowledged
    <3>4. AllOfUpload(<<>>)
      <4> DEFINE C == {}
      <4>1. <<>> \in Seq(C) /\ \A c \in C : OfUpload(c)
        OBVIOUS
      <4> HIDE DEF C
      <4> QED
        BY <4>1 DEF AllOfUpload
    <3> QED
      BY <1>3, <1>8, <1>11, <2>2, <3>3, <3>4 DEF Opened, Acknowledged
  <2>3. CASE ~dev'.have
    BY <1>2, <1>3, <1>6, <1>8, <2>1, <2>3 DEF Opening
  <2> QED
    BY <2>2, <2>3
<1> QED
  BY <1>2, <1>9, <1>10, <1>11

\* What an update does with the packets of an upload: the one in flight is still
\* waited for; the pad has it and it is sent again, after a timeout; or there is
\* none, or it is acknowledged, and the next one in the queue is sent.
Exchange ==
  \/ /\ queue' = queue /\ flight' = flight /\ (written' <=> written) /\ busy' = busy
  \/ /\ written /\ queue' = queue /\ flight' = flight /\ ~written'
     /\ busy' = [p \in DOMAIN busy |-> 0]
  \/ /\ flight = Nothing \/ written
     /\ ~written' /\ busy' = busy
     /\ IF queue = <<>> THEN flight' = Nothing /\ queue' = <<>>
        ELSE flight' = Head(queue) /\ queue' = Tail(queue)

LEMMA ExchangeKept ==
  ASSUME Exchange, flight = Nothing \/ OfUpload(flight), AllOfUpload(queue),
         written => flight # Nothing
  PROVE  /\ flight' = Nothing \/ OfUpload(flight')
         /\ AllOfUpload(queue')
         /\ Acknowledged => Acknowledged'
<1>1. PICK C : queue \in Seq(C) /\ \A c \in C : OfUpload(c)
  BY DEF AllOfUpload
<1>2. queue # <<>> => Head(queue) \in C /\ Tail(queue) \in Seq(C)
  BY <1>1
<1>3. flight' = Nothing \/ OfUpload(flight')
  BY <1>1, <1>2 DEF Exchange
<1>4. queue' \in Seq(C)
  BY <1>1, <1>2 DEF Exchange
<1>5. Acknowledged => Acknowledged'
  BY DEF Exchange, Acknowledged
<1> QED
  BY <1>1, <1>3, <1>4, <1>5 DEF AllOfUpload

LEMMA OpenedExchange ==
  ASSUME WireInv, FirmwareInv, dev.have, Opened, NEW timedOut \in BOOLEAN,
         PlainUpdate(timedOut, Outcome(IF timedOut THEN Nothing ELSE flight),
                     UploadLine(timedOut))
  PROVE  /\ dev'.have /\ info' /\ active' /\ buffer' = <<>> /\ outbox' = outbox
         /\ outbox # <<>> => written'
         /\ Exchange
<1> DEFINE fl == IF timedOut THEN Nothing ELSE flight
           after == Outcome(fl)
           line == UploadLine(timedOut)
           packets == after.packets
<1>1. /\ info = TRUE /\ outbox \in Seq(Report)
      /\ (written => flight # Nothing)
      /\ Fed({0}, current, buffer, outbox, answers)
      /\ \E R : dev \in Devices(R)
  BY DEF WireInv, WireTypes, Streaming, Opened
<1>2. /\ active
      /\ buffer # <<>> => written
      /\ outbox # <<>> => written /\ buffer = <<>>
  BY DEF Opened
<1>3. /\ timedOut => written /\ outbox = <<>> /\ buffer = <<>>
      /\ buffer' = SplitBuffer(buffer).rest
      /\ info' = after.info /\ active' = TRUE
      /\ IF after.flight = Nothing /\ line # <<>>
         THEN flight' = Head(line) /\ queue' = Tail(line)
         ELSE flight' = after.flight /\ queue' = line
      /\ written' = (written /\ after.flight # Nothing)
      /\ dev' = HandlePackets(dev, packets)
      /\ busy' = IF timedOut THEN [p \in DOMAIN busy |-> 0] ELSE busy
      /\ outbox' = outbox
  BY <1>1 DEF PlainUpdate
<1>4. /\ SplitBuffer(buffer).rest = <<>> /\ after.info = TRUE
      /\ after.flight \in {fl, Nothing} /\ packets \in Seq(Answer)
      /\ buffer = <<>> => after.flight = fl
  <2>1. /\ Updated(fl, outbox, answers, after) /\ SplitBuffer(buffer).rest = <<>>
        /\ buffer = <<>> => after.flight = fl
    <3> HIDE DEF fl
    <3> QED
      BY <1>1, OutcomeFacts
  <2> HIDE DEF after, fl
  <2> QED
    BY <2>1 DEF Updated
<1>5. line = IF timedOut THEN <<flight>> \o queue ELSE queue
  BY <1>2 DEF UploadLine
<1> HIDE DEF after, line
<1>6. dev'.have
  <2> HIDE DEF packets
  <2> QED
    BY <1>1, <1>3, <1>4, HaveKept
<1>7. outbox # <<>> => written'
  BY <1>1, <1>2, <1>3, <1>4
<1>8. ASSUME timedOut PROVE Exchange
  <2>1. written /\ after.flight = Nothing
    BY <1>3, <1>4, <1>8
  <2>2. PICK C : queue \in Seq(C)
    BY DEF Opened, AllOfUpload
  <2> DEFINE f == flight
  <2>3. line = <<f>> \o queue
    BY <1>5, <1>8
  <2> HIDE DEF f
  <2>4. line # <<>> /\ Head(line) = f /\ Tail(line) = queue
    BY <2>2, <2>3, FrontOfLine
  <2>5. flight' = flight /\ queue' = queue
    BY <1>3, <2>1, <2>4 DEF f
  <2> QED
    BY <1>3, <1>8, <2>1, <2>5 DEF Exchange
<1>9. ASSUME ~timedOut PROVE Exchange
  <2>1. line = queue /\ fl = flight /\ busy' = busy
    BY <1>3, <1>5, <1>9
  <2>2. CASE after.flight = Nothing
    <3>1. flight = Nothing \/ written
      BY <1>2, <1>4, <2>1, <2>2
    <3> QED
      BY <1>3, <2>1, <2>2, <3>1 DEF Exchange
  <2>3. CASE after.flight # Nothing
    <3>1. after.flight = flight
      BY <1>4, <2>1, <2>3
    <3> QED
      BY <1>3, <2>1, <2>3, <3>1 DEF Exchange
  <2> QED
    BY <2>2, <2>3
<1> QED
  BY <1>3, <1>4, <1>6, <1>7, <1>8, <1>9

\* An acknowledgement is one report.
LEMMA OneReport == Len(Reports(<<>>)) = 1
<1> DEFINE size == MaxPayload
           n == Max({1, (Len(<<>>) + size - 1) \div size})
           chunk(k) == SubSeq(<<>>, (k - 1) * size + 1, Min({k * size, Len(<<>>)}))
           chunks == [k \in 1..n |-> chunk(k)]
           report(i) == HidReport(HidReportData,
                          FlagIf(i = 1, StartOfCommand)
                            + FlagIf(i = Len(chunks), EndOfCommand + HostCmdFinished),
                          chunks[i])
<1>1. size \in Nat \ {0} /\ Len(<<>>) = 0
  BY ProtocolAssumption
<1>2. n \in Nat /\ n >= 1 /\ \A k \in Nat : k < n => k * size <= 0
  <2> DEFINE L == Len(<<>>)
  <2>1. L = 0
    OBVIOUS
  <2> HIDE DEF L
  <2>2. LET m == Max({1, (L + size - 1) \div size})
        IN  m \in Nat /\ m >= 1 /\ \A k \in Nat : k < m => k * size <= L
    BY <1>1, <2>1, ChunkCount
  <2> QED
    BY <2>1, <2>2 DEF L
<1> HIDE DEF n, size
<1>3. n = 1
  <2>1. 1 < n => 1 * size <= 0
    BY <1>2
  <2> QED
    BY <1>1, <1>2, <2>1
<1>4. Chunks(<<>>, MaxPayload) = chunks
  BY DEF Chunks, n, size
<1> HIDE DEF chunk
<1>5. Len(chunks) = 1 /\ DOMAIN chunks = 1..1
  BY <1>3
<1> HIDE DEF chunks
<1>6. Reports(<<>>) = [i \in 1..1 |-> report(i)]
  BY <1>4, <1>5 DEF Reports
<1> HIDE DEF report
<1> QED
  BY <1>6

LEMMA FedKnown ==
  ASSUME NEW K, NEW c, NEW buf, NEW box, NEW A, NEW B, A \subseteq B,
         Fed(K, c, buf, box, A)
  PROVE  Fed(K, c, buf, box, B)
<1>1. PICK in, at :
        /\ in \in Seq(Packet)
        /\ CutAt(buf, in, at)
        /\ \A k \in 0..Len(Stream(in, box)) : k \in K => Sound(c, Stream(in, box), k, A)
  BY DEF Fed
<1>2. \A k \in 0..Len(Stream(in, box)) : k \in K => Sound(c, Stream(in, box), k, B)
  BY <1>1, SoundMore
<1> QED
  BY <1>1, <1>2 DEF Fed

LEMMA TalkUpdate ==
  ASSUME WireInv, FirmwareInv, TalkInv, NEW put, NEW due, NEW timedOut \in BOOLEAN,
         Update(put, due, timedOut)
  PROVE  TalkInv'
<1>1. use' = use /\ todo' = todo /\ uploading' = uploading
  BY DEF Update, uploads
<1>2. uploading'.gif = 0 => todo' = <<>>
  BY <1>1 DEF TalkInv
<1>3. ASSUME use = "upload"
      PROVE  ~send' /\ mode' = Off /\ IF dev'.have THEN Opened' ELSE Opening'
  <2> DEFINE after == Outcome(IF timedOut THEN Nothing ELSE flight)
             line == UploadLine(timedOut)
  <2>1. /\ ~send /\ mode = Off
        /\ IF dev.have THEN Opened ELSE Opening
    BY <1>3 DEF TalkInv
  <2>2. PlainUpdate(timedOut, after, line)
    BY <2>1, PlainUpdated
  <2>3. ~send' /\ mode' = Off
    BY <2>1, <2>2 DEF PlainUpdate
  <2>4. CASE dev.have
    <3>1. /\ dev'.have /\ info' /\ active' /\ buffer' = <<>> /\ outbox' = outbox
          /\ outbox # <<>> => written'
          /\ Exchange
      BY <2>1, <2>2, <2>4, OpenedExchange
    <3>2. outbox # <<>> => Len(outbox) = 1
      BY <2>1, <2>4 DEF Opened
    <3>3. /\ flight' = Nothing \/ OfUpload(flight')
          /\ AllOfUpload(queue')
          /\ uploading'.gif = 0 => Acknowledged'
      <4>1. /\ flight = Nothing \/ OfUpload(flight)
            /\ AllOfUpload(queue) /\ (uploading.gif = 0 => Acknowledged)
            /\ written => flight # Nothing
        BY <2>1, <2>4 DEF Opened, WireInv, WireTypes
      <4> QED
        BY <1>1, <3>1, <4>1, ExchangeKept
    <3> QED
      BY <2>3, <3>1, <3>2, <3>3 DEF Opened
  <2>5. CASE ~dev.have /\ ~info
    BY <2>1, <2>2, <2>3, <2>5, OpeningBlind
  <2>6. CASE ~dev.have /\ info
    <3>1. IF dev'.have THEN Opened' ELSE Opening'
      BY <2>1, <2>2, <2>6, OpeningAsking
    <3> QED
      BY <2>3, <3>1
  <2> QED
    BY <2>4, <2>5, <2>6
<1> QED
  BY <1>1, <1>2, <1>3 DEF TalkInv

\* Which commands a pad can take in a behaviour of uploads.
LEMMA TakenLetters ==
  ASSUME WireInv, TalkInv, use = "upload", NEW letters, Takes(letters)
  PROVE  /\ info /\ ~written /\ AtPad[1] \in letters
         /\ dev.have => AtPad[1] = UploadCode
         /\ ~dev.have => flight \in Asking /\ AtPad[1] \in {GetOld, GetNew}
<1>1. flight # Nothing /\ ~flight.info /\ ~written /\ AtPad[1] \in letters
  BY DEF Takes
<1>2. info
  BY <1>1 DEF WireInv, Streaming, Identify
<1>3. CASE dev.have
  <2>1. Opened
    BY <1>3 DEF TalkInv
  <2>2. PICK b : IsUpload(b) /\ flight = Command(b)
    BY <1>1, <2>1 DEF Opened, OfUpload
  <2>3. AtPad[1] = UploadCode
    BY <2>2, UploadArrives DEF AtPad
  <2> QED
    BY <1>1, <1>2, <1>3, <2>3
<1>4. CASE ~dev.have
  <2>1. Opening
    BY <1>4 DEF TalkInv
  <2>2. flight \in Asking
    BY <1>1, <1>2, <2>1 DEF Opening
  <2> QED
    BY <1>1, <1>2, <1>4, <2>2, AskingFacts DEF AtPad
<1> QED
  BY <1>3, <1>4

\* The pad answers the read of its configuration.
LEMMA TalkRead == WireInv /\ TalkInv /\ PadRead => TalkInv'
<1> SUFFICES ASSUME WireInv, TalkInv, PadRead PROVE TalkInv'
  OBVIOUS
<1> DEFINE answer == ConfigAnswer(plugged)
<1>1. /\ outbox' = outbox \o Reports(answer) /\ answers' = answers \cup {answer}
      /\ written' = TRUE
      /\ use' = use /\ buffer' = buffer /\ current' = current /\ info' = info
      /\ active' = active /\ queue' = queue /\ flight' = flight
      /\ dev' = dev /\ send' = send /\ mode' = mode
      /\ uploading' = uploading /\ todo' = todo
      /\ Takes({GetOld, GetNew})
  BY DEF PadRead, AnswerWith, device, uploads
<1>2. ASSUME use = "upload"
      PROVE  ~send' /\ mode' = Off /\ ~dev'.have /\ Opening'
  <2>1. info /\ ~written /\ AtPad[1] \in {GetOld, GetNew}
        /\ (dev.have => AtPad[1] = UploadCode)
    BY <1>1, <1>2, TakenLetters
  <2>2. ~dev.have
    BY <2>1 DEF UploadCode, GetOld, GetNew
  <2>3. ~send /\ mode = Off /\ Opening
    BY <1>2, <2>2 DEF TalkInv
  <2>4. flight \in Asking /\ flight # Nothing
    BY <1>1, <1>2, <2>2, TakenLetters DEF Takes
  <2>5. /\ uploading.gif = 0 /\ queue = <<>> /\ active
        /\ Fed({0}, current, buffer, outbox, Unread)
    BY <2>1, <2>3, <2>4 DEF Opening
  <2>6. answer \in Seq(Nat) /\ outbox \in Seq(Report)
    BY ConfigAnswerType DEF WireInv, WireTypes
  <2>7. outbox' # <<>> /\ Fed({0}, current, buffer, Front(outbox'), Unread)
    <3> HIDE DEF answer
    <3> QED
      BY <1>1, <2>5, <2>6, FedFront
  <2>8. Unread \subseteq Unread'
    BY <1>1 DEF Unread
  <2>9. Fed({0}, current', buffer', Front(outbox'), Unread')
    BY <1>1, <2>7, <2>8, FedKnown
  <2> QED
    BY <1>1, <2>1, <2>2, <2>3, <2>4, <2>5, <2>9 DEF Opening
<1> QED
  BY <1>1, <1>2 DEF TalkInv

\* It acknowledges an upload packet.
LEMMA TalkUploaded ==
  ASSUME WireInv, TalkInv, NEW missed, PadUpload(missed)
  PROVE  TalkInv'
<1>1. /\ outbox' = outbox \o Reports(<<>>) /\ written' = TRUE
      /\ use' = use /\ buffer' = buffer /\ info' = info
      /\ active' = active /\ queue' = queue /\ flight' = flight
      /\ dev' = dev /\ send' = send /\ mode' = mode
      /\ uploading' = uploading /\ todo' = todo
      /\ Takes({UploadCode})
  BY DEF PadUpload, AnswerWith, device, uploads
<1>2. ASSUME use = "upload"
      PROVE  ~send' /\ mode' = Off /\ dev'.have /\ Opened'
  <2>1. ~written /\ AtPad[1] = UploadCode
        /\ (~dev.have => AtPad[1] \in {GetOld, GetNew})
    BY <1>1, <1>2, TakenLetters
  <2>2. dev.have
    BY <2>1 DEF UploadCode, GetOld, GetNew
  <2>3. ~send /\ mode = Off /\ Opened
    BY <1>2, <2>2 DEF TalkInv
  <2>4. outbox = <<>> /\ buffer = <<>>
    BY <2>1, <2>3 DEF Opened
  <2>5. outbox' = Reports(<<>>)
    <3>1. <<>> \in Seq(Nat)
      OBVIOUS
    <3>2. Reports(<<>>) \in Seq(Report)
      BY <3>1, AnswerReports DEF Carries
    <3> QED
      BY <1>1, <2>4, <3>2, Joined
  <2>6. Opened'
    BY <1>1, <2>3, <2>4, <2>5, OneReport DEF Opened, Acknowledged
  <2> QED
    BY <1>1, <2>2, <2>3, <2>6
<1> QED
  BY <1>1, <1>2 DEF TalkInv

\* It cannot take anything else then.
LEMMA TalkOther ==
  ASSUME WireInv, TalkInv, PadStore \/ \E r \in Readings : PadSense(r)
  PROVE  TalkInv'
<1>1. use' = use /\ uploading' = uploading /\ todo' = todo
  BY DEF PadStore, PadSense, AnswerWith, uploads
<1>2. use # "upload"
  <2> SUFFICES ASSUME use = "upload" PROVE FALSE
    OBVIOUS
  <2>1. Takes({PutOld, PutNew}) \/ Takes({Sense})
    BY DEF PadStore, PadSense
  <2>2. AtPad[1] \in {PutOld, PutNew, Sense}
    BY <2>1 DEF Takes
  <2>3. AtPad[1] \in {UploadCode, GetOld, GetNew}
    BY <2>1, TakenLetters
  <2> QED
    BY <2>2, <2>3 DEF PutOld, PutNew, Sense, UploadCode, GetOld, GetNew
<1> QED
  BY <1>1, <1>2 DEF TalkInv

LEMMA TalkIdentified == WireInv /\ TalkInv /\ PadIdentify => TalkInv'
<1> SUFFICES ASSUME WireInv, TalkInv, PadIdentify PROVE TalkInv'
  OBVIOUS
<1>1. /\ use' = use /\ info' = info /\ active' = active /\ answers' = answers
      /\ dev' = dev /\ send' = send /\ mode' = mode
      /\ uploading' = uploading /\ todo' = todo /\ flight.info
  BY DEF PadIdentify, device, uploads, history
<1>2. ASSUME use = "upload"
      PROVE  ~send' /\ mode' = Off /\ ~dev'.have /\ Opening'
  <2>1. flight # Nothing /\ flight \notin Asking
    BY <1>1, AskingFacts DEF Nothing
  <2>2. ~dev.have
    <3> SUFFICES ASSUME dev.have PROVE FALSE
      OBVIOUS
    <3>1. Opened
      BY <1>2 DEF TalkInv
    <3>2. PICK b : IsUpload(b) /\ flight = Command(b)
      BY <2>1, <3>1 DEF Opened, OfUpload
    <3> QED
      BY <1>1, <3>2, UploadArrives
  <2>3. ~send /\ mode = Off /\ Opening
    BY <1>2, <2>2 DEF TalkInv
  <2>4. ~info
    BY <2>1, <2>3 DEF Opening
  <2> QED
    BY <1>1, <2>2, <2>3, <2>4 DEF Opening, Unread
<1> QED
  BY <1>1, <1>2 DEF TalkInv

LEMMA TalkStall == WireInv /\ TalkInv /\ Stall => TalkInv'
<1> SUFFICES ASSUME WireInv, TalkInv, Stall PROVE TalkInv'
  OBVIOUS
<1>1. /\ use' = use /\ buffer' = buffer /\ current' = current /\ info' = info
      /\ active' = active /\ queue' = queue /\ flight' = flight /\ written' = written
      /\ dev' = dev /\ send' = send /\ mode' = mode /\ answers' = answers
      /\ uploading' = uploading /\ todo' = todo /\ written /\ outbox # <<>>
  BY DEF Stall, connection, device, uploads
<1>2. PICK n \in 0..(Len(outbox) - 1) : outbox' = SubSeq(outbox, 1, n)
  BY DEF Stall
<1>3. outbox \in Seq(Report)
  BY DEF WireInv, WireTypes
<1>4. n = 0 => outbox' = <<>>
  BY <1>2, <1>3
<1>5. CASE use = "upload" /\ dev.have
  <2>1. ~send /\ mode = Off /\ Opened
    BY <1>5 DEF TalkInv
  <2>2. Len(outbox) = 1
    BY <1>1, <2>1 DEF Opened
  <2>3. outbox' = <<>>
    BY <1>2, <1>4, <2>2
  <2>4. Opened'
    BY <1>1, <2>1, <2>3 DEF Opened, Acknowledged
  <2> QED
    BY <1>1, <1>5, <2>1, <2>4 DEF TalkInv
<1>6. CASE use = "upload" /\ ~dev.have
  <2>1. ~send /\ mode = Off /\ Opening
    BY <1>6 DEF TalkInv
  <2>2. Unread' = Unread
    BY <1>1 DEF Unread
  <2>3. ASSUME Fed({0}, current, buffer, outbox, Unread)
        PROVE  Fed({0}, current, buffer, outbox', Unread)
    <3>1. n \in 0..Len(outbox)
      BY <1>2, <1>3
    <3> QED
      BY <1>2, <1>3, <2>3, <3>1, FedStall
  <2>4. ASSUME Fed({0}, current, buffer, Front(outbox), Unread), outbox' # <<>>
        PROVE  Fed({0}, current, buffer, Front(outbox'), Unread)
    <3>1. n \in 1..Len(outbox)
      BY <1>2, <1>3, <1>4, <2>4
    <3>2. n - 1 \in 0..Len(Front(outbox)) /\ Front(outbox') = SubSeq(Front(outbox), 1, n - 1)
      BY <1>1, <1>2, <1>3, <3>1, FrontCut
    <3>3. Front(outbox) \in Seq(Report)
      BY <1>1, <1>3, FrontFacts
    <3> QED
      BY <2>4, <3>2, <3>3, FedStall
  <2>5. Opening'
    BY <1>1, <2>1, <2>2, <2>3, <2>4 DEF Opening
  <2> QED
    BY <1>1, <1>6, <2>1, <2>5 DEF TalkInv
<1> QED
  BY <1>1, <1>5, <1>6 DEF TalkInv

LEMMA TalkPoll ==
  ASSUME WireInv, TalkInv, NEW n \in 1..Len(outbox), Poll(n)
  PROVE  TalkInv'
<1>1. /\ use' = use /\ current' = current /\ info' = info
      /\ active' = active /\ queue' = queue /\ flight' = flight /\ written' = written
      /\ dev' = dev /\ send' = send /\ mode' = mode /\ answers' = answers
      /\ uploading' = uploading /\ todo' = todo
  BY DEF Poll, device, uploads, history
<1>2. /\ buffer' = buffer \o FlattenSeq([i \in 1..n |-> Kept(outbox[i])])
      /\ outbox' = SubSeq(outbox, n + 1, Len(outbox))
  BY DEF Poll
<1>3. outbox \in Seq(Report) /\ buffer \in Seq(Nat) /\ outbox # <<>>
  BY DEF WireInv, WireTypes
<1>4. n = Len(outbox) => outbox' = <<>>
  BY <1>2, <1>3
<1>5. CASE use = "upload" /\ dev.have
  <2>1. ~send /\ mode = Off /\ Opened
    BY <1>5 DEF TalkInv
  <2>2. Len(outbox) = 1 /\ written
    BY <1>3, <2>1 DEF Opened
  <2>3. outbox' = <<>>
    BY <1>4, <2>2
  <2>4. Opened'
    BY <1>1, <2>1, <2>2, <2>3 DEF Opened, Acknowledged
  <2> QED
    BY <1>1, <1>5, <2>1, <2>4 DEF TalkInv
<1>6. CASE use = "upload" /\ ~dev.have
  <2>1. ~send /\ mode = Off /\ Opening
    BY <1>6 DEF TalkInv
  <2>2. Unread' = Unread
    BY <1>1 DEF Unread
  <2>3. ASSUME Fed({0}, current, buffer, outbox, Unread)
        PROVE  Fed({0}, current, buffer', outbox', Unread)
    BY <1>2, <1>3, <2>3, FedPoll
  <2>4. ASSUME Fed({0}, current, buffer, Front(outbox), Unread), outbox' # <<>>
        PROVE  Fed({0}, current, buffer', Front(outbox'), Unread)
    <3>1. n # Len(outbox)
      BY <1>4, <2>4
    <3> DEFINE front == Front(outbox)
    <3>2. /\ n \in 1..Len(front) /\ \A i \in 1..n : front[i] = outbox[i]
          /\ Front(outbox') = SubSeq(front, n + 1, Len(front))
      BY <1>2, <1>3, <3>1, FrontRest
    <3>3. front \in Seq(Report)
      BY <1>3, FrontFacts
    <3>4. Fed({0}, current, buffer, front, Unread)
      BY <2>4
    <3> HIDE DEF front
    <3>5. [i \in 1..n |-> Kept(front[i])] = [i \in 1..n |-> Kept(outbox[i])]
      BY <3>2
    <3>6. Fed({0}, current, buffer \o FlattenSeq([i \in 1..n |-> Kept(front[i])]),
              SubSeq(front, n + 1, Len(front)), Unread)
      BY <1>3, <3>2, <3>3, <3>4, FedPoll
    <3> QED
      BY <1>2, <3>2, <3>5, <3>6
  <2>5. Opening'
    BY <1>1, <2>1, <2>2, <2>3, <2>4 DEF Opening
  <2> QED
    BY <1>1, <1>6, <2>1, <2>5 DEF TalkInv
<1> QED
  BY <1>1, <1>5, <1>6 DEF TalkInv

\* What the application does meanwhile.
LEMMA TalkStart ==
  ASSUME WireInv, TalkInv, NEW t \in Types, NEW g \in DOMAIN Gifs, StartUpload(t, g)
  PROVE  TalkInv'
<1>1. /\ use' = use /\ buffer' = buffer /\ info' = info
      /\ active' = active /\ queue' = queue /\ flight' = flight /\ written' = written
      /\ dev' = dev /\ send' = send /\ mode' = mode /\ outbox' = outbox
      /\ use = "upload" /\ dev.have /\ Acknowledged
      /\ uploading' = [type |-> t, gif |-> g]
  BY DEF StartUpload, connection, device, usb
<1>2. g # 0
  BY WireAssumption
<1>3. ~send /\ mode = Off /\ Opened
  BY <1>1 DEF TalkInv
<1>4. Opened'
  BY <1>1, <1>3 DEF Opened, Acknowledged
<1> QED
  BY <1>1, <1>2, <1>3, <1>4 DEF TalkInv

LEMMA TalkPacket == WireInv /\ TalkInv /\ UploadPacket => TalkInv'
<1> SUFFICES ASSUME WireInv, TalkInv, UploadPacket PROVE TalkInv'
  OBVIOUS
<1> DEFINE c == Command(Head(todo).bytes)
<1>1. /\ use' = use /\ buffer' = buffer /\ info' = info
      /\ active' = active /\ flight' = flight /\ written' = written
      /\ dev' = dev /\ send' = send /\ mode' = mode /\ outbox' = outbox
      /\ uploading' = uploading /\ queue' = Append(queue, c)
      /\ todo # <<>> /\ Head(todo).op = "packet"
  BY DEF UploadPacket, device, usb
<1>2. uploading.gif # 0
  BY <1>1 DEF TalkInv
<1>3. IsUpload(Head(todo).bytes)
  BY <1>1, SendableTail DEF WireInv, WireTypes
<1>4. ASSUME AllOfUpload(queue) PROVE AllOfUpload(queue')
  <2>1. PICK C : queue \in Seq(C) /\ \A d \in C : OfUpload(d)
    BY <1>4 DEF AllOfUpload
  <2>2. OfUpload(c)
    BY <1>3 DEF OfUpload
  <2> HIDE DEF c
  <2> DEFINE D == C \cup {c}
  <2>3. queue \in Seq(D) /\ c \in D /\ \A d \in D : OfUpload(d)
    <3>1. C \subseteq D
      OBVIOUS
    <3> QED
      BY <2>1, <2>2, <3>1, SeqMonotonic
  <2> HIDE DEF D
  <2>4. Append(queue, c) \in Seq(D)
    BY <2>3
  <2> QED
    BY <1>1, <2>3, <2>4 DEF AllOfUpload
<1>5. ASSUME use = "upload" PROVE ~send /\ mode = Off /\ dev.have /\ Opened'
  <2>1. dev.have
    BY <1>2, <1>5 DEF TalkInv, Opening
  <2>2. ~send /\ mode = Off /\ Opened
    BY <1>5, <2>1 DEF TalkInv
  <2>3. uploading'.gif # 0 /\ AllOfUpload(queue')
    BY <1>1, <1>2, <1>4, <2>2 DEF Opened
  <2> QED
    BY <1>1, <2>1, <2>2, <2>3 DEF Opened
<1> QED
  BY <1>1, <1>2, <1>5 DEF TalkInv

LEMMA TalkPause == WireInv /\ TalkInv /\ UploadPause => TalkInv'
<1> SUFFICES ASSUME WireInv, TalkInv, UploadPause PROVE TalkInv'
  OBVIOUS
<1>1. /\ use' = use /\ buffer' = buffer /\ info' = info
      /\ active' = active /\ queue' = queue /\ flight' = flight /\ written' = written
      /\ dev' = dev /\ send' = send /\ mode' = mode /\ outbox' = outbox
      /\ uploading' = uploading /\ todo # <<>>
  BY DEF UploadPause, connection, device, usb
<1>2. uploading.gif # 0
  BY <1>1 DEF TalkInv
<1>3. ASSUME use = "upload" PROVE ~send /\ mode = Off /\ dev.have /\ Opened'
  <2>1. dev.have
    BY <1>2, <1>3 DEF TalkInv, Opening
  <2>2. ~send /\ mode = Off /\ Opened
    BY <1>3, <2>1 DEF TalkInv
  <2> QED
    BY <1>1, <2>1, <2>2 DEF Opened, Acknowledged
<1> QED
  BY <1>1, <1>2, <1>3 DEF TalkInv

LEMMA TalkFinish == WireInv /\ TalkInv /\ FinishUpload => TalkInv'
<1> SUFFICES ASSUME WireInv, TalkInv, FinishUpload PROVE TalkInv'
  OBVIOUS
<1>1. /\ use' = use /\ buffer' = buffer /\ info' = info
      /\ active' = active /\ queue' = queue /\ flight' = flight /\ written' = written
      /\ dev' = dev /\ send' = send /\ mode' = mode /\ outbox' = outbox
      /\ todo' = todo /\ todo = <<>> /\ Acknowledged
      /\ uploading.gif # 0
  BY DEF FinishUpload, connection, device, usb
<1>2. ASSUME use = "upload" PROVE ~send /\ mode = Off /\ dev.have /\ Opened'
  <2>1. dev.have
    BY <1>1, <1>2 DEF TalkInv, Opening
  <2>2. ~send /\ mode = Off /\ Opened
    BY <1>2, <2>1 DEF TalkInv
  <2> QED
    BY <1>1, <2>1, <2>2 DEF Opened, Acknowledged
<1> QED
  BY <1>1, <1>2 DEF TalkInv

LEMMA TalkSame == TalkInv /\ UNCHANGED vars => TalkInv'
<1> SUFFICES ASSUME TalkInv, UNCHANGED vars PROVE TalkInv'
  OBVIOUS
<1>1. /\ use' = use /\ buffer' = buffer /\ current' = current /\ info' = info
      /\ active' = active /\ queue' = queue /\ flight' = flight /\ written' = written
      /\ dev' = dev /\ send' = send /\ mode' = mode /\ answers' = answers
      /\ uploading' = uploading /\ todo' = todo /\ outbox' = outbox
  BY DEF vars, connection, device, usb, uploads, history
<1> QED
  BY <1>1 DEF TalkInv, Opened, Opening, Unread, Acknowledged

\* What the application does when it does not upload.
LEMMA TalkElse ==
  ASSUME TalkInv, \/ \E f \in Changes, v \in 1..MaxSets : SetConfig(f, v)
                  \/ \E m \in Modes \cup {Off} : SetSensorTestMode(m)
                  \/ \E p \in Pads : Replug(p)
  PROVE  TalkInv'
<1>1. use # "upload" /\ use' = use /\ uploading' = uploading /\ todo' = todo
  BY DEF SetConfig, SetSensorTestMode, Replug, uploads
<1> QED
  BY <1>1 DEF TalkInv

LEMMA TalkStep == WireInv /\ FirmwareInv /\ TalkInv /\ [Next]_vars => TalkInv'
<1> SUFFICES ASSUME WireInv, FirmwareInv, TalkInv, [Next]_vars PROVE TalkInv'
  OBVIOUS
<1>1. CASE \/ \E f \in Changes, v \in 1..MaxSets : SetConfig(f, v)
           \/ \E m \in Modes \cup {Off} : SetSensorTestMode(m)
           \/ \E p \in Pads : Replug(p)
  BY <1>1, TalkElse
<1>2. ASSUME NEW t \in Types, NEW g \in DOMAIN Gifs, StartUpload(t, g) PROVE TalkInv'
  BY <1>2, TalkStart
<1>3. CASE UploadPacket
  BY <1>3, TalkPacket
<1>4. CASE UploadPause
  BY <1>4, TalkPause
<1>5. CASE FinishUpload
  BY <1>5, TalkFinish
<1>6. ASSUME NEW put \in BOOLEAN, NEW due \in BOOLEAN, NEW timedOut \in BOOLEAN,
             Update(put, due, timedOut)
      PROVE  TalkInv'
  BY <1>6, TalkUpdate
<1>7. CASE PadIdentify
  BY <1>7, TalkIdentified
<1>8. CASE PadRead
  BY <1>8, TalkRead
<1>9. CASE PadStore \/ \E r \in Readings : PadSense(r)
  BY <1>9, TalkOther
<1>10. ASSUME NEW missed \in BOOLEAN, PadUpload(missed) PROVE TalkInv'
  BY <1>10, TalkUploaded
<1>11. CASE Stall
  BY <1>11, TalkStall
<1>12. ASSUME NEW n \in 1..Len(outbox), Poll(n) PROVE TalkInv'
  BY <1>12, TalkPoll
<1>13. CASE UNCHANGED vars
  BY <1>13, TalkSame
<1> QED
  BY <1>1, <1>2, <1>3, <1>4, <1>5, <1>6, <1>7, <1>8, <1>9, <1>10, <1>11, <1>12,
     <1>13 DEF Next

-----------------------------------------------------------------------------
(* How far an upload has come *)

\* A pause is not a packet, the master is not a panel, and a packet carries what
\* is to be in the cells it goes to.
LEMMA EntryFacts ==
  ASSUME PanelCount <= 255, NEW gif, NEW type, NEW c, Entry(c, gif, type)
  PROVE  /\ Master \notin APanel
         /\ IsPause(c) => c.ms \in Nat
         /\ \A p : Sends(c, p) => ~IsPause(c) /\ p \in APanel \cup {Master}
         /\ \A p \in APanel :
              Sends(c, p) => Right(c.bytes, p, type, Drawing(gif, type, p))
         /\ Sends(c, Master) => Right(c.bytes, Master, type, Schedule(gif, type))
<1>1. Master \notin APanel
  BY UploadAssumption DEF APanel, Master
<1>2. CASE IsPause(c) /\ c.ms \in Nat
  <2>1. \A p : ~Sends(c, p)
    BY <1>2 DEF IsPause, Sends
  <2> QED
    BY <1>1, <1>2, <2>1
<1>3. ASSUME NEW p \in APanel, c.op = "packet",
             Right(c.bytes, p, type, Drawing(gif, type, p))
      PROVE  /\ ~IsPause(c) /\ \A q : Sends(c, q) <=> q = p
  BY <1>3 DEF IsPause, Sends, Right
<1>4. ASSUME c.op = "packet", Right(c.bytes, Master, type, Schedule(gif, type))
      PROVE  /\ ~IsPause(c) /\ \A q : Sends(c, q) <=> q = Master
  BY <1>4 DEF IsPause, Sends, Right
<1> QED
  BY <1>1, <1>2, <1>3, <1>4 DEF Entry

\* The cells a packet goes to have what they are to have.
Stores(cells, b, drawing) == \A x \in Cells(b) : cells[x] = drawing[x]

LEMMA OverStores ==
  ASSUME NEW b, NEW panel, NEW type, NEW drawing, Right(b, panel, type, drawing),
         NEW cells, DOMAIN drawing \subseteq DOMAIN cells
  PROVE  /\ DOMAIN Over(cells, b) = DOMAIN cells
         /\ Stores(Over(cells, b), b, drawing)
         /\ \A c : Cells(c) \subseteq DOMAIN drawing /\ Stores(cells, c, drawing)
                     => Stores(Over(cells, b), c, drawing)
         /\ \A x \in DOMAIN cells \ DOMAIN drawing : Over(cells, b)[x] = cells[x]
<1> DEFINE new == Over(cells, b)
<1>1. new = [i \in DOMAIN cells |->
               IF i \in Cells(b) THEN b[8 + i - Start(b)] ELSE cells[i]]
  BY DEF Over, OffsetOf, Cells, Start
<1>2. \A x \in Cells(b) : x \in DOMAIN drawing /\ b[8 + x - Start(b)] = drawing[x]
  BY DEF Right
<1> HIDE DEF new
<1>3. DOMAIN new = DOMAIN cells
  BY <1>1
<1>4. \A x \in DOMAIN drawing :
        new[x] = IF x \in Cells(b) THEN drawing[x] ELSE cells[x]
  BY <1>1, <1>2
<1>5. \A x \in DOMAIN cells \ DOMAIN drawing : new[x] = cells[x]
  BY <1>1, <1>2
<1>6. Stores(new, b, drawing)
  BY <1>2, <1>4 DEF Stores
<1>7. ASSUME NEW c, Cells(c) \subseteq DOMAIN drawing, Stores(cells, c, drawing)
      PROVE  Stores(new, c, drawing)
  BY <1>4, <1>7 DEF Stores
<1> QED
  BY <1>3, <1>5, <1>6, <1>7 DEF new

\* The first m of the commands s have arrived: all of them but l at the panels,
\* all at the master; which panels may still be writing; and the timing is in
\* force after the last one.
HasStored(mem, s, m, l, gif, type) ==
  \A j \in 1..m : \A p \in APanel :
    j # l /\ Sends(s[j], p) => Stores(mem[p], s[j].bytes, Drawing(gif, type, p))

HasTiming(staged, s, m, gif, type) ==
  \A j \in 1..m : Sends(s[j], Master) => Stores(staged, s[j].bytes, Schedule(gif, type))

WritesSince(b, s, m, p, j) ==
  Sends(s[j], p) /\ b <= s[j].bytes[7] /\ \A d \in (j + 1)..m : ~IsPause(s[d])

StillWriting(bus, s, m) ==
  \A p \in APanel : bus[p] = 0 \/ \E j \in 1..m : WritesSince(bus[p], s, m, p, j)

AllButOne(mem, s, m, gif, type, losses) ==
  \E l \in Nat : (losses = 0 => l = 0) /\ HasStored(mem, s, m, l, gif, type)

Arrived(s, m, gif, type, mem, time, bus, losses) ==
  /\ AllButOne(mem, s, m, gif, type, losses)
  /\ HasTiming(time.staged, s, m, gif, type)
  /\ StillWriting(bus, s, m)
  /\ m = Len(s) => time.shown = time.staged

LEMMA NothingArrived ==
  ASSUME NEW s, Len(s) \in Nat \ {0}, NEW gif, NEW type, NEW mem, NEW time, NEW bus,
         \A p \in APanel : bus[p] = 0, NEW losses
  PROVE  Arrived(s, 0, gif, type, mem, time, bus, losses)
<1>1. HasStored(mem, s, 0, 0, gif, type) /\ HasTiming(time.staged, s, 0, gif, type)
  BY DEF HasStored, HasTiming
<1>2. AllButOne(mem, s, 0, gif, type, losses)
  BY <1>1 DEF AllButOne
<1> QED
  BY <1>1, <1>2 DEF Arrived, StillWriting

\* After a timeout the last one is sent again.
LEMMA ArrivedBefore ==
  ASSUME NEW s, Len(s) \in Nat, NEW k \in 1..Len(s), NEW gif, NEW type, NEW mem,
         NEW time, NEW bus, NEW losses, Arrived(s, k, gif, type, mem, time, bus, losses),
         NEW still, \A p \in APanel : still[p] = 0
  PROVE  Arrived(s, k - 1, gif, type, mem, time, still, losses)
<1>1. \A j \in 1..(k - 1) : j \in 1..k
  OBVIOUS
<1>2. PICK l \in Nat : (losses = 0 => l = 0) /\ HasStored(mem, s, k, l, gif, type)
  BY DEF Arrived, AllButOne
<1>3. HasStored(mem, s, k - 1, l, gif, type)
  BY <1>1, <1>2 DEF HasStored
<1>4. HasTiming(time.staged, s, k - 1, gif, type)
  BY <1>1 DEF Arrived, HasTiming
<1>5. AllButOne(mem, s, k - 1, gif, type, losses)
  BY <1>2, <1>3 DEF AllButOne
<1>6. k - 1 # Len(s)
  OBVIOUS
<1> QED
  BY <1>4, <1>5, <1>6 DEF Arrived, StillWriting

\* A pause is long enough for all panels.
PausedFor(bus, ms, after) ==
  \A p \in APanel : bus[p] \in Nat /\ after[p] = Max({0, bus[p] - ms})

LEMMA Paused ==
  ASSUME PanelCount <= 255, NEW gif, NEW type, NEW s, Prepared(s, gif, type),
         NEW k \in Nat, k < Len(s), IsPause(s[k + 1]),
         NEW mem, NEW time, NEW bus, NEW losses,
         Arrived(s, k, gif, type, mem, time, bus, losses),
         NEW after, PausedFor(bus, s[k + 1].ms, after)
  PROVE  /\ \A p \in APanel : after[p] = 0
         /\ Arrived(s, k + 1, gif, type, mem, time, after, losses)
<1> DEFINE n == Len(s)
<1>1. /\ n \in Nat \ {0} /\ Paced(s) /\ \A j \in 1..n : Entry(s[j], gif, type)
      /\ Sends(s[n], Master)
  BY DEF Prepared
<1>2. k + 1 \in 1..n
  BY <1>1
<1> HIDE DEF n
<1>3. /\ s[k + 1].ms \in Nat /\ \A p : ~Sends(s[k + 1], p)
  <2>1. Entry(s[k + 1], gif, type)
    BY <1>1, <1>2
  <2> QED
    BY <2>1, EntryFacts
<1>4. k + 1 # n
  BY <1>1, <1>3
<1>5. ASSUME NEW p \in APanel PROVE after[p] = 0
  <2> DEFINE b == bus[p]
             ms == s[k + 1].ms
  <2>1. b <= ms
    <3>1. CASE b = 0
      BY <1>3, <3>1 DEF PausedFor
    <3>2. CASE b # 0
      <4>1. PICK j \in 1..k : WritesSince(b, s, k, p, j)
        BY <3>2 DEF Arrived, StillWriting
      <4>2. /\ Sends(s[j], p) /\ b <= s[j].bytes[7]
            /\ \A d \in (j + 1)..k : ~IsPause(s[d])
        BY <4>1 DEF WritesSince
      <4>3. j \in 1..n /\ k + 1 \in (j + 1)..n /\ (k + 1) - 1 = k
        BY <1>1, <1>2
      <4>4. ms >= s[j].bytes[7]
        BY <1>1, <4>2, <4>3 DEF Paced, n
      <4>5. s[j].bytes[7] \in Nat
        <5>1. Entry(s[j], gif, type)
          BY <1>1, <4>3
        <5>2. Right(s[j].bytes, p, type, Drawing(gif, type, p))
          BY <4>2, <5>1, EntryFacts
        <5>3. MaxData \in Nat
          BY UploadAssumption
        <5> QED
          BY <5>2, <5>3 DEF Right
      <4>6. b \in Nat
        BY DEF PausedFor
      <4> HIDE DEF b, ms
      <4> QED
        BY <1>3, <4>2, <4>4, <4>5, <4>6 DEF ms
    <3> QED
      BY <3>1, <3>2
  <2>2. b \in Nat /\ ms \in Nat /\ after[p] = Max({0, b - ms})
    BY <1>3 DEF PausedFor
  <2> HIDE DEF b, ms
  <2>3. {0, b - ms} \subseteq Int /\ 0 \in {0, b - ms} /\ \A x \in {0, b - ms} : 0 >= x
    BY <2>1, <2>2
  <2>4. Max({0, b - ms}) = 0
    <3> DEFINE S == {0, b - ms}
    <3>1. \A x \in S : (\A y \in S : x >= y) <=> x = 0
      BY <2>1, <2>2
    <3> HIDE DEF S
    <3>2. 0 \in S /\ \A y \in S : 0 >= y
      BY <2>3 DEF S
    <3>3. (CHOOSE x \in S : \A y \in S : x >= y) = 0
      BY <3>1, <3>2
    <3> QED
      BY <3>3 DEF Max, S
  <2> QED
    BY <2>2, <2>4
<1>6. ASSUME NEW j \in 1..(k + 1), NEW p, Sends(s[j], p) PROVE j \in 1..k
  BY <1>3, <1>6
<1>7. PICK l \in Nat : (losses = 0 => l = 0) /\ HasStored(mem, s, k, l, gif, type)
  BY DEF Arrived, AllButOne
<1>8. HasStored(mem, s, k + 1, l, gif, type)
  BY <1>6, <1>7 DEF HasStored
<1>9. HasTiming(time.staged, s, k + 1, gif, type)
  BY <1>6 DEF Arrived, HasTiming
<1>10. AllButOne(mem, s, k + 1, gif, type, losses)
  BY <1>7, <1>8 DEF AllButOne
<1> QED
  BY <1>4, <1>5, <1>9, <1>10 DEF Arrived, StillWriting, n

\* When a packet arrives, its panel has stopped writing.
LEMMA PanelReady ==
  ASSUME NEW s, Paced(s), Len(s) \in Nat, NEW k \in 1..Len(s), NEW bus,
         StillWriting(bus, s, k - 1), NEW p \in APanel, Sends(s[k], p)
  PROVE  bus[p] = 0
<1> SUFFICES ASSUME bus[p] # 0 PROVE FALSE
  OBVIOUS
<1>1. PICK j \in 1..(k - 1) : WritesSince(bus[p], s, k - 1, p, j)
  BY DEF StillWriting
<1>2. Sends(s[j], p) /\ \A d \in (j + 1)..(k - 1) : ~IsPause(s[d])
  BY <1>1 DEF WritesSince
<1>3. j \in 1..Len(s) /\ k \in (j + 1)..Len(s)
  OBVIOUS
<1> QED
  BY <1>2, <1>3 DEF Paced

\* A panel stores a packet.
LEMMA PanelStores ==
  ASSUME PanelCount <= 255, NEW gif, NEW type, NEW s, Prepared(s, gif, type),
         NEW k \in 1..Len(s), NEW p \in APanel, Sends(s[k], p),
         NEW mem, DOMAIN mem = APanel, \A q : DOMAIN Drawing(gif, type, q) \subseteq DOMAIN mem[p],
         NEW time, NEW bus, DOMAIN bus = APanel, NEW losses,
         Arrived(s, k - 1, gif, type, mem, time, bus, losses)
  PROVE  Arrived(s, k, gif, type, [mem EXCEPT ![p] = Over(@, s[k].bytes)], time,
                 [bus EXCEPT ![p] = s[k].bytes[7]], losses)
<1> DEFINE n == Len(s)
           b == s[k].bytes
           new == [mem EXCEPT ![p] = Over(@, b)]
           after == [bus EXCEPT ![p] = b[7]]
           drawing(q) == Drawing(gif, type, q)
<1>1. /\ n \in Nat \ {0} /\ k \in Nat /\ Sends(s[n], Master)
      /\ \A j \in 1..n : Entry(s[j], gif, type)
  BY DEF Prepared
<1>2. Master # p
  <2>1. Entry(s[k], gif, type)
    BY <1>1
  <2> QED
    BY <2>1, EntryFacts
<1>3. /\ Right(b, p, type, drawing(p)) /\ ~IsPause(s[k])
      /\ \A q : Sends(s[k], q) => q = p
  <2>1. Entry(s[k], gif, type)
    BY <1>1
  <2>2. Right(b, p, type, drawing(p)) /\ ~IsPause(s[k])
    BY <2>1, EntryFacts
  <2> QED
    BY <2>2 DEF Sends
<1>4. k # n
  BY <1>1, <1>2, <1>3
<1>5. PICK l \in Nat : (losses = 0 => l = 0) /\ HasStored(mem, s, k - 1, l, gif, type)
  BY DEF Arrived, AllButOne
<1>6. /\ \A q \in APanel : q # p => new[q] = mem[q] /\ after[q] = bus[q]
      /\ new[p] = Over(mem[p], b) /\ after[p] = b[7]
  OBVIOUS
<1>7. DOMAIN drawing(p) \subseteq DOMAIN mem[p]
  OBVIOUS
<1>8. ASSUME NEW j \in 1..k, NEW q \in APanel, j # l, Sends(s[j], q)
      PROVE  Stores(new[q], s[j].bytes, drawing(q))
  <2>1. CASE j = k
    <3>1. q = p
      BY <1>3, <1>8, <2>1
    <3>2. Stores(Over(mem[p], b), b, drawing(p))
      <4> HIDE DEF drawing, b
      <4> QED
        BY <1>3, <1>7, OverStores
    <3> QED
      BY <1>6, <2>1, <3>1, <3>2
  <2>2. CASE j # k
    <3>1. j \in 1..(k - 1) /\ j \in 1..n
      BY <1>1, <2>2
    <3>2. Stores(mem[q], s[j].bytes, drawing(q))
      BY <1>5, <1>8, <3>1 DEF HasStored
    <3>3. CASE q = p
      <4>1. Entry(s[j], gif, type)
        BY <1>1, <3>1
      <4>2. Right(s[j].bytes, p, type, drawing(p))
        BY <1>8, <3>3, <4>1, EntryFacts
      <4>3. Cells(s[j].bytes) \subseteq DOMAIN drawing(p)
        BY <4>2 DEF Right
      <4>4. Stores(mem[p], s[j].bytes, drawing(p))
        BY <3>2, <3>3
      <4> HIDE DEF drawing, b
      <4>5. Stores(Over(mem[p], b), s[j].bytes, drawing(p))
        BY <1>3, <1>7, <4>3, <4>4, OverStores
      <4> QED
        BY <1>6, <3>3, <4>5
    <3> QED
      BY <1>6, <3>2, <3>3
  <2> QED
    BY <2>1, <2>2
<1> HIDE DEF n, new, after
<1>9. AllButOne(new, s, k, gif, type, losses)
  <2>1. HasStored(new, s, k, l, gif, type)
    BY <1>8 DEF HasStored
  <2> QED
    BY <1>5, <2>1 DEF AllButOne
<1>10. HasTiming(time.staged, s, k, gif, type)
  <2> SUFFICES ASSUME NEW j \in 1..k, Sends(s[j], Master)
               PROVE  Stores(time.staged, s[j].bytes, Schedule(gif, type))
    BY DEF HasTiming
  <2>1. j \in 1..(k - 1)
    BY <1>1, <1>2, <1>3
  <2> QED
    BY <2>1 DEF Arrived, HasTiming
<1>11. StillWriting(after, s, k)
  <2> SUFFICES ASSUME NEW q \in APanel, after[q] # 0
               PROVE  \E j \in 1..k : WritesSince(after[q], s, k, q, j)
    BY DEF StillWriting
  <2>1. CASE q = p
    <3>1. WritesSince(after[p], s, k, p, k)
      <4>1. b[7] <= b[7]
        <5>1. MaxData \in Nat
          BY UploadAssumption
        <5> QED
          BY <1>3, <5>1 DEF Right
      <4> QED
        BY <1>1, <1>6, <4>1 DEF WritesSince
    <3> QED
      BY <1>1, <2>1, <3>1
  <2>2. CASE q # p
    <3>1. after[q] = bus[q]
      BY <1>6, <2>2
    <3>2. PICK j \in 1..(k - 1) : WritesSince(bus[q], s, k - 1, q, j)
      BY <3>1 DEF Arrived, StillWriting
    <3>3. j \in 1..k /\ \A d \in (j + 1)..k : d = k \/ d \in (j + 1)..(k - 1)
      BY <1>1
    <3>4. WritesSince(bus[q], s, k, q, j)
      BY <1>3, <3>2, <3>3 DEF WritesSince
    <3> QED
      BY <3>1, <3>3, <3>4
  <2> QED
    BY <2>1, <2>2
<1>12. Arrived(s, k, gif, type, new, time, after, losses)
  BY <1>4, <1>9, <1>10, <1>11 DEF Arrived, n
<1> QED
  BY <1>12 DEF new, after, b

\* A panel misses a packet; it is the only one.
LEMMA PanelMisses ==
  ASSUME PanelCount <= 255, NEW gif, NEW type, NEW s, Prepared(s, gif, type),
         NEW k \in 1..Len(s), NEW p \in APanel, Sends(s[k], p), NEW mem,
         NEW time, NEW bus,
         Arrived(s, k - 1, gif, type, mem, time, bus, 0)
  PROVE  Arrived(s, k, gif, type, mem, time, bus, 1)
<1> DEFINE n == Len(s)
<1>1. /\ n \in Nat \ {0} /\ k \in Nat /\ Sends(s[n], Master)
      /\ \A j \in 1..n : Entry(s[j], gif, type)
  BY DEF Prepared
<1>2. Entry(s[k], gif, type)
  BY <1>1
<1>3. Master # p /\ ~IsPause(s[k]) /\ \A q : Sends(s[k], q) => q = p
  <2>1. Master \notin APanel /\ ~IsPause(s[k])
    BY <1>2, EntryFacts
  <2> QED
    BY <2>1 DEF Sends
<1>4. k # n
  BY <1>1, <1>3
<1>5. PICK l \in Nat : l = 0 /\ HasStored(mem, s, k - 1, l, gif, type)
  BY DEF Arrived, AllButOne
<1>6. HasStored(mem, s, k, k, gif, type)
  <2>1. \A j \in 1..k : j # k => j \in 1..(k - 1) /\ j # 0
    BY <1>1
  <2> QED
    BY <1>5, <2>1 DEF HasStored
<1>7. AllButOne(mem, s, k, gif, type, 1)
  BY <1>1, <1>6 DEF AllButOne
<1>8. HasTiming(time.staged, s, k, gif, type)
  <2> SUFFICES ASSUME NEW j \in 1..k, Sends(s[j], Master)
               PROVE  Stores(time.staged, s[j].bytes, Schedule(gif, type))
    BY DEF HasTiming
  <2>1. j \in 1..(k - 1)
    BY <1>1, <1>3
  <2> QED
    BY <2>1 DEF Arrived, HasTiming
<1>9. StillWriting(bus, s, k)
  <2> SUFFICES ASSUME NEW q \in APanel, bus[q] # 0
               PROVE  \E j \in 1..k : WritesSince(bus[q], s, k, q, j)
    BY DEF StillWriting
  <2>1. PICK j \in 1..(k - 1) : WritesSince(bus[q], s, k - 1, q, j)
    BY DEF Arrived, StillWriting
  <2>2. j \in 1..k /\ \A d \in (j + 1)..k : d = k \/ d \in (j + 1)..(k - 1)
    BY <1>1
  <2>3. WritesSince(bus[q], s, k, q, j)
    BY <1>3, <2>1, <2>2 DEF WritesSince
  <2> QED
    BY <2>2, <2>3
<1> QED
  BY <1>4, <1>7, <1>8, <1>9 DEF Arrived, n

\* The master takes a part of the timing, and puts it into force with the last.
LEMMA MasterStores ==
  ASSUME PanelCount <= 255, NEW gif, NEW type, NEW s, Prepared(s, gif, type),
         NEW k \in 1..Len(s), Sends(s[k], Master), NEW mem, NEW bus, NEW losses,
         NEW time, DOMAIN Schedule(gif, type) \subseteq DOMAIN time.staged,
         Arrived(s, k - 1, gif, type, mem, time, bus, losses),
         NEW after, after.staged = Over(time.staged, s[k].bytes),
         s[k].bytes[4] = 1 => after.shown = after.staged
  PROVE  /\ DOMAIN after.staged = DOMAIN time.staged
         /\ Arrived(s, k, gif, type, mem, after, bus, losses)
<1> DEFINE n == Len(s)
           b == s[k].bytes
           d == Schedule(gif, type)
<1>1. /\ n \in Nat \ {0} /\ k \in Nat /\ s[n].bytes[4] = 1
      /\ \A j \in 1..n : Entry(s[j], gif, type)
  BY DEF Prepared
<1>2. Entry(s[k], gif, type)
  BY <1>1
<1>3. Right(b, Master, type, d) /\ ~IsPause(s[k]) /\ \A q \in APanel : ~Sends(s[k], q)
  <2>1. Right(b, Master, type, d) /\ ~IsPause(s[k]) /\ Master \notin APanel
    BY <1>2, EntryFacts
  <2> QED
    BY <2>1 DEF Sends
<1>4. /\ DOMAIN Over(time.staged, b) = DOMAIN time.staged
      /\ Stores(Over(time.staged, b), b, d)
      /\ \A c : Cells(c) \subseteq DOMAIN d /\ Stores(time.staged, c, d)
                  => Stores(Over(time.staged, b), c, d)
  <2> HIDE DEF b, d
  <2> QED
    BY <1>3, OverStores DEF d
<1>5. \A j \in 1..k : j = k \/ j \in 1..(k - 1)
  BY <1>1
<1>6. ASSUME NEW j \in 1..k, Sends(s[j], Master)
      PROVE  Stores(after.staged, s[j].bytes, d)
  <2>1. CASE j = k
    BY <1>4, <2>1
  <2>2. CASE j # k
    <3>1. j \in 1..(k - 1) /\ j \in 1..n
      BY <1>1, <1>5, <2>2
    <3>2. Stores(time.staged, s[j].bytes, d)
      BY <1>6, <3>1 DEF Arrived, HasTiming
    <3>3. Entry(s[j], gif, type)
      BY <1>1, <3>1
    <3>4. Right(s[j].bytes, Master, type, d)
      BY <1>6, <3>3, EntryFacts
    <3>5. Cells(s[j].bytes) \subseteq DOMAIN d
      BY <3>4 DEF Right
    <3> QED
      BY <1>4, <3>2, <3>5
  <2> QED
    BY <2>1, <2>2
<1>7. PICK l \in Nat : (losses = 0 => l = 0) /\ HasStored(mem, s, k - 1, l, gif, type)
  BY DEF Arrived, AllButOne
<1>8. HasStored(mem, s, k, l, gif, type)
  BY <1>3, <1>5, <1>7 DEF HasStored
<1>9. AllButOne(mem, s, k, gif, type, losses)
  BY <1>7, <1>8 DEF AllButOne
<1>10. HasTiming(after.staged, s, k, gif, type)
  BY <1>6 DEF HasTiming
<1>11. StillWriting(bus, s, k)
  <2> SUFFICES ASSUME NEW q \in APanel, bus[q] # 0
               PROVE  \E j \in 1..k : WritesSince(bus[q], s, k, q, j)
    BY DEF StillWriting
  <2>1. PICK j \in 1..(k - 1) : WritesSince(bus[q], s, k - 1, q, j)
    BY DEF Arrived, StillWriting
  <2>2. j \in 1..k /\ \A e \in (j + 1)..k : e = k \/ e \in (j + 1)..(k - 1)
    BY <1>1
  <2>3. WritesSince(bus[q], s, k, q, j)
    BY <1>3, <2>1, <2>2 DEF WritesSince
  <2> QED
    BY <2>2, <2>3
<1>12. k = n => after.shown = after.staged
  BY <1>1
<1> QED
  BY <1>4, <1>9, <1>10, <1>11, <1>12 DEF Arrived, n, b

\* When all have arrived no panel is writing, and the animation is there.
LEMMA AllArrived ==
  ASSUME PanelCount <= 255, NEW gif, NEW type, NEW s, Prepared(s, gif, type),
         NEW mem, NEW time, NEW bus, NEW losses,
         Arrived(s, Len(s), gif, type, mem, time, bus, losses)
  PROVE  /\ \A p \in APanel : bus[p] = 0 /\ Holds(mem[p], Drawing(gif, type, p))
         /\ Holds(time.shown, Schedule(gif, type))
<1> DEFINE n == Len(s)
<1>1. /\ n \in Nat \ {0} /\ Paced(s)
      /\ \A p \in APanel : \A x \in DOMAIN Drawing(gif, type, p) :
           \E j, k \in 1..n : j # k /\ Brings(s[j], p, x) /\ Brings(s[k], p, x)
      /\ \A x \in 0..(4 * Slots) : \E j \in 1..n : Brings(s[j], Master, x)
  BY DEF Prepared
<1>2. ASSUME NEW p \in APanel PROVE bus[p] = 0
  <2> SUFFICES ASSUME bus[p] # 0 PROVE FALSE
    OBVIOUS
  <2>1. PICK j \in 1..n : WritesSince(bus[p], s, n, p, j)
    BY DEF Arrived, StillWriting
  <2>2. Sends(s[j], p) /\ \A d \in (j + 1)..n : ~IsPause(s[d])
    BY <2>1 DEF WritesSince
  <2> QED
    BY <1>1, <2>2 DEF Paced
<1>3. PICK l \in Nat : HasStored(mem, s, n, l, gif, type)
  BY DEF Arrived, AllButOne
<1>4. ASSUME NEW p \in APanel PROVE Holds(mem[p], Drawing(gif, type, p))
  <2> SUFFICES ASSUME NEW x \in DOMAIN Drawing(gif, type, p)
               PROVE  mem[p][x] = Drawing(gif, type, p)[x]
    BY DEF Holds
  <2>1. PICK j \in 1..n : j # l /\ Brings(s[j], p, x)
    BY <1>1
  <2>2. Stores(mem[p], s[j].bytes, Drawing(gif, type, p))
    BY <1>3, <2>1 DEF HasStored, Brings
  <2> QED
    BY <2>1, <2>2 DEF Stores, Brings
<1>5. Holds(time.shown, Schedule(gif, type))
  <2> SUFFICES ASSUME NEW x \in 0..(4 * Slots)
               PROVE  time.shown[x] = Schedule(gif, type)[x]
    BY DEF Holds, Schedule
  <2>1. PICK j \in 1..n : Brings(s[j], Master, x)
    BY <1>1
  <2>2. Stores(time.staged, s[j].bytes, Schedule(gif, type))
    BY <2>1 DEF Arrived, HasTiming, Brings
  <2>3. time.staged[x] = Schedule(gif, type)[x]
    BY <2>1, <2>2 DEF Stores, Brings
  <2> QED
    BY <2>3 DEF Arrived
<1> QED
  BY <1>2, <1>4, <1>5

-----------------------------------------------------------------------------
(* Uploads *)

\* What remains of the commands s after the first k.
IsRest(t, s, k) == Len(t) = Len(s) - k /\ \A i \in 1..(Len(s) - k) : t[i] = s[k + i]

LEMMA RestFacts ==
  ASSUME NEW E, NEW t \in Seq(E), NEW s, Len(s) \in Nat, NEW k \in 0..Len(s),
         IsRest(t, s, k)
  PROVE  /\ t = <<>> => k = Len(s)
         /\ t # <<>> => /\ k < Len(s) /\ k + 1 \in 1..Len(s)
                        /\ Head(t) = s[k + 1] /\ IsRest(Tail(t), s, k + 1)
<1> DEFINE n == Len(s)
           u == Tail(t)
<1>1. Len(t) = n - k /\ n \in Nat /\ k \in 0..n
  BY DEF IsRest
<1>2. ASSUME t = <<>> PROVE k = n
  <2>1. Len(t) = 0
    BY <1>2
  <2> HIDE DEF n
  <2> QED
    BY <1>1, <2>1
<1>3. ASSUME t # <<>>
      PROVE  k < n /\ k + 1 \in 1..n /\ Head(t) = s[k + 1] /\ IsRest(u, s, k + 1)
  <2>1. /\ Len(t) >= 1 /\ Head(t) = t[1] /\ Len(u) = Len(t) - 1
        /\ \A i \in 1..(Len(t) - 1) : u[i] = t[i + 1]
    BY <1>3
  <2>2. \A i \in 1..(n - k) : t[i] = s[k + i]
    BY DEF IsRest
  <2> HIDE DEF n, u
  <2>3. k < n /\ k + 1 \in 1..n /\ 1 \in 1..(n - k)
    BY <1>1, <2>1
  <2>4. ASSUME NEW i \in 1..(n - (k + 1)) PROVE u[i] = s[(k + 1) + i]
    <3>1. i \in 1..(Len(t) - 1) /\ i + 1 \in 1..(n - k) /\ k + (i + 1) = (k + 1) + i
      BY <1>1
    <3> QED
      BY <2>1, <2>2, <3>1
  <2>5. Len(u) = n - (k + 1)
    BY <1>1, <2>1
  <2>6. Head(t) = s[k + 1]
    BY <2>1, <2>2, <2>3
  <2> QED
    BY <2>3, <2>4, <2>5, <2>6 DEF IsRest, n
<1> QED
  BY <1>2, <1>3

\* The commands of s after the first j, up to the k-th, are packets that have not
\* been acknowledged: they are in the queue q, or the first of them is in flight, as
\* f, and the others are in q.
Queued(q, s, j, k) ==
  Len(q) = k - j /\ \A i \in 1..(k - j) : q[i] = Command(s[j + i].bytes)

InLine(q, f, s, j, k) ==
  /\ \A i \in (j + 1)..k : s[i].op = "packet"
  /\ \/ f = Nothing /\ Queued(q, s, j, k)
     \/ j < k /\ f = Command(s[j + 1].bytes) /\ Queued(q, s, j + 1, k)

LEMMA LineAppend ==
  ASSUME NEW C, NEW q \in Seq(C), NEW f, NEW s, NEW j \in Nat, NEW k \in Nat, j <= k,
         InLine(q, f, s, j, k), s[k + 1].op = "packet"
  PROVE  InLine(Append(q, Command(s[k + 1].bytes)), f, s, j, k + 1)
<1> DEFINE c == Command(s[k + 1].bytes)
           new == Append(q, c)
<1>1. Len(new) = Len(q) + 1 /\ \A i \in 1..(Len(q) + 1) :
        new[i] = IF i = Len(q) + 1 THEN c ELSE q[i]
  <2> HIDE DEF c
  <2> QED
    OBVIOUS
<1> HIDE DEF new
<1>2. ASSUME NEW m \in Nat, m <= k, Queued(q, s, m, k) PROVE Queued(new, s, m, k + 1)
  <2>1. Len(q) = k - m /\ \A i \in 1..(k - m) : q[i] = Command(s[m + i].bytes)
    BY <1>2 DEF Queued
  <2>2. Len(new) = (k + 1) - m
    BY <1>1, <1>2, <2>1
  <2>3. ASSUME NEW i \in 1..((k + 1) - m) PROVE new[i] = Command(s[m + i].bytes)
    <3>1. CASE i = (k - m) + 1
      <4>1. m + i = k + 1 /\ i \in 1..(Len(q) + 1) /\ i = Len(q) + 1
        BY <2>1, <3>1
      <4> QED
        BY <1>1, <4>1 DEF c
    <3>2. CASE i # (k - m) + 1
      <4>1. i \in 1..(k - m) /\ i \in 1..(Len(q) + 1) /\ i # Len(q) + 1
        BY <1>2, <2>1, <3>2
      <4> QED
        BY <1>1, <2>1, <4>1
    <3> QED
      BY <3>1, <3>2
  <2> QED
    BY <2>2, <2>3 DEF Queued
<1>3. \A i \in (j + 1)..(k + 1) : i \in (j + 1)..k \/ i = k + 1
  OBVIOUS
<1>4. \A i \in (j + 1)..(k + 1) : s[i].op = "packet"
  BY <1>3 DEF InLine
<1>5. CASE f = Nothing /\ Queued(q, s, j, k)
  <2>1. Queued(new, s, j, k + 1)
    BY <1>2, <1>5
  <2> QED
    BY <1>4, <1>5, <2>1 DEF InLine, new, c
<1>6. CASE j < k /\ f = Command(s[j + 1].bytes) /\ Queued(q, s, j + 1, k)
  <2>1. j + 1 \in Nat /\ j + 1 <= k
    BY <1>6
  <2>2. Queued(new, s, j + 1, k + 1) /\ j < k + 1
    BY <1>2, <1>6, <2>1
  <2> QED
    BY <1>4, <1>6, <2>2 DEF InLine, new, c
<1> QED
  BY <1>5, <1>6 DEF InLine

\* The first in the queue is the next one.
LEMMA LineNext ==
  ASSUME NEW C, NEW q \in Seq(C), NEW s, NEW j \in Nat, NEW k \in Nat, j <= k,
         InLine(q, Nothing, s, j, k), Queued(q, s, j, k)
  PROVE  /\ q = <<>> => j = k
         /\ q # <<>> => InLine(Tail(q), Head(q), s, j, k)
<1>1. Len(q) = k - j /\ \A i \in 1..(k - j) : q[i] = Command(s[j + i].bytes)
  BY DEF Queued
<1>2. q = <<>> => j = k
  <2>1. q = <<>> => Len(q) = 0
    OBVIOUS
  <2> QED
    BY <1>1, <2>1
<1>3. ASSUME q # <<>> PROVE InLine(Tail(q), Head(q), s, j, k)
  <2> DEFINE t == Tail(q)
  <2>1. /\ Len(q) >= 1 /\ Head(q) = q[1] /\ Len(t) = Len(q) - 1
        /\ \A i \in 1..(Len(q) - 1) : t[i] = q[i + 1]
    BY <1>3
  <2> HIDE DEF t
  <2>2. j < k /\ 1 \in 1..(k - j)
    BY <1>1, <2>1
  <2>3. Head(q) = Command(s[j + 1].bytes)
    BY <1>1, <2>1, <2>2
  <2>4. ASSUME NEW i \in 1..(k - (j + 1)) PROVE t[i] = Command(s[(j + 1) + i].bytes)
    <3>1. i \in 1..(Len(q) - 1) /\ i + 1 \in 1..(k - j) /\ j + (i + 1) = (j + 1) + i
      BY <1>1
    <3>2. t[i] = q[i + 1] /\ q[i + 1] = Command(s[j + (i + 1)].bytes)
      BY <1>1, <2>1, <3>1
    <3> QED
      BY <3>1, <3>2
  <2>5. Queued(t, s, j + 1, k)
    BY <1>1, <2>1, <2>4 DEF Queued
  <2> QED
    BY <2>2, <2>3, <2>5 DEF InLine, t
<1> QED
  BY <1>2, <1>3

\* The pads' memories are as large as they are, and what is counted is a number.
UploadTypes ==
  /\ DOMAIN memory = APanel /\ \A p \in APanel : DOMAIN memory[p] = 0..(MemorySize - 1)
  /\ DOMAIN timing = Types /\ \A t \in Types : DOMAIN timing[t].staged = 0..(4 * Slots)
  /\ DOMAIN busy = APanel /\ \A p \in APanel : busy[p] \in Nat
  /\ "losses" \in DOMAIN count /\ count.losses \in Nat
  /\ DOMAIN uploaded = Types

Reached(s, m, gif, type) ==
  Arrived(s, m, gif, type, memory, timing[type], busy, count.losses)

\* The application has gone through the first k commands, and all but the first j
\* of them are still in line; the next one may be with the pad.
Underway(s, gif, type) ==
  \E j, k \in 0..Len(s) :
    /\ j <= k /\ IsRest(todo, s, k) /\ InLine(queue, flight, s, j, k)
    /\ Reached(s, IF written THEN j + 1 ELSE j, gif, type)

UploadingOf(g, t) ==
  /\ uploading = [type |-> t, gif |-> g] /\ uploaded[t] = 0 /\ ~Refused(Gifs[g])
  /\ Underway(UploadCommands(Gifs[g], t), Gifs[g], t)

\* An animation whose upload is over is in the panels' memories, and its timing
\* is in force.
Finished(t) ==
  uploaded[t] # 0 =>
    /\ uploaded[t] \in DOMAIN Gifs /\ ~Refused(Gifs[uploaded[t]])
    /\ \A p \in APanel : Holds(memory[p], Drawing(Gifs[uploaded[t]], t, p))
    /\ Holds(timing[t].shown, Schedule(Gifs[uploaded[t]], t))

UploadInv ==
  IF use = "upload"
  THEN /\ UploadTypes
       /\ IF uploading.gif = 0 THEN \A p \in APanel : busy[p] = 0
          ELSE \E g \in DOMAIN Gifs, t \in Types : UploadingOf(g, t)
       /\ \A t \in Types : Finished(t)
  ELSE uploading.gif = 0 /\ \A t \in Types : uploaded[t] = 0

LEMMA UploadInit == Init => UploadInv
<1> SUFFICES ASSUME Init PROVE UploadInv
  OBVIOUS
<1>1. /\ memory = [p \in APanel |-> [i \in 0..(MemorySize - 1) |-> 0]]
      /\ timing = [t \in Types |-> [staged |-> NoTiming, shown |-> NoTiming]]
      /\ busy = [p \in APanel |-> 0]
      /\ uploading.gif = 0 /\ uploaded = [t \in Types |-> 0]
      /\ "losses" \in DOMAIN count /\ count.losses = 0
  BY DEF Init, APanel
<1>2. DOMAIN NoTiming = 0..(4 * Slots)
  <2> DEFINE z == TimingSize - 1
  <2>1. z = 4 * Slots
    BY UploadAssumption DEF TimingSize
  <2> HIDE DEF z
  <2>2. DOMAIN [i \in 0..z |-> NoFrame] = 0..z
    OBVIOUS
  <2> QED
    BY <2>1, <2>2 DEF NoTiming, z
<1>3. UploadTypes
  BY <1>1, <1>2 DEF UploadTypes
<1>4. \A t \in Types : uploaded[t] = 0
  BY <1>1
<1> QED
  BY <1>1, <1>3, <1>4 DEF UploadInv, Finished

\* What has nothing to do with uploads.
LEMMA UploadElse ==
  ASSUME UploadInv, use # "upload", use' = use, uploading' = uploading,
         uploaded' = uploaded
  PROVE  UploadInv'
BY DEF UploadInv

LEMMA UploadKept ==
  ASSUME UploadInv, use = "upload", use' = use, memory' = memory, timing' = timing,
         busy' = busy, todo' = todo, uploading' = uploading, uploaded' = uploaded,
         DOMAIN count' = DOMAIN count, count'.losses = count.losses,
         uploading.gif = 0 \/ (queue' = queue /\ flight' = flight /\ written' = written)
  PROVE  UploadInv'
<1>1. UploadTypes' /\ \A t \in Types : Finished(t)'
  BY DEF UploadInv, UploadTypes, Finished
<1>2. ASSUME uploading.gif # 0, NEW g \in DOMAIN Gifs, NEW t \in Types, UploadingOf(g, t)
      PROVE  UploadingOf(g, t)'
  BY <1>2 DEF UploadingOf, Underway, Reached
<1> QED
  BY <1>1, <1>2 DEF UploadInv

\* The commands of the upload that is under way.
LEMMA UploadOf ==
  ASSUME PanelCount <= 255, NEW g \in DOMAIN Gifs, NEW t \in Types
  PROVE  /\ g # 0 /\ IsGif(Gifs[g])
         /\ Prepared(UploadCommands(Gifs[g], t), Gifs[g], t)
<1>1. g # 0 /\ IsGif(Gifs[g])
  BY WireAssumption DEF IsGif
<1>2. Prepared(UploadCommands(Gifs[g], t), Gifs[g], t)
  BY <1>1, UploadPrepared
<1> QED
  BY <1>1, <1>2

LEMMA UploadStarted ==
  ASSUME PanelCount <= 255, WireInv, UploadInv, NEW t \in Types, NEW g \in DOMAIN Gifs,
         StartUpload(t, g)
  PROVE  UploadInv'
<1> DEFINE s == UploadCommands(Gifs[g], t)
<1>1. /\ use = "upload" /\ use' = use /\ queue' = <<>> /\ flight' = Nothing /\ ~written'
      /\ uploading.gif = 0 /\ uploaded[t] = 0 /\ ~Refused(Gifs[g])
      /\ uploading' = [type |-> t, gif |-> g] /\ todo' = s
      /\ memory' = memory /\ timing' = timing /\ busy' = busy
      /\ count' = count /\ uploaded' = uploaded
  BY DEF StartUpload, connection, animations, history, Acknowledged, WireInv, WireTypes
<1>2. g # 0 /\ Len(s) \in Nat \ {0}
  BY UploadOf DEF Prepared
<1>3. UploadTypes' /\ \A u \in Types : Finished(u)'
  BY <1>1 DEF UploadInv, UploadTypes, Finished
<1>4. \A p \in APanel : busy'[p] = 0
  BY <1>1 DEF UploadInv
<1> HIDE DEF s
<1>5. Arrived(s, 0, Gifs[g], t, memory', timing'[t], busy', count'.losses)
  BY <1>2, <1>4, NothingArrived
<1>6. IsRest(todo', s, 0) /\ 0 \in 0..Len(s) /\ InLine(queue', flight', s, 0, 0)
  <2>1. Queued(<<>>, s, 0, 0)
    BY DEF Queued
  <2> QED
    BY <1>1, <1>2, <2>1 DEF IsRest, InLine
<1>7. Underway(s, Gifs[g], t)'
  <2>1. s' = s
    BY DEF s
  <2> QED
    BY <1>1, <1>5, <1>6, <2>1 DEF Underway, Reached
<1>8. UploadingOf(g, t)'
  BY <1>1, <1>7 DEF UploadingOf, s
<1> QED
  BY <1>1, <1>3, <1>8 DEF UploadInv

\* What is sent are packets of an upload.
LEMMA SentUpload ==
  ASSUME PanelCount <= 255, NEW g \in DOMAIN Gifs, NEW t \in Types,
         NEW k \in 1..Len(UploadCommands(Gifs[g], t)),
         UploadCommands(Gifs[g], t)[k].op = "packet"
  PROVE  IsUpload(UploadCommands(Gifs[g], t)[k].bytes)
<1> DEFINE s == UploadCommands(Gifs[g], t)
<1>1. Sendable(s)
  BY UploadOf DEF Prepared
<1> HIDE DEF s
<1>2. PICK E : s \in Seq(E) /\ \A e \in E : e.op = "packet" => IsUpload(e.bytes)
  BY <1>1 DEF Sendable
<1>3. k \in 1..Len(s) /\ s[k].op = "packet"
  BY DEF s
<1>4. s[k] \in E
  BY <1>2, <1>3
<1>5. IsUpload(s[k].bytes)
  BY <1>2, <1>3, <1>4
<1> QED
  BY <1>5 DEF s

\* Nothing is in line any more.
LEMMA NoneInLine ==
  ASSUME PanelCount <= 255, WireInv, NEW g \in DOMAIN Gifs, NEW t \in Types,
         Underway(UploadCommands(Gifs[g], t), Gifs[g], t), Acknowledged
  PROVE  \E k \in 0..Len(UploadCommands(Gifs[g], t)) :
           /\ IsRest(todo, UploadCommands(Gifs[g], t), k)
           /\ Reached(UploadCommands(Gifs[g], t), k, Gifs[g], t)
<1> DEFINE s == UploadCommands(Gifs[g], t)
<1>1. Len(s) \in Nat
  BY UploadOf DEF Prepared
<1>2. ASSUME NEW k \in 1..Len(s), s[k].op = "packet" PROVE Command(s[k].bytes) # Nothing
  <2>1. IsUpload(s[k].bytes)
    BY <1>2, SentUpload
  <2> QED
    BY <2>1, UploadArrives
<1> HIDE DEF s
<1>3. PICK j \in 0..Len(s), k \in 0..Len(s) :
        /\ j <= k /\ IsRest(todo, s, k) /\ InLine(queue, flight, s, j, k)
        /\ Reached(s, IF written THEN j + 1 ELSE j, Gifs[g], t)
  BY DEF Underway, s
<1>4. queue = <<>> /\ flight = Nothing /\ ~written
  BY DEF Acknowledged, WireInv, WireTypes
<1>5. ~(j < k /\ flight = Command(s[j + 1].bytes))
  <2> SUFFICES ASSUME j < k PROVE flight # Command(s[j + 1].bytes)
    OBVIOUS
  <2>1. j + 1 \in 1..Len(s) /\ j + 1 \in (j + 1)..k
    BY <1>1
  <2>2. s[j + 1].op = "packet"
    BY <1>3, <2>1 DEF InLine
  <2> QED
    BY <1>2, <1>4, <2>1, <2>2
<1>6. Queued(<<>>, s, j, k)
  BY <1>3, <1>4, <1>5 DEF InLine
<1>7. j = k
  <2>1. Len(<<>>) = k - j
    BY <1>6 DEF Queued
  <2>2. k - j = 0
    BY <2>1
  <2> QED
    BY <1>1, <2>2
<1> QED
  BY <1>3, <1>4, <1>7 DEF s

\* The application goes on to the next command.
LEMMA UploadSent ==
  ASSUME PanelCount <= 255, WireInv, UploadInv, use = "upload", UploadPacket,
         uploading.gif # 0
  PROVE  UploadInv'
<1> DEFINE c == Head(todo)
<1>1. /\ todo # <<>> /\ c.op = "packet"
      /\ queue' = Append(queue, Command(c.bytes)) /\ todo' = Tail(todo)
      /\ use' = use /\ flight' = flight /\ written' = written
      /\ memory' = memory /\ timing' = timing /\ busy' = busy
      /\ count' = count /\ uploading' = uploading /\ uploaded' = uploaded
  BY DEF UploadPacket, animations, history
<1>2. UploadTypes' /\ \A u \in Types : Finished(u)'
  BY <1>1 DEF UploadInv, UploadTypes, Finished
<1>3. PICK g \in DOMAIN Gifs, t \in Types : UploadingOf(g, t)
  BY DEF UploadInv
<1> DEFINE s == UploadCommands(Gifs[g], t)
<1>4. \E E : todo \in Seq(E)
  BY DEF WireInv, WireTypes, Sendable
<1>5. PICK C : queue \in Seq(C)
  BY DEF WireInv, WireTypes, Lined
<1>6. Underway(s, Gifs[g], t) /\ Len(s) \in Nat
  BY <1>3, UploadOf DEF UploadingOf, Prepared
<1> HIDE DEF s
<1>7. PICK j \in 0..Len(s), k \in 0..Len(s) :
        /\ j <= k /\ IsRest(todo, s, k) /\ InLine(queue, flight, s, j, k)
        /\ Reached(s, IF written THEN j + 1 ELSE j, Gifs[g], t)
  BY <1>6 DEF Underway
<1>8. k < Len(s) /\ k + 1 \in 1..Len(s) /\ c = s[k + 1] /\ IsRest(todo', s, k + 1)
  BY <1>1, <1>4, <1>6, <1>7, RestFacts
<1>9. InLine(queue', flight', s, j, k + 1)
  <2>1. j \in Nat /\ k \in Nat /\ s[k + 1].op = "packet"
    BY <1>1, <1>6, <1>8
  <2>2. InLine(Append(queue, Command(s[k + 1].bytes)), flight, s, j, k + 1)
    BY <1>5, <1>7, <2>1, LineAppend
  <2> QED
    BY <1>1, <1>8, <2>2
<1>10. Underway(s, Gifs[g], t)'
  <2>1. k + 1 \in 0..Len(s) /\ j <= k + 1
    BY <1>6, <1>7, <1>8
  <2>2. s' = s
    BY DEF s
  <2> QED
    BY <1>1, <1>7, <1>8, <1>9, <2>1, <2>2 DEF Underway, Reached
<1>11. UploadingOf(g, t)'
  BY <1>1, <1>3, <1>10 DEF UploadingOf, s
<1> QED
  BY <1>1, <1>2, <1>3, <1>11 DEF UploadInv

LEMMA UploadPaused ==
  ASSUME PanelCount <= 255, WireInv, UploadInv, use = "upload", UploadPause,
         uploading.gif # 0, Acknowledged
  PROVE  UploadInv'
<1> DEFINE c == Head(todo)
<1>1. /\ queue' = <<>> /\ flight' = Nothing /\ ~written' /\ todo # <<>> /\ IsPause(c)
      /\ busy' = [p \in DOMAIN busy |-> Max({0, busy[p] - c.ms})]
      /\ todo' = Tail(todo)
      /\ use' = use /\ memory' = memory /\ timing' = timing
      /\ count' = count /\ uploading' = uploading /\ uploaded' = uploaded
  BY DEF UploadPause, connection, Acknowledged, IsPause, WireInv, WireTypes
<1>2. UploadTypes
  BY DEF UploadInv
<1>3. PICK g \in DOMAIN Gifs, t \in Types : UploadingOf(g, t)
  BY DEF UploadInv
<1> DEFINE s == UploadCommands(Gifs[g], t)
<1>4. \E E : todo \in Seq(E)
  BY DEF WireInv, WireTypes, Sendable
<1>5. Prepared(s, Gifs[g], t)
  BY UploadOf
<1>6. Underway(s, Gifs[g], t) /\ Len(s) \in Nat
  BY <1>3, <1>5 DEF UploadingOf, Prepared
<1>7. PICK k \in 0..Len(s) : IsRest(todo, s, k) /\ Reached(s, k, Gifs[g], t)
  BY <1>1, <1>6, NoneInLine
<1> HIDE DEF s
<1>8. k < Len(s) /\ k + 1 \in 1..Len(s) /\ c = s[k + 1] /\ IsRest(todo', s, k + 1)
  BY <1>1, <1>4, <1>6, <1>7, RestFacts
<1>9. DOMAIN busy' = APanel /\ \A p \in APanel : busy'[p] = Max({0, busy[p] - s[k + 1].ms})
  BY <1>1, <1>2, <1>8 DEF UploadTypes
<1>10. /\ \A p \in APanel : busy'[p] = 0
       /\ Arrived(s, k + 1, Gifs[g], t, memory, timing[t], busy', count.losses)
  <2>1. /\ k \in Nat /\ k < Len(s) /\ IsPause(s[k + 1])
        /\ Arrived(s, k, Gifs[g], t, memory, timing[t], busy, count.losses)
    BY <1>1, <1>6, <1>7, <1>8 DEF Reached
  <2> DEFINE after == busy'
  <2>2. PausedFor(busy, s[k + 1].ms, after)
    BY <1>2, <1>9 DEF UploadTypes, PausedFor
  <2> HIDE DEF after
  <2>3. /\ \A p \in APanel : after[p] = 0
        /\ Arrived(s, k + 1, Gifs[g], t, memory, timing[t], after, count.losses)
    BY <1>5, <2>1, <2>2, Paused
  <2> QED
    BY <2>3 DEF after
<1>11. UploadTypes' /\ \A u \in Types : Finished(u)'
  BY <1>1, <1>9, <1>10 DEF UploadInv, UploadTypes, Finished
<1>12. Underway(s, Gifs[g], t)'
  <2> DEFINE m == k + 1
  <2>1. m \in 0..Len(s) /\ m <= m
    BY <1>6, <1>8
  <2>2. s' = s
    BY DEF s
  <2>3. InLine(queue', flight', s, m, m)
    <3>1. m - m = 0 /\ (m + 1)..m = {} /\ 1..0 = {} /\ Len(<<>>) = 0
      BY <1>6, <2>1
    <3> HIDE DEF m
    <3> QED
      BY <1>1, <3>1 DEF InLine, Queued
  <2>4. IsRest(todo', s, m) /\ Reached(s, m, Gifs[g], t)'
    BY <1>1, <1>8, <1>10, <2>2 DEF Reached
  <2> HIDE DEF m
  <2> QED
    BY <1>1, <2>1, <2>2, <2>3, <2>4 DEF Underway
<1>13. UploadingOf(g, t)'
  BY <1>1, <1>3, <1>12 DEF UploadingOf, s
<1> QED
  BY <1>1, <1>3, <1>11, <1>13 DEF UploadInv

LEMMA UploadFinished ==
  ASSUME PanelCount <= 255, WireInv, UploadInv, use = "upload", FinishUpload
  PROVE  UploadInv'
<1>1. /\ Acknowledged /\ todo = <<>> /\ uploading.gif # 0 /\ uploading'.gif = 0
      /\ uploaded' = [uploaded EXCEPT ![uploading.type] = uploading.gif]
      /\ use' = use /\ memory' = memory /\ timing' = timing /\ busy' = busy
      /\ count' = count
  BY DEF FinishUpload, animations, history
<1>2. UploadTypes
  BY DEF UploadInv
<1>3. PICK g \in DOMAIN Gifs, t \in Types : UploadingOf(g, t)
  BY <1>1 DEF UploadInv
<1> DEFINE s == UploadCommands(Gifs[g], t)
<1>4. \E E : todo \in Seq(E)
  BY DEF WireInv, WireTypes, Sendable
<1>5. Prepared(s, Gifs[g], t)
  BY UploadOf
<1>6. Underway(s, Gifs[g], t) /\ Len(s) \in Nat
  BY <1>3, <1>5 DEF UploadingOf, Prepared
<1>7. PICK k \in 0..Len(s) : IsRest(todo, s, k) /\ Reached(s, k, Gifs[g], t)
  BY <1>1, <1>6, NoneInLine
<1> HIDE DEF s
<1>8. k = Len(s)
  BY <1>1, <1>4, <1>6, <1>7, RestFacts
<1>9. /\ \A p \in APanel : busy[p] = 0 /\ Holds(memory[p], Drawing(Gifs[g], t, p))
      /\ Holds(timing[t].shown, Schedule(Gifs[g], t))
  BY <1>5, <1>7, <1>8, AllArrived DEF Reached
<1>10. /\ uploaded'[t] = g /\ DOMAIN uploaded' = Types /\ ~Refused(Gifs[g])
       /\ \A u \in Types : u # t => uploaded'[u] = uploaded[u]
  BY <1>1, <1>2, <1>3 DEF UploadTypes, UploadingOf
<1>11. UploadTypes'
  BY <1>1, <1>2, <1>10 DEF UploadTypes
<1>12. ASSUME NEW u \in Types PROVE Finished(u)'
  <2>1. CASE u = t
    BY <1>1, <1>9, <1>10, <2>1 DEF Finished
  <2>2. CASE u # t
    <3>1. Finished(u)
      BY DEF UploadInv
    <3> QED
      BY <1>1, <1>10, <2>2, <3>1 DEF Finished
  <2> QED
    BY <2>1, <2>2
<1> QED
  BY <1>1, <1>9, <1>11, <1>12 DEF UploadInv

\* An update: the packet is sent, sent again, or acknowledged.
LEMMA UploadUpdated ==
  ASSUME PanelCount <= 255, WireInv, FirmwareInv, TalkInv, UploadInv, use = "upload",
         NEW put, NEW due, NEW timedOut \in BOOLEAN, Update(put, due, timedOut)
  PROVE  UploadInv'
<1> DEFINE after == Outcome(IF timedOut THEN Nothing ELSE flight)
           line == UploadLine(timedOut)
<1>1. ~send /\ mode = Off /\ (dev.have => Opened) /\ (~dev.have => Opening)
  BY DEF TalkInv
<1>2. PlainUpdate(timedOut, after, line)
  BY <1>1, PlainUpdated
<1>3. /\ busy' = IF timedOut THEN [p \in DOMAIN busy |-> 0] ELSE busy
      /\ use' = use /\ memory' = memory /\ timing' = timing /\ count' = count
      /\ todo' = todo /\ uploading' = uploading /\ uploaded' = uploaded
  BY <1>2 DEF PlainUpdate
<1>4. UploadTypes /\ UploadTypes' /\ \A u \in Types : Finished(u)'
  BY <1>3 DEF UploadInv, UploadTypes, Finished
<1>5. CASE uploading.gif = 0
  <2>1. \A p \in APanel : busy'[p] = 0
    BY <1>3, <1>4, <1>5 DEF UploadInv, UploadTypes
  <2> QED
    BY <1>3, <1>4, <1>5, <2>1 DEF UploadInv
<1>6. CASE uploading.gif # 0
  <2>1. dev.have /\ Opened
    BY <1>1, <1>6 DEF Opening
  <2>2. Exchange
    BY <1>2, <2>1, OpenedExchange
  <2>3. PICK g \in DOMAIN Gifs, t \in Types : UploadingOf(g, t)
    BY <1>6 DEF UploadInv
  <2> DEFINE s == UploadCommands(Gifs[g], t)
             at(k, bus) == Arrived(s, k, Gifs[g], t, memory, timing[t], bus, count.losses)
             row(q, f, j, k) == InLine(q, f, s, j, k)
  <2>4. Len(s) \in Nat /\ Underway(s, Gifs[g], t)
    BY <2>3, UploadOf DEF UploadingOf, Prepared
  <2> HIDE DEF s
  <2>5. \E j, k \in 0..Len(s) :
          /\ j <= k /\ IsRest(todo, s, k) /\ row(queue', flight', j, k)
          /\ at(IF written' THEN j + 1 ELSE j, busy')
    <3>1. PICK j \in 0..Len(s), k \in 0..Len(s) :
            /\ j <= k /\ IsRest(todo, s, k) /\ row(queue, flight, j, k)
            /\ at(IF written THEN j + 1 ELSE j, busy)
      BY <2>4 DEF Underway, Reached
    <3>2. /\ written => flight # Nothing
          /\ j \in Nat /\ k \in Nat /\ (j < k => j + 1 \in 1..Len(s))
          /\ flight # Nothing => j < k /\ Queued(queue, s, j + 1, k)
          /\ flight = Nothing => Queued(queue, s, j, k) \/ Nothing = Command(s[j + 1].bytes)
      BY <2>4, <3>1 DEF InLine, WireInv, WireTypes
    <3>3. CASE queue' = queue /\ flight' = flight /\ (written' <=> written) /\ busy' = busy
      BY <3>1, <3>3
    <3>4. CASE /\ written /\ queue' = queue /\ flight' = flight /\ ~written'
               /\ busy' = [p \in DOMAIN busy |-> 0]
      <4> DEFINE still == busy'
                 m == j + 1
      <4>1. \A p \in APanel : still[p] = 0
        BY <1>4, <3>4 DEF UploadTypes
      <4>2. at(m, busy) /\ m \in 1..Len(s) /\ m - 1 = j
        BY <3>1, <3>2, <3>4
      <4> HIDE DEF still, m
      <4>3. at(m - 1, still)
        BY <2>4, <4>1, <4>2, ArrivedBefore
      <4> QED
        BY <3>1, <3>4, <4>2, <4>3 DEF still
    <3>5. CASE /\ flight = Nothing \/ written
               /\ ~written' /\ busy' = busy
               /\ IF queue = <<>> THEN flight' = Nothing /\ queue' = <<>>
                  ELSE flight' = Head(queue) /\ queue' = Tail(queue)
      <4>1. PICK m \in 0..Len(s) :
              /\ m <= k /\ row(queue, Nothing, m, k) /\ Queued(queue, s, m, k)
              /\ at(m, busy)
        <5>1. CASE written
          <6>1. j < k /\ j + 1 \in 0..Len(s) /\ j + 1 <= k /\ Queued(queue, s, j + 1, k)
            BY <3>1, <3>2, <5>1
          <6>2. \A i \in ((j + 1) + 1)..k : i \in (j + 1)..k
            BY <3>2
          <6>3. row(queue, Nothing, j + 1, k)
            BY <3>1, <6>1, <6>2 DEF InLine
          <6> QED
            BY <3>1, <5>1, <6>1, <6>3
        <5>2. CASE ~written
          <6>1. flight = Nothing
            BY <3>5, <5>2
          <6>2. ASSUME j < k PROVE Nothing # Command(s[j + 1].bytes)
            <7>1. j + 1 \in 1..Len(s) /\ j + 1 \in (j + 1)..k
              BY <3>2, <6>2
            <7>2. s[j + 1].op = "packet"
              BY <3>1, <7>1 DEF InLine
            <7>3. IsUpload(s[j + 1].bytes)
              BY <7>1, <7>2, SentUpload DEF s
            <7> QED
              BY <7>3, UploadArrives
          <6>3. Queued(queue, s, j, k)
            BY <3>1, <6>1, <6>2 DEF InLine
          <6> QED
            BY <3>1, <5>2, <6>1, <6>3
        <5> QED
          BY <5>1, <5>2
      <4>2. PICK C : queue \in Seq(C)
        BY DEF WireInv, WireTypes, Lined
      <4>3. m \in Nat
        BY <2>4
      <4>4. /\ queue = <<>> => m = k
            /\ queue # <<>> => row(Tail(queue), Head(queue), m, k)
        BY <3>2, <4>1, <4>2, <4>3, LineNext
      <4>5. row(queue', flight', m, k)
        BY <3>5, <4>1, <4>4
      <4> QED
        BY <3>1, <3>5, <4>1, <4>5
    <3> QED
      BY <2>2, <3>3, <3>4, <3>5 DEF Exchange
  <2>6. Underway(s, Gifs[g], t)'
    <3>1. s' = s
      BY DEF s
    <3> QED
      BY <1>3, <2>5, <3>1 DEF Underway, Reached
  <2>7. UploadingOf(g, t)'
    BY <1>3, <2>3, <2>6 DEF UploadingOf, s
  <2> QED
    BY <1>3, <1>4, <1>6, <2>7 DEF UploadInv
<1> QED
  BY <1>5, <1>6

\* The drawings of both types have their places in a panel's memory.
LEMMA DrawingFits ==
  /\ \A gif, type, panel : DOMAIN Drawing(gif, type, panel) \subseteq 0..(MemorySize - 1)
  /\ \A gif, other, panel, of : \A t, u \in Types : t # u =>
       DOMAIN Drawing(gif, t, panel) \cap DOMAIN Drawing(other, u, of) = {}
  /\ \A t \in Types : \A b : b[3] = TypeIndex(t) => TypeOf(b) = t
<1>1. \A gif, type, panel :
        DOMAIN Drawing(gif, type, panel) = Graphics(type) \cup Colors(type)
  BY DEF Drawing
<1>2. MemorySize = 2 * (Slots * GraphicSize) + 2 * MaxColors
  <2> DEFINE G == GraphicSize
  <2>1. G \in Nat /\ Slots \in Nat
    BY Sizes
  <2> HIDE DEF G
  <2>2. 2 * Slots * G = 2 * (Slots * G)
    BY <2>1
  <2> QED
    BY <2>2 DEF MemorySize, G
<1>3. \A t, u \in Types : t # u => TypeIndex(t) # TypeIndex(u)
  BY DEF Types, TypeIndex
<1>4. ASSUME NEW type
      PROVE  Graphics(type) \cup Colors(type) \subseteq 0..(MemorySize - 1)
  <2> DEFINE N == Slots * GraphicSize
             M == MaxColors
             cells == Graphics(type) \cup Colors(type)
  <2>1. /\ Graphics(type) \cap Colors(type) = {}
        /\ cells \subseteq 0..(2 * N + 2 * M - 1)
    BY CellsApart, ZenonT(30)
  <2>2. MemorySize = 2 * N + 2 * M /\ N \in Nat /\ M \in Nat
    BY <1>2, Sizes
  <2> HIDE DEF N, M, cells
  <2>3. MemorySize - 1 = 2 * N + 2 * M - 1
    BY <2>2
  <2>4. cells \subseteq 0..(MemorySize - 1)
    BY <2>1, <2>3
  <2> QED
    BY <2>4 DEF cells
<1>5. ASSUME NEW t \in Types, NEW b, b[3] = TypeIndex(t) PROVE TypeOf(b) = t
  BY <1>5 DEF Types, TypeIndex, TypeOf
<1>6. ASSUME NEW gif, NEW other, NEW panel, NEW of, NEW t \in Types, NEW u \in Types, t # u
      PROVE  DOMAIN Drawing(gif, t, panel) \cap DOMAIN Drawing(other, u, of) = {}
  <2>1. (Graphics(t) \cup Colors(t)) \cap (Graphics(u) \cup Colors(u)) = {}
    BY <1>3, <1>6, CellsApart
  <2> QED
    BY <1>1, <2>1
<1>7. ASSUME NEW gif, NEW type, NEW panel
      PROVE  DOMAIN Drawing(gif, type, panel) \subseteq 0..(MemorySize - 1)
  BY <1>1, <1>4
<1> QED
  BY <1>5, <1>6, <1>7

\* The pad has the packet in flight: it is stored, or missed for once.
LEMMA UploadTaken ==
  ASSUME MaxLosses <= 1, PanelCount <= 255, WireInv, TalkInv, UploadInv,
         use = "upload", NEW missed \in BOOLEAN, PadUpload(missed)
  PROVE  UploadInv'
<1>1. /\ Takes({UploadCode}) /\ written' = TRUE
      /\ use' = use /\ queue' = queue /\ flight' = flight
      /\ todo' = todo /\ uploading' = uploading /\ uploaded' = uploaded
      /\ missed => count.losses < MaxLosses
      /\ count' = IF missed THEN Counted("losses") ELSE count
  BY DEF PadUpload, AnswerWith, uploads
<1>2. UploadTypes
  BY DEF UploadInv
<1>3. ~written /\ flight # Nothing /\ dev.have
  <2>1. ~written /\ AtPad[1] = UploadCode /\ (~dev.have => AtPad[1] \in {GetOld, GetNew})
    BY <1>1, TakenLetters
  <2> QED
    BY <1>1, <2>1 DEF UploadCode, GetOld, GetNew, Takes
<1>4. uploading.gif # 0 /\ ~Acknowledged
  BY <1>3 DEF TalkInv, Opened, Acknowledged
<1>5. PICK g \in DOMAIN Gifs, t \in Types : UploadingOf(g, t)
  BY <1>4 DEF UploadInv
<1> DEFINE s == UploadCommands(Gifs[g], t)
           gif == Gifs[g]
           b == AtPad
<1>6. Prepared(s, gif, t) /\ Len(s) \in Nat /\ Underway(s, gif, t)
  BY <1>5, UploadOf DEF UploadingOf, Prepared
<1>7. PICK j \in 0..Len(s), r \in 0..Len(s) :
        /\ j <= r /\ IsRest(todo, s, r) /\ InLine(queue, flight, s, j, r)
        /\ Reached(s, j, gif, t)
  <2> HIDE DEF s
  <2> QED
    BY <1>3, <1>6 DEF Underway
<1> DEFINE k == j + 1
<1>8. k \in 1..Len(s) /\ k - 1 = j /\ s[k].op = "packet" /\ b = s[k].bytes
  <2>1. j < r /\ flight = Command(s[k].bytes)
    BY <1>3, <1>7 DEF InLine
  <2>2. k \in 1..Len(s) /\ k - 1 = j /\ k \in (j + 1)..r
    BY <1>6, <2>1
  <2>3. s[k].op = "packet"
    BY <1>7, <2>2 DEF InLine
  <2>4. IsUpload(s[k].bytes)
    BY <2>2, <2>3, SentUpload
  <2> QED
    BY <2>1, <2>2, <2>3, <2>4, UploadArrives DEF AtPad
<1>9. Entry(s[k], gif, t) /\ Paced(s)
  BY <1>6, <1>8 DEF Prepared
<1>10. b[2] = Master \/ b[2] \in APanel
  BY <1>8, <1>9 DEF Entry, IsPause, Right
<1>11. Sends(s[k], b[2]) /\ TypeOf(b) = t
  <2>1. b[3] = TypeIndex(t)
    BY <1>8, <1>9 DEF Entry, IsPause, Right
  <2> QED
    BY <1>8, <2>1, DrawingFits DEF Sends
<1>12. Arrived(s, k - 1, gif, t, memory, timing[t], busy, count.losses)
  BY <1>7, <1>8 DEF Reached
<1> HIDE DEF s, gif
<1>13. ASSUME Arrived(s, k, gif, t, memory', timing'[t], busy', count'.losses),
              UploadTypes', \A u \in Types \ {t} : Finished(u)'
       PROVE  UploadInv'
  <2>1. s' = s /\ gif' = gif
    BY DEF s, gif
  <2>2. Underway(s, gif, t)'
    BY <1>1, <1>7, <1>13, <2>1 DEF Underway, Reached, k
  <2>3. UploadingOf(g, t)' /\ Finished(t)'
    BY <1>1, <1>5, <2>2 DEF UploadingOf, Finished, s, gif
  <2> QED
    BY <1>1, <1>4, <1>13, <2>3 DEF UploadInv
<1>14. \A u \in Types : Finished(u)
  BY DEF UploadInv
<1>15. CASE b[2] = Master
  <2>1. /\ ~missed /\ memory' = memory /\ busy' = busy /\ count' = count
        /\ timing' = [timing EXCEPT ![t] =
             [staged |-> Over(timing[t].staged, b),
              shown |-> IF b[4] = 1 THEN Over(timing[t].staged, b) ELSE @.shown]]
    BY <1>1, <1>11, <1>15 DEF PadUpload
  <2> DEFINE after == timing'[t]
  <2>2. /\ after.staged = Over(timing[t].staged, b)
        /\ b[4] = 1 => after.shown = after.staged
        /\ DOMAIN timing' = Types /\ \A u \in Types \ {t} : timing'[u] = timing[u]
    BY <1>2, <2>1 DEF UploadTypes
  <2>3. DOMAIN timing[t].staged = 0..(4 * Slots) /\ DOMAIN Schedule(gif, t) = 0..(4 * Slots)
    BY <1>2 DEF UploadTypes, Schedule
  <2> HIDE DEF after, b
  <2>4. /\ DOMAIN after.staged = DOMAIN timing[t].staged
        /\ Arrived(s, k, gif, t, memory, after, busy, count.losses)
    BY <1>6, <1>8, <1>11, <1>12, <1>15, <2>2, <2>3, MasterStores
  <2>5. UploadTypes'
    BY <1>1, <1>2, <2>1, <2>2, <2>3, <2>4 DEF UploadTypes, after
  <2>6. \A u \in Types \ {t} : Finished(u)'
    BY <1>1, <1>14, <2>1, <2>2 DEF Finished
  <2> QED
    BY <1>13, <2>1, <2>4, <2>5, <2>6 DEF after
<1>16. CASE b[2] \in APanel
  <2> DEFINE p == b[2]
  <2>1. p \in APanel /\ Sends(s[k], p) /\ p # Master
    BY <1>11, <1>16, <1>9, EntryFacts
  <2>2. busy[p] = 0
    BY <1>6, <1>8, <1>9, <1>12, <2>1, PanelReady DEF Arrived
  <2>3. timing' = timing
    BY <2>1 DEF PadUpload, animations
  <2>4. CASE missed
    <3>1. memory' = memory /\ busy' = busy
      BY <2>1, <2>4 DEF PadUpload, animations
    <3>2. count.losses = 0 /\ count'.losses = 1 /\ DOMAIN count' = DOMAIN count
      <4>1. count.losses < MaxLosses /\ count.losses \in Nat /\ MaxLosses \in Nat
        BY <1>1, <1>2, <2>4, WireAssumption DEF UploadTypes
      <4>2. count.losses = 0
        BY <4>1
      <4> QED
        BY <1>1, <1>2, <2>4, <4>2 DEF UploadTypes, Counted
    <3>3. Arrived(s, k, gif, t, memory, timing[t], busy, 1)
      BY <1>6, <1>8, <1>12, <2>1, <3>2, PanelMisses
    <3>4. UploadTypes'
      BY <1>1, <1>2, <2>3, <3>1, <3>2 DEF UploadTypes
    <3>5. \A u \in Types \ {t} : Finished(u)'
      BY <1>1, <1>14, <2>3, <3>1 DEF Finished
    <3> QED
      BY <1>13, <2>3, <3>1, <3>2, <3>3, <3>4, <3>5
  <2>5. CASE ~missed
    <3>1. /\ memory' = [memory EXCEPT ![p] = Over(@, b)]
          /\ busy' = [busy EXCEPT ![p] = b[7]] /\ count' = count
      BY <1>1, <2>1, <2>2, <2>5 DEF PadUpload
    <3>2. /\ DOMAIN memory = APanel /\ DOMAIN busy = APanel
          /\ DOMAIN memory[p] = 0..(MemorySize - 1)
          /\ \A q : DOMAIN Drawing(gif, t, q) \subseteq DOMAIN memory[p]
      BY <1>2, <2>1, DrawingFits DEF UploadTypes
    <3>3. Right(b, p, t, Drawing(gif, t, p))
      BY <1>8, <1>9, <2>1, EntryFacts
    <3> HIDE DEF p
    <3>4. Arrived(s, k, gif, t, [memory EXCEPT ![p] = Over(@, s[k].bytes)], timing[t],
                  [busy EXCEPT ![p] = s[k].bytes[7]], count.losses)
      BY <1>6, <1>8, <1>12, <2>1, <3>2, PanelStores
    <3> HIDE DEF b
    <3>5. /\ DOMAIN Over(memory[p], b) = DOMAIN memory[p]
          /\ \A x \in DOMAIN memory[p] \ DOMAIN Drawing(gif, t, p) :
               Over(memory[p], b)[x] = memory[p][x]
      <4> DEFINE d == Drawing(gif, t, p)
                 m == memory[p]
      <4>1. Right(b, p, t, d) /\ DOMAIN d \subseteq DOMAIN m
        BY <3>2, <3>3
      <4> HIDE DEF d, m
      <4>2. /\ DOMAIN Over(m, b) = DOMAIN m
            /\ \A x \in DOMAIN m \ DOMAIN d : Over(m, b)[x] = m[x]
        BY <4>1, OverStores
      <4> QED
        BY <4>2 DEF d, m
    <3>6. /\ DOMAIN memory' = APanel /\ DOMAIN busy' = APanel
          /\ memory'[p] = Over(memory[p], b) /\ busy'[p] = b[7]
          /\ \A q \in APanel \ {p} : memory'[q] = memory[q] /\ busy'[q] = busy[q]
      BY <2>1, <3>1, <3>2
    <3>7. b[7] \in Nat
      BY <3>3, UploadAssumption DEF Right
    <3>8. UploadTypes'
      BY <1>1, <1>2, <2>3, <3>1, <3>2, <3>5, <3>6, <3>7 DEF UploadTypes
    <3>9. ASSUME NEW u \in Types \ {t} PROVE Finished(u)'
      <4> DEFINE h == Gifs[uploaded[u]]
      <4> SUFFICES ASSUME uploaded[u] # 0, NEW q \in APanel
                   PROVE  Holds(memory'[q], Drawing(h, u, q))
        BY <1>1, <1>14, <2>3 DEF Finished
      <4> HIDE DEF h
      <4>1. Holds(memory[q], Drawing(h, u, q))
        BY <1>14 DEF Finished, h
      <4>2. CASE q = p
        <5> SUFFICES ASSUME NEW x \in DOMAIN Drawing(h, u, p)
                     PROVE  Over(memory[p], b)[x] = Drawing(h, u, p)[x]
          BY <3>6, <4>2 DEF Holds
        <5>1. x \in 0..(MemorySize - 1) /\ x \notin DOMAIN Drawing(gif, t, p)
          BY DrawingFits
        <5> QED
          BY <3>2, <3>5, <4>1, <4>2, <5>1 DEF Holds
      <4> QED
        BY <3>6, <4>1, <4>2
    <3> QED
      BY <1>8, <1>13, <2>3, <3>1, <3>4, <3>8, <3>9
  <2> QED
    BY <2>4, <2>5
<1> QED
  BY <1>10, <1>15, <1>16

\* How many pauses were over too early is a number that does not get smaller.
LateTypes == "late" \in DOMAIN count /\ count.late \in Nat

LEMMA LateStep ==
  ASSUME LateTypes, [Next]_vars
  PROVE  /\ LateTypes' /\ (count'.late = 0 => count.late = 0)
         /\ UploadPause /\ count'.late = 0 => Acknowledged
<1>1. \/ count' = count
      \/ \E w \in {"sets", "modes", "requests", "replugs", "stalls", "losses", "late"} :
           count' = Counted(w)
  <2>1. ASSUME \/ \E f \in Changes, v \in 1..MaxSets : SetConfig(f, v)
               \/ \E m \in Modes \cup {Off} : SetSensorTestMode(m)
               \/ \E p \in Pads : Replug(p)
               \/ Stall
        PROVE  \E w \in {"sets", "modes", "replugs", "stalls"} : count' = Counted(w)
    BY <2>1 DEF SetConfig, SetSensorTestMode, Replug, Stall
  <2>2. ASSUME \/ \E t \in Types, g \in DOMAIN Gifs : StartUpload(t, g)
               \/ UploadPacket \/ FinishUpload \/ PadIdentify \/ UNCHANGED vars
               \/ \E n \in 1..Len(outbox) : Poll(n)
               \/ PadRead \/ PadStore \/ \E r \in Readings : PadSense(r)
        PROVE  count' = count
    BY <2>2 DEF StartUpload, UploadPacket, FinishUpload, PadIdentify, Poll, PadRead,
       PadStore, PadSense, vars, history
  <2>3. ASSUME NEW put \in BOOLEAN, NEW due \in BOOLEAN, NEW timedOut \in BOOLEAN,
               Update(put, due, timedOut)
        PROVE  count' = count \/ count' = Counted("requests")
    BY <2>3 DEF Update
  <2>4. ASSUME NEW missed \in BOOLEAN, PadUpload(missed)
        PROVE  count' = count \/ count' = Counted("losses")
    BY <2>4 DEF PadUpload
  <2>5. ASSUME UploadPause PROVE count' = count \/ count' = Counted("late")
    BY <2>5 DEF UploadPause
  <2> QED
    BY <2>1, <2>2, <2>3, <2>4, <2>5 DEF Next
<1>2. UploadPause /\ ~Acknowledged => count' = Counted("late")
  BY DEF UploadPause
<1> QED
  BY <1>1, <1>2 DEF LateTypes, Counted

LEMMA UploadStep ==
  ASSUME MaxLosses <= 1, PanelCount <= 255, WireInv, FirmwareInv, TalkInv, UploadInv,
         [Next]_vars, UploadPause => Acknowledged
  PROVE  UploadInv'
<1> DEFINE Silently ==
             /\ use' = use /\ memory' = memory /\ timing' = timing
             /\ busy' = busy /\ todo' = todo /\ uploading' = uploading
             /\ uploaded' = uploaded
             /\ DOMAIN count' = DOMAIN count /\ count'.losses = count.losses
             /\ uploading.gif = 0
                  \/ (queue' = queue /\ flight' = flight /\ written' = written)
<1>1. ASSUME NEW t \in Types, NEW g \in DOMAIN Gifs, StartUpload(t, g) PROVE UploadInv'
  BY <1>1, UploadStarted
<1>2. CASE FinishUpload
  <2>1. use = "upload"
    BY <1>2 DEF FinishUpload, UploadInv
  <2> QED
    BY <1>2, <2>1, UploadFinished
<1>3. ASSUME use # "upload", ~FinishUpload,
             ~\E t \in Types, g \in DOMAIN Gifs : StartUpload(t, g)
      PROVE  UploadInv'
  <2> DEFINE Same == use' = use /\ uploading' = uploading /\ uploaded' = uploaded
  <2>1. ASSUME \/ \E f \in Changes, v \in 1..MaxSets : SetConfig(f, v)
               \/ \E m \in Modes \cup {Off} : SetSensorTestMode(m)
               \/ \E p \in Pads : Replug(p)
               \/ \E n \in 1..Len(outbox) : Poll(n)
               \/ Stall \/ PadIdentify \/ UNCHANGED vars
        PROVE  Same
    BY <2>1 DEF SetConfig, SetSensorTestMode, Replug, Poll, Stall, PadIdentify, uploads, vars
  <2>2. ASSUME \/ PadRead \/ PadStore \/ \E r \in Readings : PadSense(r)
               \/ \E missed \in BOOLEAN : PadUpload(missed)
        PROVE  Same
    BY <2>2 DEF PadRead, PadStore, PadSense, PadUpload, AnswerWith, uploads
  <2>3. ASSUME UploadPacket \/ UploadPause PROVE Same
    BY <2>3 DEF UploadPacket, UploadPause
  <2>4. ASSUME \E put, due, timedOut \in BOOLEAN : Update(put, due, timedOut) PROVE Same
    BY <2>4 DEF Update, uploads
  <2> HIDE DEF Same
  <2>5. Same
    BY <1>3, <2>1, <2>2, <2>3, <2>4 DEF Next
  <2> QED
    BY <1>3, <2>5, UploadElse DEF Same
<1>4. ASSUME use = "upload", UploadPacket \/ UploadPause PROVE UploadInv'
  <2>1. uploading.gif # 0
    BY <1>4 DEF UploadPacket, UploadPause, TalkInv
  <2>2. CASE UploadPacket
    BY <1>4, <2>1, <2>2, UploadSent
  <2>3. CASE UploadPause
    BY <1>4, <2>1, <2>3, UploadPaused
  <2> QED
    BY <1>4, <2>2, <2>3
<1>5. ASSUME use = "upload", NEW put \in BOOLEAN, NEW due \in BOOLEAN,
             NEW timedOut \in BOOLEAN, Update(put, due, timedOut)
      PROVE  UploadInv'
  BY <1>5, UploadUpdated
<1>6. ASSUME use = "upload", NEW missed \in BOOLEAN, PadUpload(missed) PROVE UploadInv'
  BY <1>6, UploadTaken
<1>7. ASSUME use = "upload", PadRead \/ PadIdentify PROVE Silently
  <2>1. uploading.gif = 0
    <3>1. CASE PadRead
      <4>1. Takes({GetOld, GetNew})
        BY <3>1 DEF PadRead
      <4>2. AtPad[1] \in {GetOld, GetNew} /\ (dev.have => AtPad[1] = UploadCode)
        BY <1>7, <4>1, TakenLetters
      <4>3. ~dev.have
        BY <4>2 DEF UploadCode, GetOld, GetNew
      <4> QED
        BY <1>7, <4>3 DEF TalkInv, Opening
    <3>2. CASE PadIdentify
      <4>1. flight.info
        BY <3>2 DEF PadIdentify
      <4>2. ASSUME uploading.gif # 0 PROVE FALSE
        <5>1. Opened
          BY <1>7, <4>2 DEF TalkInv, Opening
        <5>2. flight # Nothing
          BY <4>1 DEF Nothing
        <5>3. PICK b : IsUpload(b) /\ flight = Command(b)
          BY <5>1, <5>2 DEF Opened, OfUpload
        <5> QED
          BY <4>1, <5>3, UploadArrives
      <4> QED
        BY <4>2
    <3> QED
      BY <1>7, <3>1, <3>2
  <2>2. /\ use' = use /\ uploading' = uploading /\ uploaded' = uploaded /\ todo' = todo
        /\ memory' = memory /\ timing' = timing /\ busy' = busy /\ count' = count
    BY <1>7 DEF PadRead, PadIdentify, AnswerWith, uploads, animations, history
  <2> QED
    BY <2>1, <2>2
<1>8. ASSUME use = "upload", Stall \/ (\E n \in 1..Len(outbox) : Poll(n)) \/ UNCHANGED vars
      PROVE  Silently
  <2>1. /\ use' = use /\ uploading' = uploading /\ uploaded' = uploaded /\ todo' = todo
        /\ memory' = memory /\ timing' = timing /\ busy' = busy
        /\ queue' = queue /\ flight' = flight /\ written' = written
        /\ count' = count \/ count' = Counted("stalls")
    BY <1>8 DEF Stall, Poll, vars, connection, uploads, animations, history
  <2>2. "losses" \in DOMAIN count
    BY <1>8 DEF UploadInv, UploadTypes
  <2>3. DOMAIN count' = DOMAIN count /\ count'.losses = count.losses
    BY <2>1, <2>2 DEF Counted
  <2> QED
    BY <2>1, <2>3
<1>9. ASSUME use = "upload", PadStore \/ \E r \in Readings : PadSense(r) PROVE FALSE
  <2>1. Takes({PutOld, PutNew}) \/ Takes({Sense})
    BY <1>9 DEF PadStore, PadSense
  <2>2. AtPad[1] \in {PutOld, PutNew, Sense}
    BY <2>1 DEF Takes
  <2>3. AtPad[1] \in {UploadCode, GetOld, GetNew}
    BY <1>9, <2>1, TakenLetters
  <2> QED
    BY <2>2, <2>3 DEF PutOld, PutNew, Sense, UploadCode, GetOld, GetNew
<1>10. ASSUME use = "upload", Silently PROVE UploadInv'
  BY <1>10, UploadKept
<1>11. ASSUME use = "upload"
       PROVE  ~(\/ \E f \in Changes, v \in 1..MaxSets : SetConfig(f, v)
                \/ \E m \in Modes \cup {Off} : SetSensorTestMode(m)
                \/ \E p \in Pads : Replug(p))
  BY <1>11 DEF SetConfig, SetSensorTestMode, Replug
<1> HIDE DEF Silently
<1> QED
  BY <1>1, <1>2, <1>3, <1>4, <1>5, <1>6, <1>7, <1>8, <1>9, <1>10, <1>11 DEF Next

\* As long as no pause has ended before the packets it follows were acknowledged, an
\* animation that has been uploaded is on the pad as it was drawn, on every panel
\* and frame by frame, through one packet that a panel does not store and packets
\* that come twice, and stays there when the other type is uploaded.  (Each packet is
\* sent twice: two losses could hit the same cells.  Numbers of graphics and panels
\* are bytes, and what another program has left on its way does not look like a
\* configuration.  What happens otherwise, UploadReliable shows.)
THEOREM UploadWholeHolds ==
  ASSUME MaxLosses <= 1, 2 * Slots <= 255, PanelCount <= 255
  PROVE  Spec /\ NoLookalikes({GetOld, GetNew}) => []UploadWhole
<1> DEFINE Punctual == LateTypes /\ (count.late = 0 => UploadInv)
<1>1. Init /\ NoLookalikes({GetOld, GetNew}) => TalkInv /\ Punctual
  BY TalkInit, UploadInit DEF Init, LateTypes
<1>2. ASSUME WireInv, FirmwareInv, TalkInv, Punctual, [Next]_vars
      PROVE  TalkInv' /\ Punctual'
  <2>1. TalkInv'
    BY <1>2, TalkStep
  <2>2. /\ LateTypes' /\ (count'.late = 0 => count.late = 0)
        /\ UploadPause /\ count'.late = 0 => Acknowledged
    BY <1>2, LateStep
  <2>3. ASSUME count'.late = 0 PROVE UploadInv'
    <3>1. UploadInv /\ (UploadPause => Acknowledged)
      BY <1>2, <2>2, <2>3
    <3> QED
      BY <1>2, <3>1, UploadStep
  <2> QED
    BY <2>1, <2>2, <2>3
<1>3. ASSUME Punctual PROVE UploadWhole
  <2> SUFFICES ASSUME UploadInv, NEW t \in Types, uploaded[t] # 0, NEW p \in APanel
               PROVE  Shown(p, t) = Picture(Gifs[uploaded[t]], p)
    BY <1>3 DEF UploadWhole, UploadReliable, APanel
  <2>1. Finished(t)
    BY DEF UploadInv
  <2> DEFINE gif == Gifs[uploaded[t]]
  <2>2. /\ uploaded[t] \in DOMAIN Gifs /\ ~Refused(gif)
        /\ Holds(memory[p], Drawing(gif, t, p))
        /\ Holds(timing[t].shown, Schedule(gif, t))
    BY <2>1 DEF Finished
  <2>3. IsGif(gif)
    BY <2>2, WireAssumption DEF IsGif
  <2> HIDE DEF gif
  <2>4. Shown(p, t) = Picture(gif, p)
    BY <2>2, <2>3, ShownIsPicture
  <2> QED
    BY <2>4 DEF gif
<1> QED
  BY <1>1, <1>2, <1>3, WireInvariant, FirmwareKnown, PTL DEF Spec

=============================================================================
