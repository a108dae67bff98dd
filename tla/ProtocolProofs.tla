--------------------------- MODULE ProtocolProofs ---------------------------
(***************************************************************************)
(* Lemmas on the packets: reports in a buffer are found again, a command   *)
(* that is cut up into reports is put together again; what prepare_upload  *)
(* makes of an animation.  Functions that are defined by recursion, and    *)
(* the folds of the library, are shown to exist first.                     *)
(***************************************************************************)
EXTENDS Upload, QueueProofs, FiniteSetTheorems, SequenceTheorems

-----------------------------------------------------------------------------
(* Recursion *)

LEMMA MaxOf ==
  ASSUME NEW n \in Nat, NEW s, s \subseteq 1..n, s # {}
  PROVE  Max(s) \in s /\ \A x \in s : x <= Max(s)
<1> DEFINE T == {n - x : x \in s}
<1>1. T \subseteq Nat /\ T # {}
  <2>1. \A x \in s : n - x \in Nat
    OBVIOUS
  <2> QED
    BY <2>1
<1>2. PICK t \in T : \A y \in T : ~(y < t)
  BY <1>1, LeastElement
<1>3. PICK m \in s : t = n - m
  OBVIOUS
<1>4. \A x \in s : m >= x
  BY <1>2, <1>3
<1> QED
  BY <1>3, <1>4 DEF Max

LEMMA Initial ==
  ASSUME NEW n \in Nat, NEW k \in 1..n
  PROVE  /\ 1..k \in SUBSET (1..n) /\ 1..(k - 1) \in SUBSET (1..n) /\ 1..k # {}
         /\ Max(1..k) = k /\ (1..k) \ {k} = 1..(k - 1)
<1>1. Max(1..k) \in 1..k /\ \A x \in 1..k : x <= Max(1..k)
  BY MaxOf
<1> QED
  BY <1>1

\* What the fold of the library computes on the way: h[s] for each set s of
\* indices.
FoldsTo(n, base, step, h) ==
  \A s \in SUBSET (1..n) :
    h[s] = IF s = {} THEN base ELSE step[Max(s)][h[s \ {Max(s)}]]

LEMMA FoldTable ==
  ASSUME NEW n \in Nat, NEW V, NEW base \in V, NEW step \in [1..n -> [V -> V]]
  PROVE  \E h \in [SUBSET (1..n) -> V] : FoldsTo(n, base, step, h)
<1> DEFINE Table(m, h) == FoldsTo(m, base, step, h)
           Good == {m \in Nat : m <= n =>
                      \E h \in [SUBSET (1..m) -> V] : Table(m, h)}
<1>1. 0 \in Good
  <2> DEFINE h == [s \in SUBSET (1..0) |-> base]
  <2>1. h \in [SUBSET (1..0) -> V] /\ Table(0, h)
    BY DEF FoldsTo
  <2> QED
    BY <2>1
<1>2. ASSUME NEW m \in Good PROVE m + 1 \in Good
  <2>1. m \in Nat /\ m + 1 \in Nat
    OBVIOUS
  <2>2. SUFFICES ASSUME m + 1 <= n
                 PROVE  \E h \in [SUBSET (1..(m + 1)) -> V] : Table(m + 1, h)
    BY <2>1
  <2>3. PICK g \in [SUBSET (1..m) -> V] : Table(m, g)
    <3> HIDE DEF Table
    <3>1. m <= n
      BY <2>1, <2>2
    <3>2. m <= n => \E g \in [SUBSET (1..m) -> V] : Table(m, g)
      OBVIOUS
    <3> QED
      BY <3>1, <3>2
  <2> DEFINE M == m + 1
             h == [s \in SUBSET (1..M) |->
                    IF M \in s THEN step[M][g[s \ {M}]] ELSE g[s]]
  <2>4. M \in 1..n /\ step[M] \in [V -> V]
    BY <2>1, <2>2
  <2>5. \A s \in SUBSET (1..M) :
          s \ {M} \in SUBSET (1..m) /\ (M \notin s => s \in SUBSET (1..m))
    BY <2>1
  <2>6. h \in [SUBSET (1..M) -> V]
    <3> HIDE DEF M
    <3>1. ASSUME NEW s \in SUBSET (1..M)
          PROVE  (IF M \in s THEN step[M][g[s \ {M}]] ELSE g[s]) \in V
      BY <2>3, <2>4, <2>5
    <3> QED
      BY <3>1
  <2>7. ASSUME NEW s \in SUBSET (1..M)
        PROVE  h[s] = IF s = {} THEN base ELSE step[Max(s)][h[s \ {Max(s)}]]
    <3>1. CASE M \in s
      <4>1. Max(s) = M
        <5>1. Max(s) \in s /\ \A x \in s : x <= Max(s)
          BY <2>1, <3>1, MaxOf
        <5>2. Max(s) \in 1..M /\ M <= Max(s)
          BY <5>1, <3>1
        <5> QED
          BY <5>2, <2>1
      <4>2. s \ {M} \in SUBSET (1..m) /\ s \ {M} \in SUBSET (1..M)
        BY <2>5
      <4>3. h[s \ {M}] = g[s \ {M}]
        BY <4>2
      <4>4. h[s] = step[M][g[s \ {M}]]
        BY <3>1
      <4> QED
        BY <3>1, <4>1, <4>3, <4>4
    <3>2. CASE M \notin s
      <4>1. s \in SUBSET (1..m) /\ h[s] = g[s]
        BY <2>5, <3>2
      <4>2. CASE s = {}
        BY <4>1, <4>2, <2>3 DEF FoldsTo
      <4>3. CASE s # {}
        <5>1. s \ {Max(s)} \in SUBSET (1..m) /\ s \ {Max(s)} \in SUBSET (1..M)
          BY <4>1
        <5>2. M \notin s \ {Max(s)}
          BY <3>2
        <5>3. h[s \ {Max(s)}] = g[s \ {Max(s)}]
          BY <5>1, <5>2
        <5>4. g[s] = step[Max(s)][g[s \ {Max(s)}]]
          BY <4>1, <4>3, <2>3 DEF FoldsTo
        <5> QED
          BY <4>1, <4>3, <5>3, <5>4
      <4> QED
        BY <4>2, <4>3
    <3> QED
      BY <3>1, <3>2
  <2>8. Table(M, h)
    <3> HIDE DEF h, M
    <3> QED
      BY <2>7 DEF FoldsTo
  <2> HIDE DEF h, Table
  <2> QED
    BY <2>6, <2>8
<1>3. Good = Nat
  <2> HIDE DEF Good
  <2>1. Good \subseteq Nat
    BY DEF Good
  <2> QED
    BY <1>1, <1>2, <2>1, SetInduction
<1>4. n \in Good
  BY <1>3
<1>5. n <= n => \E h \in [SUBSET (1..n) -> V] : FoldsTo(n, base, step, h)
  BY <1>4
<1>6. n <= n
  OBVIOUS
<1> QED
  BY <1>5, <1>6

\* A sequence of values, each computed from the one before, exists.
Computes(n, base, step, f) ==
  f[0] = base /\ \A k \in 1..n : f[k] = step[k][f[k - 1]]

LEMMA Recursion ==
  ASSUME NEW n \in Nat, NEW V, NEW base \in V, NEW step \in [1..n -> [V -> V]]
  PROVE  \E f \in [0..n -> V] : Computes(n, base, step, f)
<1>1. PICK h \in [SUBSET (1..n) -> V] : FoldsTo(n, base, step, h)
  BY FoldTable
<1> DEFINE f == [k \in 0..n |-> h[1..k]]
<1>2. f \in [0..n -> V]
  <2>1. \A k \in 0..n : 1..k \in SUBSET (1..n)
    OBVIOUS
  <2> QED
    BY <2>1
<1>3. f[0] = base
  <2>1. 1..0 = {} /\ 0 \in 0..n
    OBVIOUS
  <2>2. h[{}] = base
    BY <1>1 DEF FoldsTo
  <2> QED
    BY <2>1, <2>2
<1>4. ASSUME NEW k \in 1..n PROVE f[k] = step[k][f[k - 1]]
  <2>1. k \in 0..n /\ k - 1 \in 0..n
    OBVIOUS
  <2>2. h[1..k] = step[k][h[1..(k - 1)]]
    BY <1>1, Initial DEF FoldsTo
  <2> QED
    BY <2>1, <2>2
<1> HIDE DEF f
<1> QED
  BY <1>2, <1>3, <1>4 DEF Computes

\* Induction along a sequence of values.
LEMMA Along ==
  ASSUME NEW n \in Nat, NEW V, NEW f, f[0] \in V,
         \A k \in 1..n : f[k - 1] \in V => f[k] \in V
  PROVE  \A k \in 0..n : f[k] \in V
<1> DEFINE Good == {k \in Nat : k <= n => f[k] \in V}
<1>1. 0 \in Good
  OBVIOUS
<1>2. ASSUME NEW k \in Good PROVE k + 1 \in Good
  <2>1. k \in Nat /\ k + 1 \in Nat
    OBVIOUS
  <2>2. ASSUME k + 1 <= n PROVE f[k + 1] \in V
    <3>1. k + 1 \in 1..n /\ (k + 1) - 1 = k /\ f[k] \in V
      BY <2>1, <2>2
    <3> QED
      BY <3>1
  <2> QED
    BY <2>1, <2>2
<1>3. Good = Nat
  <2> HIDE DEF Good
  <2>1. Good \subseteq Nat
    BY DEF Good
  <2> QED
    BY <1>1, <1>2, <2>1, SetInduction
<1> QED
  BY <1>3

-----------------------------------------------------------------------------
(* Sequences in parts *)

\* Bytes that are the given parts one after the other; at[k] is where the k-th
\* one ends.
CutAt(bytes, parts, at) ==
  /\ at \in [0..Len(parts) -> Nat]
  /\ at[0] = 0 /\ at[Len(parts)] = Len(bytes)
  /\ \A k \in 1..Len(parts) :
       /\ at[k] = at[k - 1] + Len(parts[k])
       /\ \A i \in 1..Len(parts[k]) : bytes[at[k - 1] + i] = parts[k][i]

LEMMA CutEnds ==
  ASSUME NEW V, NEW bytes \in Seq(V), NEW parts \in Seq(Seq(V)), NEW at,
         CutAt(bytes, parts, at)
  PROVE  \A k \in 0..Len(parts) : at[k] <= Len(bytes)
<1> DEFINE n == Len(parts)
           Good == {m \in Nat : m <= n => at[n - m] <= Len(bytes)}
<1>1. n \in Nat /\ Len(bytes) \in Nat /\ at \in [0..n -> Nat]
  BY DEF CutAt
<1>2. \A k \in 1..n : at[k] = at[k - 1] + Len(parts[k]) /\ Len(parts[k]) \in Nat
  BY DEF CutAt
<1>3. 0 \in Good
  BY <1>1 DEF CutAt
<1>4. ASSUME NEW m \in Good PROVE m + 1 \in Good
  <2>1. m \in Nat /\ m + 1 \in Nat
    OBVIOUS
  <2>2. ASSUME m + 1 <= n PROVE at[n - (m + 1)] <= Len(bytes)
    <3>1. n - m \in 1..n /\ (n - m) - 1 = n - (m + 1) /\ m <= n
      BY <1>1, <2>1, <2>2
    <3>2. at[n - m] <= Len(bytes)
      BY <3>1
    <3>3. at[n - m] = at[n - (m + 1)] + Len(parts[n - m])
          /\ Len(parts[n - m]) \in Nat
      BY <1>2, <3>1
    <3>4. n - (m + 1) \in 0..n
      BY <3>1, <1>1
    <3>5. at[n - (m + 1)] \in Nat
      BY <3>4, <1>1
    <3> HIDE DEF n
    <3> QED
      BY <1>1, <3>2, <3>3, <3>5
  <2> QED
    BY <2>1, <2>2
<1>5. Good = Nat
  <2> HIDE DEF Good
  <2>1. Good \subseteq Nat
    BY DEF Good
  <2> QED
    BY <1>3, <1>4, <2>1, SetInduction
<1>6. ASSUME NEW k \in 0..n PROVE at[k] <= Len(bytes)
  <2>1. n - k \in Nat /\ n - k <= n /\ n - (n - k) = k
    BY <1>1
  <2> QED
    BY <1>5, <2>1
<1> QED
  BY <1>6

LEMMA Joined ==
  ASSUME NEW V, NEW s \in Seq(V), NEW t \in Seq(V)
  PROVE  /\ s \o t \in Seq(V) /\ Len(s) \in Nat /\ Len(t) \in Nat
         /\ Len(s \o t) = Len(s) + Len(t)
         /\ \A i \in 1..Len(s) : (s \o t)[i] = s[i]
         /\ \A i \in 1..Len(t) : (s \o t)[Len(s) + i] = t[i]
         /\ <<>> \o s = s /\ s \o <<>> = s
OBVIOUS

LEMMA Concatenated ==
  ASSUME NEW V, NEW seqs \in Seq(Seq(V)), NEW e, e[0] = <<>>,
         \A k \in 0..Len(seqs) : e[k] \in Seq(V),
         \A k \in 1..Len(seqs) : e[k] = e[k - 1] \o seqs[k]
  PROVE  \E at : CutAt(e[Len(seqs)], seqs, at)
<1> DEFINE n == Len(seqs)
           at == [k \in 0..n |-> Len(e[k])]
           Placed(m, k) == \A i \in 1..Len(seqs[k]) :
                             /\ at[k - 1] + i \in 1..Len(e[m])
                             /\ e[m][at[k - 1] + i] = seqs[k][i]
           Good == {m \in Nat : m <= n => \A k \in 1..m : Placed(m, k)}
<1>1. n \in Nat /\ \A k \in 1..n : seqs[k] \in Seq(V) /\ Len(seqs[k]) \in Nat
  OBVIOUS
<1>2. at \in [0..n -> Nat]
  BY <1>1
<1>3. \A k \in 0..n : at[k] = Len(e[k]) /\ Len(e[k]) \in Nat
  BY <1>1
<1>4. \A k \in 1..n : k - 1 \in 0..n /\ k \in 0..n
  BY <1>1
<1>5. ASSUME NEW k \in 1..n
      PROVE  Len(e[k]) = Len(e[k - 1]) + Len(seqs[k])
  <2>1. e[k - 1] \in Seq(V) /\ seqs[k] \in Seq(V) /\ e[k] = e[k - 1] \o seqs[k]
    BY <1>1, <1>4
  <2> QED
    BY <2>1, Joined
<1>6. \A k \in 1..n : at[k] = at[k - 1] + Len(seqs[k])
  <2> HIDE DEF at
  <2> QED
    BY <1>3, <1>4, <1>5
<1>7. 0 \in Good
  OBVIOUS
<1>8. ASSUME NEW m \in Good PROVE m + 1 \in Good
  <2>1. m \in Nat /\ m + 1 \in Nat
    OBVIOUS
  <2>2. ASSUME m + 1 <= n, NEW k \in 1..(m + 1), NEW i \in 1..Len(seqs[k])
        PROVE  /\ at[k - 1] + i \in 1..Len(e[m + 1])
               /\ e[m + 1][at[k - 1] + i] = seqs[k][i]
    <3>1. /\ m + 1 \in 1..n /\ m \in 0..n /\ k \in 1..n /\ k - 1 \in 0..n
          /\ (m + 1) - 1 = m /\ i \in Nat /\ i >= 1 /\ i <= Len(seqs[k])
      BY <1>1, <2>1, <2>2
    <3>2. /\ e[m + 1] = e[m] \o seqs[m + 1]
          /\ e[m] \in Seq(V) /\ seqs[m + 1] \in Seq(V)
          /\ at[k - 1] \in Nat
      BY <1>1, <1>2, <3>1
    <3> DEFINE a == e[m]
               b == seqs[m + 1]
    <3>3. a \in Seq(V) /\ b \in Seq(V) /\ e[m + 1] = a \o b
      BY <3>2
    <3> HIDE DEF at, a, b, Good, Placed
    <3>4. /\ Len(a) \in Nat /\ Len(b) \in Nat /\ Len(a \o b) = Len(a) + Len(b)
          /\ \A j \in 1..Len(a) : (a \o b)[j] = a[j]
          /\ \A j \in 1..Len(b) : (a \o b)[Len(a) + j] = b[j]
      BY <3>3, Joined
    <3>5. CASE k = m + 1
      <4>1. at[k - 1] = Len(a) /\ i \in 1..Len(b) /\ b[i] = seqs[k][i]
        BY <1>3, <3>1, <3>5 DEF a, b
      <4>2. (a \o b)[at[k - 1] + i] = seqs[k][i]
        BY <3>4, <4>1
      <4>3. at[k - 1] + i \in 1..Len(a \o b)
        BY <3>4, <4>1
      <4> QED
        BY <3>3, <4>2, <4>3
    <3>6. CASE k # m + 1
      <4>1. k \in 1..m
        BY <2>1, <2>2, <3>6
      <4>2. at[k - 1] + i \in 1..Len(a) /\ a[at[k - 1] + i] = seqs[k][i]
        BY <2>1, <2>2, <4>1, <3>1 DEF Good, Placed, a
      <4>3. at[k - 1] + i \in 1..Len(a \o b)
        BY <3>4, <4>2
      <4>4. (a \o b)[at[k - 1] + i] = seqs[k][i]
        BY <3>4, <4>2
      <4> QED
        BY <3>3, <4>3, <4>4
    <3> QED
      BY <3>5, <3>6
  <2> QED
    BY <2>1, <2>2
<1>9. Good = Nat
  <2> HIDE DEF Good
  <2>1. Good \subseteq Nat
    BY DEF Good
  <2> QED
    BY <1>7, <1>8, <2>1, SetInduction
<1>10. \A k \in 1..n : Placed(n, k)
  <2> HIDE DEF Placed
  <2>1. n \in Good /\ n <= n
    <3> HIDE DEF Good
    <3> QED
      BY <1>1, <1>9
  <2> QED
    BY <2>1
<1>11. at[0] = 0 /\ at[n] = Len(e[n])
  BY <1>1
<1>12. CutAt(e[n], seqs, at)
  <2> HIDE DEF at
  <2> QED
    BY <1>2, <1>6, <1>10, <1>11 DEF CutAt
<1> HIDE DEF at
<1> QED
  BY <1>12

LEMMA Flatten ==
  ASSUME NEW V, NEW seqs \in Seq(Seq(V))
  PROVE  /\ FlattenSeq(seqs) \in Seq(V)
         /\ \E at : CutAt(FlattenSeq(seqs), seqs, at)
<1> DEFINE n == Len(seqs)
           Step(f, i) == IF i = 1 THEN seqs[i] ELSE f[i - 1] \o seqs[i]
<1>1. n \in Nat /\ \A k \in 1..n : seqs[k] \in Seq(V)
  OBVIOUS
<1>2. CASE n = 0
  <2>1. seqs = <<>> /\ FlattenSeq(seqs) = <<>>
    BY <1>2 DEF FlattenSeq
  <2> DEFINE at == [k \in 0..0 |-> 0]
  <2>2. CutAt(<<>>, <<>>, at)
    BY DEF CutAt
  <2>3. \E w : CutAt(<<>>, <<>>, w)
    BY <2>2
  <2>4. <<>> \in Seq(V)
    OBVIOUS
  <2> HIDE DEF at
  <2> QED
    BY <2>1, <2>3, <2>4
<1>3. CASE n # 0
  <2> DEFINE step == [k \in 1..n |-> [s \in Seq(V) |-> s \o seqs[k]]]
  <2>1. step \in [1..n -> [Seq(V) -> Seq(V)]]
    BY <1>1
  <2>2. PICK g \in [0..n -> Seq(V)] :
          g[0] = <<>> /\ \A k \in 1..n : g[k] = step[k][g[k - 1]]
    <3> HIDE DEF step, n
    <3> DEFINE base == <<>>
               S == Seq(V)
    <3>1. base \in S
      OBVIOUS
    <3>2. step \in [1..n -> [S -> S]]
      BY <2>1
    <3>0. n \in Nat
      BY <1>1
    <3> HIDE DEF base, S, step, n
    <3>3. \E g \in [0..n -> S] : Computes(n, base, step, g)
      BY <3>0, <3>1, <3>2, Recursion
    <3> QED
      BY <3>3 DEF base, S, Computes
  <2>3. \A k \in 1..n : g[k - 1] \in Seq(V) /\ g[k] = g[k - 1] \o seqs[k]
    <3>1. \A k \in 1..n : k - 1 \in 0..n
      BY <1>1
    <3> QED
      BY <2>2, <3>1
  <2> DEFINE t == [k \in 1..n |-> g[k]]
  <2>4. t = [i \in 1..n |-> Step(t, i)]
    <3>1. ASSUME NEW i \in 1..n PROVE t[i] = Step(t, i)
      <4>1. CASE i = 1
        <5>1. g[i - 1] = <<>>
          BY <2>2, <4>1
        <5>2. g[i] = g[i - 1] \o seqs[i] /\ seqs[i] \in Seq(V)
          BY <2>3, <1>1
        <5>3. <<>> \o seqs[i] = seqs[i]
          BY <5>2, Joined
        <5>4. t[i] = seqs[i]
          BY <5>1, <5>2, <5>3
        <5> QED
          BY <4>1, <5>4
      <4>2. CASE i # 1
        <5>1. i - 1 \in 1..n
          BY <1>1, <4>2
        <5> QED
          BY <5>1, <4>2, <2>3
      <4> QED
        BY <4>1, <4>2
    <3> HIDE DEF Step
    <3>2. t = [i \in 1..n |-> t[i]]
      OBVIOUS
    <3> HIDE DEF t
    <3> QED
      BY <3>1, <3>2
  <2> DEFINE f == CHOOSE w : w = [i \in 1..n |-> Step(w, i)]
  <2>5. f = [i \in 1..n |-> Step(f, i)]
    <3> HIDE DEF Step, t
    <3> QED
      BY <2>4, Zenon
  <2>6. FlattenSeq(seqs) = f[n]
    BY <1>3 DEF FlattenSeq
  <2> HIDE DEF f, t
  <2> DEFINE e == [k \in 0..n |-> IF k = 0 THEN <<>> ELSE f[k]]
  <2>7. \A k \in 1..n : e[k - 1] \in Seq(V) => e[k] = e[k - 1] \o seqs[k]
    <3> SUFFICES ASSUME NEW k \in 1..n, e[k - 1] \in Seq(V)
                 PROVE  e[k] = e[k - 1] \o seqs[k]
      OBVIOUS
    <3>1. k - 1 \in 0..n /\ k \in 0..n
      BY <1>1
    <3>2. f[k] = Step(f, k)
      <4> HIDE DEF Step
      <4> QED
        BY <2>5
    <3>3. CASE k = 1
      <4>1. e[k - 1] = <<>> /\ e[k] = seqs[k]
        BY <3>1, <3>2, <3>3
      <4>2. <<>> \o seqs[k] = seqs[k]
        BY <1>1, Joined
      <4> QED
        BY <4>1, <4>2
    <3>4. CASE k # 1
      <4>1. e[k - 1] = f[k - 1] /\ e[k] = f[k]
        BY <3>1, <3>4
      <4> QED
        BY <4>1, <3>2, <3>4
    <3> QED
      BY <3>3, <3>4
  <2>8. \A k \in 0..n : e[k] \in Seq(V)
    <3>1. e[0] = <<>> /\ <<>> \in Seq(V)
      BY <1>1
    <3>2. ASSUME NEW k \in 1..n, e[k - 1] \in Seq(V) PROVE e[k] \in Seq(V)
      <4> HIDE DEF e
      <4>1. e[k] = e[k - 1] \o seqs[k] /\ seqs[k] \in Seq(V)
        BY <2>7, <1>1, <3>2
      <4> QED
        BY <3>2, <4>1, Joined
    <3> HIDE DEF e
    <3> QED
      BY <3>1, <3>2, <1>1, Along
  <2>9. e[0] = <<>> /\ e[n] = FlattenSeq(seqs)
    BY <1>1, <1>3, <2>6
  <2> HIDE DEF e
  <2>10. \A k \in 1..n : e[k] = e[k - 1] \o seqs[k]
    <3>1. \A k \in 1..n : k - 1 \in 0..n
      BY <1>1
    <3> QED
      BY <2>7, <2>8, <3>1
  <2>11. \E at : CutAt(e[Len(seqs)], seqs, at)
    BY <2>8, <2>9, <2>10, Concatenated
  <2>12. e[n] \in Seq(V)
    BY <1>1, <2>8
  <2> QED
    BY <2>9, <2>11, <2>12
<1> QED
  BY <1>2, <1>3

LEMMA Part ==
  ASSUME NEW V, NEW p \in Seq(Seq(V)), NEW k \in 1..Len(p)
  PROVE  p[k] \in Seq(V) /\ Len(p[k]) \in Nat
OBVIOUS

\* Two sequences of parts, one after the other.
LEMMA CutConcat ==
  ASSUME NEW V, NEW b \in Seq(V), NEW c \in Seq(V),
         NEW p \in Seq(Seq(V)), NEW q \in Seq(Seq(V)),
         NEW at, CutAt(b, p, at), NEW to, CutAt(c, q, to)
  PROVE  \E w : CutAt(b \o c, p \o q, w)
<1> DEFINE m == Len(p)
           n == Len(q)
           w == [k \in 0..(m + n) |-> IF k <= m THEN at[k] ELSE Len(b) + to[k - m]]
<1>1. /\ m \in Nat /\ n \in Nat /\ Len(b) \in Nat /\ Len(c) \in Nat
      /\ Len(p \o q) = m + n /\ Len(b \o c) = Len(b) + Len(c)
  BY Joined
<1>2. /\ at \in [0..m -> Nat] /\ at[0] = 0 /\ at[m] = Len(b)
      /\ to \in [0..n -> Nat] /\ to[0] = 0 /\ to[n] = Len(c)
  BY DEF CutAt
<1> HIDE DEF m, n
<1>3. w \in [0..(m + n) -> Nat]
  <2>1. ASSUME NEW k \in 0..(m + n)
        PROVE  (IF k <= m THEN at[k] ELSE Len(b) + to[k - m]) \in Nat
    <3>1. CASE k <= m
      <4>1. k \in 0..m
        BY <1>1, <3>1
      <4> QED
        BY <1>2, <3>1, <4>1
    <3>2. CASE ~(k <= m)
      <4>1. k - m \in 0..n
        BY <1>1, <3>2
      <4>2. to[k - m] \in Nat
        BY <1>2, <4>1
      <4> QED
        BY <1>1, <3>2, <4>2
    <3> QED
      BY <3>1, <3>2
  <2> QED
    BY <2>1
<1>4. w[0] = 0 /\ w[m + n] = Len(b) + Len(c)
  <2>1. w[0] = 0
    BY <1>1, <1>2
  <2>2. CASE n = 0
    BY <1>1, <1>2, <2>2
  <2>3. CASE n # 0
    <3>1. m + n \in 0..(m + n) /\ ~(m + n <= m) /\ (m + n) - m = n
      BY <1>1, <2>3
    <3> QED
      BY <1>2, <2>1, <3>1
  <2> QED
    BY <2>1, <2>2, <2>3
<1>5. ASSUME NEW k \in 1..(m + n)
      PROVE  /\ w[k] = w[k - 1] + Len((p \o q)[k])
             /\ \A i \in 1..Len((p \o q)[k]) :
                  (b \o c)[w[k - 1] + i] = (p \o q)[k][i]
  <2>1. k \in 0..(m + n) /\ k - 1 \in 0..(m + n)
    BY <1>1
  <2>2. CASE k <= m
    <3>1. k \in 1..m /\ k \in 0..m /\ k - 1 \in 0..m
      BY <1>1, <2>2
    <3>2. w[k] = at[k] /\ w[k - 1] = at[k - 1]
      BY <2>1, <2>2, <3>1
    <3>3. (p \o q)[k] = p[k]
      BY <3>1, Joined DEF m
    <3>4. /\ at[k] = at[k - 1] + Len(p[k])
          /\ \A i \in 1..Len(p[k]) : b[at[k - 1] + i] = p[k][i]
      BY <3>1 DEF CutAt, m
    <3>5. /\ at[k] <= Len(b) /\ at[k - 1] \in Nat /\ Len(p[k]) \in Nat
      <4>1. at[k] <= Len(b)
        BY <3>1, CutEnds DEF m
      <4>2. p[k] \in Seq(V) /\ at[k - 1] \in Nat
        BY <3>1, <1>2, Part DEF m
      <4>3. Len(p[k]) \in Nat
        BY <4>2
      <4> QED
        BY <4>1, <4>2, <4>3
    <3> HIDE DEF w
    <3>6. ASSUME NEW i \in 1..Len(p[k])
          PROVE  (b \o c)[at[k - 1] + i] = p[k][i]
      <4>1. at[k - 1] + i \in 1..Len(b)
        BY <1>1, <3>4, <3>5
      <4>2. (b \o c)[at[k - 1] + i] = b[at[k - 1] + i]
        BY <4>1, Joined
      <4> QED
        BY <3>4, <4>2
    <3> QED
      BY <3>2, <3>3, <3>4, <3>6
  <2>3. CASE ~(k <= m)
    <3> DEFINE j == k - m
    <3>1. /\ j \in 1..n /\ j \in 0..n /\ j - 1 \in 0..n /\ k = m + j
          /\ (k - 1) - m = j - 1
      BY <1>1, <2>3
    <3>2. w[k] = Len(b) + to[j]
      BY <2>1, <2>3
    <3>3. w[k - 1] = Len(b) + to[j - 1]
      <4>1. CASE k - 1 <= m
        <5>1. k - 1 = m /\ j - 1 = 0
          BY <1>1, <2>3, <4>1
        <5>2. w[k - 1] = at[m] /\ to[j - 1] = 0
          BY <2>1, <4>1, <5>1, <1>2
        <5> QED
          BY <5>2, <1>1, <1>2
      <4>2. CASE ~(k - 1 <= m)
        BY <2>1, <4>2, <3>1
      <4> QED
        BY <4>1, <4>2
    <3> HIDE DEF j, w
    <3>4. (p \o q)[k] = q[j]
      BY <3>1, Joined DEF m, n
    <3>5. /\ to[j] = to[j - 1] + Len(q[j])
          /\ \A i \in 1..Len(q[j]) : c[to[j - 1] + i] = q[j][i]
      BY <3>1 DEF CutAt, n
    <3>6. /\ to[j] <= Len(c) /\ to[j - 1] \in Nat /\ Len(q[j]) \in Nat
      <4>1. to[j] <= Len(c)
        BY <3>1, CutEnds DEF n
      <4>2. q[j] \in Seq(V) /\ to[j - 1] \in Nat
        BY <3>1, <1>2, Part DEF n
      <4>3. Len(q[j]) \in Nat
        BY <4>2
      <4> QED
        BY <4>1, <4>2, <4>3
    <3>7. ASSUME NEW i \in 1..Len(q[j])
          PROVE  (b \o c)[w[k - 1] + i] = q[j][i]
      <4>1. to[j - 1] + i \in 1..Len(c) /\ w[k - 1] + i = Len(b) + (to[j - 1] + i)
        <5>1. /\ i \in Nat /\ i >= 1 /\ i <= Len(q[j])
              /\ to[j - 1] + Len(q[j]) <= Len(c) /\ Len(c) \in Nat
          BY <1>1, <3>5, <3>6
        <5>2. to[j - 1] + i \in 1..Len(c)
          BY <5>1, <3>6
        <5>3. w[k - 1] + i = Len(b) + (to[j - 1] + i)
          BY <5>1, <1>1, <3>3, <3>6
        <5> QED
          BY <5>2, <5>3
      <4>2. (b \o c)[Len(b) + (to[j - 1] + i)] = c[to[j - 1] + i]
        <5> DEFINE x == to[j - 1] + i
        <5>1. x \in 1..Len(c)
          BY <4>1
        <5>2. \A y \in 1..Len(c) : (b \o c)[Len(b) + y] = c[y]
          BY Joined
        <5> HIDE DEF x
        <5>3. (b \o c)[Len(b) + x] = c[x]
          BY <5>1, <5>2
        <5> QED
          BY <5>3 DEF x
      <4> QED
        BY <3>5, <4>1, <4>2
    <3>8. w[k] = w[k - 1] + Len(q[j])
      BY <1>1, <3>2, <3>3, <3>5, <3>6
    <3> QED
      BY <3>4, <3>7, <3>8
  <2> QED
    BY <2>2, <2>3
<1> HIDE DEF w
<1>6. CutAt(b \o c, p \o q, w)
  BY <1>1, <1>3, <1>4, <1>5 DEF CutAt
<1> QED
  BY <1>6

\* Parts of the same length.
LEMMA EqualParts ==
  ASSUME NEW V, NEW seqs \in Seq(Seq(V)), NEW L \in Nat,
         \A k \in 1..Len(seqs) : Len(seqs[k]) = L
  PROVE  FlattenSeq(seqs) \in Seq(V) /\ Len(FlattenSeq(seqs)) = Len(seqs) * L
<1> DEFINE n == Len(seqs)
<1>1. FlattenSeq(seqs) \in Seq(V) /\ \E at : CutAt(FlattenSeq(seqs), seqs, at)
  BY Flatten
<1>2. PICK at : CutAt(FlattenSeq(seqs), seqs, at)
  BY <1>1
<1>3. /\ n \in Nat /\ at \in [0..n -> Nat] /\ at[0] = 0
      /\ at[n] = Len(FlattenSeq(seqs))
      /\ \A k \in 1..n : at[k] = at[k - 1] + L
  <2>1. /\ at \in [0..n -> Nat] /\ at[0] = 0
        /\ at[n] = Len(FlattenSeq(seqs))
        /\ \A k \in 1..n : at[k] = at[k - 1] + Len(seqs[k])
    BY <1>2 DEF CutAt
  <2>2. n \in Nat
    OBVIOUS
  <2> QED
    BY <2>1, <2>2
<1> HIDE DEF n
<1> DEFINE Good == {k \in Nat : k <= n => at[k] = k * L}
<1>4. 0 \in Good
  BY <1>3
<1>5. ASSUME NEW k \in Good PROVE k + 1 \in Good
  <2>1. k \in Nat /\ k + 1 \in Nat /\ (k + 1) * L = k * L + L
    OBVIOUS
  <2>2. ASSUME k + 1 <= n PROVE at[k + 1] = (k + 1) * L
    <3>1. k + 1 \in 1..n /\ (k + 1) - 1 = k /\ at[k] = k * L
      BY <1>3, <2>1, <2>2
    <3>2. at[k + 1] = at[k] + L
      BY <1>3, <3>1
    <3> QED
      BY <2>1, <3>1, <3>2
  <2> HIDE DEF n
  <2> QED
    BY <2>1, <2>2
<1>6. Good = Nat
  <2> HIDE DEF Good
  <2>1. Good \subseteq Nat
    BY DEF Good
  <2> QED
    BY <1>4, <1>5, <2>1, SetInduction
<1>7. at[n] = n * L
  <2>1. n \in Good
    BY <1>3, <1>6
  <2>2. n <= n
    BY <1>3
  <2> QED
    BY <2>1, <2>2
<1> QED
  BY <1>1, <1>3, <1>7 DEF n

\* Where the parts of a sequence are, when they have the same length.
LEMMA EqualPlaces ==
  ASSUME NEW V, NEW seqs \in Seq(Seq(V)), NEW L \in Nat,
         \A k \in 1..Len(seqs) : Len(seqs[k]) = L
  PROVE  \A k \in 1..Len(seqs) : \A i \in 1..L :
           FlattenSeq(seqs)[(k - 1) * L + i] = seqs[k][i]
<1> DEFINE n == Len(seqs)
<1>1. PICK at : CutAt(FlattenSeq(seqs), seqs, at)
  BY Flatten
<1>2. /\ n \in Nat /\ at[0] = 0
      /\ \A k \in 1..n : at[k] = at[k - 1] + L
      /\ \A k \in 1..n : \A i \in 1..L :
           FlattenSeq(seqs)[at[k - 1] + i] = seqs[k][i]
  BY <1>1 DEF CutAt
<1> HIDE DEF n
<1> DEFINE Good == {k \in Nat : k <= n => at[k] = k * L}
<1>3. 0 \in Good
  BY <1>2
<1>4. ASSUME NEW k \in Good PROVE k + 1 \in Good
  <2>1. k \in Nat /\ k + 1 \in Nat /\ (k + 1) * L = k * L + L
    OBVIOUS
  <2>2. ASSUME k + 1 <= n PROVE at[k + 1] = (k + 1) * L
    <3>1. k + 1 \in 1..n /\ (k + 1) - 1 = k /\ at[k] = k * L
      BY <1>2, <2>1, <2>2
    <3>2. at[k + 1] = at[k] + L
      BY <1>2, <3>1
    <3> QED
      BY <2>1, <3>1, <3>2
  <2> QED
    BY <2>1, <2>2
<1>5. Good = Nat
  <2> HIDE DEF Good
  <2>1. Good \subseteq Nat
    BY DEF Good
  <2> QED
    BY <1>3, <1>4, <2>1, SetInduction
<1>6. ASSUME NEW k \in 1..n, NEW i \in 1..L
      PROVE  FlattenSeq(seqs)[(k - 1) * L + i] = seqs[k][i]
  <2>1. k - 1 \in Nat /\ k - 1 <= n
    BY <1>2
  <2>2. k - 1 \in Good
    BY <1>5, <2>1
  <2>3. at[k - 1] = (k - 1) * L
    BY <2>1, <2>2
  <2> QED
    BY <1>2, <2>3
<1> QED
  BY <1>6 DEF n

\* A quotient and a remainder.
LEMMA Divided ==
  ASSUME NEW n \in Nat, NEW k \in Nat \ {0}
  PROVE  /\ n \div k \in Nat /\ n % k \in 0..(k - 1)
         /\ n = k * (n \div k) + (n % k)
<1>1. n \div k \in Nat
  OBVIOUS
<1>2. n % k \in 0..(k - 1)
  OBVIOUS
<1>3. n = k * (n \div k) + (n % k)
  OBVIOUS
<1> QED
  BY <1>1, <1>2, <1>3

LEMMA Quotient ==
  ASSUME NEW q \in Nat, NEW k \in Nat \ {0}, NEW r \in 0..(k - 1)
  PROVE  (k * q + r) \div k = q /\ (k * q + r) % k = r
  OBVIOUS

-----------------------------------------------------------------------------
(* check_reads *)

\* f[o] is step[o] of what it is further on, if o is in C.
Jumps(n, C, jump, last, step, f) ==
  \A o \in 1..n : f[o] = IF o \in C THEN step[o][f[jump[o]]] ELSE last[o]

LEMMA JumpTable ==
  ASSUME NEW n \in Nat, NEW V, NEW C, C \subseteq 1..n,
         NEW jump \in [C -> 1..n], \A o \in C : jump[o] > o,
         NEW last \in [1..n -> V], NEW step \in [C -> [V -> V]]
  PROVE  \E f \in [1..n -> V] : Jumps(n, C, jump, last, step, f)
<1> DEFINE From(m, f) ==
             \A o \in 1..n : o > m =>
               f[o] = IF o \in C THEN step[o][f[jump[o]]] ELSE last[o]
           Good == {m \in Nat : m <= n => \E f \in [1..n -> V] : From(n - m, f)}
<1>1. 0 \in Good
  <2>1. From(n - 0, last)
    OBVIOUS
  <2> HIDE DEF From
  <2> QED
    BY <2>1
<1>2. ASSUME NEW m \in Good PROVE m + 1 \in Good
  <2>1. m \in Nat /\ m + 1 \in Nat
    OBVIOUS
  <2>2. SUFFICES ASSUME m + 1 <= n
                 PROVE  \E f \in [1..n -> V] : From(n - (m + 1), f)
    BY <2>1
  <2>3. PICK g \in [1..n -> V] : From(n - m, g)
    <3> HIDE DEF From
    <3>1. m <= n
      BY <2>1, <2>2
    <3> QED
      BY <3>1
  <2> HIDE DEF Good
  <2> DEFINE q == n - m
             new == IF q \in C THEN step[q][g[jump[q]]] ELSE last[q]
             f == [o \in 1..n |-> IF o = q THEN new ELSE g[o]]
  <2>4. q \in 1..n /\ q = (n - (m + 1)) + 1
    BY <2>1, <2>2
  <2>5. new \in V
    BY <2>4
  <2>6. f \in [1..n -> V]
    <3> HIDE DEF new
    <3> QED
      BY <2>5
  <2>7. ASSUME NEW o \in 1..n, o > n - (m + 1)
        PROVE  f[o] = IF o \in C THEN step[o][f[jump[o]]] ELSE last[o]
    <3>1. o >= q
      BY <2>1, <2>4, <2>7
    <3>2. o \in C => /\ jump[o] \in 1..n /\ jump[o] # q
                     /\ f[jump[o]] = g[jump[o]]
      <4> SUFFICES ASSUME o \in C
                   PROVE  jump[o] \in 1..n /\ jump[o] # q /\ f[jump[o]] = g[jump[o]]
        OBVIOUS
      <4>1. jump[o] \in 1..n /\ jump[o] > o
        OBVIOUS
      <4>2. jump[o] # q
        BY <4>1, <3>1, <2>4
      <4> QED
        BY <4>1, <4>2
    <3>3. CASE o = q
      BY <3>2, <3>3
    <3>4. CASE o # q
      <4>1. f[o] = g[o] /\ o > n - m
        BY <3>1, <3>4, <2>1
      <4>2. g[o] = IF o \in C THEN step[o][g[jump[o]]] ELSE last[o]
        BY <4>1, <2>3
      <4> QED
        BY <3>2, <4>1, <4>2
    <3> QED
      BY <3>3, <3>4
  <2>8. From(n - (m + 1), f)
    <3> HIDE DEF f, q
    <3> QED
      BY <2>7
  <2> HIDE DEF f, From
  <2> QED
    BY <2>6, <2>8
<1>3. Good = Nat
  <2> HIDE DEF Good
  <2>1. Good \subseteq Nat
    BY DEF Good
  <2> QED
    BY <1>1, <1>2, <2>1, SetInduction
<1>4. \E f \in [1..n -> V] : From(n - n, f)
  <2> HIDE DEF From
  <2>1. n \in Good /\ n <= n
    <3> HIDE DEF Good
    <3> QED
      BY <1>3
  <2> QED
    BY <2>1
<1>5. PICK f \in [1..n -> V] : From(0, f)
  <2>1. n - n = 0
    OBVIOUS
  <2> HIDE DEF From
  <2> QED
    BY <1>4, <2>1
<1>6. Jumps(n, C, jump, last, step, f)
  BY <1>5 DEF Jumps
<1> QED
  BY <1>6

\* A report without its padding: a packet that is as long as it says.
Packet ==
  {raw \in Seq(Nat) : /\ Len(raw) >= 3 /\ raw[1] = HidReportData
                      /\ Len(raw) = 3 + raw[3]}

\* What SplitBuffer's recursion is to compute.
SplitsTo(data, from) ==
  \A o \in 1..(Len(data) + 1) :
    from[o] =
      IF o + 2 <= Len(data) /\ o + 2 + data[o + 2] <= Len(data)
      THEN [from[o + 3 + data[o + 2]] EXCEPT !.packets =
              <<SubSeq(data, o, o + 2 + data[o + 2])>> \o @]
      ELSE [packets |-> <<>>, rest |-> SubSeq(data, o, Len(data))]

LEMMA SplitDef ==
  ASSUME NEW data \in Seq(Nat)
  PROVE  \E from : SplitsTo(data, from) /\ SplitBuffer(data) = from[1]
<1> DEFINE L == Len(data)
           n == L + 1
           W == [packets : Seq(Seq(Nat)), rest : Seq(Nat)]
           C == {o \in 1..n : o + 2 <= L /\ o + 2 + data[o + 2] <= L}
           jump == [o \in C |-> o + 3 + data[o + 2]]
           last == [o \in 1..n |-> [packets |-> <<>>, rest |-> SubSeq(data, o, L)]]
           step == [o \in C |-> [v \in W |->
                     [v EXCEPT !.packets =
                        <<SubSeq(data, o, o + 2 + data[o + 2])>> \o @]]]
           Step(f, o) ==
             IF o + 2 <= L /\ o + 2 + data[o + 2] <= L
             THEN [f[o + 3 + data[o + 2]] EXCEPT !.packets =
                     <<SubSeq(data, o, o + 2 + data[o + 2])>> \o @]
             ELSE [packets |-> <<>>, rest |-> SubSeq(data, o, L)]
<1>1. L \in Nat /\ n \in Nat /\ \A i \in 1..L : data[i] \in Nat
  OBVIOUS
<1>2. \A o \in C : /\ o \in 1..n /\ o + 2 \in 1..L /\ data[o + 2] \in Nat
                   /\ o + 2 + data[o + 2] <= L
  <2> SUFFICES ASSUME NEW o \in C
               PROVE  /\ o \in 1..n /\ o + 2 \in 1..L /\ data[o + 2] \in Nat
                      /\ o + 2 + data[o + 2] <= L
    OBVIOUS
  <2>1. o \in 1..n /\ o + 2 <= L /\ o + 2 + data[o + 2] <= L
    OBVIOUS
  <2>2. o + 2 \in 1..L
    BY <2>1, <1>1
  <2> QED
    BY <2>1, <2>2, <1>1
<1>3. jump \in [C -> 1..n] /\ \A o \in C : jump[o] > o
  <2>1. ASSUME NEW o \in C
        PROVE  o + 3 + data[o + 2] \in 1..n /\ o + 3 + data[o + 2] > o
    <3> DEFINE d == data[o + 2]
    <3>1. /\ o \in Nat /\ o >= 1 /\ d \in Nat /\ o + 2 + d <= L /\ L \in Nat
      BY <1>1, <1>2
    <3> HIDE DEF C, d, L
    <3>2. o + 3 + d \in 1..(L + 1) /\ o + 3 + d > o
      BY <3>1
    <3> QED
      BY <3>2 DEF d
  <2> HIDE DEF C
  <2> QED
    BY <2>1
<1>4. \A a \in 1..n, b \in 0..L : SubSeq(data, a, b) \in Seq(Nat)
  <2> SUFFICES ASSUME NEW a \in 1..n, NEW b \in 0..L
               PROVE  SubSeq(data, a, b) \in Seq(Nat)
    OBVIOUS
  <2>1. a \in Int /\ b \in Int /\ \A i \in a..b : data[i] \in Nat
    BY <1>1
  <2> QED
    BY <2>1, SubSeqProperties
<1>5. last \in [1..n -> W]
  <2>1. ASSUME NEW o \in 1..n
        PROVE  [packets |-> <<>>, rest |-> SubSeq(data, o, L)] \in W
    <3>1. SubSeq(data, o, L) \in Seq(Nat) /\ <<>> \in Seq(Seq(Nat))
      BY <1>1, <1>4
    <3> QED
      BY <3>1
  <2> HIDE DEF W
  <2> QED
    BY <2>1
<1>6. step \in [C -> [W -> W]]
  <2>1. ASSUME NEW o \in C, NEW v \in W
        PROVE  [v EXCEPT !.packets =
                  <<SubSeq(data, o, o + 2 + data[o + 2])>> \o @] \in W
    <3>1. SubSeq(data, o, o + 2 + data[o + 2]) \in Seq(Nat)
      <4>1. o \in 1..n /\ o + 2 + data[o + 2] \in 0..L
        BY <1>1, <1>2
      <4> QED
        BY <4>1, <1>4
    <3> DEFINE s == SubSeq(data, o, o + 2 + data[o + 2])
    <3>2. v.packets \in Seq(Seq(Nat)) /\ <<s>> \in Seq(Seq(Nat))
      BY <3>1
    <3> HIDE DEF s
    <3>3. <<s>> \o v.packets \in Seq(Seq(Nat))
      BY <3>2, Joined
    <3> QED
      BY <3>3 DEF s
  <2> HIDE DEF W, C
  <2> QED
    BY <2>1
<1>7. PICK f \in [1..n -> W] : Jumps(n, C, jump, last, step, f)
  <2> HIDE DEF W, C, jump, last, step, n
  <2>1. C \subseteq 1..n
    BY DEF C
  <2> QED
    BY <2>1, <1>1, <1>3, <1>5, <1>6, JumpTable
<1>8. \A o \in 1..n : f[o] = Step(f, o)
  <2> SUFFICES ASSUME NEW o \in 1..n PROVE f[o] = Step(f, o)
    OBVIOUS
  <2>1. f[o] = IF o \in C THEN step[o][f[jump[o]]] ELSE last[o]
    <3> HIDE DEF C, step, jump, last
    <3> QED
      BY <1>7 DEF Jumps
  <2>2. CASE o \in C
    <3>1. jump[o] \in 1..n /\ f[jump[o]] \in W
      <4> HIDE DEF C, W, jump, n
      <4> QED
        BY <1>3, <2>2
    <3>2. step[o][f[jump[o]]] = [f[jump[o]] EXCEPT !.packets =
                                   <<SubSeq(data, o, o + 2 + data[o + 2])>> \o @]
      <4> HIDE DEF C, W, jump
      <4> QED
        BY <2>2, <3>1
    <3>3. jump[o] = o + 3 + data[o + 2]
      BY <2>2
    <3>4. o + 2 <= L /\ o + 2 + data[o + 2] <= L
      BY <2>2
    <3> HIDE DEF step, jump, C, L
    <3> QED
      BY <2>1, <2>2, <3>2, <3>3, <3>4
  <2>3. CASE o \notin C
    <3>1. ~(o + 2 <= L /\ o + 2 + data[o + 2] <= L)
      BY <2>3
    <3>2. f[o] = last[o]
      BY <2>1, <2>3
    <3> HIDE DEF C, L
    <3> QED
      BY <3>1, <3>2
  <2> QED
    BY <2>2, <2>3
<1> DEFINE from == CHOOSE g : g = [o \in 1..n |-> Step(g, o)]
<1>9. from = [o \in 1..n |-> Step(from, o)]
  <2> HIDE DEF Step, n, W
  <2>1. f = [o \in 1..n |-> f[o]]
    BY <1>7
  <2>2. f = [o \in 1..n |-> Step(f, o)]
    BY <1>8, <2>1
  <2> QED
    BY <2>2, Zenon
<1>10. SplitBuffer(data) = from[1]
  BY DEF SplitBuffer
<1> HIDE DEF from
<1>11. \A o \in 1..n : from[o] = Step(from, o)
  <2> HIDE DEF Step, n
  <2> QED
    BY <1>9
<1>12. SplitsTo(data, from)
  BY <1>11 DEF SplitsTo
<1> QED
  BY <1>10, <1>12

\* Packets that stand in the buffer one after the other are the packets that
\* check_reads finds there.
THEOREM SplitWhole ==
  ASSUME NEW data \in Seq(Nat), NEW raws \in Seq(Packet), NEW at,
         CutAt(data, raws, at)
  PROVE  SplitBuffer(data) = [packets |-> raws, rest |-> <<>>]
<1> DEFINE n == Len(raws)
           L == Len(data)
           Left(k) == [packets |-> SubSeq(raws, k + 1, n), rest |-> <<>>]
<1>1. PICK from : SplitsTo(data, from) /\ SplitBuffer(data) = from[1]
  BY SplitDef
<1>2. /\ n \in Nat /\ L \in Nat /\ raws \in Seq(Seq(Nat))
      /\ \A i \in 1..L : data[i] \in Nat
  <2>1. raws \in Seq(Seq(Nat))
    BY SeqMonotonic DEF Packet
  <2> QED
    BY <2>1
<1>3. at \in [0..n -> Nat] /\ at[0] = 0 /\ at[n] = L
  BY DEF CutAt
<1>4. \A k \in 0..n : at[k] <= L
  BY <1>2, CutEnds
<1> DEFINE Good == {m \in Nat : m <= n => from[at[n - m] + 1] = Left(n - m)}
<1>5. 0 \in Good
  <2>1. from[L + 1] = [packets |-> <<>>, rest |-> SubSeq(data, L + 1, L)]
    <3>1. L + 1 \in 1..(L + 1) /\ ~((L + 1) + 2 <= L)
      BY <1>2
    <3> QED
      BY <3>1, <1>1 DEF SplitsTo
  <2>2. SubSeq(data, L + 1, L) = <<>> /\ SubSeq(raws, n + 1, n) = <<>>
    BY <1>2, SubSeqEmpty
  <2>3. n - 0 = n
    BY <1>2
  <2> HIDE DEF n, L
  <2> QED
    BY <2>1, <2>2, <2>3, <1>3
<1>6. ASSUME NEW m \in Good PROVE m + 1 \in Good
  <2>1. m \in Nat /\ m + 1 \in Nat
    OBVIOUS
  <2>2. ASSUME m + 1 <= n
        PROVE  from[at[n - (m + 1)] + 1] = Left(n - (m + 1))
    <3> DEFINE k == n - m
               raw == raws[k]
               o == at[k - 1] + 1
    <3>1. k \in 1..n /\ k - 1 = n - (m + 1) /\ m <= n /\ k \in 0..n /\ k - 1 \in 0..n
      BY <1>2, <2>1, <2>2
    <3>2. from[at[k] + 1] = Left(k)
      BY <3>1
    <3> HIDE DEF Good, k
    <3>3. /\ raw \in Seq(Nat) /\ Len(raw) \in Nat /\ Len(raw) >= 3
          /\ Len(raw) = 3 + raw[3] /\ raw[3] \in Nat
      <4>1. raw \in Packet
        BY <3>1
      <4>2. raw \in Seq(Nat) /\ Len(raw) >= 3 /\ Len(raw) = 3 + raw[3]
        BY <4>1 DEF Packet
      <4> HIDE DEF raw
      <4>3. Len(raw) \in Nat /\ raw[3] \in Nat
        BY <4>2
      <4> QED
        BY <4>2, <4>3
    <3>4. at[k] = at[k - 1] + Len(raw)
          /\ \A i \in 1..Len(raw) : data[at[k - 1] + i] = raw[i]
      BY <3>1 DEF CutAt
    <3>5. at[k - 1] \in Nat /\ at[k] \in Nat /\ at[k] <= L
      BY <3>1, <1>3, <1>4
    <3> HIDE DEF raw
    <3>6. data[o + 2] = raw[3]
      <4>1. o + 2 = at[k - 1] + 3 /\ 3 \in 1..Len(raw)
        BY <3>3, <3>5
      <4> QED
        BY <4>1, <3>4
    <3>7. o \in 1..(L + 1) /\ o + 2 <= L /\ o + 2 + data[o + 2] <= L
          /\ o + 3 + data[o + 2] = at[k] + 1 /\ o + 2 + data[o + 2] = at[k]
      <4> DEFINE a == at[k - 1]
                 d == raw[3]
      <4>1. /\ a \in Nat /\ d \in Nat /\ L \in Nat /\ at[k] = a + (3 + d)
            /\ a + (3 + d) <= L /\ o = a + 1 /\ data[o + 2] = d
        BY <3>3, <3>4, <3>5, <3>6, <1>2
      <4> HIDE DEF a, d, o, L
      <4> QED
        BY <4>1
    <3>8. SubSeq(data, o, at[k]) = raw
      <4>1. \A i \in o..at[k] : data[i] \in Nat
        BY <3>5, <1>2
      <4>2. /\ SubSeq(data, o, at[k]) \in Seq(Nat)
            /\ Len(SubSeq(data, o, at[k])) = Len(raw)
            /\ \A i \in 1..Len(raw) : SubSeq(data, o, at[k])[i] = data[o + i - 1]
        <5>1. /\ SubSeq(data, o, at[k]) \in Seq(Nat)
              /\ Len(SubSeq(data, o, at[k])) =
                   IF o <= at[k] THEN at[k] - o + 1 ELSE 0
              /\ \A i \in 1..(at[k] - o + 1) :
                   SubSeq(data, o, at[k])[i] = data[o + i - 1]
          <6>1. o \in Int /\ at[k] \in Int
            BY <3>5
          <6> HIDE DEF o
          <6> QED
            BY <4>1, <6>1, SubSeqProperties
        <5>2. o <= at[k] /\ at[k] - o + 1 = Len(raw)
          <6> HIDE DEF L
          <6>1. at[k - 1] \in Nat /\ Len(raw) \in Nat /\ Len(raw) >= 3
            BY <3>3, <3>5
          <6> QED
            BY <6>1, <3>4
        <5> QED
          BY <5>1, <5>2
      <4>3. ASSUME NEW i \in 1..Len(raw)
            PROVE  SubSeq(data, o, at[k])[i] = raw[i]
        <5>1. o + i - 1 = at[k - 1] + i
          BY <3>3, <3>5
        <5> QED
          BY <4>2, <5>1, <3>4
      <4> QED
        BY <3>3, <4>2, <4>3, SeqEqual
    <3>9. from[o] = [from[at[k] + 1] EXCEPT !.packets = <<raw>> \o @]
      <4> HIDE DEF o
      <4> QED
        BY <3>7, <3>8, <1>1 DEF SplitsTo
    <3>10. SubSeq(raws, k, n) = <<raw>> \o SubSeq(raws, k + 1, n)
      <4>1. n \in k..Len(raws)
        BY <3>1, <1>2
      <4> HIDE DEF n
      <4>2. k \in 1..Len(raws)
        BY <3>1 DEF n
      <4> QED
        BY <4>1, <4>2, <1>2, SubSeqRecursiveFirst DEF raw
    <3>11. from[o] = [packets |-> SubSeq(raws, k, n), rest |-> <<>>]
      <4> DEFINE was == SubSeq(raws, k + 1, n)
      <4>1. from[at[k] + 1] = [packets |-> was, rest |-> <<>>]
        BY <3>2
      <4> HIDE DEF was, o
      <4> DEFINE now == <<raw>> \o was
                 left == from[at[k] + 1]
      <4>2. from[o] = [left EXCEPT !.packets = now]
        BY <4>1, <3>9
      <4>3. left = [packets |-> was, rest |-> <<>>]
        BY <4>1
      <4> HIDE DEF now, left
      <4>4. from[o] = [packets |-> now, rest |-> <<>>]
        BY <4>2, <4>3
      <4> QED
        BY <4>4, <3>10 DEF was, now
    <3>12. k = (k - 1) + 1
      BY <3>1
    <3> QED
      BY <3>1, <3>11, <3>12
  <2> QED
    BY <2>1, <2>2
<1>7. Good = Nat
  <2> HIDE DEF Good
  <2>1. Good \subseteq Nat
    BY DEF Good
  <2> QED
    BY <1>5, <1>6, <2>1, SetInduction
<1>8. from[1] = Left(0)
  <2>1. from[at[n - n] + 1] = Left(n - n)
    <3>1. n \in Good
      BY <1>2, <1>7
    <3>2. n <= n
      BY <1>2
    <3> HIDE DEF n
    <3> QED
      BY <3>1, <3>2
  <2>2. n - n = 0 /\ at[0] + 1 = 1
    BY <1>2, <1>3
  <2> QED
    BY <2>1, <2>2
<1>9. SubSeq(raws, 0 + 1, n) = raws
  BY <1>2, SubSeqFull
<1> QED
  BY <1>1, <1>8, <1>9

-----------------------------------------------------------------------------
(* Commands and reports *)

\* The chunks are parts of the data, none is longer than that size, and got[k]
\* is what the first k of them make up: all of them, the data.
Assembles(chunks, size, data, got) ==
  /\ Len(chunks) >= 1
  /\ got[0] = <<>> /\ got[Len(chunks)] = data
  /\ \A k \in 1..Len(chunks) :
       Len(chunks[k]) <= size /\ got[k] = got[k - 1] \o chunks[k]

LEMMA ChunkCount ==
  ASSUME NEW L \in Nat, NEW size \in Nat \ {0}
  PROVE  LET count == Max({1, (L + size - 1) \div size})
         IN  /\ count \in Nat /\ count >= 1
             /\ L <= count * size
             /\ \A k \in Nat : k < count => k * size <= L
<1> DEFINE q == (L + size - 1) \div size
           count == IF q >= 1 THEN q ELSE 1
<1>1. q \in Nat /\ q * size <= L + size - 1 /\ L + size - 1 < q * size + size
  OBVIOUS
<1>2. Max({1, q}) = count
  <2> HIDE DEF q
  <2>1. Max({1, q}) \in {1, q} /\ \A x \in {1, q} : x <= Max({1, q})
    <3>1. \E x \in {1, q} : \A y \in {1, q} : x >= y
      <4>1. CASE q >= 1
        BY <1>1, <4>1
      <4>2. CASE ~(q >= 1)
        BY <1>1, <4>2
      <4> QED
        BY <4>1, <4>2
    <3> QED
      BY <3>1 DEF Max
  <2> QED
    BY <1>1, <2>1
<1>3. count \in Nat /\ count >= 1 /\ q <= count
  <2> HIDE DEF q
  <2> QED
    BY <1>1
<1>4. L <= count * size
  <2>1. q * size <= count * size
    <3> HIDE DEF q, count
    <3> QED
      BY <1>1, <1>3
  <2> HIDE DEF q, count
  <2>2. q * size \in Nat /\ count * size \in Nat
    BY <1>1, <1>3
  <2> QED
    BY <1>1, <2>1, <2>2
<1>5. ASSUME NEW k \in Nat, k < count PROVE k * size <= L
  <2>1. CASE q >= 1
    <3>1. k + 1 <= q
      <4> HIDE DEF q
      <4> QED
        BY <1>1, <1>5, <2>1
    <3> HIDE DEF q, count
    <3>2. (k + 1) * size <= q * size
      BY <1>1, <3>1
    <3>3. (k + 1) * size = k * size + size /\ k * size \in Nat /\ q * size \in Nat
      BY <1>1
    <3> QED
      BY <1>1, <3>2, <3>3
  <2>2. CASE ~(q >= 1)
    <3>1. k = 0
      <4> HIDE DEF q
      <4> QED
        BY <1>1, <1>5, <2>2
    <3> QED
      BY <3>1
  <2> QED
    BY <2>1, <2>2
<1> HIDE DEF q, count
<1>6. Max({1, (L + size - 1) \div size}) = count
  BY <1>2 DEF q
<1> QED
  BY <1>3, <1>4, <1>5, <1>6

LEMMA ChunkFacts ==
  ASSUME NEW V, NEW data \in Seq(V), NEW size \in Nat \ {0}
  PROVE  /\ Chunks(data, size) \in Seq(Seq(V))
         /\ \E got \in [0..Len(Chunks(data, size)) -> Seq(V)] :
              Assembles(Chunks(data, size), size, data, got)
<1> DEFINE L == Len(data)
           count == Max({1, (L + size - 1) \div size})
           upto(k) == Min({k * size, L})
           chunk(k) == SubSeq(data, (k - 1) * size + 1, upto(k))
           chunks == [k \in 1..count |-> chunk(k)]
           got == [k \in 0..count |-> SubSeq(data, 1, upto(k))]
<1>1. L \in Nat
  OBVIOUS
<1>2. /\ count \in Nat /\ count >= 1 /\ L <= count * size
      /\ \A k \in Nat : k < count => k * size <= L
  BY <1>1, ChunkCount
<1>3. Chunks(data, size) = chunks
  BY DEF Chunks
<1> HIDE DEF count, L
<1>4. ASSUME NEW k \in 0..count
      PROVE  /\ k * size \in Nat
             /\ upto(k) = IF k * size <= L THEN k * size ELSE L
             /\ upto(k) \in 0..L
             /\ k < count => upto(k) = k * size
  <2>1. k * size \in Nat
    BY <1>2
  <2> DEFINE a == k * size
  <2>2. a \in Nat /\ (k < count => a <= L)
    BY <2>1, <1>2
  <2> HIDE DEF a
  <2>3. Min({a, L}) = IF a <= L THEN a ELSE L
    <3>1. \E x \in {a, L} : \A y \in {a, L} : x <= y
      <4>1. CASE a <= L
        BY <1>1, <2>2, <4>1
      <4>2. CASE ~(a <= L)
        BY <1>1, <2>2, <4>2
      <4> QED
        BY <4>1, <4>2
    <3>2. Min({a, L}) \in {a, L} /\ \A y \in {a, L} : Min({a, L}) <= y
      BY <3>1 DEF Min
    <3> QED
      BY <1>1, <2>2, <3>2
  <2> QED
    BY <1>1, <2>1, <2>2, <2>3 DEF a
<1>5. \A i \in 1..L : data[i] \in V
  BY DEF L
<1>6. ASSUME NEW k \in 1..count
      PROVE  /\ chunk(k) \in Seq(V) /\ Len(chunk(k)) <= size
             /\ SubSeq(data, 1, upto(k)) = SubSeq(data, 1, upto(k - 1)) \o chunk(k)
  <2> DEFINE a == (k - 1) * size
             b == upto(k)
  <2>1. k \in 0..count /\ k - 1 \in 0..count /\ k - 1 < count /\ k - 1 \in Nat
    BY <1>2
  <2>2. upto(k - 1) = a /\ a \in Nat /\ a <= L
    <3>1. upto(k - 1) = (k - 1) * size /\ upto(k - 1) \in 0..L
      BY <1>4, <2>1
    <3> QED
      BY <1>1, <3>1 DEF a
  <2>3. k * size = a + size
    BY <2>1
  <2>4. b \in 0..L /\ a <= b /\ b <= a + size
    <3> HIDE DEF a
    <3>1. upto(k) = IF k * size <= L THEN k * size ELSE L
      BY <1>4, <2>1
    <3>2. b = IF a + size <= L THEN a + size ELSE L
      BY <3>1, <2>3
    <3> HIDE DEF b
    <3> QED
      BY <3>2, <2>2, <1>1
  <2> HIDE DEF a, b
  <2>5. /\ SubSeq(data, a + 1, b) \in Seq(V)
        /\ Len(SubSeq(data, a + 1, b)) = IF a + 1 <= b THEN b - (a + 1) + 1 ELSE 0
    <3>1. a + 1 \in Int /\ b \in Int /\ \A i \in (a + 1)..b : data[i] \in V
      BY <1>1, <1>5, <2>2, <2>4
    <3> QED
      BY <3>1, SubSeqProperties
  <2>6. Len(SubSeq(data, a + 1, b)) <= size
    BY <2>2, <2>4, <2>5, <1>1
  <2>7. SubSeq(data, 1, b) = SubSeq(data, 1, a) \o SubSeq(data, a + 1, b)
    <3>1. 1 \in 1..(Len(data) + 1) /\ a \in (1 - 1)..Len(data) /\ b \in a..Len(data)
      BY <1>1, <2>2, <2>4 DEF L
    <3> QED
      BY <3>1, ConcatAdjacentSubSeq
  <2> QED
    BY <2>2, <2>5, <2>6, <2>7 DEF a, b
<1> HIDE DEF upto, chunk
<1>7. chunks \in Seq(Seq(V)) /\ Len(chunks) = count
  BY <1>2, <1>6
<1>8. ASSUME NEW k \in 0..count PROVE SubSeq(data, 1, upto(k)) \in Seq(V)
  <2>1. 1 \in Int /\ upto(k) \in Int /\ \A i \in 1..upto(k) : data[i] \in V
    BY <1>1, <1>4, <1>5
  <2> QED
    BY <2>1, SubSeqProperties
<1>9. got \in [0..count -> Seq(V)]
  BY <1>8
<1>10. got[0] = <<>> /\ got[count] = data
  <2>1. upto(0) = 0
    <3>1. 0 \in 0..count /\ 0 < count
      BY <1>2
    <3>2. upto(0) = 0 * size
      BY <1>4, <3>1
    <3> QED
      BY <3>2
  <2>2. SubSeq(data, 1, 0) = <<>>
    BY SubSeqEmpty
  <2>3. upto(count) = L
    <3>1. count \in 0..count
      BY <1>2
    <3>2. upto(count) = IF count * size <= L THEN count * size ELSE L
      BY <1>4, <3>1
    <3>3. count * size \in Nat
      BY <1>4, <3>1
    <3> QED
      BY <1>1, <1>2, <3>2, <3>3
  <2>4. SubSeq(data, 1, L) = data
    BY SubSeqFull DEF L
  <2> QED
    BY <1>2, <2>1, <2>2, <2>3, <2>4
<1>11. ASSUME NEW k \in 1..count
       PROVE  Len(chunks[k]) <= size /\ got[k] = got[k - 1] \o chunks[k]
  <2>1. k \in 0..count /\ k - 1 \in 0..count
    BY <1>2
  <2> QED
    BY <1>6, <2>1
<1> HIDE DEF got, chunks
<1>12. Assembles(chunks, size, data, got)
  BY <1>2, <1>7, <1>10, <1>11 DEF Assembles
<1> QED
  BY <1>3, <1>7, <1>9, <1>12

\* A report, with its padding and without.
IsReport(report, V, id, flags, payload) ==
  /\ report \in Seq(V) /\ Len(report) = 3 + MaxPayload
  /\ report[1] = id /\ report[2] = flags /\ report[3] = Len(payload)
  /\ Payload(report) = payload
  /\ SubSeq(report, 1, 3 + Len(payload)) = <<id, flags, Len(payload)>> \o payload

LEMMA ReportFacts ==
  ASSUME NEW V, Nat \subseteq V, NEW id \in Nat, NEW flags \in Nat,
         NEW payload \in Seq(V), Len(payload) <= MaxPayload
  PROVE  IsReport(HidReport(id, flags, payload), V, id, flags, payload)
<1> DEFINE n == Len(payload)
           head == <<id, flags, n>>
           zeros == [i \in 1..(MaxPayload - n) |-> 0]
           front == head \o payload
           report == front \o zeros
<1>1. n \in Nat /\ n <= MaxPayload /\ MaxPayload \in Nat
  BY ProtocolAssumption
<1>2. head \in Seq(V) /\ Len(head) = 3 /\ head[1] = id /\ head[2] = flags /\ head[3] = n
  BY <1>1
<1>3. zeros \in Seq(V) /\ Len(zeros) = MaxPayload - n
  <2>1. 0 \in V /\ MaxPayload - n \in Nat
    BY <1>1
  <2> HIDE DEF n
  <2> QED
    BY <2>1
<1> HIDE DEF head, zeros, n
<1>4. /\ front \in Seq(V) /\ Len(front) = 3 + n
      /\ \A i \in 1..3 : front[i] = head[i]
      /\ \A i \in 1..n : front[3 + i] = payload[i]
  <2>1. payload \in Seq(V) /\ Len(payload) = n
    BY DEF n
  <2>2. head \in Seq(V)
    BY <1>2
  <2>3. /\ head \o payload \in Seq(V)
        /\ Len(head \o payload) = Len(head) + Len(payload)
        /\ \A i \in 1..Len(head) : (head \o payload)[i] = head[i]
        /\ \A i \in 1..Len(payload) : (head \o payload)[Len(head) + i] = payload[i]
    BY <2>2, Joined
  <2>4. Len(head) = 3
    BY <1>2
  <2> QED
    BY <2>1, <2>3, <2>4
<1> HIDE DEF front
<1>5. /\ report \in Seq(V) /\ Len(report) = 3 + MaxPayload
      /\ \A i \in 1..(3 + n) : report[i] = front[i]
  BY <1>1, <1>3, <1>4, Joined
<1>6. HidReport(id, flags, payload) = report
  BY DEF HidReport, head, zeros, front, n
<1> HIDE DEF report
<1>7. report[1] = id /\ report[2] = flags /\ report[3] = n
  BY <1>1, <1>2, <1>4, <1>5
<1>8. SubSeq(report, 4, 3 + n) = payload
  <2>1. \A i \in 4..(3 + n) : report[i] \in V
    BY <1>1, <1>5
  <2>2. /\ SubSeq(report, 4, 3 + n) \in Seq(V)
        /\ Len(SubSeq(report, 4, 3 + n)) =
             IF 4 <= 3 + n THEN (3 + n) - 4 + 1 ELSE 0
        /\ \A i \in 1..((3 + n) - 4 + 1) :
             SubSeq(report, 4, 3 + n)[i] = report[4 + i - 1]
    BY <1>1, <2>1, SubSeqProperties
  <2>3. Len(SubSeq(report, 4, 3 + n)) = n
    BY <1>1, <2>2
  <2>4. ASSUME NEW i \in 1..n PROVE SubSeq(report, 4, 3 + n)[i] = payload[i]
    <3>1. i \in 1..((3 + n) - 4 + 1) /\ 4 + i - 1 = 3 + i /\ 3 + i \in 1..(3 + n)
      BY <1>1
    <3> QED
      BY <2>2, <3>1, <1>4, <1>5
  <2> QED
    BY <2>2, <2>3, <2>4, SeqEqual DEF n
<1>9. SubSeq(report, 1, 3 + n) = front
  <2>1. \A i \in 1..(3 + n) : report[i] \in V
    BY <1>1, <1>5
  <2>2. /\ SubSeq(report, 1, 3 + n) \in Seq(V)
        /\ Len(SubSeq(report, 1, 3 + n)) =
             IF 1 <= 3 + n THEN (3 + n) - 1 + 1 ELSE 0
        /\ \A i \in 1..((3 + n) - 1 + 1) :
             SubSeq(report, 1, 3 + n)[i] = report[1 + i - 1]
    BY <1>1, <2>1, SubSeqProperties
  <2>3. Len(SubSeq(report, 1, 3 + n)) = 3 + n
    BY <1>1, <2>2
  <2>4. ASSUME NEW i \in 1..(3 + n) PROVE SubSeq(report, 1, 3 + n)[i] = front[i]
    <3>1. i \in 1..((3 + n) - 1 + 1) /\ 1 + i - 1 = i
      BY <1>1
    <3> QED
      BY <2>2, <3>1, <1>5
  <2> QED
    BY <2>2, <2>3, <2>4, <1>4, SeqEqual
<1> QED
  BY <1>5, <1>6, <1>7, <1>8, <1>9 DEF IsReport, Payload, front, head, n

\* What poll() keeps of a report is a packet with that payload.
IsPacket(raw, flags, payload) ==
  raw \in Packet /\ raw[2] = flags /\ Payload(raw) = payload

LEMMA KeptFacts ==
  ASSUME NEW flags \in Nat, NEW payload \in Seq(Nat), Len(payload) <= MaxPayload
  PROVE  IsPacket(Kept(HidReport(HidReportData, flags, payload)), flags, payload)
<1> DEFINE n == Len(payload)
           report == HidReport(HidReportData, flags, payload)
           head == <<HidReportData, flags, n>>
           raw == head \o payload
<1>1. n \in Nat /\ n <= MaxPayload /\ MaxPayload \in Nat
  BY ProtocolAssumption
<1>2. /\ Len(report) = 3 + MaxPayload /\ report[1] = HidReportData
      /\ report[3] = n /\ SubSeq(report, 1, 3 + n) = raw
  <2>1. HidReportData \in Nat
    BY DEF HidReportData
  <2>2. IsReport(report, Nat, HidReportData, flags, payload)
    BY <2>1, ReportFacts
  <2> QED
    BY <2>2 DEF IsReport
<1> HIDE DEF report
<1>3. Kept(report) = raw
  <2> HIDE DEF raw, n
  <2> QED
    BY <1>1, <1>2 DEF Kept
<1>4. /\ head \in Seq(Nat) /\ Len(head) = 3 /\ head[1] = HidReportData
      /\ head[2] = flags /\ head[3] = n
  BY <1>1 DEF HidReportData
<1> HIDE DEF head, n
<1>5. /\ raw \in Seq(Nat) /\ Len(raw) = 3 + n
      /\ \A i \in 1..3 : raw[i] = head[i]
      /\ \A i \in 1..n : raw[3 + i] = payload[i]
  <2>1. payload \in Seq(Nat) /\ Len(payload) = n
    BY DEF n
  <2>2. head \in Seq(Nat)
    BY <1>4
  <2>3. /\ head \o payload \in Seq(Nat)
        /\ Len(head \o payload) = Len(head) + Len(payload)
        /\ \A i \in 1..Len(head) : (head \o payload)[i] = head[i]
        /\ \A i \in 1..Len(payload) : (head \o payload)[Len(head) + i] = payload[i]
    BY <2>2, Joined
  <2>4. Len(head) = 3
    BY <1>4
  <2> QED
    BY <2>1, <2>3, <2>4
<1> HIDE DEF raw
<1>6. raw[1] = HidReportData /\ raw[2] = flags /\ raw[3] = n
  BY <1>4, <1>5
<1>7. raw \in Packet
  BY <1>1, <1>5, <1>6 DEF Packet
<1>8. Payload(raw) = payload
  <2>1. \A i \in 4..(3 + n) : raw[i] \in Nat
    BY <1>1, <1>5
  <2>2. /\ SubSeq(raw, 4, 3 + n) \in Seq(Nat)
        /\ Len(SubSeq(raw, 4, 3 + n)) =
             IF 4 <= 3 + n THEN (3 + n) - 4 + 1 ELSE 0
        /\ \A i \in 1..((3 + n) - 4 + 1) :
             SubSeq(raw, 4, 3 + n)[i] = raw[4 + i - 1]
    BY <1>1, <2>1, SubSeqProperties
  <2>3. Len(SubSeq(raw, 4, 3 + n)) = n
    BY <1>1, <2>2
  <2>4. ASSUME NEW i \in 1..n PROVE SubSeq(raw, 4, 3 + n)[i] = payload[i]
    <3>1. i \in 1..((3 + n) - 4 + 1) /\ 4 + i - 1 = 3 + i
      BY <1>1
    <3> QED
      BY <2>2, <3>1, <1>5
  <2> QED
    BY <2>2, <2>3, <2>4, <1>6, SeqEqual DEF n, Payload
<1> QED
  BY <1>3, <1>6, <1>7, <1>8 DEF IsPacket, report

-----------------------------------------------------------------------------
(* Uploads *)

\* A sequence, and the bytes of a packet of an upload.
Listed(s) == \E W : s \in Seq(W)

IsUpload(b) ==
  \E W : Nat \subseteq W /\ b \in Seq(W) /\ Len(b) >= 1 /\ b[1] = UploadCode

AllUploads(p) == \E U : p \in Seq(U) /\ \A b \in U : IsUpload(b)

\* What the application goes through: of its entries only the packets are sent.
Sendable(s) ==
  \E E : s \in Seq(E) /\ \A e \in E : e.op = "packet" => IsUpload(e.bytes)

LEMMA ListedFunction ==
  ASSUME NEW n \in Nat, NEW s, s = [i \in 1..n |-> s[i]]
  PROVE  Listed(s)
<1> DEFINE W == {s[i] : i \in 1..n}
<1>1. \A i \in 1..n : s[i] \in W
  OBVIOUS
<1> HIDE DEF W
<1>2. [i \in 1..n |-> s[i]] \in Seq(W)
  BY <1>1
<1> QED
  BY <1>2 DEF Listed

LEMMA SeqUnion ==
  ASSUME NEW V, NEW W, NEW s \in Seq(V)
  PROVE  s \in Seq(V \cup W) /\ s \in Seq(W \cup V)
OBVIOUS

LEMMA ListedConcat ==
  ASSUME NEW s, NEW t, Listed(s), Listed(t)
  PROVE  Listed(s \o t)
<1>1. PICK V : s \in Seq(V)
  BY DEF Listed
<1>2. PICK W : t \in Seq(W)
  BY DEF Listed
<1>3. s \in Seq(V \cup W) /\ t \in Seq(V \cup W)
  BY <1>1, <1>2, SeqUnion
<1> DEFINE U == V \cup W
<1> HIDE DEF U
<1>4. s \in Seq(U) /\ t \in Seq(U)
  BY <1>3 DEF U
<1>5. s \o t \in Seq(U)
  BY <1>4, Joined
<1> QED
  BY <1>5 DEF Listed

LEMMA AllUploadsConcat ==
  ASSUME NEW p, NEW q, AllUploads(p), AllUploads(q)
  PROVE  AllUploads(p \o q)
<1>1. PICK V : p \in Seq(V) /\ \A b \in V : IsUpload(b)
  BY DEF AllUploads
<1>2. PICK W : q \in Seq(W) /\ \A b \in W : IsUpload(b)
  BY DEF AllUploads
<1> DEFINE U == V \cup W
<1>3. \A b \in U : IsUpload(b)
  BY <1>1, <1>2
<1>4. p \in Seq(U) /\ q \in Seq(U)
  BY <1>1, <1>2, SeqUnion
<1> HIDE DEF U
<1>5. p \o q \in Seq(U)
  BY <1>4, Joined
<1> QED
  BY <1>3, <1>5 DEF AllUploads

LEMMA SendableConcat ==
  ASSUME NEW p, NEW q, Sendable(p), Sendable(q)
  PROVE  Sendable(p \o q)
<1> DEFINE Fine(e) == e.op = "packet" => IsUpload(e.bytes)
<1>1. PICK V : p \in Seq(V) /\ \A e \in V : Fine(e)
  BY DEF Sendable
<1>2. PICK W : q \in Seq(W) /\ \A e \in W : Fine(e)
  BY DEF Sendable
<1> DEFINE U == V \cup W
<1> HIDE DEF Fine
<1>3. \A e \in U : Fine(e)
  BY <1>1, <1>2
<1>4. p \in Seq(U) /\ q \in Seq(U)
  BY <1>1, <1>2, SeqUnion
<1> HIDE DEF U
<1>5. p \o q \in Seq(U)
  BY <1>4, Joined
<1> QED
  BY <1>3, <1>5 DEF Sendable, Fine

LEMMA UploadPacketsFacts ==
  ASSUME NEW data, Listed(data), NEW offset, NEW panel, NEW type
  PROVE  /\ AllUploads(UploadPackets(data, offset, panel, type))
         /\ Len(UploadPackets(data, offset, panel, type)) \in Nat \ {0}
<1>1. PICK W : data \in Seq(W)
  BY DEF Listed
<1> DEFINE pieces == Chunks(data, MaxData)
           n == Len(pieces)
           at(i) == offset + (i - 1) * MaxData
           head(i) == <<UploadCode, panel, TypeIndex(type), 0, at(i) % 256,
                        at(i) \div 256, Len(pieces[i])>>
           packet(i) == head(i) \o pieces[i]
           p == [i \in 1..n |-> packet(i)]
<1>2. MaxData \in Nat \ {0}
  BY UploadAssumption
<1>3. /\ pieces \in Seq(Seq(W))
      /\ \E got \in [0..n -> Seq(W)] : Assembles(pieces, MaxData, data, got)
  BY <1>1, <1>2, ChunkFacts
<1>4. n \in Nat /\ n >= 1 /\ DOMAIN pieces = 1..n
  BY <1>3 DEF Assembles
<1>5. UploadPackets(data, offset, panel, type) = p
  BY <1>4 DEF UploadPackets
<1>6. ASSUME NEW i \in 1..n PROVE IsUpload(packet(i))
  <2>1. pieces[i] \in Seq(W)
    BY <1>3
  <2> DEFINE t == pieces[i]
             a == panel
             b == TypeIndex(type)
             c == at(i) % 256
             d == at(i) \div 256
             e == Len(pieces[i])
             h == <<UploadCode, a, b, 0, c, d, e>>
             V == W \cup Nat \cup {a, b, c, d, e}
  <2> HIDE DEF t, a, b, c, d, e
  <2>2. UploadCode \in V /\ 0 \in V /\ a \in V /\ b \in V /\ c \in V /\ d \in V
        /\ e \in V /\ Nat \subseteq V /\ W \subseteq V
    BY DEF UploadCode
  <2> HIDE DEF V
  <2>3. h \in Seq(V) /\ h[1] = UploadCode
    BY <2>2
  <2>4. Len(h) = 7
    OBVIOUS
  <2>5. t \in Seq(V)
    BY <2>1, <2>2 DEF t
  <2> DEFINE k == h
  <2> HIDE DEF k
  <2>6. /\ k \o t \in Seq(V) /\ Len(t) \in Nat
        /\ Len(k \o t) = Len(k) + Len(t)
        /\ \A j \in 1..Len(k) : (k \o t)[j] = k[j]
    <3>1. k \in Seq(V)
      BY <2>3 DEF k
    <3> QED
      BY <2>5, <3>1, Joined
  <2>7. Len(k) = 7 /\ k[1] = UploadCode
    BY <2>3, <2>4 DEF k
  <2>8. /\ k \o t \in Seq(V) /\ Len(k \o t) >= 1 /\ (k \o t)[1] = UploadCode
    BY <2>6, <2>7
  <2>9. packet(i) = k \o t
    BY DEF k, t, a, b, c, d, e
  <2> QED
    BY <2>2, <2>8, <2>9 DEF IsUpload
<1> HIDE DEF packet, n
<1> DEFINE U == {packet(i) : i \in 1..n}
<1>7. \A b \in U : IsUpload(b)
  BY <1>6
<1>8. p \in Seq(U) /\ Len(p) = n
  <2>1. \A i \in 1..n : packet(i) \in U
    OBVIOUS
  <2> HIDE DEF U
  <2> QED
    BY <1>4, <2>1
<1> HIDE DEF p, U
<1> QED
  BY <1>4, <1>5, <1>7, <1>8 DEF AllUploads

LEMMA GraphicSizeNat == GraphicSize \in Nat
<1> DEFINE a == OuterSide * OuterSide
           b == (OuterSide - 1) * (OuterSide - 1)
<1>1. OuterSide \in Nat /\ OuterSide - 1 \in Nat
  BY UploadAssumption
<1>2. a \in Nat /\ b \in Nat
  BY <1>1
<1>3. NumLeds = a + b
  BY DEF NumLeds, OuterLeds
<1> HIDE DEF a, b
<1>4. NumLeds \in Nat
  BY <1>2, <1>3
<1> HIDE DEF NumLeds
<1> QED
  BY <1>4 DEF GraphicSize

LEMMA ResizedListed ==
  ASSUME NEW s, NEW n \in Nat, NEW filler
  PROVE  Listed(Resized(s, n, filler))
<1> DEFINE r == Resized(s, n, filler)
<1>1. r = [i \in 1..n |-> r[i]]
  BY DEF Resized
<1> HIDE DEF r
<1>2. Listed(r)
  BY <1>1, ListedFunction
<1> QED
  BY <1>2 DEF r

\* A GIF as a sequence of something.
IsGif(gif) == \E V : gif \in Seq(V)

LEMMA GraphicsFacts ==
  ASSUME NEW gif, IsGif(gif), NEW panel
  PROVE  LET frames == PanelFrames(gif, panel)
         IN  /\ Listed(GraphicsBytes(frames))
             /\ Len(GraphicsBytes(frames)) = Slots * GraphicSize
             /\ \A f \in 1..Len(gif) : f <= Slots =>
                  \A b \in 1..GraphicSize :
                    GraphicsBytes(frames)[(f - 1) * GraphicSize + b] =
                      PackGraphic(frames[f], Palette(frames))[b]
<1> DEFINE G == GraphicSize
           frames == PanelFrames(gif, panel)
           n == Len(gif)
           pack(f) == PackGraphic(frames[f], Palette(frames))
           packed == [f \in DOMAIN frames |-> pack(f)]
           zeros == [b \in 1..G |-> 0]
           r == Resized(packed, Slots, zeros)
           W == {r[i][b] : i \in 1..Slots, b \in 1..G}
<1>1. G \in Nat /\ Slots \in Nat
  BY GraphicSizeNat, UploadAssumption
<1>2. n \in Nat /\ DOMAIN gif = 1..n
  BY DEF IsGif
<1>3. DOMAIN frames = 1..n
  BY <1>2 DEF PanelFrames
<1>4. GraphicsBytes(frames) = FlattenSeq(r)
  BY DEF GraphicsBytes
<1>5. \A f : pack(f) = [b \in 1..G |-> pack(f)[b]]
  BY DEF PackGraphic
<1> HIDE DEF pack, n, frames
<1>6. packed = [f \in 1..n |-> pack(f)] /\ Len(packed) = n
  BY <1>2, <1>3
<1> HIDE DEF packed
<1>7. r = [i \in 1..Slots |-> IF i <= n THEN packed[i] ELSE zeros]
  <2>1. Len(packed) = n
    BY <1>6
  <2> HIDE DEF zeros
  <2>2. r = [i \in 1..Slots |-> IF i <= Len(packed) THEN packed[i] ELSE zeros]
    BY DEF Resized
  <2> QED
    BY <2>1, <2>2
<1> HIDE DEF r
<1>8. ASSUME NEW i \in 1..Slots PROVE r[i] = [b \in 1..G |-> r[i][b]]
  <2>1. CASE i <= n
    <3>1. i \in 1..n
      BY <1>1, <1>2, <2>1
    <3>2. r[i] = pack(i)
      BY <1>6, <1>7, <2>1, <3>1
    <3> QED
      BY <1>5, <3>2
  <2>2. CASE ~(i <= n)
    <3>1. r[i] = zeros
      BY <1>7, <2>2
    <3> QED
      BY <3>1
  <2> QED
    BY <2>1, <2>2
<1>9. ASSUME NEW i \in 1..Slots PROVE r[i] \in Seq(W)
  <2>1. \A b \in 1..G : r[i][b] \in W
    OBVIOUS
  <2> HIDE DEF W
  <2>2. [b \in 1..G |-> r[i][b]] \in Seq(W)
    BY <1>1, <2>1
  <2> QED
    BY <1>8, <2>2
<1> HIDE DEF W
<1>10. r \in Seq(Seq(W))
  <2>1. r = [i \in 1..Slots |-> r[i]]
    BY <1>7
  <2>2. [i \in 1..Slots |-> r[i]] \in Seq(Seq(W))
    BY <1>1, <1>9
  <2> QED
    BY <2>1, <2>2
<1>11. FlattenSeq(r) \in Seq(W)
  BY <1>10, Flatten
<1>12. Len(r) = Slots
  <2>1. DOMAIN r = 1..Slots
    BY <1>7
  <2> QED
    BY <1>1, <1>10, <2>1
<1>13. \A i \in 1..Len(r) : Len(r[i]) = G
  <2> SUFFICES ASSUME NEW i \in 1..Slots PROVE Len(r[i]) = G
    BY <1>12
  <2>1. r[i] = [b \in 1..G |-> r[i][b]]
    BY <1>8
  <2>2. DOMAIN r[i] = 1..G
    BY <2>1
  <2>3. r[i] \in Seq(W)
    BY <1>9
  <2> HIDE DEF G
  <2> QED
    BY <1>1, <2>2, <2>3
<1>14. Len(FlattenSeq(r)) = Slots * G
  <2>1. Len(FlattenSeq(r)) = Len(r) * G
    BY <1>1, <1>10, <1>13, EqualParts
  <2> QED
    BY <1>12, <2>1
<1>15. ASSUME NEW f \in 1..n, f <= Slots, NEW b \in 1..G
       PROVE  FlattenSeq(r)[(f - 1) * G + b] = pack(f)[b]
  <2>1. f \in 1..Slots /\ f \in 1..Len(r)
    BY <1>1, <1>2, <1>12, <1>15
  <2>2. r[f] = pack(f)
    BY <1>6, <1>7, <1>15, <2>1
  <2>3. FlattenSeq(r)[(f - 1) * G + b] = r[f][b]
    BY <1>1, <1>10, <1>13, <2>1, EqualPlaces
  <2> QED
    BY <2>2, <2>3
<1> QED
  BY <1>4, <1>11, <1>14, <1>15 DEF Listed, frames, n, pack

LEMMA PaletteListed ==
  ASSUME NEW frames PROVE Listed(PaletteBytes(frames))
<1>1. MaxColors \in Nat
  BY UploadAssumption
<1> QED
  BY <1>1, ResizedListed DEF PaletteBytes

LEMMA TimingListed ==
  ASSUME NEW gif, NEW type PROVE Listed(TimingBytes(gif, type))
<1> DEFINE a == LoopFrame(gif)
           s == [f \in DOMAIN gif |-> FirstGraphic(type) + f - 1]
           t == [f \in DOMAIN gif |-> Delay(gif[f].ticks)]
           b == Resized(s, 2 * Slots, NoFrame)
           c == Resized(t, 2 * Slots, 0)
<1>1. TimingBytes(gif, type) = <<a>> \o b \o c
  BY DEF TimingBytes
<1>2. 2 * Slots \in Nat
  BY UploadAssumption
<1> HIDE DEF a, s, t
<1>3. Listed(b) /\ Listed(c)
  BY <1>2, ResizedListed
<1>4. Listed(<<a>>)
  <2>1. <<a>> \in Seq({a})
    OBVIOUS
  <2> QED
    BY <2>1 DEF Listed
<1> HIDE DEF b, c
<1>5. Listed(<<a>> \o b)
  BY <1>3, <1>4, ListedConcat
<1>6. Listed((<<a>> \o b) \o c)
  BY <1>3, <1>5, ListedConcat
<1> QED
  BY <1>1, <1>6

LEMMA PanelPacketsFacts ==
  ASSUME NEW gif, IsGif(gif), NEW type, NEW panel
  PROVE  /\ AllUploads(PanelPackets(gif, type, panel))
         /\ Len(PanelPackets(gif, type, panel)) \in Nat \ {0}
<1> DEFINE frames == PanelFrames(gif, panel)
           a == UploadPackets(GraphicsBytes(frames), FirstGraphic(type) * GraphicSize,
                              panel, type)
           b == UploadPackets(PaletteBytes(frames), PaletteOffset(type), panel, type)
<1>1. PanelPackets(gif, type, panel) = a \o b
  BY DEF PanelPackets
<1>2. Listed(GraphicsBytes(frames)) /\ Listed(PaletteBytes(frames))
  BY GraphicsFacts, PaletteListed
<1> HIDE DEF frames
<1>3. AllUploads(a) /\ Len(a) \in Nat \ {0} /\ AllUploads(b) /\ Len(b) \in Nat \ {0}
  BY <1>2, UploadPacketsFacts
<1> HIDE DEF a, b
<1>4. AllUploads(a \o b)
  BY <1>3, AllUploadsConcat
<1>5. PICK V : a \in Seq(V)
  BY <1>3 DEF AllUploads
<1>6. PICK W : b \in Seq(W)
  BY <1>3 DEF AllUploads
<1> DEFINE U == V \cup W
<1>7. a \in Seq(U) /\ b \in Seq(U)
  BY <1>5, <1>6, SeqUnion
<1> HIDE DEF U
<1>8. Len(a \o b) = Len(a) + Len(b)
  BY <1>7, Joined
<1>9. Len(a \o b) \in Nat \ {0}
  BY <1>3, <1>8
<1> QED
  BY <1>1, <1>4, <1>9

LEMMA UploadAt ==
  ASSUME NEW p, AllUploads(p), NEW i \in 1..Len(p)
  PROVE  IsUpload(p[i])
<1>1. PICK U : p \in Seq(U) /\ \A b \in U : IsUpload(b)
  BY DEF AllUploads
<1> QED
  BY <1>1

LEMMA MarkedUpload ==
  ASSUME NEW b, IsUpload(b) PROVE IsUpload([b EXCEPT ![4] = 1])
<1>1. PICK W : Nat \subseteq W /\ b \in Seq(W) /\ Len(b) >= 1 /\ b[1] = UploadCode
  BY DEF IsUpload
<1> DEFINE n == Len(b)
           c == [b EXCEPT ![4] = 1]
<1>2. n \in Nat /\ n >= 1 /\ b = [i \in 1..n |-> b[i]] /\ \A i \in 1..n : b[i] \in W
  BY <1>1
<1> HIDE DEF n
<1>3. c = [i \in 1..n |-> IF i = 4 THEN 1 ELSE b[i]]
  BY <1>2
<1> HIDE DEF c
<1>4. 1 \in W
  BY <1>1
<1>5. \A i \in 1..n : (IF i = 4 THEN 1 ELSE b[i]) \in W
  BY <1>2, <1>4
<1>6. [i \in 1..n |-> IF i = 4 THEN 1 ELSE b[i]] \in Seq(W)
      /\ Len([i \in 1..n |-> IF i = 4 THEN 1 ELSE b[i]]) = n
  BY <1>2, <1>5
<1>7. 1 \in 1..n /\ c[1] = b[1]
  BY <1>2, <1>3
<1>8. Nat \subseteq W /\ c \in Seq(W) /\ Len(c) >= 1 /\ c[1] = UploadCode
  BY <1>1, <1>2, <1>3, <1>6, <1>7
<1> QED
  BY <1>8 DEF IsUpload, c

LEMMA TimingPacketsFacts ==
  ASSUME NEW gif, NEW type
  PROVE  AllUploads(TimingPackets(gif, type))
<1> DEFINE p == UploadPackets(TimingBytes(gif, type), 0, Master, type)
           n == Len(p)
           t == TimingPackets(gif, type)
           last == [p[n] EXCEPT ![4] = 1]
<1>1. Listed(TimingBytes(gif, type))
  BY TimingListed
<1>2. AllUploads(p) /\ n \in Nat \ {0}
  BY <1>1, UploadPacketsFacts
<1>3. t = [p EXCEPT ![n] = last]
  BY DEF TimingPackets
<1> HIDE DEF p, t
<1>4. PICK U : p \in Seq(U) /\ \A b \in U : IsUpload(b)
  BY <1>2 DEF AllUploads
<1>5. n \in 1..n
  BY <1>2
<1>6. IsUpload(last)
  BY <1>2, <1>5, UploadAt, MarkedUpload
<1> HIDE DEF last
<1> DEFINE V == U \cup {last}
<1>7. \A b \in V : IsUpload(b)
  BY <1>4, <1>6
<1>8. p = [i \in 1..n |-> p[i]] /\ \A i \in 1..n : p[i] \in V
  BY <1>4
<1>9. last \in V
  OBVIOUS
<1> HIDE DEF V, n
<1>10. t = [i \in 1..n |-> IF i = n THEN last ELSE p[i]]
  BY <1>3, <1>8
<1>11. [i \in 1..n |-> IF i = n THEN last ELSE p[i]] \in Seq(V)
  BY <1>2, <1>8, <1>9
<1>12. t \in Seq(V)
  BY <1>10, <1>11
<1> QED
  BY <1>7, <1>12 DEF AllUploads, t

LEMMA Bounded ==
  ASSUME NEW n \in Nat, NEW f \in [1..n -> Nat]
  PROVE  \E m \in Nat : \A i \in 1..n : f[i] <= m
<1> DEFINE Bound(k, m) == \A i \in 1..n : i <= k => f[i] <= m
           Good == {k \in Nat : \E m \in Nat : Bound(k, m)}
<1>1. 0 \in Good
  <2>1. Bound(0, 0)
    OBVIOUS
  <2> QED
    BY <2>1
<1>2. ASSUME NEW k \in Good PROVE k + 1 \in Good
  <2>1. k \in Nat /\ k + 1 \in Nat
    OBVIOUS
  <2>2. PICK m \in Nat : Bound(k, m)
    OBVIOUS
  <2> DEFINE w == IF k + 1 \in 1..n /\ f[k + 1] > m THEN f[k + 1] ELSE m
  <2>3. w \in Nat /\ w >= m /\ (k + 1 \in 1..n => f[k + 1] <= w)
    BY <2>1
  <2> HIDE DEF w
  <2>4. ASSUME NEW i \in 1..n, i <= k + 1 PROVE f[i] <= w
    <3>1. CASE i = k + 1
      BY <2>3, <3>1
    <3>2. CASE i # k + 1
      <4>1. i <= k /\ f[i] \in Nat
        BY <2>1, <2>4, <3>2
      <4>2. f[i] <= m
        BY <2>2, <4>1
      <4> QED
        BY <2>3, <4>1, <4>2
    <3> QED
      BY <3>1, <3>2
  <2>5. Bound(k + 1, w)
    BY <2>4
  <2> QED
    BY <2>1, <2>3, <2>5
<1>3. Good = Nat
  <2> HIDE DEF Good
  <2>1. Good \subseteq Nat
    BY DEF Good
  <2> QED
    BY <1>1, <1>2, <2>1, SetInduction
<1>4. PICK m \in Nat : Bound(n, m)
  BY <1>3
<1> QED
  BY <1>4

\* What a sequence of packets becomes for the application.
LEMMA SentFacts ==
  ASSUME NEW U, \A b \in U : IsUpload(b), NEW p \in Seq(U)
  PROVE  LET E == {SendPacket(b) : b \in U}
         IN  /\ [i \in DOMAIN p |-> SendPacket(p[i])] \in Seq(E)
             /\ \A e \in E : e.op = "packet" => IsUpload(e.bytes)
<1> DEFINE E == {SendPacket(b) : b \in U}
           n == Len(p)
<1>1. n \in Nat /\ DOMAIN p = 1..n /\ \A i \in 1..n : SendPacket(p[i]) \in E
  OBVIOUS
<1>2. \A e \in E : e.op = "packet" => IsUpload(e.bytes)
  BY DEF SendPacket
<1> HIDE DEF E, n
<1>3. [i \in 1..n |-> SendPacket(p[i])] \in Seq(E)
  BY <1>1
<1> QED
  BY <1>1, <1>2, <1>3 DEF E

LEMMA PanelCommandsSendable ==
  ASSUME NEW gif, IsGif(gif), NEW type
  PROVE  Sendable(PanelCommands(gif, type))
<1> DEFINE m == PanelCount
           packets == [p \in 1..m |-> PanelPackets(gif, type, p - 1)]
           lengths == {Len(packets[p]) : p \in 1..m}
           rounds == Max(lengths)
           popped(r, p) == IF r <= Len(packets[p])
                           THEN <<packets[p][Len(packets[p]) + 1 - r]>> ELSE <<>>
           round(r) == FlattenSeq([p \in 1..m |-> popped(r, p)])
           pause(r) == Max({round(r)[i][7] : i \in DOMAIN round(r)})
           sent(r) == [i \in DOMAIN round(r) |-> SendPacket(round(r)[i])]
           part(r) == sent(r) \o <<Pause(pause(r))>>
           parts == [r \in 1..rounds |-> part(r)]
<1>1. PanelCommands(gif, type) = FlattenSeq(parts)
  BY DEF PanelCommands
<1>2. m \in Nat \ {0}
  BY UploadAssumption
<1>3. \A p \in 1..m : AllUploads(packets[p]) /\ Len(packets[p]) \in Nat \ {0}
  BY PanelPacketsFacts
<1> DEFINE U == UNION {{packets[p][j] : j \in 1..Len(packets[p])} : p \in 1..m}
<1> HIDE DEF packets, m
<1>4. \A b \in U : IsUpload(b)
  BY <1>3, UploadAt
<1>5. rounds \in Nat
  <2> DEFINE f == [p \in 1..m |-> Len(packets[p])]
  <2>1. f \in [1..m -> Nat] /\ m \in Nat
    BY <1>2, <1>3
  <2>2. \A p \in 1..m : f[p] = Len(packets[p])
    OBVIOUS
  <2> HIDE DEF f
  <2>3. PICK n \in Nat : \A p \in 1..m : f[p] <= n
    BY <2>1, Bounded
  <2>4. lengths \subseteq 1..n
    BY <1>3, <2>2, <2>3
  <2>5. lengths # {}
    <3>1. 1 \in 1..m
      BY <1>2
    <3> QED
      BY <3>1
  <2>6. n \in Nat /\ \A x \in lengths : x \in Nat
    BY <1>3, <2>3
  <2> HIDE DEF lengths
  <2>7. Max(lengths) \in lengths
    BY <2>4, <2>5, <2>6, MaxOf
  <2> HIDE DEF rounds
  <2>8. Max(lengths) \in Nat
    BY <2>6, <2>7
  <2> QED
    BY <2>8 DEF rounds
<1> HIDE DEF rounds
<1>6. ASSUME NEW r \in 1..rounds PROVE round(r) \in Seq(U)
  <2>1. ASSUME NEW p \in 1..m PROVE popped(r, p) \in Seq(U)
    <3> DEFINE n == Len(packets[p])
    <3>1. n \in Nat
      BY <1>3
    <3>2. CASE r <= n
      <4>1. n + 1 - r \in 1..n
        BY <1>5, <3>1, <3>2
      <4>2. packets[p][n + 1 - r] \in U
        BY <4>1
      <4>3. popped(r, p) = <<packets[p][n + 1 - r]>>
        BY <3>2
      <4> HIDE DEF U, n, popped
      <4> QED
        BY <4>2, <4>3
    <3>3. CASE ~(r <= n)
      <4>1. popped(r, p) = <<>>
        BY <3>3
      <4> HIDE DEF popped
      <4> QED
        BY <4>1
    <3> QED
      BY <3>2, <3>3
  <2> HIDE DEF popped, U
  <2>2. [p \in 1..m |-> popped(r, p)] \in Seq(Seq(U))
    BY <1>2, <2>1
  <2> QED
    BY <2>2, Flatten
<1> HIDE DEF U, round
<1> DEFINE E == {SendPacket(b) : b \in U}
           P == {Pause(pause(r)) : r \in 1..rounds}
           All == E \cup P
<1>7. ASSUME NEW r \in 1..rounds PROVE sent(r) \in Seq(E)
  BY <1>4, <1>6, SentFacts
<1>8. \A e \in E : e.op = "packet" => IsUpload(e.bytes)
  BY <1>4 DEF SendPacket
<1> HIDE DEF pause
<1>9. \A e \in P : e.op = "delay"
  BY DEF Pause
<1> HIDE DEF sent, E
<1>10. ASSUME NEW r \in 1..rounds PROVE part(r) \in Seq(All)
  <2>1. Pause(pause(r)) \in All
    OBVIOUS
  <2>2. sent(r) \in Seq(All)
    <3>1. sent(r) \in Seq(E)
      BY <1>7
    <3> QED
      BY <3>1, SeqUnion
  <2> HIDE DEF All
  <2>3. <<Pause(pause(r))>> \in Seq(All)
    BY <2>1
  <2> QED
    BY <2>2, <2>3, Joined
<1>11. \A e \in All : e.op = "packet" => IsUpload(e.bytes)
  BY <1>8, <1>9
<1> HIDE DEF All, part
<1>12. parts \in Seq(Seq(All))
  BY <1>5, <1>10
<1> HIDE DEF parts
<1>13. FlattenSeq(parts) \in Seq(All)
  BY <1>12, Flatten
<1> QED
  BY <1>1, <1>11, <1>13 DEF Sendable

\* Everything that prepare_upload hands out is a packet of an upload.
LEMMA UploadCommandsSendable ==
  ASSUME NEW gif, IsGif(gif), NEW type
  PROVE  Sendable(UploadCommands(gif, type))
<1> DEFINE panels == PanelCommands(gif, type)
           timing0 == TimingPackets(gif, type)
           sent == [i \in DOMAIN timing0 |-> SendPacket(timing0[i])]
<1>1. UploadCommands(gif, type) = panels \o panels \o sent
  BY DEF UploadCommands
<1>2. Sendable(panels)
  BY PanelCommandsSendable
<1>3. PICK U : timing0 \in Seq(U) /\ \A b \in U : IsUpload(b)
  BY TimingPacketsFacts DEF AllUploads
<1> HIDE DEF panels, timing0
<1>4. Sendable(sent)
  BY <1>3, SentFacts DEF Sendable
<1> HIDE DEF sent
<1>5. Sendable(panels \o panels)
  BY <1>2, SendableConcat
<1>6. Sendable((panels \o panels) \o sent)
  BY <1>4, <1>5, SendableConcat
<1> QED
  BY <1>1, <1>6


-----------------------------------------------------------------------------
(* What the packets of an upload carry *)

\* The least and the greatest of some numbers.
LEMMA LeastOf ==
  ASSUME NEW s, s \subseteq Nat, s # {}
  PROVE  Min(s) \in s /\ \A x \in s : Min(s) <= x
<1>1. PICK m \in s : \A y \in s : ~(y < m)
  BY LeastElement
<1>2. \A y \in s : m <= y
  BY <1>1
<1> QED
  BY <1>2 DEF Min

LEMMA GreatestOf ==
  ASSUME NEW n \in Nat, NEW s, s \subseteq 0..n, s # {}
  PROVE  Max(s) \in s /\ \A x \in s : x <= Max(s)
<1> DEFINE T == {n - x : x \in s}
<1>1. T \subseteq Nat /\ T # {}
  <2>1. \A x \in s : n - x \in Nat
    OBVIOUS
  <2> QED
    BY <2>1
<1>2. PICK t \in T : \A y \in T : ~(y < t)
  BY <1>1, LeastElement
<1>3. PICK m \in s : t = n - m
  OBVIOUS
<1>4. ASSUME NEW x \in s PROVE m >= x
  <2>1. n - x \in T /\ x \in Nat /\ m \in Nat
    OBVIOUS
  <2>2. ~(n - x < n - m)
    BY <1>2, <1>3, <2>1
  <2> QED
    BY <2>1, <2>2
<1> QED
  BY <1>3, <1>4 DEF Max

\* Where in the memory a packet's data goes.
Start(b) == b[5] + 256 * b[6]

\* A packet with a part of the data, which starts at the offset.
IsPiece(b, data, offset, panel, type) ==
  /\ b[2] = panel /\ b[3] = TypeIndex(type)
  /\ b[7] \in 0..MaxData /\ DOMAIN b = 1..(7 + b[7])
  /\ Start(b) \in Nat /\ Start(b) >= offset
  /\ Start(b) + b[7] <= offset + Len(data)
  /\ \A i \in 1..b[7] : b[7 + i] = data[Start(b) - offset + i]

\* The packets carry the data, all of it.
Carry(p, data, offset, panel, type) ==
  /\ \A i \in 1..Len(p) : IsPiece(p[i], data, offset, panel, type)
  /\ \A x \in 1..Len(data) : \E i \in 1..Len(p) :
       offset + x - 1 \in Start(p[i])..(Start(p[i]) + p[i][7] - 1)

LEMMA ChunkPlaces ==
  ASSUME NEW V, NEW data \in Seq(V), NEW size \in Nat \ {0}
  PROVE  LET chunks == Chunks(data, size)
         IN  /\ \A i \in 1..Len(chunks) :
                  /\ (i - 1) * size \in Nat
                  /\ Len(chunks[i]) \in 0..size
                  /\ (i - 1) * size + Len(chunks[i]) <= Len(data)
                  /\ \A x \in 1..Len(chunks[i]) :
                       chunks[i][x] = data[(i - 1) * size + x]
             /\ \A x \in 1..Len(data) : \E i \in 1..Len(chunks) :
                  x \in ((i - 1) * size + 1)..((i - 1) * size + Len(chunks[i]))
<1> DEFINE L == Len(data)
           count == Max({1, (L + size - 1) \div size})
           upto(k) == Min({k * size, L})
           chunk(k) == SubSeq(data, (k - 1) * size + 1, upto(k))
           chunks == [k \in 1..count |-> chunk(k)]
<1>1. L \in Nat
  OBVIOUS
<1>2. /\ count \in Nat /\ count >= 1 /\ L <= count * size
      /\ \A k \in Nat : k < count => k * size <= L
  BY <1>1, ChunkCount
<1>3. Chunks(data, size) = chunks
  BY DEF Chunks
<1> HIDE DEF count, L
<1>4. Len(chunks) = count /\ \A i \in 1..count : chunks[i] = chunk(i)
  <2> HIDE DEF chunk
  <2> QED
    BY <1>2
<1> HIDE DEF chunks
<1>5. ASSUME NEW i \in 1..count
      PROVE  /\ (i - 1) * size \in Nat /\ Len(chunk(i)) \in 0..size
             /\ (i - 1) * size + Len(chunk(i)) <= L
             /\ (i - 1) * size + Len(chunk(i)) = IF i * size <= L THEN i * size ELSE L
             /\ \A x \in 1..Len(chunk(i)) : chunk(i)[x] = data[(i - 1) * size + x]
  <2> DEFINE a == (i - 1) * size
             b == i * size
             u == upto(i)
  <2>1. i - 1 \in Nat /\ i - 1 < count /\ i \in Nat
    BY <1>2
  <2>2. a \in Nat /\ b \in Nat /\ b = a + size /\ a <= L
    <3>1. a \in Nat /\ b \in Nat /\ b = a + size
      BY <2>1
    <3>2. a <= L
      BY <1>2, <2>1
    <3> QED
      BY <3>1, <3>2
  <2> HIDE DEF a, b
  <2>3. u = IF b <= L THEN b ELSE L
    <3>1. {b, L} \subseteq Nat /\ {b, L} # {}
      BY <1>1, <2>2
    <3>2. Min({b, L}) \in {b, L} /\ \A x \in {b, L} : Min({b, L}) <= x
      BY <3>1, LeastOf
    <3>3. Min({b, L}) = IF b <= L THEN b ELSE L
      BY <1>1, <2>2, <3>2
    <3> QED
      BY <3>3 DEF b
  <2> HIDE DEF u
  <2>4. chunk(i) = SubSeq(data, a + 1, u)
    BY DEF a, u
  <2>5. u \in Nat /\ a <= u /\ u <= L /\ u - a <= size
    BY <1>1, <2>2, <2>3
  <2>6. /\ Len(SubSeq(data, a + 1, u)) = u - a
        /\ \A x \in 1..(u - a) : SubSeq(data, a + 1, u)[x] = data[a + x]
    <3>1. a + 1 \in 1..(L + 1) /\ u \in a..L
      BY <1>1, <2>2, <2>5
    <3> QED
      BY <2>2, <2>5, <3>1 DEF L
  <2>7. /\ Len(chunk(i)) = u - a /\ a + (u - a) = u
        /\ \A x \in 1..(u - a) : chunk(i)[x] = data[a + x]
    <3>1. a + (u - a) = u
      BY <2>2, <2>5
    <3> HIDE DEF chunk
    <3> QED
      BY <2>4, <2>6, <3>1
  <2> HIDE DEF chunk
  <2>8. /\ a \in Nat /\ Len(chunk(i)) \in 0..size /\ a + Len(chunk(i)) <= L
        /\ a + Len(chunk(i)) = IF b <= L THEN b ELSE L
        /\ \A x \in 1..Len(chunk(i)) : chunk(i)[x] = data[a + x]
    BY <1>1, <2>2, <2>3, <2>5, <2>7
  <2> QED
    BY <2>8 DEF a, b
<1> HIDE DEF chunk
<1>6. ASSUME NEW x \in 1..L
      PROVE  \E i \in 1..count :
               x \in ((i - 1) * size + 1)..((i - 1) * size + Len(chunk(i)))
  <2> DEFINE q == (x - 1) \div size
             r == (x - 1) % size
  <2>1. x - 1 \in Nat
    BY <1>1
  <2>2. q \in Nat /\ r \in 0..(size - 1) /\ x - 1 = size * q + r
    BY <2>1, Divided
  <2> HIDE DEF q, r
  <2>3. q < count
    <3>1. ASSUME ~(q < count) PROVE FALSE
      <4>1. q - count \in Nat
        BY <1>2, <2>2, <3>1
      <4>2. count * size <= size * q
        <5> DEFINE d == q - count
        <5>1. q = count + d /\ d \in Nat
          BY <1>2, <2>2, <4>1
        <5> HIDE DEF d
        <5>2. size * q = count * size + size * d /\ size * d \in Nat /\ count * size \in Nat
          BY <1>2, <5>1
        <5> QED
          BY <5>2
      <4>3. size * q <= x - 1 /\ x <= L /\ count * size \in Nat /\ size * q \in Nat
        BY <1>1, <1>2, <2>2
      <4> QED
        BY <1>1, <1>2, <4>2, <4>3
    <3> QED
      BY <3>1
  <2> DEFINE i == q + 1
  <2>4. i \in 1..count /\ i - 1 = q
    BY <1>2, <2>2, <2>3
  <2> HIDE DEF i
  <2>5. /\ (i - 1) * size = size * q /\ i * size = size * q + size
        /\ size * q \in Nat /\ i \in Nat
    <3>1. i = q + 1
      BY <2>2, <2>4
    <3> QED
      BY <2>2, <2>4, <3>1
  <2> DEFINE m == size * q
  <2>6. x - 1 = m + r /\ m \in Nat /\ (i - 1) * size = m /\ i * size = m + size
    BY <2>2, <2>5
  <2> HIDE DEF m
  <2>7. m + Len(chunk(i)) = IF m + size <= L THEN m + size ELSE L
    BY <1>5, <2>4, <2>6
  <2>8. x \in (m + 1)..(m + Len(chunk(i)))
    BY <1>1, <2>2, <2>6, <2>7
  <2> QED
    BY <2>4, <2>6, <2>8
<1>7. /\ \A i \in 1..Len(chunks) :
           /\ (i - 1) * size \in Nat
           /\ Len(chunks[i]) \in 0..size
           /\ (i - 1) * size + Len(chunks[i]) <= L
           /\ \A x \in 1..Len(chunks[i]) : chunks[i][x] = data[(i - 1) * size + x]
      /\ \A x \in 1..L : \E i \in 1..Len(chunks) :
           x \in ((i - 1) * size + 1)..((i - 1) * size + Len(chunks[i]))
  BY <1>4, <1>5, <1>6
<1> QED
  BY <1>3, <1>7 DEF L


LEMMA Headed ==
  ASSUME NEW V, NEW t \in Seq(V),
         NEW a, NEW b, NEW c, NEW d, NEW e, NEW f, NEW g
  PROVE  LET s == <<a, b, c, d, e, f, g>> \o t
         IN  /\ DOMAIN s = 1..(7 + Len(t))
             /\ s[2] = b /\ s[3] = c /\ s[5] = e /\ s[6] = f /\ s[7] = g
             /\ \A i \in 1..Len(t) : s[7 + i] = t[i]
<1> DEFINE W == V \cup {a, b, c, d, e, f, g}
           h == <<a, b, c, d, e, f, g>>
<1>1. h \in Seq(W) /\ Len(h) = 7 /\ t \in Seq(W)
  <2>1. a \in W /\ b \in W /\ c \in W /\ d \in W /\ e \in W /\ f \in W /\ g \in W
    OBVIOUS
  <2>2. t \in Seq(W)
    BY SeqUnion
  <2> HIDE DEF W
  <2> QED
    BY <2>1, <2>2
<1>2. h[2] = b /\ h[3] = c /\ h[5] = e /\ h[6] = f /\ h[7] = g
  OBVIOUS
<1> HIDE DEF h, W
<1>3. /\ h \o t \in Seq(W) /\ Len(t) \in Nat
      /\ Len(h \o t) = 7 + Len(t)
      /\ \A i \in 1..7 : (h \o t)[i] = h[i]
      /\ \A i \in 1..Len(t) : (h \o t)[7 + i] = t[i]
  <2>1. /\ h \o t \in Seq(W) /\ Len(t) \in Nat
        /\ Len(h \o t) = Len(h) + Len(t)
        /\ \A i \in 1..Len(h) : (h \o t)[i] = h[i]
        /\ \A i \in 1..Len(t) : (h \o t)[Len(h) + i] = t[i]
    <3> SUFFICES ASSUME h \in Seq(W), t \in Seq(W)
                 PROVE  /\ h \o t \in Seq(W) /\ Len(t) \in Nat
                        /\ Len(h \o t) = Len(h) + Len(t)
                        /\ \A i \in 1..Len(h) : (h \o t)[i] = h[i]
                        /\ \A i \in 1..Len(t) : (h \o t)[Len(h) + i] = t[i]
      BY <1>1
    <3> QED
      BY Joined
  <2> QED
    BY <1>1, <2>1
<1>4. DOMAIN (h \o t) = 1..(7 + Len(t))
  BY <1>3
<1> QED
  BY <1>2, <1>3, <1>4 DEF h

LEMMA UploadCarries ==
  ASSUME NEW W, NEW data \in Seq(W), NEW offset \in Nat, NEW panel, NEW type
  PROVE  Carry(UploadPackets(data, offset, panel, type), data, offset, panel, type)
<1> DEFINE pieces == Chunks(data, MaxData)
           n == Len(pieces)
           at(i) == offset + (i - 1) * MaxData
           packet(i) == <<UploadCode, panel, TypeIndex(type), 0, at(i) % 256,
                          at(i) \div 256, Len(pieces[i])>> \o pieces[i]
           p == [i \in 1..n |-> packet(i)]
<1>1. MaxData \in Nat \ {0}
  BY UploadAssumption
<1>2. pieces \in Seq(Seq(W))
  BY <1>1, ChunkFacts
<1>3. n \in Nat /\ DOMAIN pieces = 1..n /\ \A i \in 1..n : pieces[i] \in Seq(W)
  BY <1>2
<1>4. /\ \A i \in 1..n :
           /\ (i - 1) * MaxData \in Nat
           /\ Len(pieces[i]) \in 0..MaxData
           /\ (i - 1) * MaxData + Len(pieces[i]) <= Len(data)
           /\ \A x \in 1..Len(pieces[i]) : pieces[i][x] = data[(i - 1) * MaxData + x]
      /\ \A x \in 1..Len(data) : \E i \in 1..n :
           x \in ((i - 1) * MaxData + 1)..((i - 1) * MaxData + Len(pieces[i]))
  BY <1>1, ChunkPlaces
<1>5. UploadPackets(data, offset, panel, type) = p
  BY <1>3 DEF UploadPackets
<1> HIDE DEF pieces
<1>6. ASSUME NEW i \in 1..n
      PROVE  /\ packet(i)[2] = panel /\ packet(i)[3] = TypeIndex(type)
             /\ packet(i)[7] = Len(pieces[i])
             /\ DOMAIN packet(i) = 1..(7 + Len(pieces[i]))
             /\ Start(packet(i)) = at(i)
             /\ \A x \in 1..Len(pieces[i]) : packet(i)[7 + x] = pieces[i][x]
  <2> DEFINE a == at(i)
             l == a % 256
             h == a \div 256
  <2>1. a \in Nat
    <3>1. (i - 1) * MaxData \in Nat
      BY <1>4
    <3> QED
      BY <3>1
  <2> HIDE DEF a
  <2>2. l + 256 * h = a
    BY <2>1, Divided
  <2> HIDE DEF l, h
  <2>3. packet(i) = <<UploadCode, panel, TypeIndex(type), 0, l, h, Len(pieces[i])>>
                      \o pieces[i]
    BY DEF a, l, h
  <2> HIDE DEF packet
  <2>4. /\ packet(i)[2] = panel /\ packet(i)[3] = TypeIndex(type)
        /\ packet(i)[5] = l /\ packet(i)[6] = h
        /\ packet(i)[7] = Len(pieces[i])
        /\ DOMAIN packet(i) = 1..(7 + Len(pieces[i]))
        /\ \A x \in 1..Len(pieces[i]) : packet(i)[7 + x] = pieces[i][x]
    BY <1>3, <2>3, Headed
  <2>5. Start(packet(i)) = a
    BY <2>2, <2>4 DEF Start
  <2> QED
    BY <2>4, <2>5 DEF a
<1> HIDE DEF packet
<1>7. ASSUME NEW i \in 1..n PROVE IsPiece(packet(i), data, offset, panel, type)
  <2> DEFINE m == (i - 1) * MaxData
             k == Len(pieces[i])
  <2>1. /\ m \in Nat /\ k \in 0..MaxData /\ m + k <= Len(data) /\ Len(data) \in Nat
        /\ \A x \in 1..k : pieces[i][x] = data[m + x]
    <3>1. Len(data) \in Nat
      OBVIOUS
    <3> HIDE DEF n
    <3> QED
      BY <1>4, <3>1
  <2>2. /\ packet(i)[2] = panel /\ packet(i)[3] = TypeIndex(type)
        /\ packet(i)[7] = k /\ DOMAIN packet(i) = 1..(7 + k)
        /\ Start(packet(i)) = offset + m
        /\ \A x \in 1..k : packet(i)[7 + x] = pieces[i][x]
    BY <1>6
  <2> HIDE DEF m, k
  <2>3. (offset + m) - offset = m /\ offset + m \in Nat /\ offset + m >= offset
        /\ (offset + m) + k <= offset + Len(data)
    BY <2>1
  <2>4. \A x \in 1..k : packet(i)[7 + x] = data[m + x]
    BY <2>1, <2>2
  <2> QED
    BY <2>1, <2>2, <2>3, <2>4 DEF IsPiece
<1>8. ASSUME NEW x \in 1..Len(data)
      PROVE  \E i \in 1..n :
               offset + x - 1 \in Start(packet(i))..(Start(packet(i)) + packet(i)[7] - 1)
  <2>1. PICK i \in 1..n :
          x \in ((i - 1) * MaxData + 1)..((i - 1) * MaxData + Len(pieces[i]))
    BY <1>4
  <2> DEFINE m == (i - 1) * MaxData
             k == Len(pieces[i])
  <2>2. /\ m \in Nat /\ k \in Nat /\ x \in (m + 1)..(m + k)
        /\ packet(i)[7] = k /\ Start(packet(i)) = offset + m
    BY <1>4, <1>6, <2>1
  <2> HIDE DEF m, k
  <2>3. offset + x - 1 \in (offset + m)..((offset + m) + k - 1)
    BY <2>2
  <2> QED
    BY <2>1, <2>2, <2>3
<1>9. Len(p) = n /\ \A i \in 1..n : p[i] = packet(i)
  <2> HIDE DEF n
  <2> QED
    BY <1>3
<1> HIDE DEF p, n
<1> QED
  BY <1>5, <1>7, <1>8, <1>9 DEF Carry


\* The number of packets depends only on the length of the data.
Pieces(length) == Max({1, (length + MaxData - 1) \div MaxData})
Rounds == Pieces(Slots * GraphicSize) + Pieces(MaxColors)

LEMMA PieceCount ==
  ASSUME NEW W, NEW data \in Seq(W), NEW offset, NEW panel, NEW type
  PROVE  /\ Len(UploadPackets(data, offset, panel, type)) = Pieces(Len(data))
         /\ Pieces(Len(data)) \in Nat \ {0}
<1> DEFINE pieces == Chunks(data, MaxData)
           n == Pieces(Len(data))
           at(i) == offset + (i - 1) * MaxData
           packet(i) == <<UploadCode, panel, TypeIndex(type), 0, at(i) % 256,
                          at(i) \div 256, Len(pieces[i])>> \o pieces[i]
           p == [i \in 1..n |-> packet(i)]
<1>1. MaxData \in Nat \ {0} /\ Len(data) \in Nat
  BY UploadAssumption
<1>2. n \in Nat /\ n >= 1
  BY <1>1, ChunkCount DEF Pieces
<1>3. DOMAIN pieces = 1..n
  BY DEF Chunks, Pieces
<1>4. UploadPackets(data, offset, panel, type) = p
  BY <1>3 DEF UploadPackets
<1> HIDE DEF packet, n
<1>5. Len(p) = n
  BY <1>2
<1> QED
  BY <1>2, <1>4, <1>5 DEF n

\* The cells of the animation in a panel's memory, and what is to be in them.
GraphicsStart(type) == FirstGraphic(type) * GraphicSize
Graphics(type)      == GraphicsStart(type)..(GraphicsStart(type) + Slots * GraphicSize - 1)
Colors(type)        == PaletteOffset(type)..(PaletteOffset(type) + MaxColors - 1)

Drawing(gif, type, panel) ==
  LET frames == PanelFrames(gif, panel)
  IN  [x \in Graphics(type) \cup Colors(type) |->
        IF x \in Graphics(type)
        THEN GraphicsBytes(frames)[x - GraphicsStart(type) + 1]
        ELSE PaletteBytes(frames)[x - PaletteOffset(type) + 1]]

\* The same of the timing.
Schedule(gif, type) == [x \in 0..(4 * Slots) |-> TimingBytes(gif, type)[x + 1]]

\* The cells a packet goes to, and that it has for them what is to be in them.
Cells(b) == Start(b)..(Start(b) + b[7] - 1)

Right(b, panel, type, drawing) ==
  /\ b[2] = panel /\ b[3] = TypeIndex(type)
  /\ b[7] \in 0..MaxData /\ DOMAIN b = 1..(7 + b[7]) /\ Start(b) \in Nat
  /\ \A x \in Cells(b) :
       x \in DOMAIN drawing /\ b[8 + x - Start(b)] = drawing[x]

LEMMA RightPiece ==
  ASSUME NEW b, NEW data, NEW offset \in Nat, NEW panel, NEW type,
         IsPiece(b, data, offset, panel, type), Len(data) \in Nat,
         NEW drawing,
         \A i \in 1..Len(data) :
           offset + i - 1 \in DOMAIN drawing /\ drawing[offset + i - 1] = data[i]
  PROVE  Right(b, panel, type, drawing)
<1> DEFINE s == Start(b)
           n == b[7]
           L == Len(data)
<1>1. /\ b[2] = panel /\ b[3] = TypeIndex(type)
      /\ n \in 0..MaxData /\ DOMAIN b = 1..(7 + n)
      /\ s \in Nat /\ s >= offset /\ s + n <= offset + L
      /\ \A i \in 1..n : b[7 + i] = data[s - offset + i]
  BY DEF IsPiece
<1>2. L \in Nat /\ n \in Nat
  BY <1>1, UploadAssumption
<1>3. \A i \in 1..L :
        offset + i - 1 \in DOMAIN drawing /\ drawing[offset + i - 1] = data[i]
  OBVIOUS
<1>4. Cells(b) = s..(s + n - 1)
  BY DEF Cells
<1> HIDE DEF s, n, L
<1>5. ASSUME NEW x \in s..(s + n - 1)
      PROVE  x \in DOMAIN drawing /\ b[8 + x - s] = drawing[x]
  <2> DEFINE i == x - s + 1
             j == s - offset + i
  <2>1. /\ i \in 1..n /\ j \in 1..L /\ 7 + i = 8 + x - s /\ offset + j - 1 = x
    BY <1>1, <1>2
  <2>2. b[7 + i] = data[j]
    BY <1>1, <2>1
  <2> HIDE DEF i, j
  <2>3. x \in DOMAIN drawing /\ drawing[x] = data[j]
    BY <1>3, <2>1
  <2> QED
    BY <2>1, <2>2, <2>3
<1> QED
  BY <1>1, <1>4, <1>5 DEF Right, s, n

\* The sizes of the parts of the memory.
LEMMA Sizes ==
  /\ Slots * GraphicSize \in Nat /\ MaxColors \in Nat \ {0} /\ Slots \in Nat \ {0}
  /\ GraphicSize \in Nat
  /\ \A type : /\ TypeIndex(type) \in {0, 1}
               /\ GraphicsStart(type) \in Nat /\ PaletteOffset(type) \in Nat
               /\ GraphicsStart(type) = TypeIndex(type) * (Slots * GraphicSize)
               /\ PaletteOffset(type) =
                    2 * (Slots * GraphicSize) + TypeIndex(type) * MaxColors
<1> DEFINE N == Slots * GraphicSize
<1>1. Slots \in Nat \ {0} /\ MaxColors \in Nat \ {0} /\ GraphicSize \in Nat
  BY UploadAssumption, GraphicSizeNat
<1> USE DEF FirstGraphic
<1>2. N \in Nat /\ 2 * Slots * GraphicSize = 2 * N
  <2> DEFINE G == GraphicSize
  <2>1. G \in Nat /\ Slots \in Nat
    BY <1>1
  <2> HIDE DEF G
  <2>2. Slots * G \in Nat /\ 2 * Slots * G = 2 * (Slots * G)
    BY <2>1
  <2> QED
    BY <2>2 DEF G
<1>3. ASSUME NEW type
      PROVE  /\ TypeIndex(type) \in {0, 1}
             /\ GraphicsStart(type) \in Nat /\ PaletteOffset(type) \in Nat
             /\ GraphicsStart(type) = TypeIndex(type) * N
             /\ PaletteOffset(type) = 2 * N + TypeIndex(type) * MaxColors
  <2>1. TypeIndex(type) \in {0, 1}
    BY DEF TypeIndex
  <2> DEFINE t == TypeIndex(type)
  <2>2. GraphicsStart(type) = t * Slots * GraphicSize
    BY DEF GraphicsStart
  <2>3. PaletteOffset(type) = 2 * N + t * MaxColors
    BY <1>2 DEF PaletteOffset
  <2> HIDE DEF t
  <2>4. CASE t = 0
    <3>1. t * Slots = 0 /\ t * N = 0 /\ 0 * GraphicSize = 0 /\ t * MaxColors = 0
      <4> HIDE DEF N
      <4> QED
        BY <1>1, <1>2, <2>4
    <3> HIDE DEF N
    <3> QED
      BY <1>1, <1>2, <2>2, <2>3, <2>4, <3>1 DEF t
  <2>5. CASE t = 1
    <3>1. t * Slots = Slots /\ t * MaxColors = MaxColors
      BY <1>1, <2>5
    <3>2. GraphicsStart(type) = N
      BY <2>2, <3>1
    <3> HIDE DEF N
    <3>3. t * N = N
      BY <1>2, <2>5
    <3> QED
      BY <1>1, <1>2, <2>3, <2>5, <3>1, <3>2, <3>3 DEF t
  <2> QED
    BY <2>1, <2>4, <2>5 DEF t
<1> QED
  BY <1>1, <1>2, <1>3


LEMMA CellsApart ==
  /\ \A type :
       /\ Graphics(type) \cap Colors(type) = {}
       /\ Graphics(type) \cup Colors(type)
            \subseteq 0..(2 * (Slots * GraphicSize) + 2 * MaxColors - 1)
  /\ \A type, other : TypeIndex(type) # TypeIndex(other) =>
       (Graphics(type) \cup Colors(type)) \cap (Graphics(other) \cup Colors(other)) = {}
<1> DEFINE N == Slots * GraphicSize
           M == MaxColors
<1>1. N \in Nat /\ M \in Nat
  BY Sizes
<1> HIDE DEF N, M
<1>2. ASSUME NEW type
      PROVE  \/ /\ TypeIndex(type) = 0
                /\ Graphics(type) = 0..(N - 1) /\ Colors(type) = (2 * N)..(2 * N + M - 1)
             \/ /\ TypeIndex(type) = 1
                /\ Graphics(type) = N..(N + N - 1)
                /\ Colors(type) = (2 * N + M)..(2 * N + M + M - 1)
  <2>1. /\ TypeIndex(type) \in {0, 1}
        /\ GraphicsStart(type) = TypeIndex(type) * N
        /\ PaletteOffset(type) = 2 * N + TypeIndex(type) * M
    BY Sizes DEF N, M
  <2>2. /\ Graphics(type) = GraphicsStart(type)..(GraphicsStart(type) + N - 1)
        /\ Colors(type) = PaletteOffset(type)..(PaletteOffset(type) + M - 1)
    BY DEF Graphics, Colors, N, M
  <2>3. CASE TypeIndex(type) = 0
    <3>1. GraphicsStart(type) = 0 /\ PaletteOffset(type) = 2 * N
      BY <1>1, <2>1, <2>3
    <3>2. 0 + N - 1 = N - 1
      BY <1>1
    <3> QED
      BY <2>2, <2>3, <3>1, <3>2
  <2>4. CASE TypeIndex(type) = 1
    <3>1. GraphicsStart(type) = N /\ PaletteOffset(type) = 2 * N + M
      BY <1>1, <2>1, <2>4
    <3> QED
      BY <2>2, <2>4, <3>1
  <2> QED
    BY <2>1, <2>3, <2>4
<1>3. ASSUME NEW type
      PROVE  /\ Graphics(type) \cap Colors(type) = {}
             /\ Graphics(type) \cup Colors(type) \subseteq 0..(2 * N + 2 * M - 1)
  BY <1>1, <1>2
<1>4. ASSUME NEW type, NEW other, TypeIndex(type) # TypeIndex(other)
      PROVE  (Graphics(type) \cup Colors(type))
               \cap (Graphics(other) \cup Colors(other)) = {}
  <2>1. CASE TypeIndex(type) = 0
    BY <1>1, <1>2, <1>4, <2>1
  <2>2. CASE TypeIndex(type) # 0
    BY <1>1, <1>2, <1>4, <2>2
  <2> QED
    BY <2>1, <2>2
<1> QED
  BY <1>3, <1>4 DEF N, M

\* A panel's packets carry its part of the drawing, and cover it.
Complete(p, panel, type, drawing) ==
  /\ \A i \in 1..Len(p) : Right(p[i], panel, type, drawing)
  /\ \A x \in DOMAIN drawing : \E i \in 1..Len(p) : x \in Cells(p[i])

LEMMA PanelCarries ==
  ASSUME NEW gif, IsGif(gif), NEW type, NEW panel
  PROVE  /\ Len(PanelPackets(gif, type, panel)) = Rounds /\ Rounds \in Nat \ {0}
         /\ Complete(PanelPackets(gif, type, panel), panel, type,
                     Drawing(gif, type, panel))
<1> DEFINE frames == PanelFrames(gif, panel)
           graphics == GraphicsBytes(frames)
           palette == PaletteBytes(frames)
           g == GraphicsStart(type)
           c == PaletteOffset(type)
           a == UploadPackets(graphics, FirstGraphic(type) * GraphicSize, panel, type)
           b == UploadPackets(palette, c, panel, type)
           d == Drawing(gif, type, panel)
           N == Slots * GraphicSize
           M == MaxColors
           p == PanelPackets(gif, type, panel)
<1>1. p = a \o b
  BY DEF PanelPackets
<1>2. N \in Nat /\ M \in Nat /\ g \in Nat /\ c \in Nat
  BY Sizes
<1>3. PICK V : graphics \in Seq(V)
  BY GraphicsFacts DEF Listed
<1>4. PICK W : palette \in Seq(W)
  BY PaletteListed DEF Listed
<1>5. Len(graphics) = N
  BY GraphicsFacts
<1>6. Len(palette) = M
  <2>1. DOMAIN palette = 1..M
    BY DEF PaletteBytes, Resized
  <2> HIDE DEF palette, M
  <2> QED
    BY <1>2, <1>4, <2>1
<1>7. a = UploadPackets(graphics, g, panel, type)
  BY DEF GraphicsStart
<1>8. d = [x \in Graphics(type) \cup Colors(type) |->
             IF x \in Graphics(type) THEN graphics[x - g + 1] ELSE palette[x - c + 1]]
  BY DEF Drawing
<1>9. /\ Graphics(type) = g..(g + N - 1) /\ Colors(type) = c..(c + M - 1)
      /\ Graphics(type) \cap Colors(type) = {}
  BY CellsApart DEF Graphics, Colors
<1>10. AllUploads(a) /\ AllUploads(b)
  <2> HIDE DEF graphics, palette, c, g
  <2> QED
    BY <1>3, <1>4, UploadPacketsFacts DEF Listed
<1> HIDE DEF graphics, palette, g, c, d, N, M
<1>11. /\ Len(a) = Pieces(N) /\ Pieces(N) \in Nat \ {0}
       /\ Carry(a, graphics, g, panel, type)
  BY <1>2, <1>3, <1>5, <1>7, PieceCount, UploadCarries
<1>12. /\ Len(b) = Pieces(M) /\ Pieces(M) \in Nat \ {0}
       /\ Carry(b, palette, c, panel, type)
  BY <1>2, <1>4, <1>6, PieceCount, UploadCarries
<1> HIDE DEF a, b, p
<1>13. PICK U : a \in Seq(U)
  BY <1>10 DEF AllUploads
<1>14. PICK X : b \in Seq(X)
  BY <1>10 DEF AllUploads
<1> DEFINE Y == U \cup X
<1>15. a \in Seq(Y) /\ b \in Seq(Y)
  BY <1>13, <1>14, SeqUnion
<1> HIDE DEF Y
<1> DEFINE k == Len(a)
           l == Len(b)
<1>16. /\ Len(a \o b) = k + l /\ k \in Nat /\ l \in Nat
       /\ \A i \in 1..k : (a \o b)[i] = a[i]
       /\ \A i \in 1..l : (a \o b)[k + i] = b[i]
  BY <1>15
<1>17. Len(p) = Rounds /\ Rounds \in Nat \ {0}
  BY <1>1, <1>11, <1>12, <1>16 DEF Rounds, N, M
<1> HIDE DEF k, l
<1>18. \A i \in 1..N :
         g + i - 1 \in DOMAIN d /\ d[g + i - 1] = graphics[i]
  <2> SUFFICES ASSUME NEW i \in 1..N
               PROVE  g + i - 1 \in DOMAIN d /\ d[g + i - 1] = graphics[i]
    OBVIOUS
  <2>1. g + i - 1 \in g..(g + N - 1) /\ (g + i - 1) - g + 1 = i
    BY <1>2
  <2> QED
    BY <1>8, <1>9, <2>1
<1>19. \A i \in 1..M :
         c + i - 1 \in DOMAIN d /\ d[c + i - 1] = palette[i]
  <2> SUFFICES ASSUME NEW i \in 1..M
               PROVE  c + i - 1 \in DOMAIN d /\ d[c + i - 1] = palette[i]
    OBVIOUS
  <2>1. c + i - 1 \in c..(c + M - 1) /\ (c + i - 1) - c + 1 = i
    BY <1>2
  <2>2. c + i - 1 \in Colors(type) /\ c + i - 1 \notin Graphics(type)
    BY <1>9, <2>1
  <2> QED
    BY <1>8, <2>1, <2>2
<1>20. \A i \in 1..k : Right(a[i], panel, type, d)
  <2> SUFFICES ASSUME NEW i \in 1..k PROVE Right(a[i], panel, type, d)
    OBVIOUS
  <2>1. IsPiece(a[i], graphics, g, panel, type)
    BY <1>11 DEF Carry, k
  <2> QED
    BY <1>2, <1>5, <1>18, <2>1, RightPiece
<1>21. \A i \in 1..l : Right(b[i], panel, type, d)
  <2> SUFFICES ASSUME NEW i \in 1..l PROVE Right(b[i], panel, type, d)
    OBVIOUS
  <2>1. IsPiece(b[i], palette, c, panel, type)
    BY <1>12 DEF Carry, l
  <2> QED
    BY <1>2, <1>6, <1>19, <2>1, RightPiece
<1>22. ASSUME NEW i \in 1..Len(p) PROVE Right(p[i], panel, type, d)
  <2>1. CASE i <= k
    <3>1. i \in 1..k
      BY <1>1, <1>16, <2>1
    <3> QED
      BY <1>1, <1>16, <1>20, <3>1
  <2>2. CASE ~(i <= k)
    <3> DEFINE j == i - k
    <3>1. j \in 1..l /\ k + j = i
      BY <1>1, <1>16, <2>2
    <3> HIDE DEF j
    <3>2. p[i] = b[j]
      BY <1>1, <1>16, <3>1
    <3> QED
      BY <1>21, <3>1, <3>2
  <2> QED
    BY <2>1, <2>2
<1>23. ASSUME NEW x \in DOMAIN d PROVE \E i \in 1..Len(p) : x \in Cells(p[i])
  <2>1. CASE x \in Graphics(type)
    <3> DEFINE y == x - g + 1
    <3>1. y \in 1..N /\ g + y - 1 = x
      BY <1>2, <1>9, <2>1
    <3> HIDE DEF y
    <3>2. PICK i \in 1..k : x \in Cells(a[i])
      BY <1>5, <1>11, <3>1 DEF Carry, Cells, k
    <3>3. i \in 1..Len(p) /\ p[i] = a[i]
      BY <1>1, <1>16
    <3> QED
      BY <3>2, <3>3
  <2>2. CASE x \notin Graphics(type)
    <3> DEFINE y == x - c + 1
    <3>1. x \in Colors(type)
      BY <1>8, <2>2
    <3>2. y \in 1..M /\ c + y - 1 = x
      BY <1>2, <1>9, <3>1
    <3> HIDE DEF y
    <3>3. PICK i \in 1..l : x \in Cells(b[i])
      BY <1>6, <1>12, <3>2 DEF Carry, Cells, l
    <3>4. k + i \in 1..Len(p) /\ p[k + i] = b[i]
      BY <1>1, <1>16
    <3> QED
      BY <3>3, <3>4
  <2> QED
    BY <2>1, <2>2
<1> QED
  BY <1>17, <1>22, <1>23 DEF Complete, p, d


\* The commands for the panels, round by round: of each panel one packet, and a
\* pause that is as long as any of them needs.
InRounds(s, gif, type, ms) ==
  /\ Listed(s) /\ Len(s) = Rounds * (PanelCount + 1)
  /\ ms \in [1..Rounds -> Nat]
  /\ \A r \in 1..Rounds :
       /\ s[(r - 1) * (PanelCount + 1) + (PanelCount + 1)] = Pause(ms[r])
       /\ \A i \in 1..PanelCount :
            LET b == PanelPackets(gif, type, i - 1)[Rounds + 1 - r]
            IN  /\ s[(r - 1) * (PanelCount + 1) + i] = SendPacket(b)
                /\ b[7] <= ms[r]

LEMMA PanelCommandsInRounds ==
  ASSUME NEW gif, IsGif(gif), NEW type
  PROVE  \E ms : InRounds(PanelCommands(gif, type), gif, type, ms)
<1> DEFINE m == PanelCount
           R == Rounds
           packets == [p \in 1..m |-> PanelPackets(gif, type, p - 1)]
           lengths == {Len(packets[p]) : p \in 1..m}
           rounds == Max(lengths)
           popped(r, p) == IF r <= Len(packets[p])
                           THEN <<packets[p][Len(packets[p]) + 1 - r]>> ELSE <<>>
           round(r) == FlattenSeq([p \in 1..m |-> popped(r, p)])
           pause(r) == Max({round(r)[i][7] : i \in DOMAIN round(r)})
           sent(r) == [i \in DOMAIN round(r) |-> SendPacket(round(r)[i])]
           part(r) == sent(r) \o <<Pause(pause(r))>>
           parts == [r \in 1..rounds |-> part(r)]
           one(r, p) == packets[p][R + 1 - r]
<1>1. PanelCommands(gif, type) = FlattenSeq(parts)
  BY DEF PanelCommands
<1>2. m \in Nat \ {0} /\ R \in Nat \ {0}
  BY UploadAssumption, PanelCarries
<1>3. \A p \in 1..m :
        /\ packets[p] = PanelPackets(gif, type, p - 1)
        /\ Len(packets[p]) = R
        /\ \A j \in 1..R : packets[p][j][7] \in 0..MaxData
  <2> SUFFICES ASSUME NEW p \in 1..m
               PROVE  /\ packets[p] = PanelPackets(gif, type, p - 1)
                      /\ Len(packets[p]) = R
                      /\ \A j \in 1..R : packets[p][j][7] \in 0..MaxData
    OBVIOUS
  <2>1. packets[p] = PanelPackets(gif, type, p - 1)
    OBVIOUS
  <2> HIDE DEF packets
  <2>2. /\ Len(PanelPackets(gif, type, p - 1)) = R
        /\ Complete(PanelPackets(gif, type, p - 1), p - 1, type,
                    Drawing(gif, type, p - 1))
    BY PanelCarries
  <2>3. \A j \in 1..R : packets[p][j][7] \in 0..MaxData
    BY <2>1, <2>2 DEF Complete, Right
  <2> QED
    BY <2>1, <2>2, <2>3
<1> HIDE DEF packets, m, R
<1>4. rounds = R
  <2>1. lengths = {R}
    BY <1>2, <1>3
  <2> HIDE DEF lengths
  <2>2. lengths \subseteq 0..R /\ lengths # {}
    BY <1>2, <2>1
  <2>3. Max(lengths) \in lengths
    BY <1>2, <2>2, GreatestOf
  <2> QED
    BY <2>1, <2>3
<1> HIDE DEF rounds, lengths
<1>5. ASSUME NEW r \in 1..R
      PROVE  /\ DOMAIN round(r) = 1..m
             /\ \A i \in 1..m : round(r)[i] = one(r, i)
  <2> DEFINE V == {one(r, p) : p \in 1..m}
             seqs == [p \in 1..m |-> popped(r, p)]
  <2>1. \A p \in 1..m : popped(r, p) = <<one(r, p)>>
    BY <1>2, <1>3
  <2>2. \A p \in 1..m : one(r, p) \in V
    OBVIOUS
  <2> HIDE DEF popped, one, V
  <2>3. seqs \in Seq(Seq(V)) /\ Len(seqs) = m
    <3>1. ASSUME NEW p \in 1..m PROVE popped(r, p) \in Seq(V)
      <4>1. one(r, p) \in V /\ popped(r, p) = <<one(r, p)>>
        BY <2>1, <2>2
      <4> QED
        BY <4>1
    <3> QED
      BY <1>2, <3>1
  <2>4. \A p \in 1..m : seqs[p] = <<one(r, p)>>
    BY <2>1
  <2> HIDE DEF seqs
  <2>5. ASSUME NEW k \in 1..Len(seqs) PROVE Len(seqs[k]) = 1
    <3>1. seqs[k] = <<one(r, k)>>
      BY <2>3, <2>4
    <3> QED
      BY <3>1
  <2>6. FlattenSeq(seqs) \in Seq(V) /\ Len(FlattenSeq(seqs)) = Len(seqs) * 1
    BY <2>3, <2>5, EqualParts
  <2>7. \A k \in 1..Len(seqs) : \A i \in 1..1 :
          FlattenSeq(seqs)[(k - 1) * 1 + i] = seqs[k][i]
    <3> DEFINE L == 1
    <3>1. L \in Nat /\ \A k \in 1..Len(seqs) : Len(seqs[k]) = L
      BY <2>5
    <3> HIDE DEF L
    <3>2. \A k \in 1..Len(seqs) : \A i \in 1..L :
            FlattenSeq(seqs)[(k - 1) * L + i] = seqs[k][i]
      BY <2>3, <3>1, EqualPlaces
    <3> QED
      BY <3>2 DEF L
  <2>8. round(r) = FlattenSeq(seqs)
    BY DEF seqs
  <2> HIDE DEF round
  <2>9. round(r) \in Seq(V) /\ Len(round(r)) = m
    BY <1>2, <2>3, <2>6, <2>8
  <2>10. ASSUME NEW i \in 1..m PROVE round(r)[i] = one(r, i)
    <3>1. (i - 1) * 1 + 1 = i /\ i \in 1..Len(seqs)
      BY <1>2, <2>3
    <3>2. FlattenSeq(seqs)[(i - 1) * 1 + 1] = seqs[i][1]
      BY <2>7, <3>1
    <3> QED
      BY <2>4, <2>8, <3>1, <3>2
  <2> QED
    BY <2>9, <2>10
<1> HIDE DEF round, popped
<1>6. ASSUME NEW r \in 1..R, NEW i \in 1..m PROVE one(r, i)[7] \in 0..MaxData
  <2>1. R + 1 - r \in 1..R
    BY <1>2
  <2> QED
    BY <1>3, <2>1
<1> HIDE DEF one
<1>7. ASSUME NEW r \in 1..R
      PROVE  pause(r) \in Nat /\ \A i \in 1..m : one(r, i)[7] <= pause(r)
  <2> DEFINE S == {round(r)[i][7] : i \in DOMAIN round(r)}
  <2>1. \A i \in 1..m : one(r, i)[7] \in S
    BY <1>5
  <2>2. S \subseteq 0..MaxData
    <3>1. ASSUME NEW i \in DOMAIN round(r) PROVE round(r)[i][7] \in 0..MaxData
      <4>1. i \in 1..m /\ round(r)[i] = one(r, i)
        BY <1>5
      <4> QED
        BY <1>6, <4>1
    <3> QED
      BY <3>1
  <2>3. S # {}
    <3>1. 1 \in 1..m
      BY <1>2
    <3> QED
      BY <2>1, <3>1
  <2>4. pause(r) = Max(S)
    OBVIOUS
  <2> HIDE DEF S, pause
  <2>5. MaxData \in Nat
    BY UploadAssumption
  <2>6. Max(S) \in S /\ \A x \in S : x <= Max(S)
    BY <2>2, <2>3, <2>5, GreatestOf
  <2>7. Max(S) \in Nat
    <3>1. Max(S) \in S
      BY <2>6
    <3>2. Max(S) \in 0..MaxData
      BY <2>2, <3>1
    <3> QED
      BY <2>5, <3>2
  <2> QED
    BY <2>1, <2>4, <2>6, <2>7
<1> DEFINE E == {SendPacket(one(r, i)) : r \in 1..R, i \in 1..m}
                  \cup {Pause(pause(r)) : r \in 1..R}
           L == m + 1
<1>8. ASSUME NEW r \in 1..R
      PROVE  /\ part(r) \in Seq(E) /\ Len(part(r)) = L
             /\ part(r)[L] = Pause(pause(r))
             /\ \A i \in 1..m : part(r)[i] = SendPacket(one(r, i))
  <2> DEFINE z == Pause(pause(r))
             snd == [i \in 1..m |-> SendPacket(one(r, i))]
  <2>1. z \in E /\ \A i \in 1..m : SendPacket(one(r, i)) \in E
    <3> HIDE DEF pause
    <3> QED
      OBVIOUS
  <2>2. sent(r) = snd
    BY <1>5
  <2>3. part(r) = snd \o <<z>>
    BY <2>2
  <2> HIDE DEF E, z, part, sent
  <2>4. snd \in Seq(E) /\ Len(snd) = m /\ \A i \in 1..m : snd[i] = SendPacket(one(r, i))
    BY <1>2, <2>1
  <2> HIDE DEF snd
  <2>5. <<z>> \in Seq(E) /\ Len(<<z>>) = 1 /\ <<z>>[1] = z
    BY <2>1
  <2>6. /\ snd \o <<z>> \in Seq(E) /\ Len(snd \o <<z>>) = m + 1
        /\ \A i \in 1..m : (snd \o <<z>>)[i] = snd[i]
        /\ (snd \o <<z>>)[m + 1] = z
    BY <1>2, <2>4, <2>5
  <2> QED
    BY <2>3, <2>4, <2>6 DEF z
<1> HIDE DEF E, part
<1>9. parts \in Seq(Seq(E)) /\ Len(parts) = R /\ \A r \in 1..R : parts[r] = part(r)
  <2>1. parts = [r \in 1..R |-> part(r)]
    BY <1>4
  <2> HIDE DEF parts
  <2>2. \A r \in 1..R : part(r) \in Seq(E)
    BY <1>8
  <2>3. [r \in 1..R |-> part(r)] \in Seq(Seq(E))
    BY <1>2, <2>2
  <2>4. Len(parts) = R /\ \A r \in 1..R : parts[r] = part(r)
    BY <1>2, <2>1
  <2> QED
    BY <2>1, <2>3, <2>4
<1> HIDE DEF parts, pause
<1>10. /\ L \in Nat /\ \A k \in 1..Len(parts) : Len(parts[k]) = L
  BY <1>2, <1>8, <1>9
<1> DEFINE s == FlattenSeq(parts)
           ms == [r \in 1..R |-> pause(r)]
<1>11. s \in Seq(E) /\ Len(s) = R * L
  <2> HIDE DEF L
  <2>1. s \in Seq(E) /\ Len(s) = Len(parts) * L
    BY <1>9, <1>10, EqualParts
  <2> QED
    BY <1>9, <2>1
<1>12. \A k \in 1..R : \A i \in 1..L : s[(k - 1) * L + i] = part(k)[i]
  <2> HIDE DEF L
  <2>1. \A k \in 1..Len(parts) : \A i \in 1..L : s[(k - 1) * L + i] = parts[k][i]
    BY <1>9, <1>10, EqualPlaces
  <2> QED
    BY <1>9, <2>1
<1> HIDE DEF s
<1>13. ms \in [1..R -> Nat] /\ \A r \in 1..R : ms[r] = pause(r)
  BY <1>7
<1> HIDE DEF ms
<1>14. ASSUME NEW r \in 1..R
       PROVE  /\ s[(r - 1) * L + L] = Pause(ms[r])
              /\ \A i \in 1..m : /\ s[(r - 1) * L + i] = SendPacket(one(r, i))
                                 /\ one(r, i)[7] <= ms[r]
  <2>1. L \in 1..L /\ \A i \in 1..m : i \in 1..L
    BY <1>2
  <2> HIDE DEF L
  <2> QED
    BY <1>7, <1>8, <1>12, <1>13, <2>1
<1>15. \A r \in 1..R : \A i \in 1..m :
         one(r, i) = PanelPackets(gif, type, i - 1)[R + 1 - r]
  BY <1>3 DEF one
<1>16. Listed(s)
  BY <1>11 DEF Listed
<1>17. InRounds(s, gif, type, ms)
  BY <1>11, <1>13, <1>14, <1>15, <1>16 DEF InRounds, m, R
<1> QED
  BY <1>1, <1>17 DEF s


-----------------------------------------------------------------------------
(* The commands of an upload *)

IsPause(c)       == c.op = "delay"
Sends(c, panel)  == c.op = "packet" /\ c.bytes[2] = panel
Brings(c, panel, x) == Sends(c, panel) /\ x \in Cells(c.bytes)

APanel == 0..(PanelCount - 1)

\* After a packet for a panel there is a pause, and until then nothing for that
\* panel; the pause is long enough.
Paced(s) ==
  \A j \in 1..Len(s) : \A p \in APanel : Sends(s[j], p) =>
    /\ \E d \in (j + 1)..Len(s) : IsPause(s[d])
    /\ \A d \in (j + 1)..Len(s) :
         (\A e \in (j + 1)..(d - 1) : ~IsPause(s[e])) =>
           /\ ~Sends(s[d], p)
           /\ IsPause(s[d]) => s[d].ms >= s[j].bytes[7]

LEMMA SentIsSent ==
  /\ \A b, panel : Sends(SendPacket(b), panel) <=> b[2] = panel
  /\ \A b : ~IsPause(SendPacket(b)) /\ SendPacket(b).bytes = b
                /\ SendPacket(b).op = "packet"
  /\ \A ms, panel : ~Sends(Pause(ms), panel) /\ Pause(ms).ms = ms
                      /\ IsPause(Pause(ms))
  BY DEF Sends, IsPause, SendPacket, Pause

\* The parts of a sequence of parts of the same length.
LEMMA PartOf ==
  ASSUME NEW R \in Nat, NEW n \in Nat \ {0}, NEW j \in 1..(R * n)
  PROVE  \E r \in 1..R : \E i \in 1..n : j = (r - 1) * n + i
<1> DEFINE q == (j - 1) \div n
           e == (j - 1) % n
<1>1. R * n \in Nat
  OBVIOUS
<1>2. j - 1 \in Nat /\ j <= R * n
  BY <1>1
<1>3. q \in Nat /\ e \in 0..(n - 1) /\ j - 1 = n * q + e
  BY <1>2, Divided
<1> HIDE DEF q, e
<1>4. q < R
  <2>1. ASSUME ~(q < R) PROVE FALSE
    <3> DEFINE d == q - R
    <3>1. q = R + d /\ d \in Nat
      BY <1>3, <2>1
    <3> HIDE DEF d
    <3>2. n * q = R * n + n * d /\ n * d \in Nat /\ n * q \in Nat
      BY <3>1
    <3> QED
      BY <1>1, <1>2, <1>3, <3>2
  <2> QED
    BY <2>1
<1> DEFINE r == q + 1
           i == e + 1
<1>5. r \in 1..R /\ i \in 1..n /\ r - 1 = q
  BY <1>3, <1>4
<1>6. (r - 1) * n = n * q
  BY <1>3, <1>5
<1> DEFINE m == n * q
<1>7. m \in Nat /\ j - 1 = m + e /\ (r - 1) * n = m
  BY <1>3, <1>6
<1> HIDE DEF m
<1>8. j = (r - 1) * n + i
  BY <1>3, <1>7
<1> QED
  BY <1>5, <1>8

\* Where a part begins and ends.
LEMMA PartBounds ==
  ASSUME NEW R \in Nat, NEW n \in Nat, NEW r \in 1..R
  PROVE  (r - 1) * n \in Nat /\ (r - 1) * n + n <= R * n /\ R * n \in Nat
<1>1. r - 1 \in Nat /\ R - r \in Nat
  OBVIOUS
<1> DEFINE a == r - 1
           b == R - r
<1>2. R = a + 1 + b /\ a \in Nat /\ b \in Nat
  BY <1>1
<1> HIDE DEF a, b
<1>3. R * n = a * n + n + b * n /\ a * n \in Nat /\ b * n \in Nat
  BY <1>2
<1>4. a * n + n <= R * n /\ R * n \in Nat
  BY <1>3
<1> QED
  BY <1>3, <1>4 DEF a

\* A packet for a panel, of one round.
LEMMA RoundPacket ==
  ASSUME NEW gif, IsGif(gif), NEW type, NEW r \in 1..Rounds, NEW i \in 1..PanelCount
  PROVE  LET b == PanelPackets(gif, type, i - 1)[Rounds + 1 - r]
         IN  Right(b, i - 1, type, Drawing(gif, type, i - 1)) /\ b[2] = i - 1
<1>1. /\ Len(PanelPackets(gif, type, i - 1)) = Rounds /\ Rounds \in Nat \ {0}
      /\ Complete(PanelPackets(gif, type, i - 1), i - 1, type,
                  Drawing(gif, type, i - 1))
  BY PanelCarries
<1>2. Rounds + 1 - r \in 1..Rounds
  BY <1>1
<1> QED
  BY <1>1, <1>2 DEF Complete, Right

LEMMA PacedRounds ==
  ASSUME NEW gif, IsGif(gif), NEW type, NEW s, NEW ms, InRounds(s, gif, type, ms)
  PROVE  Paced(s)
<1> DEFINE P == PanelCount
           n == P + 1
           R == Rounds
           b(r, i) == PanelPackets(gif, type, i - 1)[R + 1 - r]
<1>1. P \in Nat \ {0} /\ R \in Nat \ {0}
  BY UploadAssumption, PanelCarries
<1>2. /\ Len(s) = R * n
      /\ \A r \in 1..R :
           /\ s[(r - 1) * n + n] = Pause(ms[r])
           /\ \A i \in 1..P : /\ s[(r - 1) * n + i] = SendPacket(b(r, i))
                              /\ b(r, i)[7] <= ms[r] /\ b(r, i)[7] \in Nat
                              /\ b(r, i)[2] = i - 1
      /\ ms \in [1..R -> Nat]
  <2>1. MaxData \in Nat
    BY UploadAssumption
  <2>2. \A r \in 1..R : \A i \in 1..P : b(r, i)[7] \in Nat /\ b(r, i)[2] = i - 1
    <3> SUFFICES ASSUME NEW r \in 1..R, NEW i \in 1..P
                 PROVE  b(r, i)[7] \in Nat /\ b(r, i)[2] = i - 1
      OBVIOUS
    <3>1. Right(b(r, i), i - 1, type, Drawing(gif, type, i - 1)) /\ b(r, i)[2] = i - 1
      BY RoundPacket
    <3>2. b(r, i)[7] \in 0..MaxData
      BY <3>1 DEF Right
    <3> QED
      BY <2>1, <3>1, <3>2
  <2> QED
    BY <2>2 DEF InRounds
<1> HIDE DEF b, R
<1> SUFFICES ASSUME NEW j \in 1..Len(s), NEW p \in APanel, Sends(s[j], p)
             PROVE  /\ \E d \in (j + 1)..Len(s) : IsPause(s[d])
                    /\ \A d \in (j + 1)..Len(s) :
                         (\A e \in (j + 1)..(d - 1) : ~IsPause(s[e])) =>
                           /\ ~Sends(s[d], p)
                           /\ IsPause(s[d]) => s[d].ms >= s[j].bytes[7]
  BY DEF Paced
<1> HIDE DEF P
<1>3. n \in Nat \ {0}
  BY <1>1
<1>4. PICK r \in 1..R : \E i \in 1..n : j = (r - 1) * n + i
  <2> HIDE DEF n
  <2>1. j \in 1..(R * n) /\ R \in Nat
    BY <1>1, <1>2
  <2> QED
    BY <1>3, <2>1, PartOf
<1>5. PICK i \in 1..n : j = (r - 1) * n + i
  BY <1>4
<1> DEFINE m == (r - 1) * n
           z == m + n
<1>6. m \in Nat /\ z <= Len(s) /\ Len(s) \in Nat
  BY <1>1, <1>2, <1>3, PartBounds
<1>7. /\ s[z] = Pause(ms[r]) /\ j = m + i
      /\ \A k \in 1..P : /\ s[m + k] = SendPacket(b(r, k))
                         /\ b(r, k)[7] <= ms[r] /\ b(r, k)[7] \in Nat
                         /\ b(r, k)[2] = k - 1
      /\ ms[r] \in Nat
  BY <1>2, <1>5
<1> HIDE DEF m
<1>8. i \in 1..P
  <2>1. CASE i = n
    <3>1. s[j] = Pause(ms[r])
      BY <1>7, <2>1
    <3> QED
      BY <3>1, SentIsSent
  <2>2. CASE i # n
    BY <1>1, <2>2
  <2> QED
    BY <2>1, <2>2
<1>9. s[j] = SendPacket(b(r, i)) /\ s[j].bytes = b(r, i) /\ p = i - 1
  <2>1. s[j] = SendPacket(b(r, i)) /\ b(r, i)[2] = i - 1
    BY <1>7, <1>8
  <2> QED
    BY <2>1, SentIsSent
<1>10. z \in (j + 1)..Len(s) /\ IsPause(s[z])
  <2>1. z \in (j + 1)..Len(s)
    BY <1>1, <1>6, <1>7, <1>8
  <2> QED
    BY <1>7, <2>1, SentIsSent
<1>11. ASSUME NEW d \in (j + 1)..Len(s),
              \A e \in (j + 1)..(d - 1) : ~IsPause(s[e])
       PROVE  /\ ~Sends(s[d], p)
              /\ IsPause(s[d]) => s[d].ms >= s[j].bytes[7]
  <2>1. d <= z
    <3>1. ASSUME ~(d <= z) PROVE FALSE
      <4>1. z \in (j + 1)..(d - 1)
        BY <1>6, <1>10, <3>1
      <4> QED
        BY <1>10, <1>11, <4>1
    <3> QED
      BY <3>1
  <2>2. CASE d = z
    BY <1>7, <1>8, <1>9, <2>2, SentIsSent
  <2>3. CASE d # z
    <3> DEFINE k == d - m
    <3>1. k \in 1..P /\ k # i /\ m + k = d
      BY <1>1, <1>6, <1>7, <1>8, <2>1, <2>3
    <3> HIDE DEF k
    <3>2. s[d] = SendPacket(b(r, k)) /\ b(r, k)[2] = k - 1
      BY <1>7, <3>1
    <3>3. k - 1 # p
      BY <1>1, <1>8, <1>9, <3>1
    <3> QED
      BY <3>2, <3>3, SentIsSent
  <2> QED
    BY <2>2, <2>3
<1> QED
  BY <1>10, <1>11


LEMMA ListedPlaces ==
  ASSUME NEW s, NEW t, Listed(s), Listed(t)
  PROVE  /\ Len(s) \in Nat /\ Len(t) \in Nat /\ Len(s \o t) = Len(s) + Len(t)
         /\ \A i \in 1..Len(s) : (s \o t)[i] = s[i]
         /\ \A i \in 1..Len(t) : (s \o t)[Len(s) + i] = t[i]
<1>1. PICK V : s \in Seq(V)
  BY DEF Listed
<1>2. PICK W : t \in Seq(W)
  BY DEF Listed
<1>3. s \in Seq(V \cup W) /\ t \in Seq(V \cup W)
  BY <1>1, <1>2, SeqUnion
<1> DEFINE U == V \cup W
<1> HIDE DEF U
<1>4. s \in Seq(U) /\ t \in Seq(U)
  BY <1>3 DEF U
<1> QED
  BY <1>4

\* A place of the whole is one of the first sequence or one of the second.
LEMMA FirstOrSecond ==
  ASSUME NEW m \in Nat, NEW n \in Nat, NEW j \in 1..(m + n)
  PROVE  j \in 1..m \/ \E i \in 1..n : j = m + i
<1>1. CASE j <= m
  BY <1>1
<1>2. CASE j > m
  <2>1. j - m \in 1..n /\ j = m + (j - m)
    BY <1>2
  <2> QED
    BY <2>1
<1> QED
  BY <1>1, <1>2

LEMMA PacedConcat ==
  ASSUME NEW s, NEW t, Listed(s), Listed(t), Paced(s), Paced(t)
  PROVE  Paced(s \o t)
<1> DEFINE u == s \o t
           m == Len(s)
           n == Len(t)
<1>1. /\ m \in Nat /\ n \in Nat /\ Len(u) = m + n
      /\ \A i \in 1..m : u[i] = s[i]
      /\ \A i \in 1..n : u[m + i] = t[i]
  BY ListedPlaces
<1> HIDE DEF u, m, n
<1>2. /\ \A j \in 1..m : \A p \in APanel : Sends(s[j], p) =>
           /\ \E d \in (j + 1)..m : IsPause(s[d])
           /\ \A d \in (j + 1)..m :
                (\A e \in (j + 1)..(d - 1) : ~IsPause(s[e])) =>
                  /\ ~Sends(s[d], p)
                  /\ IsPause(s[d]) => s[d].ms >= s[j].bytes[7]
      /\ \A j \in 1..n : \A p \in APanel : Sends(t[j], p) =>
           /\ \E d \in (j + 1)..n : IsPause(t[d])
           /\ \A d \in (j + 1)..n :
                (\A e \in (j + 1)..(d - 1) : ~IsPause(t[e])) =>
                  /\ ~Sends(t[d], p)
                  /\ IsPause(t[d]) => t[d].ms >= t[j].bytes[7]
  BY DEF Paced, m, n
<1> SUFFICES ASSUME NEW j \in 1..(m + n), NEW p \in APanel, Sends(u[j], p)
             PROVE  /\ \E d \in (j + 1)..(m + n) : IsPause(u[d])
                    /\ \A d \in (j + 1)..(m + n) :
                         (\A e \in (j + 1)..(d - 1) : ~IsPause(u[e])) =>
                           /\ ~Sends(u[d], p)
                           /\ IsPause(u[d]) => u[d].ms >= u[j].bytes[7]
  BY <1>1 DEF Paced, u
<1>3. CASE j \in 1..m
  <2>1. u[j] = s[j] /\ Sends(s[j], p)
    BY <1>1, <1>3
  <2>2. PICK z \in (j + 1)..m : IsPause(s[z])
    BY <1>2, <1>3, <2>1
  <2>3. z \in 1..m /\ IsPause(u[z]) /\ z \in (j + 1)..(m + n)
    BY <1>1, <1>3, <2>2
  <2>4. ASSUME NEW d \in (j + 1)..(m + n),
               \A e \in (j + 1)..(d - 1) : ~IsPause(u[e])
        PROVE  /\ ~Sends(u[d], p)
               /\ IsPause(u[d]) => u[d].ms >= u[j].bytes[7]
    <3>1. d <= z
      <4>1. ASSUME ~(d <= z) PROVE FALSE
        <5>1. z \in (j + 1)..(d - 1)
          BY <1>1, <1>3, <2>3, <4>1
        <5> QED
          BY <2>3, <2>4, <5>1
      <4> QED
        BY <4>1
    <3>2. d \in (j + 1)..m /\ d \in 1..m
      BY <1>1, <1>3, <2>3, <3>1
    <3>3. \A e \in (j + 1)..(d - 1) : u[e] = s[e]
      BY <1>1, <1>3, <3>2
    <3>4. \A e \in (j + 1)..(d - 1) : ~IsPause(s[e])
      BY <2>4, <3>3
    <3>5. ~Sends(s[d], p) /\ (IsPause(s[d]) => s[d].ms >= s[j].bytes[7])
      BY <1>2, <1>3, <2>1, <3>2, <3>4
    <3> QED
      BY <1>1, <2>1, <3>2, <3>5
  <2> QED
    BY <2>3, <2>4
<1>4. ASSUME NEW i \in 1..n, j = m + i
      PROVE  /\ \E d \in (j + 1)..(m + n) : IsPause(u[d])
             /\ \A d \in (j + 1)..(m + n) :
                  (\A e \in (j + 1)..(d - 1) : ~IsPause(u[e])) =>
                    /\ ~Sends(u[d], p)
                    /\ IsPause(u[d]) => u[d].ms >= u[j].bytes[7]
  <2>1. u[j] = t[i] /\ Sends(t[i], p)
    BY <1>1, <1>4
  <2>2. PICK z \in (i + 1)..n : IsPause(t[z])
    BY <1>2, <2>1
  <2>3. z \in 1..n /\ m + z \in (j + 1)..(m + n)
    BY <1>1, <1>4, <2>2
  <2>4. IsPause(u[m + z])
    BY <1>1, <2>2, <2>3
  <2>5. ASSUME NEW d \in (j + 1)..(m + n),
               \A e \in (j + 1)..(d - 1) : ~IsPause(u[e])
        PROVE  /\ ~Sends(u[d], p)
               /\ IsPause(u[d]) => u[d].ms >= u[j].bytes[7]
    <3> DEFINE c == d - m
    <3>1. c \in (i + 1)..n /\ c \in 1..n /\ d = m + c
      BY <1>1, <1>4
    <3> HIDE DEF c
    <3>2. ASSUME NEW e \in (i + 1)..(c - 1) PROVE ~IsPause(t[e])
      <4>1. m + e \in (j + 1)..(d - 1) /\ e \in 1..n
        BY <1>1, <1>4, <3>1
      <4>2. u[m + e] = t[e]
        BY <1>1, <4>1
      <4> QED
        BY <2>5, <4>1, <4>2
    <3>3. ~Sends(t[c], p) /\ (IsPause(t[c]) => t[c].ms >= t[i].bytes[7])
      BY <1>2, <2>1, <3>1, <3>2
    <3>4. u[d] = t[c]
      BY <1>1, <3>1
    <3> QED
      BY <2>1, <3>3, <3>4
  <2> QED
    BY <2>3, <2>4, <2>5
<1> QED
  BY <1>1, <1>3, <1>4, FirstOrSecond


\* What the timing says, cell by cell.
LEMMA TimingFacts ==
  ASSUME NEW gif, IsGif(gif), NEW type
  PROVE  LET bytes == TimingBytes(gif, type)
         IN  /\ Listed(bytes) /\ Len(bytes) = 1 + 4 * Slots
             /\ bytes[1] = LoopFrame(gif)
             /\ \A i \in 1..(2 * Slots) :
                  /\ bytes[1 + i] = IF i <= Len(gif) THEN FirstGraphic(type) + i - 1
                                    ELSE NoFrame
                  /\ bytes[1 + 2 * Slots + i] = IF i <= Len(gif) THEN Delay(gif[i].ticks)
                                                ELSE 0
<1> DEFINE a == LoopFrame(gif)
           N == 2 * Slots
           n == Len(gif)
           s == [f \in DOMAIN gif |-> FirstGraphic(type) + f - 1]
           t == [f \in DOMAIN gif |-> Delay(gif[f].ticks)]
           b == Resized(s, N, NoFrame)
           c == Resized(t, N, 0)
<1>1. TimingBytes(gif, type) = <<a>> \o b \o c
  BY DEF TimingBytes
<1>2. N \in Nat /\ Slots \in Nat
  BY UploadAssumption
<1>3. n \in Nat /\ DOMAIN gif = 1..n
  BY DEF IsGif
<1>4. /\ s = [f \in 1..n |-> FirstGraphic(type) + f - 1]
      /\ t = [f \in 1..n |-> Delay(gif[f].ticks)]
  BY <1>3
<1> HIDE DEF s, t, n
<1>5. /\ Len(s) = n /\ \A i \in 1..n : s[i] = FirstGraphic(type) + i - 1
      /\ Len(t) = n /\ \A i \in 1..n : t[i] = Delay(gif[i].ticks)
  BY <1>3, <1>4
<1>6. /\ b = [i \in 1..N |-> IF i <= n THEN s[i] ELSE NoFrame]
      /\ c = [i \in 1..N |-> IF i <= n THEN t[i] ELSE 0]
  BY <1>5 DEF Resized
<1>7. Listed(b) /\ Listed(c)
  BY <1>2, ResizedListed
<1> HIDE DEF b, c, a
<1>8. Len(b) = N /\ Len(c) = N
  BY <1>2, <1>6
<1>9. Listed(<<a>>)
  <2>1. <<a>> \in Seq({a})
    OBVIOUS
  <2> QED
    BY <2>1 DEF Listed
<1> DEFINE h == <<a>>
<1>10. Len(h) = 1 /\ h[1] = a /\ Listed(h)
  BY <1>9
<1> HIDE DEF h
<1> DEFINE u == h \o b
           w == u \o c
<1>11. /\ Listed(u) /\ Len(u) = 1 + N
       /\ u[1] = a /\ \A i \in 1..N : u[1 + i] = b[i]
  <2>1. /\ Len(u) = Len(h) + Len(b) /\ \A i \in 1..Len(h) : u[i] = h[i]
        /\ \A i \in 1..Len(b) : u[Len(h) + i] = b[i]
    BY <1>7, <1>10, ListedPlaces
  <2>2. Listed(u)
    BY <1>7, <1>10, ListedConcat
  <2> HIDE DEF u
  <2> QED
    BY <1>2, <1>8, <1>10, <2>1, <2>2
<1> HIDE DEF u
<1>12. /\ Listed(w) /\ Len(w) = 1 + N + N
       /\ \A i \in 1..(1 + N) : w[i] = u[i]
       /\ \A i \in 1..N : w[1 + N + i] = c[i]
  <2>1. /\ Len(w) = Len(u) + Len(c) /\ \A i \in 1..Len(u) : w[i] = u[i]
        /\ \A i \in 1..Len(c) : w[Len(u) + i] = c[i]
    <3>1. Listed(u) /\ Listed(c)
      BY <1>7, <1>11
    <3> QED
      BY <3>1, ListedPlaces
  <2>2. Listed(w)
    BY <1>7, <1>11, ListedConcat
  <2> HIDE DEF w
  <2> QED
    BY <1>2, <1>8, <1>11, <2>1, <2>2
<1> HIDE DEF w
<1>13. 1 + N + N = 1 + 4 * Slots
  BY <1>2
<1>14. w[1] = a
  BY <1>2, <1>11, <1>12
<1>15. ASSUME NEW i \in 1..N
       PROVE  /\ w[1 + i] = IF i <= n THEN FirstGraphic(type) + i - 1 ELSE NoFrame
              /\ w[1 + N + i] = IF i <= n THEN Delay(gif[i].ticks) ELSE 0
  <2>1. 1 + i \in 1..(1 + N)
    BY <1>2
  <2>2. w[1 + i] = b[i] /\ w[1 + N + i] = c[i]
    BY <1>11, <1>12, <2>1
  <2>3. i <= n => i \in 1..n
    BY <1>2, <1>3
  <2> QED
    BY <1>5, <1>6, <2>2, <2>3
<1>16. TimingBytes(gif, type) = w
  BY <1>1 DEF w, u, h
<1> HIDE DEF N
<1>17. /\ Listed(w) /\ Len(w) = 1 + 4 * Slots
       /\ w[1] = LoopFrame(gif)
       /\ \A i \in 1..N :
            /\ w[1 + i] = IF i <= Len(gif) THEN FirstGraphic(type) + i - 1 ELSE NoFrame
            /\ w[1 + N + i] = IF i <= Len(gif) THEN Delay(gif[i].ticks) ELSE 0
  BY <1>12, <1>13, <1>14, <1>15 DEF a, n
<1> QED
  BY <1>16, <1>17 DEF N

\* The packets of the timing carry the schedule, and the last one is marked.
Timely(p, gif, type) ==
  /\ Listed(p) /\ Len(p) \in Nat \ {0}
  /\ Complete(p, Master, type, Schedule(gif, type))
  /\ p[Len(p)][4] = 1

LEMMA TimingCarries ==
  ASSUME NEW gif, IsGif(gif), NEW type
  PROVE  Timely(TimingPackets(gif, type), gif, type)
<1> DEFINE data == TimingBytes(gif, type)
           d == Schedule(gif, type)
           p == UploadPackets(data, 0, Master, type)
           n == Len(p)
           t == TimingPackets(gif, type)
<1>1. Listed(data) /\ Len(data) = 1 + 4 * Slots /\ 4 * Slots \in Nat
  BY UploadAssumption, TimingFacts
<1>2. d = [x \in 0..(4 * Slots) |-> data[x + 1]]
  BY DEF Schedule
<1> HIDE DEF data, d
<1>3. AllUploads(p) /\ n \in Nat \ {0} /\ Listed(t)
  BY <1>1, UploadPacketsFacts, TimingPacketsFacts DEF AllUploads, Listed
<1>4. Carry(p, data, 0, Master, type)
  <2>1. PICK W : data \in Seq(W)
    BY <1>1 DEF Listed
  <2> QED
    BY <2>1, UploadCarries
<1>5. t = [p EXCEPT ![n] = [p[n] EXCEPT ![4] = 1]]
  BY DEF TimingPackets, data
<1> HIDE DEF p, t
<1>6. \E U : p \in Seq(U)
  BY <1>3 DEF AllUploads
<1>7. DOMAIN p = 1..n /\ p = [i \in 1..n |-> p[i]]
  BY <1>6
<1> HIDE DEF n
<1>8. t = [i \in 1..n |-> IF i = n THEN [p[n] EXCEPT ![4] = 1] ELSE p[i]]
  BY <1>5, <1>7
<1>9. Len(t) = n
  BY <1>3, <1>8
<1>10. ASSUME NEW i \in 1..n
       PROVE  Right(p[i], Master, type, d)
  <2>1. IsPiece(p[i], data, 0, Master, type)
    BY <1>4 DEF Carry, n
  <2>2. \A k \in 1..Len(data) : 0 + k - 1 \in DOMAIN d /\ d[0 + k - 1] = data[k]
    BY <1>1, <1>2
  <2>3. Len(data) \in Nat
    BY <1>1
  <2> QED
    BY <2>1, <2>2, <2>3, RightPiece
<1>11. ASSUME NEW i \in 1..n
       PROVE  /\ Right(t[i], Master, type, d) /\ Cells(t[i]) = Cells(p[i])
              /\ i = n => t[i][4] = 1
  <2> DEFINE b == p[i]
             c == t[i]
  <2>1. Right(b, Master, type, d)
    BY <1>10
  <2>2. c = b \/ (i = n /\ c = [b EXCEPT ![4] = 1])
    BY <1>8
  <2> HIDE DEF b, c
  <2>3. b[7] \in Nat /\ DOMAIN b = 1..(7 + b[7]) /\ Start(b) \in Nat
    BY <2>1, UploadAssumption DEF Right
  <2>4. DOMAIN c = DOMAIN b /\ \A k \in DOMAIN b : k # 4 => c[k] = b[k]
    BY <2>2
  <2>5. {2, 3, 5, 6, 7} \subseteq DOMAIN b
    BY <2>3
  <2>6. c[2] = b[2] /\ c[3] = b[3] /\ c[5] = b[5] /\ c[6] = b[6] /\ c[7] = b[7]
    BY <2>4, <2>5
  <2>7. Start(c) = Start(b) /\ Cells(c) = Cells(b)
    BY <2>6 DEF Start, Cells
  <2>8. ASSUME NEW x \in Cells(c)
        PROVE  x \in DOMAIN d /\ c[8 + x - Start(c)] = d[x]
    <3>1. x \in DOMAIN d /\ b[8 + x - Start(b)] = d[x]
      BY <2>1, <2>7 DEF Right
    <3>2. x \in Start(b)..(Start(b) + b[7] - 1)
      BY <2>7 DEF Cells
    <3>3. 8 + x - Start(b) \in DOMAIN b /\ 8 + x - Start(b) # 4
      <4> DEFINE z == Start(b)
                 m == b[7]
      <4>1. z \in Nat /\ m \in Nat /\ x \in z..(z + m - 1) /\ DOMAIN b = 1..(7 + m)
        BY <2>3, <3>2
      <4> HIDE DEF z, m
      <4>2. 8 + x - z \in 1..(7 + m) /\ 8 + x - z # 4
        BY <4>1
      <4> QED
        BY <4>1, <4>2 DEF z
    <3>4. c[8 + x - Start(b)] = b[8 + x - Start(b)]
      BY <2>4, <3>3
    <3> QED
      BY <2>7, <3>1, <3>4
  <2>9. Right(c, Master, type, d)
    BY <2>1, <2>4, <2>6, <2>7, <2>8 DEF Right
  <2>10. i = n => c[4] = 1
    <3>1. 4 \in DOMAIN b
      BY <2>3
    <3>2. i = n => c = [b EXCEPT ![4] = 1]
      BY <1>8 DEF b, c
    <3> QED
      BY <3>1, <3>2
  <2> QED
    BY <2>7, <2>9, <2>10 DEF b, c
<1>12. ASSUME NEW x \in DOMAIN d PROVE \E i \in 1..n : x \in Cells(t[i])
  <2>1. x + 1 \in 1..Len(data) /\ 0 + (x + 1) - 1 = x
    BY <1>1, <1>2
  <2>2. PICK i \in 1..n : 0 + (x + 1) - 1 \in Start(p[i])..(Start(p[i]) + p[i][7] - 1)
    BY <1>4, <2>1 DEF Carry, n
  <2> QED
    BY <1>11, <2>1, <2>2 DEF Cells
<1>13. Complete(t, Master, type, d)
  BY <1>9, <1>11, <1>12 DEF Complete
<1>14. n \in 1..n
  BY <1>3
<1> QED
  BY <1>3, <1>9, <1>11, <1>13, <1>14 DEF Timely, t, d, n


\* An entry of what prepare_upload returns: a pause, or a packet with a part of
\* a panel's drawing or of the schedule.
Entry(c, gif, type) ==
  \/ IsPause(c) /\ c.ms \in Nat
  \/ \E p \in APanel : /\ c.op = "packet"
                       /\ Right(c.bytes, p, type, Drawing(gif, type, p))
  \/ c.op = "packet" /\ Right(c.bytes, Master, type, Schedule(gif, type))

Covers(s, gif, type) ==
  \A p \in APanel : \A x \in DOMAIN Drawing(gif, type, p) :
    \E j \in 1..Len(s) : Brings(s[j], p, x)

LEMMA RoundsCover ==
  ASSUME NEW gif, IsGif(gif), NEW type, NEW s, NEW ms, InRounds(s, gif, type, ms)
  PROVE  /\ \A j \in 1..Len(s) : Entry(s[j], gif, type)
         /\ Covers(s, gif, type)
<1> DEFINE P == PanelCount
           n == P + 1
           R == Rounds
           b(r, i) == PanelPackets(gif, type, i - 1)[R + 1 - r]
<1>1. P \in Nat \ {0} /\ R \in Nat \ {0}
  BY UploadAssumption, PanelCarries
<1>2. /\ Len(s) = R * n
      /\ \A r \in 1..R :
           /\ s[(r - 1) * n + n] = Pause(ms[r])
           /\ \A i \in 1..P : s[(r - 1) * n + i] = SendPacket(b(r, i))
      /\ ms \in [1..R -> Nat]
  BY DEF InRounds
<1>3. ASSUME NEW j \in 1..Len(s)
      PROVE  Entry(s[j], gif, type)
  <2>1. n \in Nat \ {0}
    BY <1>1
  <2>2. PICK r \in 1..R : \E i \in 1..n : j = (r - 1) * n + i
    <3> HIDE DEF n, R
    <3>1. j \in 1..(R * n) /\ R \in Nat
      BY <1>1, <1>2
    <3> QED
      BY <2>1, <3>1, PartOf
  <2>3. PICK i \in 1..n : j = (r - 1) * n + i
    BY <2>2
  <2>4. CASE i = n
    <3>1. s[j] = Pause(ms[r]) /\ ms[r] \in Nat
      BY <1>2, <2>3, <2>4
    <3> QED
      BY <3>1, SentIsSent DEF Entry
  <2>5. CASE i # n
    <3>1. i \in 1..P
      BY <1>1, <2>3, <2>5
    <3>2. s[j] = SendPacket(b(r, i))
      BY <1>2, <2>3, <3>1
    <3>3. i - 1 \in APanel
      BY <1>1, <3>1 DEF APanel
    <3>4. Right(b(r, i), i - 1, type, Drawing(gif, type, i - 1))
      BY <3>1, RoundPacket
    <3>5. s[j].op = "packet" /\ s[j].bytes = b(r, i)
      BY <3>2, SentIsSent
    <3> QED
      BY <3>3, <3>4, <3>5 DEF Entry
  <2> QED
    BY <2>4, <2>5
<1>4. ASSUME NEW p \in APanel, NEW x \in DOMAIN Drawing(gif, type, p)
      PROVE  \E j \in 1..Len(s) : Brings(s[j], p, x)
  <2> DEFINE q == PanelPackets(gif, type, p)
  <2>1. /\ Len(q) = R /\ Complete(q, p, type, Drawing(gif, type, p))
    BY PanelCarries
  <2>2. PICK k \in 1..R : x \in Cells(q[k])
    BY <2>1 DEF Complete
  <2>3. Right(q[k], p, type, Drawing(gif, type, p))
    BY <2>1, <2>2 DEF Complete
  <2> DEFINE r == R + 1 - k
             i == p + 1
             j == (r - 1) * n + i
  <2>4. r \in 1..R /\ i \in 1..P /\ i - 1 = p /\ R + 1 - r = k
    BY <1>1 DEF APanel
  <2>5. s[j] = SendPacket(q[k])
    <3>1. s[j] = SendPacket(b(r, i))
      BY <1>2, <2>4
    <3>2. b(r, i) = q[k]
      BY <2>4
    <3> QED
      BY <3>1, <3>2
  <2>6. j \in 1..Len(s)
    <3> DEFINE a == (r - 1) * n
    <3> HIDE DEF r, i, n
    <3>1. n \in Nat /\ R \in Nat
      BY <1>1 DEF n
    <3>2. a \in Nat /\ a + n <= Len(s) /\ Len(s) \in Nat
      BY <1>2, <2>4, <3>1, PartBounds
    <3>3. i <= n /\ i \in Nat /\ i >= 1
      BY <1>1, <2>4 DEF n
    <3>4. j = a + i
      OBVIOUS
    <3> HIDE DEF a, j
    <3> QED
      BY <3>1, <3>2, <3>3, <3>4
  <2>7. q[k][2] = p
    BY <2>3 DEF Right
  <2> QED
    BY <2>2, <2>5, <2>6, <2>7, SentIsSent DEF Brings
<1> QED
  BY <1>3, <1>4 DEF Covers

\* What is right about the packets of an upload: each is a part of the drawing or
\* of the schedule, they leave the panels the time they need, they bring every
\* cell of every panel's drawing twice, so that any one of them may be lost, and
\* the schedule, which the last of them puts into force.
Prepared(s, gif, type) ==
  /\ Sendable(s) /\ Len(s) \in Nat \ {0}
  /\ \A j \in 1..Len(s) : Entry(s[j], gif, type)
  /\ Paced(s)
  /\ \A p \in APanel : \A x \in DOMAIN Drawing(gif, type, p) :
       \E j, k \in 1..Len(s) :
         j # k /\ Brings(s[j], p, x) /\ Brings(s[k], p, x)
  /\ \A x \in 0..(4 * Slots) : \E j \in 1..Len(s) : Brings(s[j], Master, x)
  /\ Sends(s[Len(s)], Master) /\ s[Len(s)].bytes[4] = 1

\* The commands that prepare_upload makes of a GIF are prepared in that sense,
\* for every number of panels, graphics, colours and bytes of a packet.  (The
\* master has the number 255; a panel must not have it.)
THEOREM UploadPrepared ==
  ASSUME PanelCount <= 255, NEW gif, IsGif(gif), NEW type
  PROVE  Prepared(UploadCommands(gif, type), gif, type)
<1> DEFINE a == PanelCommands(gif, type)
           t == TimingPackets(gif, type)
           c == [i \in DOMAIN t |-> SendPacket(t[i])]
           w == a \o a
           s == w \o c
           m == Len(a)
           n == Len(c)
<1>1. UploadCommands(gif, type) = s
  BY DEF UploadCommands
<1>2. Sendable(s)
  BY <1>1, UploadCommandsSendable
<1>3. PICK ms : InRounds(a, gif, type, ms)
  BY PanelCommandsInRounds
<1>4. Paced(a) /\ Listed(a) /\ Covers(a, gif, type)
      /\ \A j \in 1..m : Entry(a[j], gif, type)
  BY <1>3, PacedRounds, RoundsCover DEF InRounds
<1>5. Timely(t, gif, type)
  BY TimingCarries
<1> HIDE DEF a, t
<1>6. /\ n = Len(t) /\ n \in Nat \ {0} /\ Listed(c)
      /\ \A i \in 1..n : c[i] = SendPacket(t[i])
  <2> DEFINE k == Len(t)
  <2>1. DOMAIN t = 1..k /\ k \in Nat \ {0}
    BY <1>5 DEF Timely, Listed
  <2> HIDE DEF k
  <2>2. c = [i \in 1..k |-> SendPacket(t[i])]
    BY <2>1
  <2>3. \A i \in 1..k : c[i] = SendPacket(t[i])
    BY <2>2
  <2> HIDE DEF c
  <2>4. c = [i \in 1..k |-> c[i]] /\ Len(c) = k
    BY <2>1, <2>2, <2>3
  <2>5. Listed(c)
    BY <2>1, <2>4, ListedFunction
  <2> QED
    BY <2>1, <2>3, <2>4, <2>5 DEF k
<1>7. \A i \in 1..n : /\ Right(t[i], Master, type, Schedule(gif, type))
                      /\ c[i].op = "packet" /\ c[i].bytes = t[i]
                      /\ Sends(c[i], Master)
  <2>1. \A i \in 1..n : Right(t[i], Master, type, Schedule(gif, type))
    BY <1>5, <1>6 DEF Timely, Complete
  <2>2. \A i \in 1..n : t[i][2] = Master
    BY <2>1 DEF Right
  <2> HIDE DEF c
  <2> QED
    BY <1>6, <2>1, <2>2, SentIsSent
<1>8. Paced(c)
  <2>1. ASSUME NEW j \in 1..n, NEW p \in APanel PROVE ~Sends(c[j], p)
    <3>1. p # Master
      BY UploadAssumption DEF APanel, Master
    <3> QED
      BY <1>7, <3>1 DEF Sends
  <2> QED
    BY <2>1 DEF Paced
<1> HIDE DEF c
<1>9. Listed(w) /\ Paced(w)
  BY <1>4, ListedConcat, PacedConcat
<1>10. Paced(s)
  BY <1>6, <1>8, <1>9, PacedConcat
<1>11. /\ m \in Nat /\ Len(w) = m + m
       /\ \A i \in 1..m : w[i] = a[i] /\ w[m + i] = a[i]
  BY <1>4, ListedPlaces
<1> HIDE DEF w
<1>12. /\ Len(s) = m + m + n
       /\ \A i \in 1..(m + m) : s[i] = w[i]
       /\ \A i \in 1..n : s[m + m + i] = c[i]
  BY <1>6, <1>9, <1>11, ListedPlaces
<1> HIDE DEF s, m, n
<1>13. \A i \in 1..m : s[i] = a[i] /\ s[m + i] = a[i]
  <2> SUFFICES ASSUME NEW i \in 1..m PROVE s[i] = a[i] /\ s[m + i] = a[i]
    OBVIOUS
  <2>1. i \in 1..(m + m) /\ m + i \in 1..(m + m)
    BY <1>11
  <2> QED
    BY <1>11, <1>12, <2>1
<1>14. Len(s) \in Nat \ {0}
  BY <1>6, <1>11, <1>12
<1>15. ASSUME NEW j \in 1..Len(s) PROVE Entry(s[j], gif, type)
  <2>1. j \in 1..(m + m) \/ \E i \in 1..n : j = (m + m) + i
    BY <1>6, <1>11, <1>12, FirstOrSecond
  <2>2. CASE j \in 1..(m + m)
    <3>1. j \in 1..m \/ \E i \in 1..m : j = m + i
      BY <1>11, <2>2, FirstOrSecond
    <3> QED
      BY <1>4, <1>13, <3>1 DEF m
  <2>3. ASSUME NEW i \in 1..n, j = (m + m) + i PROVE Entry(s[j], gif, type)
    <3>1. s[j] = c[i]
      BY <1>12, <2>3
    <3> QED
      BY <1>7, <3>1 DEF Entry
  <2> QED
    BY <2>1, <2>2, <2>3
<1>16. ASSUME NEW p \in APanel, NEW x \in DOMAIN Drawing(gif, type, p)
       PROVE  \E j, k \in 1..Len(s) :
                j # k /\ Brings(s[j], p, x) /\ Brings(s[k], p, x)
  <2>1. PICK i \in 1..m : Brings(a[i], p, x)
    BY <1>4 DEF Covers, m
  <2>2. i \in 1..Len(s) /\ m + i \in 1..Len(s) /\ i # m + i
    BY <1>6, <1>11, <1>12, <2>1
  <2>3. Brings(s[i], p, x) /\ Brings(s[m + i], p, x)
    BY <1>13, <2>1
  <2> QED
    BY <2>2, <2>3
<1>17. ASSUME NEW x \in 0..(4 * Slots)
       PROVE  \E j \in 1..Len(s) : Brings(s[j], Master, x)
  <2>1. x \in DOMAIN Schedule(gif, type)
    BY DEF Schedule
  <2>2. PICK i \in 1..n : x \in Cells(t[i])
    BY <1>5, <1>6, <2>1 DEF Timely, Complete
  <2>3. (m + m) + i \in 1..Len(s) /\ s[(m + m) + i] = c[i]
    BY <1>6, <1>11, <1>12, <2>2
  <2>4. Brings(c[i], Master, x)
    BY <1>7, <2>2 DEF Brings
  <2> QED
    BY <2>3, <2>4
<1>18. Sends(s[Len(s)], Master) /\ s[Len(s)].bytes[4] = 1
  <2>1. n \in 1..n /\ s[Len(s)] = c[n]
    BY <1>6, <1>11, <1>12
  <2>2. t[n][4] = 1
    BY <1>5, <1>6 DEF Timely
  <2> QED
    BY <1>7, <2>1, <2>2
<1>19. Sendable(s)
  BY <1>2 DEF s
<1> QED
  BY <1>1, <1>10, <1>14, <1>15, <1>16, <1>17, <1>18, <1>19 DEF Prepared, s


-----------------------------------------------------------------------------
(* The colours of an upload *)

PaletteStep(palette, color) ==
  IF color = Black \/ color \in ToSet(palette) THEN palette
  ELSE Append(palette, color)

\* The palettes that are made on the way, colour by colour.
Collects(s, V, f) ==
  /\ f \in [0..Len(s) -> Seq(V)] /\ f[0] = <<>>
  /\ \A k \in 1..Len(s) : f[k] = PaletteStep(f[k - 1], s[k])
  /\ FoldLeft(PaletteStep, <<>>, s) = f[Len(s)]

LEMMA PaletteFold ==
  ASSUME NEW V, NEW p \in Seq(V)
  PROVE  \E f : Collects(p, V, f)
<1> DEFINE n == Len(p)
           S == Seq(V)
           base == <<>>
           step == [i \in 1..n |-> [v \in S |-> PaletteStep(v, p[i])]]
           Iter(h) == h = [s \in SUBSET DOMAIN p |->
                            IF s = {} THEN base
                            ELSE PaletteStep(h[s \ {Max(s)}], p[Max(s)])]
<1>1. n \in Nat /\ DOMAIN p = 1..n
  OBVIOUS
<1>2. ASSUME NEW i \in 1..n, NEW v \in S PROVE PaletteStep(v, p[i]) \in S
  BY DEF PaletteStep
<1>3. base \in S
  OBVIOUS
<1>4. FoldLeft(PaletteStep, <<>>, p) = (CHOOSE h : Iter(h))[DOMAIN p]
  BY DEF FoldLeft, MapThenFoldSet
<1> HIDE DEF n, base, S
<1>5. step \in [1..n -> [S -> S]]
  BY <1>2
<1>6. \A i \in 1..n : \A v \in S : step[i][v] = PaletteStep(v, p[i])
  OBVIOUS
<1> HIDE DEF step
<1>7. PICK h \in [SUBSET (1..n) -> S] : FoldsTo(n, base, step, h)
  BY <1>1, <1>3, <1>5, FoldTable
<1>8. Iter(h)
  <2>1. ASSUME NEW s \in SUBSET (1..n)
        PROVE  h[s] = IF s = {} THEN base ELSE PaletteStep(h[s \ {Max(s)}], p[Max(s)])
    <3>1. CASE s = {}
      BY <1>7, <3>1 DEF FoldsTo
    <3>2. CASE s # {}
      <4>1. Max(s) \in 1..n
        BY <1>1, <3>2, MaxOf
      <4>2. h[s \ {Max(s)}] \in S
        BY <1>7
      <4>3. h[s] = step[Max(s)][h[s \ {Max(s)}]]
        BY <1>7, <3>2 DEF FoldsTo
      <4> QED
        BY <1>6, <3>2, <4>1, <4>2, <4>3
    <3> QED
      BY <3>1, <3>2
  <2>2. h = [s \in SUBSET (1..n) |-> h[s]]
    BY <1>7
  <2>3. h = [s \in SUBSET (1..n) |->
              IF s = {} THEN base ELSE PaletteStep(h[s \ {Max(s)}], p[Max(s)])]
    BY <2>1, <2>2, Zenon
  <2> QED
    BY <1>1, <2>3
<1> DEFINE g == CHOOSE h2 : Iter(h2)
<1>9. Iter(g)
  <2> HIDE DEF Iter
  <2> QED
    BY <1>8
<1>10. FoldLeft(PaletteStep, <<>>, p) = g[1..n]
  BY <1>1, <1>4
<1> HIDE DEF g
<1>11. ASSUME NEW s \in SUBSET (1..n)
       PROVE  g[s] = IF s = {} THEN base
                     ELSE PaletteStep(g[s \ {Max(s)}], p[Max(s)])
  BY <1>1, <1>9
<1> DEFINE f == [k \in 0..n |-> g[1..k]]
<1>12. f[0] = base
  <2>1. 1..0 = {} /\ 0 \in 0..n
    BY <1>1
  <2> QED
    BY <1>11, <2>1
<1>13. ASSUME NEW k \in 1..n PROVE f[k] = PaletteStep(f[k - 1], p[k])
  <2>1. /\ 1..k \in SUBSET (1..n) /\ 1..k # {} /\ Max(1..k) = k
        /\ (1..k) \ {k} = 1..(k - 1)
    BY <1>1, Initial
  <2>2. g[1..k] = PaletteStep(g[1..(k - 1)], p[k])
    BY <1>11, <2>1
  <2>3. k \in 0..n /\ k - 1 \in 0..n
    BY <1>1
  <2> QED
    BY <2>2, <2>3
<1>14. \A k \in 0..n : f[k] \in S
  <2> HIDE DEF f
  <2>1. f[0] \in S
    BY <1>3, <1>12
  <2>2. \A k \in 1..n : f[k - 1] \in S => f[k] \in S
    BY <1>2, <1>13
  <2> QED
    BY <1>1, <2>1, <2>2, Along
<1>15. FoldLeft(PaletteStep, <<>>, p) = f[n]
  BY <1>1, <1>10
<1>16. f \in [0..n -> S]
  BY <1>14
<1> HIDE DEF f
<1> QED
  BY <1>12, <1>13, <1>15, <1>16 DEF Collects, n, base, S

\* A palette has every colour but black.
LEMMA PaletteHasAll ==
  ASSUME NEW V, NEW p \in Seq(V)
  PROVE  LET palette == FoldLeft(PaletteStep, <<>>, p)
         IN  /\ palette \in Seq(V)
             /\ \A j \in 1..Len(p) : p[j] # Black => p[j] \in ToSet(palette)
<1> DEFINE n == Len(p)
<1>1. PICK f : Collects(p, V, f)
  BY PaletteFold
<1>2. /\ n \in Nat /\ f \in [0..n -> Seq(V)]
      /\ \A k \in 1..n : f[k] = PaletteStep(f[k - 1], p[k])
      /\ FoldLeft(PaletteStep, <<>>, p) = f[n]
  <2>1. n \in Nat
    OBVIOUS
  <2> HIDE DEF n
  <2>2. f \in [0..n -> Seq(V)] /\ \A k \in 1..n : f[k] = PaletteStep(f[k - 1], p[k])
    BY <1>1 DEF Collects, n
  <2>3. FoldLeft(PaletteStep, <<>>, p) = f[n]
    BY <1>1, Zenon DEF Collects, n
  <2> QED
    BY <2>1, <2>2, <2>3
<1> HIDE DEF n
<1> DEFINE Has(k) == \A j \in 1..k : p[j] # Black => p[j] \in ToSet(f[k])
           Good == {k \in Nat : k <= n => Has(k)}
<1>3. 0 \in Good
  OBVIOUS
<1>4. ASSUME NEW k \in Good PROVE k + 1 \in Good
  <2>1. k \in Nat /\ k + 1 \in Nat
    OBVIOUS
  <2>2. ASSUME k + 1 <= n PROVE Has(k + 1)
    <3> DEFINE a == f[k]
               c == p[k + 1]
               b == f[k + 1]
    <3>1. k + 1 \in 1..n /\ (k + 1) - 1 = k /\ k \in 0..n /\ Has(k)
      BY <1>2, <2>1, <2>2
    <3>2. a \in Seq(V) /\ b = PaletteStep(a, c) /\ c \in V
      BY <1>2, <3>1 DEF n
    <3>3. \A j \in 1..k : p[j] # Black => p[j] \in ToSet(a)
      BY <3>1
    <3> HIDE DEF a, b, c
    <3>4. ToSet(a) \subseteq ToSet(b) /\ (c # Black => c \in ToSet(b))
      <4>1. CASE c = Black \/ c \in ToSet(a)
        BY <3>2, <4>1 DEF PaletteStep
      <4>2. CASE ~(c = Black \/ c \in ToSet(a))
        <5>1. b = Append(a, c)
          BY <3>2, <4>2 DEF PaletteStep
        <5>2. \A i \in 1..Len(a) : i \in DOMAIN b /\ b[i] = a[i]
          BY <3>2, <5>1
        <5>3. Len(a) + 1 \in DOMAIN b /\ b[Len(a) + 1] = c
          BY <3>2, <5>1
        <5>4. DOMAIN a = 1..Len(a)
          BY <3>2
        <5> QED
          BY <5>2, <5>3, <5>4 DEF ToSet
      <4> QED
        BY <4>1, <4>2
    <3>5. ASSUME NEW j \in 1..(k + 1), p[j] # Black PROVE p[j] \in ToSet(b)
      <4>1. CASE j = k + 1
        BY <3>4, <3>5, <4>1 DEF c
      <4>2. CASE j # k + 1
        <5>1. j \in 1..k
          BY <2>1, <4>2
        <5> QED
          BY <3>3, <3>4, <3>5, <5>1
      <4> QED
        BY <4>1, <4>2
    <3> QED
      BY <3>5 DEF b
  <2> HIDE DEF Has
  <2> QED
    BY <2>1, <2>2
<1>5. Good = Nat
  <2> HIDE DEF Good
  <2>1. Good \subseteq Nat
    BY DEF Good
  <2> QED
    BY <1>3, <1>4, <2>1, SetInduction
<1>6. Has(n)
  <2> HIDE DEF Has
  <2> QED
    BY <1>2, <1>5
<1>7. f[n] \in Seq(V)
  BY <1>2
<1> QED
  BY <1>2, <1>6, <1>7 DEF n

LEMMA LedsNat ==
  NumLeds \in Nat /\ OuterLeds \in Nat /\ OuterSide \in Nat /\ OuterSide >= 2
<1> DEFINE o == OuterSide
           q == OuterSide - 1
<1>1. o \in Nat /\ q \in Nat /\ o >= 2
  BY UploadAssumption
<1> HIDE DEF o, q
<1>2. o * o \in Nat /\ q * q \in Nat
  BY <1>1
<1>3. OuterLeds = o * o /\ NumLeds = OuterLeds + q * q
  BY DEF OuterLeds, NumLeds, o, q
<1> QED
  BY <1>1, <1>2, <1>3 DEF o

LEMMA PaletteFacts ==
  ASSUME NEW gif, IsGif(gif), NEW panel
  PROVE  LET frames == PanelFrames(gif, panel)
             palette == Palette(frames)
         IN  /\ Len(palette) \in Nat /\ DOMAIN palette = 1..Len(palette)
             /\ \A f \in 1..Len(gif) : \A led \in 1..NumLeds :
                  frames[f][led] # Black => frames[f][led] \in ToSet(palette)
<1> DEFINE n == Len(gif)
           L == NumLeds
           frames == PanelFrames(gif, panel)
           V == {frames[f][i] : f \in 1..n, i \in 1..L}
           all == FlattenSeq(frames)
<1>1. n \in Nat /\ DOMAIN gif = 1..n /\ L \in Nat
  BY LedsNat DEF IsGif
<1>2. frames = [f \in 1..n |-> ExtractPanel(gif[f].pixels, panel)]
  BY <1>1 DEF PanelFrames
<1>3. \A f \in 1..n : frames[f] = [i \in 1..L |-> frames[f][i]]
  BY <1>2 DEF ExtractPanel
<1>4. Palette(frames) = FoldLeft(PaletteStep, <<>>, all)
  BY DEF Palette, PaletteStep
<1>5. frames = [f \in 1..n |-> frames[f]]
  BY <1>2
<1> HIDE DEF n, L, frames
<1>6. \A f \in 1..n : \A i \in 1..L : frames[f][i] \in V
  OBVIOUS
<1> HIDE DEF V
<1>7. ASSUME NEW f \in 1..n PROVE frames[f] \in Seq(V) /\ Len(frames[f]) = L
  <2>1. [i \in 1..L |-> frames[f][i]] \in Seq(V)
    BY <1>1, <1>6
  <2>2. frames[f] = [i \in 1..L |-> frames[f][i]]
    BY <1>3
  <2>3. frames[f] \in Seq(V) /\ DOMAIN frames[f] = 1..L
    BY <2>1, <2>2
  <2> QED
    BY <1>1, <2>3
<1>8. [f \in 1..n |-> frames[f]] \in Seq(Seq(V))
  BY <1>1, <1>7
<1>9. frames \in Seq(Seq(V)) /\ Len(frames) = n
  BY <1>1, <1>5, <1>8
<1>10. /\ all \in Seq(V) /\ Len(all) = n * L
       /\ \A f \in 1..n : \A i \in 1..L : all[(f - 1) * L + i] = frames[f][i]
  BY <1>1, <1>7, <1>9, EqualParts, EqualPlaces
<1> HIDE DEF all
<1> DEFINE palette == FoldLeft(PaletteStep, <<>>, all)
<1>11. /\ palette \in Seq(V)
       /\ \A j \in 1..Len(all) : all[j] # Black => all[j] \in ToSet(palette)
  BY <1>10, PaletteHasAll
<1> HIDE DEF palette
<1>12. ASSUME NEW f \in 1..n, NEW led \in 1..L, frames[f][led] # Black
       PROVE  frames[f][led] \in ToSet(palette)
  <2> DEFINE m == (f - 1) * L
  <2>1. m \in Nat /\ m + L <= n * L /\ n * L \in Nat
    BY <1>1, PartBounds
  <2>2. all[m + led] = frames[f][led]
    BY <1>10
  <2> HIDE DEF m
  <2>3. m + led \in 1..Len(all)
    BY <1>1, <1>10, <2>1
  <2> QED
    BY <1>11, <1>12, <2>2, <2>3
<1>13. Len(palette) \in Nat /\ DOMAIN palette = 1..Len(palette)
  BY <1>11
<1>14. Palette(frames) = palette
  BY <1>4 DEF palette
<1> QED
  BY <1>12, <1>13, <1>14 DEF n, L, frames


\* The index of an LED's colour, as it stands in a graphic.
Index(leds, palette, led) ==
  IF led > NumLeds THEN 0
  ELSE IF leds[led] = Black THEN Transparent
  ELSE (CHOOSE i \in DOMAIN palette : palette[i] = leds[led]) - 1

LEMMA PackedIndex ==
  ASSUME NEW leds, NEW palette, NEW b \in 1..GraphicSize
  PROVE  PackGraphic(leds, palette)[b] =
           (MaxColors + 1) * Index(leds, palette, 2 * b - 1)
             + Index(leds, palette, 2 * b)
BY DEF PackGraphic, Index

LEMMA IndexFacts ==
  ASSUME NEW leds, NEW palette, NEW led \in Nat \ {0},
         Len(palette) \in 0..MaxColors, DOMAIN palette = 1..Len(palette),
         led \in 1..NumLeds =>
           (leds[led] # Black => leds[led] \in ToSet(palette))
  PROVE  LET i == Index(leds, palette, led)
         IN  /\ i \in 0..MaxColors
             /\ (led \in 1..NumLeds /\ leds[led] = Black) => i = Transparent
             /\ (led \in 1..NumLeds /\ leds[led] # Black) =>
                  /\ i # Transparent /\ i + 1 \in 1..Len(palette)
                  /\ palette[i + 1] = leds[led]
<1> DEFINE i == Index(leds, palette, led)
           n == Len(palette)
<1>1. MaxColors \in Nat \ {0} /\ n \in Nat /\ n <= MaxColors /\ NumLeds \in Nat
      /\ Transparent = MaxColors
  BY UploadAssumption, LedsNat DEF Transparent
<1>2. CASE led > NumLeds
  <2>1. i = 0 /\ led \notin 1..NumLeds
    BY <1>1, <1>2 DEF Index
  <2> QED
    BY <1>1, <2>1
<1>3. CASE led <= NumLeds /\ leds[led] = Black
  <2>1. i = Transparent
    BY <1>1, <1>3 DEF Index
  <2> QED
    BY <1>1, <1>3, <2>1
<1>4. CASE led <= NumLeds /\ leds[led] # Black
  <2> DEFINE k == CHOOSE k \in DOMAIN palette : palette[k] = leds[led]
  <2>1. \E k1 \in DOMAIN palette : palette[k1] = leds[led]
    BY <1>1, <1>4 DEF ToSet
  <2>2. k \in DOMAIN palette /\ palette[k] = leds[led]
    BY <2>1
  <2>3. i = k - 1
    BY <1>1, <1>4 DEF Index
  <2> HIDE DEF k, i
  <2>4. k \in 1..n
    BY <2>2
  <2>5. i \in 0..MaxColors /\ i # Transparent /\ i + 1 = k
    BY <1>1, <2>3, <2>4
  <2> QED
    BY <1>4, <2>2, <2>4, <2>5 DEF i
<1> QED
  BY <1>1, <1>2, <1>3, <1>4

\* How a pad finds the colour of an LED in its memory.
LedIn(cells, type, graphic, led) ==
  LET byte  == cells[graphic * GraphicSize + (led - 1) \div 2]
      index == IF led % 2 = 1 THEN byte \div (MaxColors + 1)
               ELSE byte % (MaxColors + 1)
  IN  IF index = Transparent THEN Black ELSE cells[PaletteOffset(type) + index]

\* A LED's byte.
LEMMA LedByte ==
  ASSUME NEW led \in 1..NumLeds
  PROVE  LET e == (led - 1) \div 2
         IN  /\ e + 1 \in 1..GraphicSize
             /\ led % 2 = 1 => 2 * (e + 1) - 1 = led
             /\ led % 2 # 1 => 2 * (e + 1) = led
<1> DEFINE n == NumLeds
           e == (led - 1) \div 2
           r == (led - 1) % 2
           g == (n + 1) \div 2
           h == (n + 1) % 2
<1>1. n \in Nat /\ led \in 1..n
  BY LedsNat
<1> HIDE DEF n
<1>2. led - 1 \in Nat /\ n + 1 \in Nat
  BY <1>1
<1>3. e \in Nat /\ r \in 0..1 /\ led - 1 = 2 * e + r
  <2> DEFINE m == led - 1
  <2>1. m \in Nat
    BY <1>2
  <2> HIDE DEF m
  <2>2. m \div 2 \in Nat /\ m % 2 \in 0..1 /\ m = 2 * (m \div 2) + (m % 2)
    BY <2>1
  <2> QED
    BY <2>2 DEF m
<1>4. g \in Nat /\ h \in 0..1 /\ n + 1 = 2 * g + h
  <2> DEFINE m == n + 1
  <2>1. m \in Nat
    BY <1>2
  <2> HIDE DEF m
  <2>2. m \div 2 \in Nat /\ m % 2 \in 0..1 /\ m = 2 * (m \div 2) + (m % 2)
    BY <2>1
  <2> QED
    BY <2>2 DEF m
<1>5. GraphicSize = g
  BY DEF GraphicSize, n
<1> HIDE DEF g, h
<1>6. e + 1 \in 1..g
  BY <1>1, <1>3, <1>4
<1>7. led % 2 = 1 => 2 * (e + 1) - 1 = led
  BY <1>1
<1>8. led % 2 # 1 => 2 * (e + 1) = led
  BY <1>1
<1> QED
  BY <1>5, <1>6, <1>7, <1>8

\* Cells that have what is to be in them.
Holds(cells, drawing) == \A x \in DOMAIN drawing : cells[x] = drawing[x]

\* Read from the drawing, an LED has the colour it has on the frame, as the
\* panels show it.
LEMMA DrawingDecoded ==
  ASSUME NEW gif, IsGif(gif), Len(gif) <= Slots, NEW type, NEW panel,
         Len(Palette(PanelFrames(gif, panel))) <= MaxColors,
         NEW cells, Holds(cells, Drawing(gif, type, panel)),
         NEW f \in 1..Len(gif), NEW led \in 1..NumLeds
  PROVE  LedIn(cells, type, FirstGraphic(type) + f - 1, led)
           = ScaleColor(PanelFrames(gif, panel)[f][led])
<1> DEFINE frames == PanelFrames(gif, panel)
           palette == Palette(frames)
           leds == frames[f]
           G == GraphicSize
           N == Slots * GraphicSize
           e == (led - 1) \div 2
           M == MaxColors + 1
           high == Index(leds, palette, 2 * (e + 1) - 1)
           low == Index(leds, palette, 2 * (e + 1))
           index == IF led % 2 = 1 THEN high ELSE low
           gs == GraphicsStart(type)
           po == PaletteOffset(type)
           d == Drawing(gif, type, panel)
<1>1. /\ G \in Nat /\ Slots \in Nat /\ MaxColors \in Nat \ {0} /\ N \in Nat
      /\ gs \in Nat /\ po \in Nat /\ Transparent = MaxColors
  BY Sizes DEF Transparent
<1>2. Len(gif) \in Nat /\ f \in 1..Slots
  BY <1>1 DEF IsGif
<1>3. /\ Len(palette) \in 0..MaxColors /\ DOMAIN palette = 1..Len(palette)
      /\ \A l \in 1..NumLeds : leds[l] # Black => leds[l] \in ToSet(palette)
  BY <1>1, PaletteFacts
<1>4. /\ e + 1 \in 1..G
      /\ led % 2 = 1 => 2 * (e + 1) - 1 = led
      /\ led % 2 # 1 => 2 * (e + 1) = led
  BY LedByte
<1>5. GraphicsBytes(frames)[(f - 1) * G + (e + 1)] = PackGraphic(leds, palette)[e + 1]
  BY <1>2, <1>4, GraphicsFacts
<1>6. PackGraphic(leds, palette)[e + 1] = M * high + low
  BY <1>4, PackedIndex
<1>7. d = [x \in Graphics(type) \cup Colors(type) |->
            IF x \in Graphics(type) THEN GraphicsBytes(frames)[x - gs + 1]
            ELSE PaletteBytes(frames)[x - po + 1]]
  BY DEF Drawing
<1>8. /\ Graphics(type) = gs..(gs + N - 1)
      /\ Colors(type) = po..(po + MaxColors - 1)
      /\ Graphics(type) \cap Colors(type) = {}
  BY CellsApart DEF Graphics, Colors
<1>9. \A x \in DOMAIN d : cells[x] = d[x]
  BY DEF Holds
<1>10. (FirstGraphic(type) + f - 1) * G = gs + (f - 1) * G
  <2> DEFINE a == FirstGraphic(type)
  <2>1. a \in Nat
    BY <1>1, Sizes DEF FirstGraphic
  <2> HIDE DEF a, G
  <2>2. (a + f - 1) * G = a * G + (f - 1) * G
    BY <1>1, <1>2, <2>1
  <2> QED
    BY <2>2 DEF GraphicsStart, a, G
<1> HIDE DEF d, gs, po, e
<1> DEFINE k == (f - 1) * G
           x == gs + k + e
<1>11. k \in Nat /\ k + G <= N
  <2> HIDE DEF G
  <2>1. (f - 1) * G \in Nat /\ (f - 1) * G + G <= Slots * G
    BY <1>1, <1>2, PartBounds
  <2> QED
    BY <2>1 DEF G
<1> HIDE DEF N, G
<1>12. e \in Nat /\ e < G
  BY <1>1, <1>4 DEF e
<1>13. (FirstGraphic(type) + f - 1) * G + e = x
  BY <1>10
<1>14. cells[x] = M * high + low
  <2> HIDE DEF k, high, low
  <2>1. x \in Graphics(type) /\ x - gs + 1 = k + (e + 1)
    <3>1. x \in gs..(gs + N - 1) /\ x - gs + 1 = k + (e + 1)
      BY <1>1, <1>11, <1>12
    <3> QED
      BY <1>8, <3>1
  <2> HIDE DEF x
  <2>2. d[x] = GraphicsBytes(frames)[k + (e + 1)] /\ x \in DOMAIN d
    BY <1>7, <2>1
  <2> QED
    BY <1>5, <1>6, <1>9, <2>2 DEF k
<1>15. 2 * (e + 1) - 1 \in Nat \ {0} /\ 2 * (e + 1) \in Nat \ {0}
  BY <1>12
<1>16. high \in 0..MaxColors /\ low \in 0..MaxColors
  BY <1>3, <1>15, IndexFacts
<1>17. index = Index(leds, palette, led)
  BY <1>4
<1>18. /\ leds[led] = Black => index = Transparent
       /\ leds[led] # Black => /\ index # Transparent
                               /\ index + 1 \in 1..Len(palette)
                               /\ palette[index + 1] = leds[led]
  <2>1. led \in Nat \ {0}
    BY LedsNat
  <2> QED
    BY <1>3, <1>17, <2>1, IndexFacts
<1> HIDE DEF high, low, x
<1>19. index = IF led % 2 = 1 THEN cells[x] \div M ELSE cells[x] % M
  <2>1. (M * high + low) \div M = high /\ (M * high + low) % M = low
    <3>1. M \in Nat \ {0} /\ high \in Nat /\ low \in 0..(M - 1)
      BY <1>1, <1>16
    <3> HIDE DEF M
    <3> QED
      BY <3>1, Quotient
  <2> HIDE DEF M
  <2> QED
    BY <1>14, <2>1
<1> HIDE DEF index
<1>20. LedIn(cells, type, FirstGraphic(type) + f - 1, led) =
         IF index = Transparent THEN Black ELSE cells[po + index]
  BY <1>13, <1>19 DEF LedIn, e, po, G
<1>21. CASE leds[led] = Black
  <2>1. ScaleColor(leds[led]) = 0
    BY <1>21 DEF ScaleColor, Black
  <2> QED
    BY <1>18, <1>20, <1>21, <2>1 DEF Black
<1>22. CASE leds[led] # Black
  <2> DEFINE y == po + index
             n == Len(palette)
             scaled == [i \in DOMAIN palette |-> ScaleColor(palette[i])]
  <2>1. /\ index + 1 \in 1..n /\ index # Transparent /\ n \in 0..MaxColors
        /\ index \in Int
    <3>1. index \in Int
      BY <1>16 DEF index
    <3> QED
      BY <1>3, <1>18, <1>22, <3>1
  <2>2. DOMAIN palette = 1..n
    BY <1>3
  <2> HIDE DEF n, palette
  <2>3. y \in Colors(type) /\ y - po + 1 = index + 1
    BY <1>1, <1>8, <2>1
  <2>4. y \notin Graphics(type)
    BY <1>8, <2>3
  <2> HIDE DEF y
  <2>5. cells[y] = PaletteBytes(frames)[index + 1]
    BY <1>7, <1>9, <2>3, <2>4
  <2>6. n \in Nat /\ scaled = [i \in 1..n |-> ScaleColor(palette[i])]
    BY <1>1, <2>1, <2>2
  <2>7. PaletteBytes(frames) = Resized(scaled, MaxColors, 0)
    BY DEF PaletteBytes, palette
  <2> HIDE DEF scaled
  <2>8. Len(scaled) = n /\ scaled[index + 1] = ScaleColor(palette[index + 1])
    BY <2>1, <2>6
  <2>9. Resized(scaled, MaxColors, 0)[index + 1] = scaled[index + 1]
    <3>1. index + 1 \in 1..MaxColors /\ index + 1 <= n
      BY <1>1, <2>1
    <3> QED
      BY <2>8, <3>1 DEF Resized
  <2>10. palette[index + 1] = leds[led]
    BY <1>18, <1>22
  <2> QED
    BY <1>20, <2>1, <2>5, <2>7, <2>8, <2>9, <2>10 DEF y
<1> QED
  BY <1>21, <1>22


-----------------------------------------------------------------------------
(* The loop of an upload *)

LoopStep(gif, loop, f) == IF gif[f].marked /\ loop = 0 THEN f - 1 ELSE loop

\* The loop as it is found frame by frame.
Searches(gif, g) ==
  /\ g \in [0..Len(gif) -> Nat] /\ g[0] = 0
  /\ \A k \in 1..Len(gif) : g[k] = LoopStep(gif, g[k - 1], k)
  /\ LoopFrame(gif) = g[Len(gif)]

LEMMA LoopFold ==
  ASSUME NEW gif, IsGif(gif)
  PROVE  \E g : Searches(gif, g)
<1> DEFINE n == Len(gif)
           p == [f \in DOMAIN gif |-> f]
           step == [i \in 1..n |-> [v \in Nat |-> LoopStep(gif, v, i)]]
           Iter(h) == h = [s \in SUBSET DOMAIN p |->
                            IF s = {} THEN 0
                            ELSE LoopStep(gif, h[s \ {Max(s)}], p[Max(s)])]
<1>1. n \in Nat /\ DOMAIN gif = 1..n
  BY DEF IsGif
<1>2. ASSUME NEW i \in 1..n, NEW v \in Nat PROVE LoopStep(gif, v, i) \in Nat
  BY DEF LoopStep
<1>3. DOMAIN p = 1..n /\ \A i \in 1..n : p[i] = i
  BY <1>1
<1>4. LoopFrame(gif) = (CHOOSE h : Iter(h))[DOMAIN p]
  BY DEF LoopFrame, FoldLeft, MapThenFoldSet, LoopStep
<1> HIDE DEF n, p
<1>5. step \in [1..n -> [Nat -> Nat]]
  BY <1>2
<1>6. \A i \in 1..n : \A v \in Nat : step[i][v] = LoopStep(gif, v, i)
  OBVIOUS
<1> HIDE DEF step
<1>7. PICK h \in [SUBSET (1..n) -> Nat] : FoldsTo(n, 0, step, h)
  BY <1>1, <1>5, FoldTable
<1>8. Iter(h)
  <2>1. ASSUME NEW s \in SUBSET (1..n)
        PROVE  h[s] = IF s = {} THEN 0 ELSE LoopStep(gif, h[s \ {Max(s)}], p[Max(s)])
    <3>1. CASE s = {}
      BY <1>7, <3>1 DEF FoldsTo
    <3>2. CASE s # {}
      <4>1. Max(s) \in 1..n /\ p[Max(s)] = Max(s)
        BY <1>1, <1>3, <3>2, MaxOf
      <4>2. h[s \ {Max(s)}] \in Nat
        BY <1>7
      <4>3. h[s] = step[Max(s)][h[s \ {Max(s)}]]
        BY <1>7, <3>2 DEF FoldsTo
      <4> QED
        BY <1>6, <3>2, <4>1, <4>2, <4>3
    <3> QED
      BY <3>1, <3>2
  <2>2. h = [s \in SUBSET (1..n) |-> h[s]]
    BY <1>7
  <2>3. h = [s \in SUBSET (1..n) |->
              IF s = {} THEN 0 ELSE LoopStep(gif, h[s \ {Max(s)}], p[Max(s)])]
    BY <2>1, <2>2, Zenon
  <2> QED
    BY <1>3, <2>3
<1> DEFINE c == CHOOSE h2 : Iter(h2)
<1>9. Iter(c)
  <2> HIDE DEF Iter
  <2> QED
    BY <1>8
<1>10. LoopFrame(gif) = c[1..n]
  BY <1>3, <1>4
<1> HIDE DEF c
<1>11. ASSUME NEW s \in SUBSET (1..n)
       PROVE  c[s] = IF s = {} THEN 0
                     ELSE LoopStep(gif, c[s \ {Max(s)}], p[Max(s)])
  BY <1>3, <1>9
<1> DEFINE f == [k \in 0..n |-> c[1..k]]
<1>12. f[0] = 0
  <2>1. 1..0 = {} /\ 0 \in 0..n
    BY <1>1
  <2> QED
    BY <1>11, <2>1
<1>13. ASSUME NEW k \in 1..n PROVE f[k] = LoopStep(gif, f[k - 1], k)
  <2>1. /\ 1..k \in SUBSET (1..n) /\ 1..k # {} /\ Max(1..k) = k
        /\ (1..k) \ {k} = 1..(k - 1)
    BY <1>1, Initial
  <2>2. c[1..k] = LoopStep(gif, c[1..(k - 1)], p[k])
    BY <1>11, <2>1
  <2>3. k \in 0..n /\ k - 1 \in 0..n /\ p[k] = k
    BY <1>1, <1>3
  <2> QED
    BY <2>2, <2>3
<1>14. \A k \in 0..n : f[k] \in Nat
  <2> HIDE DEF f
  <2>1. f[0] \in Nat
    BY <1>12
  <2>2. \A k \in 1..n : f[k - 1] \in Nat => f[k] \in Nat
    BY <1>2, <1>13
  <2> QED
    BY <1>1, <2>1, <2>2, Along
<1>15. LoopFrame(gif) = f[n]
  BY <1>1, <1>10
<1>16. f \in [0..n -> Nat]
  BY <1>14
<1> HIDE DEF f
<1> QED
  BY <1>12, <1>13, <1>15, <1>16 DEF Searches, n

\* The loop begins with the first marked frame after the first one.
LEMMA LoopFound ==
  ASSUME NEW gif, IsGif(gif)
  PROVE  LET marked == {f \in DOMAIN gif : gif[f].marked} \ {1}
         IN  LoopFrame(gif) = IF marked = {} THEN 0 ELSE Min(marked) - 1
<1> DEFINE n == Len(gif)
           marked == {f \in DOMAIN gif : gif[f].marked} \ {1}
<1>1. n \in Nat /\ DOMAIN gif = 1..n
  BY DEF IsGif
<1>2. PICK g : Searches(gif, g)
  BY LoopFold
<1>3. /\ g \in [0..n -> Nat] /\ g[0] = 0 /\ LoopFrame(gif) = g[n]
      /\ \A k \in 1..n : g[k] = LoopStep(gif, g[k - 1], k)
  BY <1>2 DEF Searches
<1> HIDE DEF n
<1>4. marked \subseteq 1..n /\ 1 \notin marked
      /\ \A k \in 1..n : gif[k].marked /\ k # 1 <=> k \in marked
  BY <1>1
<1> HIDE DEF marked
<1> DEFINE None(k) == g[k] = 0 /\ \A j \in 1..k : j \notin marked
           Found(k) == /\ g[k] + 1 \in marked /\ g[k] + 1 <= k
                       /\ \A j \in 1..g[k] : j \notin marked
           Good == {k \in Nat : k <= n => None(k) \/ Found(k)}
<1>5. 0 \in Good
  BY <1>3
<1>6. ASSUME NEW k \in Good PROVE k + 1 \in Good
  <2>1. k \in Nat /\ k + 1 \in Nat
    OBVIOUS
  <2>2. ASSUME k + 1 <= n PROVE None(k + 1) \/ Found(k + 1)
    <3>1. /\ k + 1 \in 1..n /\ (k + 1) - 1 = k /\ k \in 0..n
          /\ None(k) \/ Found(k)
      BY <1>1, <2>1, <2>2
    <3>2. g[k] \in Nat /\ g[k + 1] = LoopStep(gif, g[k], k + 1)
      BY <1>3, <3>1
    <3>3. CASE Found(k)
      <4>1. g[k] # 0
        BY <1>4, <3>2, <3>3
      <4>2. g[k + 1] = g[k]
        BY <3>2, <4>1 DEF LoopStep
      <4>3. g[k] + 1 <= k + 1
        BY <2>1, <3>2, <3>3
      <4> QED
        BY <3>3, <4>2, <4>3
    <3>4. CASE None(k) /\ k + 1 \in marked
      <4>1. g[k + 1] = k
        BY <1>4, <2>1, <3>1, <3>2, <3>4 DEF LoopStep
      <4> QED
        BY <2>1, <3>4, <4>1
    <3>5. CASE None(k) /\ k + 1 \notin marked
      <4>1. g[k + 1] = 0
        <5>1. CASE k = 0
          BY <3>2, <3>5, <5>1 DEF LoopStep
        <5>2. CASE k # 0
          <6>1. ~gif[k + 1].marked
            BY <1>4, <2>1, <3>1, <3>5, <5>2
          <6> QED
            BY <3>2, <3>5, <6>1 DEF LoopStep
        <5> QED
          BY <5>1, <5>2
      <4>2. \A j \in 1..(k + 1) : j \in 1..k \/ j = k + 1
        BY <2>1
      <4> QED
        BY <3>5, <4>1, <4>2
    <3> QED
      BY <3>1, <3>3, <3>4, <3>5
  <2> HIDE DEF None, Found
  <2> QED
    BY <2>1, <2>2
<1>7. Good = Nat
  <2> HIDE DEF Good
  <2>1. Good \subseteq Nat
    BY DEF Good
  <2> QED
    BY <1>5, <1>6, <2>1, SetInduction
<1>8. None(n) \/ Found(n)
  <2> HIDE DEF None, Found
  <2> QED
    BY <1>1, <1>7
<1>9. g[n] \in Nat
  BY <1>1, <1>3
<1>10. ASSUME marked = {} PROVE LoopFrame(gif) = 0
  BY <1>3, <1>8, <1>10
<1>11. ASSUME marked # {} PROVE LoopFrame(gif) = Min(marked) - 1
  <2>1. Min(marked) \in marked /\ \A x \in marked : Min(marked) <= x
    <3>1. marked \subseteq Nat
      BY <1>4
    <3> QED
      BY <1>11, <3>1, LeastOf
  <2>2. Found(n)
    BY <1>4, <1>8, <1>11
  <2> DEFINE m == Min(marked)
  <2>3. m \in Nat /\ m >= 1 /\ m \in marked /\ m <= g[n] + 1
    <3>1. m \in marked /\ m <= g[n] + 1
      BY <2>1, <2>2
    <3>2. m \in 1..n
      BY <1>4, <3>1
    <3> QED
      BY <3>1, <3>2
  <2> HIDE DEF m
  <2>4. ~(m <= g[n])
    BY <1>9, <2>2, <2>3
  <2>5. m = g[n] + 1
    BY <1>9, <2>3, <2>4
  <2> QED
    BY <1>3, <1>9, <1>11, <2>5 DEF m
<1> QED
  BY <1>10, <1>11 DEF marked

-----------------------------------------------------------------------------
(* The ends of sequences *)

\* What is left of a sequence without its last element.
LEMMA FrontFacts ==
  ASSUME NEW X, NEW s \in Seq(X), s # <<>>
  PROVE  /\ Front(s) \in Seq(X) /\ Len(s) \in Nat \ {0} /\ Len(Front(s)) = Len(s) - 1
         /\ \A i \in 1..(Len(s) - 1) : Front(s)[i] = s[i]
<1> DEFINE m == Len(s) - 1
<1>1. Len(s) \in Nat \ {0} /\ m \in 0..Len(s)
  OBVIOUS
<1>2. Front(s) = SubSeq(s, 1, m)
  BY DEF Front
<1> HIDE DEF m
<1>3. /\ SubSeq(s, 1, m) \in Seq(X) /\ Len(SubSeq(s, 1, m)) = m
      /\ \A i \in 1..m : SubSeq(s, 1, m)[i] = s[i]
  BY <1>1
<1> QED
  BY <1>1, <1>2, <1>3 DEF m

LEMMA FrontCut ==
  ASSUME NEW X, NEW s \in Seq(X), s # <<>>, NEW n \in 1..Len(s)
  PROVE  /\ n - 1 \in 0..Len(Front(s)) /\ SubSeq(s, 1, n) # <<>>
         /\ Front(SubSeq(s, 1, n)) = SubSeq(Front(s), 1, n - 1)
<1> DEFINE cut == SubSeq(s, 1, n)
           front == Front(s)
<1>1. /\ front \in Seq(X) /\ Len(s) \in Nat \ {0} /\ Len(front) = Len(s) - 1
      /\ \A i \in 1..(Len(s) - 1) : front[i] = s[i]
  BY FrontFacts
<1>2. cut \in Seq(X) /\ Len(cut) = n /\ \A i \in 1..n : cut[i] = s[i]
  OBVIOUS
<1> HIDE DEF cut, front
<1>3. cut # <<>> /\ n - 1 \in 0..Len(front)
  BY <1>1, <1>2
<1>4. /\ Front(cut) \in Seq(X) /\ Len(Front(cut)) = n - 1
      /\ \A i \in 1..(n - 1) : Front(cut)[i] = cut[i]
  BY <1>2, <1>3, FrontFacts
<1>5. /\ SubSeq(front, 1, n - 1) \in Seq(X) /\ Len(SubSeq(front, 1, n - 1)) = n - 1
      /\ \A i \in 1..(n - 1) : SubSeq(front, 1, n - 1)[i] = front[i]
  BY <1>1, <1>3
<1>6. \A i \in 1..(n - 1) : Front(cut)[i] = SubSeq(front, 1, n - 1)[i]
  BY <1>1, <1>2, <1>4, <1>5
<1>7. Front(cut) = SubSeq(front, 1, n - 1)
  BY <1>4, <1>5, <1>6, SeqEqual
<1> QED
  BY <1>3, <1>7 DEF cut, front

LEMMA FrontRest ==
  ASSUME NEW X, NEW s \in Seq(X), NEW n \in 1..Len(s), n # Len(s)
  PROVE  /\ n \in 1..Len(Front(s)) /\ SubSeq(s, n + 1, Len(s)) # <<>>
         /\ \A i \in 1..n : Front(s)[i] = s[i]
         /\ Front(SubSeq(s, n + 1, Len(s))) = SubSeq(Front(s), n + 1, Len(Front(s)))
<1> DEFINE rest == SubSeq(s, n + 1, Len(s))
           front == Front(s)
           L == Len(s)
           M == Len(front)
           left == SubSeq(front, n + 1, M)
<1>1. s # <<>>
  OBVIOUS
<1>2. /\ front \in Seq(X) /\ L \in Nat \ {0} /\ M = L - 1
      /\ \A i \in 1..(L - 1) : front[i] = s[i]
  BY <1>1, FrontFacts
<1>3. rest \in Seq(X) /\ Len(rest) = L - n /\ \A i \in 1..(L - n) : rest[i] = s[n + i]
  OBVIOUS
<1>4. n \in 1..M /\ n \in Nat /\ L - n >= 1
  BY <1>2
<1> HIDE DEF front, L, M, rest
<1>5. left \in Seq(X) /\ Len(left) = M - n /\ \A i \in 1..(M - n) : left[i] = front[n + i]
  BY <1>2, <1>4 DEF M
<1>6. rest # <<>>
  BY <1>3, <1>4
<1>7. /\ Front(rest) \in Seq(X) /\ Len(Front(rest)) = L - n - 1
      /\ \A i \in 1..(L - n - 1) : Front(rest)[i] = rest[i]
  BY <1>3, <1>6, FrontFacts
<1> HIDE DEF left
<1>8. ASSUME NEW i \in 1..(L - n - 1) PROVE Front(rest)[i] = left[i]
  <2>1. i \in 1..(L - n) /\ i \in 1..(M - n) /\ n + i \in 1..(L - 1)
    BY <1>2, <1>4
  <2> QED
    BY <1>2, <1>3, <1>5, <1>7, <2>1
<1>9. Len(Front(rest)) = Len(left)
  BY <1>2, <1>4, <1>5, <1>7
<1>10. \A i \in 1..Len(left) : Front(rest)[i] = left[i]
  BY <1>7, <1>8, <1>9
<1>11. Front(rest) = left
  BY <1>5, <1>7, <1>9, <1>10, SeqEqual
<1>12. \A i \in 1..n : front[i] = s[i]
  <2>1. \A i \in 1..n : i \in 1..(L - 1)
    BY <1>2, <1>4
  <2> QED
    BY <1>2, <2>1
<1> QED
  BY <1>4, <1>6, <1>11, <1>12 DEF left, rest, L, M, front

\* One is put in front.
LEMMA FrontOfLine ==
  ASSUME NEW C, NEW q \in Seq(C), NEW f
  PROVE  <<f>> \o q # <<>> /\ Head(<<f>> \o q) = f /\ Tail(<<f>> \o q) = q
<1> DEFINE D == C \cup {f}
<1>1. q \in Seq(D) /\ <<f>> \in Seq(D) /\ Len(<<f>>) = 1 /\ <<f>>[1] = f
  <2>1. C \subseteq D /\ f \in D
    OBVIOUS
  <2> HIDE DEF D
  <2> QED
    BY <2>1, SeqMonotonic
<1> HIDE DEF D
<1> DEFINE s == <<f>> \o q
<1>2. /\ s \in Seq(D) /\ Len(s) = 1 + Len(q) /\ s[1] = f
      /\ \A i \in 1..Len(q) : s[1 + i] = q[i]
  BY <1>1
<1> HIDE DEF s
<1>3. s # <<>> /\ Head(s) = f
  BY <1>1, <1>2
<1>4. Tail(s) \in Seq(D) /\ Len(Tail(s)) = Len(q) /\ \A i \in 1..Len(q) : Tail(s)[i] = q[i]
  BY <1>1, <1>2, <1>3
<1>5. Tail(s) = q
  BY <1>1, <1>4, SeqEqual
<1> QED
  BY <1>3, <1>5 DEF s

=============================================================================
