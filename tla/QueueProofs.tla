---------------------------- MODULE QueueProofs ----------------------------
(***************************************************************************)
(* What the queue operations do to the values of a queue and their order.  *)
(***************************************************************************)
EXTENDS Queue, WellFoundedInduction, TLAPS

\* Every non-empty set of naturals has a least element.
LEMMA LeastElement ==
  ASSUME NEW T, T \subseteq Nat, T # {}
  PROVE  \E x \in T : \A y \in T : ~(y < x)
<1>1. IsWellFoundedOn(OpToRel(<, Nat), Nat)
  BY NatLessThanWellFounded
<1>2. \E x \in T : \A y \in T : ~(<<y, x>> \in OpToRel(<, Nat))
  BY <1>1, WFMin
<1> QED
  BY <1>2 DEF OpToRel

\* Induction over the naturals, for a set rather than a predicate.
LEMMA SetInduction ==
  ASSUME NEW S, S \subseteq Nat, 0 \in S, \A n \in S : n + 1 \in S
  PROVE  S = Nat
<1> DEFINE T == Nat \ S
<1>1. ASSUME T # {} PROVE FALSE
  <2>1. PICK x \in T : \A y \in T : ~(y < x)
    BY <1>1, LeastElement
  <2>2. x - 1 \in Nat /\ x - 1 < x
    BY <2>1
  <2>3. x - 1 \in S
    BY <2>1, <2>2
  <2> QED
    BY <2>1, <2>2, <2>3
<1> QED
  BY <1>1

\* The recursive function inside Retain exists, for every queue; f[n] is what
\* is kept of the first n values.
LEMMA RetainDef ==
  ASSUME NEW V, NEW q \in Seq(V), NEW keep
  PROVE  \E f : /\ f[0] = <<>>
                /\ \A n \in 0..(Len(q) - 1) :
                     f[n + 1] = IF q[n + 1] \in keep THEN Append(f[n], q[n + 1])
                                ELSE f[n]
                /\ Retain(q, keep) = f[Len(q)]
<1> DEFINE Step(g, i) == IF i = 0 THEN <<>>
                         ELSE IF q[i] \in keep THEN Append(g[i - 1], q[i])
                         ELSE g[i - 1]
           Good == {n \in Nat : \E g : g = [i \in 0..n |-> Step(g, i)]}
<1>1. 0 \in Good
  <2> DEFINE g == [i \in 0..0 |-> <<>>]
  <2>1. g = [i \in 0..0 |-> Step(g, i)]
    OBVIOUS
  <2> QED
    BY <2>1
<1>2. ASSUME NEW n \in Good PROVE n + 1 \in Good
  <2>1. n \in Nat
    OBVIOUS
  <2>2. PICK g : g = [i \in 0..n |-> Step(g, i)]
    OBVIOUS
  <2> DEFINE h == [i \in 0..(n + 1) |-> IF i = n + 1 THEN Step(g, n + 1)
                                        ELSE g[i]]
  <2>3. \A i \in 0..(n + 1) : h[i] = Step(h, i)
    <3>1. ASSUME NEW i \in 0..(n + 1) PROVE h[i] = Step(h, i)
      <4>1. CASE i = 0
        BY <2>1, <2>2, <4>1
      <4>2. CASE i # 0
        <5>1. i - 1 \in 0..n /\ h[i - 1] = g[i - 1]
          BY <2>1, <4>2
        <5>2. Step(h, i) = Step(g, i)
          BY <5>1, <4>2
        <5>3. CASE i = n + 1
          BY <5>2, <5>3
        <5>4. CASE i # n + 1
          <6>1. i \in 0..n
            BY <2>1, <5>4
          <6>2. g[i] = Step(g, i)
            BY <2>2, <6>1
          <6>3. h[i] = g[i]
            BY <5>4
          <6> QED
            BY <5>2, <6>2, <6>3
        <5> QED
          BY <5>3, <5>4
      <4> QED
        BY <4>1, <4>2
    <3> QED
      BY <3>1
  <2>4. h = [i \in 0..(n + 1) |-> Step(h, i)]
    <3> HIDE DEF Step
    <3>1. h = [i \in 0..(n + 1) |-> h[i]]
      OBVIOUS
    <3> QED
      BY <2>3, <3>1
  <2>5. \E k : k = [i \in 0..(n + 1) |-> Step(k, i)]
    BY <2>4
  <2>6. n + 1 \in Nat
    BY <2>1
  <2> HIDE DEF Step, h
  <2> QED
    BY <2>5, <2>6, Zenon
<1>3. Good = Nat
  <2> HIDE DEF Good
  <2>1. Good \subseteq Nat
    BY DEF Good
  <2> QED
    BY <1>1, <1>2, <2>1, SetInduction
<1>4. Len(q) \in Good
  BY <1>3
<1>5. \E g : g = [i \in 0..Len(q) |-> Step(g, i)]
  BY <1>4
<1> DEFINE f == CHOOSE g : g = [i \in 0..Len(q) |-> Step(g, i)]
<1>6. f = [i \in 0..Len(q) |-> Step(f, i)]
  BY <1>5
<1>7. Retain(q, keep) = f[Len(q)]
  BY DEF Retain
<1>8. f[0] = <<>>
  <2>1. 0 \in 0..Len(q)
    OBVIOUS
  <2>2. f[0] = Step(f, 0)
    <3> HIDE DEF f, Step
    <3> QED
      BY <1>6, <2>1
  <2> QED
    BY <2>2
<1>9. ASSUME NEW n \in 0..(Len(q) - 1)
      PROVE  f[n + 1] = IF q[n + 1] \in keep THEN Append(f[n], q[n + 1])
                        ELSE f[n]
  <2>1. n + 1 \in 0..Len(q) /\ n + 1 # 0 /\ (n + 1) - 1 = n
    OBVIOUS
  <2>2. f[n + 1] = Step(f, n + 1)
    <3> HIDE DEF f, Step
    <3> QED
      BY <1>6, <2>1
  <2> QED
    BY <2>1, <2>2
<1> HIDE DEF f
<1> QED
  BY <1>7, <1>8, <1>9

-----------------------------------------------------------------------------
(* The values of a queue after each operation *)

\* push_back.
LEMMA MembersAppend ==
  ASSUME NEW V, NEW q \in Seq(V), NEW v
  PROVE  Members(Append(q, v)) = Members(q) \cup {v}
<1>1. /\ Len(q) \in Nat /\ DOMAIN q = 1..Len(q)
      /\ DOMAIN Append(q, v) = 1..(Len(q) + 1)
      /\ \A k \in 1..Len(q) : Append(q, v)[k] = q[k]
      /\ Append(q, v)[Len(q) + 1] = v
  OBVIOUS
<1>2. \A k \in 1..(Len(q) + 1) : k \in 1..Len(q) \/ k = Len(q) + 1
  BY <1>1
<1>3. Len(q) + 1 \in 1..(Len(q) + 1) /\ \A k \in 1..Len(q) : k \in 1..(Len(q) + 1)
  BY <1>1
<1>4. ASSUME NEW x \in Members(Append(q, v)) PROVE x \in Members(q) \cup {v}
  BY <1>1, <1>2 DEF Members
<1>5. ASSUME NEW x \in Members(q) PROVE x \in Members(Append(q, v))
  <2>1. PICK k \in 1..Len(q) : x = q[k]
    BY <1>1 DEF Members
  <2>2. x = Append(q, v)[k] /\ k \in DOMAIN Append(q, v)
    BY <1>1, <1>3, <2>1
  <2> QED
    BY <2>2 DEF Members
<1>6. v \in Members(Append(q, v))
  BY <1>1, <1>3 DEF Members
<1> QED
  BY <1>4, <1>5, <1>6

\* push_front.
LEMMA Prepend ==
  ASSUME NEW V, NEW q \in Seq(V), NEW v \in V
  PROVE  LET s == <<v>> \o q
         IN  /\ s \in Seq(V)
             /\ Len(s) = Len(q) + 1
             /\ s[1] = v
             /\ \A k \in 1..Len(q) : s[k + 1] = q[k]
             /\ Members(s) = Members(q) \cup {v}
<1> DEFINE s == <<v>> \o q
<1>1. /\ s \in Seq(V)
      /\ Len(q) \in Nat /\ DOMAIN q = 1..Len(q)
      /\ Len(s) = Len(q) + 1 /\ DOMAIN s = 1..(Len(q) + 1)
      /\ s[1] = v
      /\ \A k \in 1..Len(q) : s[k + 1] = q[k]
  OBVIOUS
<1> HIDE DEF s
<1>2. ASSUME NEW x \in Members(s) PROVE x \in Members(q) \cup {v}
  <2>1. PICK k \in 1..(Len(q) + 1) : x = s[k]
    BY <1>1 DEF Members
  <2>2. k = 1 \/ (k - 1 \in 1..Len(q) /\ (k - 1) + 1 = k)
    BY <1>1, <2>1
  <2>3. CASE k = 1
    BY <1>1, <2>1, <2>3
  <2>4. CASE k - 1 \in 1..Len(q) /\ (k - 1) + 1 = k
    <3>1. s[k] = q[k - 1]
      BY <1>1, <2>4
    <3> QED
      BY <1>1, <2>1, <2>4, <3>1 DEF Members
  <2> QED
    BY <2>2, <2>3, <2>4
<1>3. ASSUME NEW x \in Members(q) PROVE x \in Members(s)
  <2>1. PICK k \in 1..Len(q) : x = q[k]
    BY <1>1 DEF Members
  <2>2. k + 1 \in DOMAIN s /\ s[k + 1] = x
    BY <1>1, <2>1
  <2> QED
    BY <2>2 DEF Members
<1>4. v \in Members(s)
  <2>1. 1 \in DOMAIN s
    BY <1>1
  <2> QED
    BY <1>1, <2>1 DEF Members
<1>5. Members(s) = Members(q) \cup {v}
  BY <1>2, <1>3, <1>4
<1> QED
  BY <1>1, <1>5 DEF s

\* pop_front.
LEMMA HeadTail ==
  ASSUME NEW V, NEW q \in Seq(V), q # <<>>
  PROVE  /\ Head(q) \in V /\ Head(q) = q[1]
         /\ Tail(q) \in Seq(V)
         /\ Len(q) \in Nat \ {0} /\ Len(Tail(q)) = Len(q) - 1
         /\ \A k \in 1..Len(Tail(q)) : Tail(q)[k] = q[k + 1]
         /\ Members(q) = Members(Tail(q)) \cup {Head(q)}
<1>1. /\ Head(q) \in V /\ Head(q) = q[1]
      /\ Tail(q) \in Seq(V)
      /\ Len(q) \in Nat \ {0} /\ DOMAIN q = 1..Len(q)
      /\ Len(Tail(q)) = Len(q) - 1 /\ DOMAIN Tail(q) = 1..(Len(q) - 1)
      /\ \A k \in 1..(Len(q) - 1) : Tail(q)[k] = q[k + 1]
  OBVIOUS
<1>2. ASSUME NEW x \in Members(q) PROVE x \in Members(Tail(q)) \cup {Head(q)}
  <2>1. PICK k \in 1..Len(q) : x = q[k]
    BY <1>1 DEF Members
  <2>2. k = 1 \/ (k - 1 \in DOMAIN Tail(q) /\ Tail(q)[k - 1] = q[k])
    BY <1>1, <2>1
  <2> QED
    BY <1>1, <2>1, <2>2 DEF Members
<1>3. ASSUME NEW x \in Members(Tail(q)) PROVE x \in Members(q)
  <2>1. PICK k \in 1..(Len(q) - 1) : x = Tail(q)[k]
    BY <1>1 DEF Members
  <2>2. k + 1 \in DOMAIN q /\ q[k + 1] = x
    BY <1>1, <2>1
  <2> QED
    BY <2>2 DEF Members
<1>4. Head(q) \in Members(q)
  BY <1>1 DEF Members
<1>5. Members(q) = Members(Tail(q)) \cup {Head(q)}
  BY <1>2, <1>3, <1>4
<1> QED
  BY <1>1, <1>5

\* Each value of r is one of the first n of q, and two values of r are two of
\* those in the same order.
Embedded(r, q, n) ==
  \A i, j \in DOMAIN r :
    i < j => \E a, b \in 1..n : a < b /\ r[i] = q[a] /\ r[j] = q[b]

LEMMA EmbeddedAppend ==
  ASSUME NEW V, NEW q \in Seq(V), NEW n \in Nat, NEW r \in Seq(V),
         Embedded(r, q, n), Members(r) \subseteq {q[k] : k \in 1..n}
  PROVE  Embedded(Append(r, q[n + 1]), q, n + 1)
<1> DEFINE v == q[n + 1]
           s == Append(r, v)
<1>1. /\ Len(r) \in Nat /\ DOMAIN r = 1..Len(r)
      /\ DOMAIN s = 1..(Len(r) + 1)
      /\ \A k \in 1..Len(r) : s[k] = r[k]
      /\ s[Len(r) + 1] = v
  OBVIOUS
<1>2. ASSUME NEW i \in DOMAIN s, NEW j \in DOMAIN s, i < j
      PROVE  \E a, b \in 1..(n + 1) : a < b /\ s[i] = q[a] /\ s[j] = q[b]
  <2> HIDE DEF s, v
  <2>1. i \in DOMAIN r /\ s[i] = r[i]
    BY <1>1, <1>2
  <2>2. \A a \in 1..n : a \in 1..(n + 1) /\ a < n + 1
    OBVIOUS
  <2>3. n + 1 \in 1..(n + 1)
    OBVIOUS
  <2>4. CASE j \in DOMAIN r
    <3>1. \E a, b \in 1..n : a < b /\ r[i] = q[a] /\ r[j] = q[b]
      BY <1>2, <2>1, <2>4 DEF Embedded
    <3>2. s[j] = r[j]
      BY <1>1, <2>4
    <3> QED
      BY <2>1, <2>2, <3>1, <3>2
  <2>5. CASE j \notin DOMAIN r
    <3>1. j = Len(r) + 1 /\ s[j] = v
      BY <1>1, <2>5
    <3>2. r[i] \in {q[k] : k \in 1..n}
      BY <2>1 DEF Members
    <3>3. PICK a \in 1..n : r[i] = q[a]
      BY <3>2
    <3> QED
      BY <2>1, <2>2, <2>3, <3>1, <3>3 DEF v
  <2> QED
    BY <2>4, <2>5
<1> QED
  BY <1>2 DEF Embedded

\* Retain keeps exactly the wanted values, and two values it keeps are two
\* values of the queue in the same order: it neither invents, repeats nor
\* reorders (CommandHandle::drop_queued_lights).
LEMMA RetainProperties ==
  ASSUME NEW V, NEW q \in Seq(V), NEW keep
  PROVE  LET r == Retain(q, keep)
         IN  /\ r \in Seq(V) /\ Len(r) <= Len(q)
             /\ Members(r) = Members(q) \cap keep
             /\ Embedded(r, q, Len(q))
<1>1. PICK f : /\ f[0] = <<>>
               /\ \A n \in 0..(Len(q) - 1) :
                    f[n + 1] = IF q[n + 1] \in keep THEN Append(f[n], q[n + 1])
                               ELSE f[n]
               /\ Retain(q, keep) = f[Len(q)]
  BY RetainDef
<1>2. Len(q) \in Nat /\ DOMAIN q = 1..Len(q) /\ \A k \in 1..Len(q) : q[k] \in V
  OBVIOUS
<1> DEFINE Ok(n) == /\ f[n] \in Seq(V) /\ Len(f[n]) <= n
                    /\ Members(f[n]) = {q[k] : k \in 1..n} \cap keep
                    /\ Embedded(f[n], q, n)
           Good == {n \in Nat : n <= Len(q) => Ok(n)}
<1>3. 0 \in Good
  <2>1. Ok(0)
    BY <1>1 DEF Members, Embedded
  <2> QED
    BY <2>1
<1>4. ASSUME NEW n \in Good PROVE n + 1 \in Good
  <2>1. n \in Nat /\ n + 1 \in Nat
    OBVIOUS
  <2>2. ASSUME n + 1 <= Len(q) PROVE Ok(n + 1)
    <3>1. Ok(n) /\ n \in 0..(Len(q) - 1) /\ q[n + 1] \in V
      BY <2>1, <2>2, <1>2
    <3>2. f[n + 1] = IF q[n + 1] \in keep THEN Append(f[n], q[n + 1]) ELSE f[n]
      BY <1>1, <3>1
    <3>3. {q[k] : k \in 1..(n + 1)} = {q[k] : k \in 1..n} \cup {q[n + 1]}
      BY <2>1
    <3>4. CASE q[n + 1] \notin keep
      <4>1. Embedded(f[n], q, n + 1)
        BY <2>1, <3>1 DEF Embedded
      <4>2. f[n + 1] = f[n]
        BY <3>2, <3>4
      <4>3. f[n + 1] \in Seq(V) /\ Len(f[n + 1]) <= n + 1
        BY <2>1, <3>1, <4>2
      <4> QED
        BY <3>1, <3>3, <3>4, <4>1, <4>2, <4>3
    <3>5. CASE q[n + 1] \in keep
      <4>1. f[n + 1] = Append(f[n], q[n + 1])
        BY <3>2, <3>5
      <4>2. f[n + 1] \in Seq(V) /\ Len(f[n + 1]) <= n + 1
        BY <2>1, <3>1, <4>1
      <4>3. Members(f[n + 1]) = Members(f[n]) \cup {q[n + 1]}
        BY <3>1, <4>1, MembersAppend
      <4>4. Embedded(f[n + 1], q, n + 1)
        BY <2>1, <3>1, <4>1, EmbeddedAppend
      <4> QED
        BY <3>1, <3>3, <3>5, <4>2, <4>3, <4>4
    <3> QED
      BY <3>4, <3>5
  <2> HIDE DEF Ok
  <2> QED
    BY <2>1, <2>2
<1>5. Good = Nat
  <2> HIDE DEF Good
  <2>1. Good \subseteq Nat
    BY DEF Good
  <2> QED
    BY <1>3, <1>4, <2>1, SetInduction
<1>6. Ok(Len(q))
  <2> HIDE DEF Ok
  <2> QED
    BY <1>2, <1>5
<1>7. {q[k] : k \in 1..Len(q)} = Members(q)
  BY <1>2 DEF Members
<1> QED
  BY <1>1, <1>2, <1>6, <1>7

=============================================================================
